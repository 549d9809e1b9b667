------------------------------ MODULE Household ------------------------------
(***************************************************************************)
(* A household at work: devices, the main thread's objects, and a page.    *)
(* Server models how messages pass through the threads; here that is one   *)
(* queue from each client to main and one back, in order, where a client   *)
(* that has lost its connection gets nothing until it registers again.     *)
(* The devices' firmware and the browser are not part of the repository's  *)
(* C++: a device obeys every command, answers DEVICE_INFO with its state,  *)
(* and reports what its sensors see.                                       *)
(***************************************************************************)
EXTENDS WebPage, FiniteSets, Selection

CONSTANTS
    Homes,          \* the households to consider: their devices, and as bounds the
                    \* inputs (of sensors and users) and faults (breaks and reports)
    PowerOn,        \* per device, what its DEVICE_INFO answer says after power-on
    InUse,          \* and after it has been used for a while
    Reading,        \* per device, the values each of its sensors may report
    Setting,        \* per device, the values each control of the page may get
    ReportedStatus  \* the statuses the heartbeat thread reports here

ASSUME HouseholdAssumption ==
    /\ \A h \in Homes : h.devices \subseteq Device /\ h.inputs \in Nat /\ h.faults \in Nat
    /\ ReportedStatus \subseteq {"CONNECTED", "UNSTABLE", "DISCONNECTED"}

(* The fields whose value a device has too, leaving out those the code     *)
(* does not keep in step: the column's LED (AlarmLightFollows), the        *)
(* ledstrip's level, which no answer contains, and all of the WIB's.  What *)
(* the device notices and tells main:                                      *)
Sensed(d) ==
    CASE d = "Column" -> {"COLUMN_SMOKE_SENSOR_VALUE"}
      [] d = "Fridge" -> {"FRIDGE_DOOR_CLOSED"}
      [] d = "Lamp"   -> {"LAMP_MOVEMENT_DETECTED"}
      [] d = "Wall"   -> {"WALL_DIMMER_VALUE", "WALL_LDR_VALUE"}
      [] OTHER        -> {}

(* What main tells the device:                                             *)
Commanded(d) ==
    CASE d = "Bed"    -> {"BED_LED_ON"}
      [] d = "Chair"  -> {"CHAIR_LED_ON", "CHAIR_VIBRATOR_ON"}
      [] d = "Column" -> {"COLUMN_BUZZER_ON"}
      [] d = "Door"   -> {"DOOR_LED_INSIDE_ON", "DOOR_LED_OUTSIDE_ON", "DOOR_DOOR_OPEN"}
      [] d = "Fridge" -> {"FRIDGE_FAN_ON", "FRIDGE_COOLER_ON"}
      [] d = "Lamp"   -> {"LAMP_LED_VALUE"}
      [] d = "SimulatedDevice" -> {Led[i] : i \in 1..3}
      [] d = "Wall"   -> {"WALL_CURTAIN_OPEN"}
      [] OTHER        -> {}

(* The fields that are calculated or compared with, and their values.      *)
Possible ==
    [CHAIR_PRESSURE_SENSOR_VALUE |-> Int, FRIDGE_REQUESTED_FRIDGE_TEMPERATURE |-> Int,
     FRIDGE_RAW_TEMPERATURE_SENSOR_INSIDE_VALUE |-> DOMAIN Celsius,
     LAMP_LED_VALUE |-> Nat, WALL_DIMMER_VALUE |-> Nat]

(* What only main itself makes of other values.                            *)
Derived == {"FRIDGE_TEMPERATURE_INSIDE_VALUE", "FRIDGE_DOOR_OPEN_COUNTER"}

(* As the devices and the page are written: what a device answers with     *)
(* always has the same fields, a device's sensors are not what main        *)
(* commands, the page's controls are not what a device senses, neither is  *)
(* what main derives or named like an answer, a registration or a status,  *)
(* and what is calculated with is a number.                                *)
ASSUME InputAssumption ==
    /\ \A d \in Device :
        /\ DOMAIN InUse[d] = DOMAIN PowerOn[d]
        /\ Sensed(d) \cup Commanded(d) \subseteq DOMAIN PowerOn[d]
        /\ DOMAIN Reading[d] \cap
                (Commanded(d) \cup Derived \cup {"DEVICE_INFO", "REGISTRATION"}) = {}
        /\ DOMAIN Setting[d] \cap (Sensed(d) \cup Derived \cup {"DEVICE_INFO", "Status"}) = {}
        /\ \A f \in DOMAIN Possible :
            /\ f \in DOMAIN PowerOn[d] => {PowerOn[d][f], InUse[d][f]} \subseteq Possible[f]
            /\ f \in DOMAIN Reading[d] => Reading[d][f] \subseteq Possible[f]
            /\ f \in DOMAIN Setting[d] => Setting[d][f] \subseteq Possible[f]
    /\ "CHAIR_PRESSURE_SENSOR_VALUE" \in DOMAIN PowerOn["Chair"]
    /\ "FRIDGE_RAW_TEMPERATURE_SENSOR_INSIDE_VALUE" \in DOMAIN PowerOn["Fridge"]

VARIABLES
    actual,         \* the state each device is really in
    page,           \* what the page shows
    object,         \* main's devices map: the objects and their fields
    inbox,          \* per client, what it sent and main has not handled
    outbox,         \* per client, what main sent and it has not received
    connection,     \* per client: none yet, its first, a broken one, another
    crossed,        \* the devices sent a command while their answer was awaited
    lost,           \* per device, the values a broken connection put in doubt
    left            \* the inputs and faults still to come

vars == <<actual, page, object, inbox, outbox, connection, crossed, lost, left>>

Home == DOMAIN actual

Client == Home \cup {"Website"}

Init ==
    /\ \E home \in Homes :
        /\ \E state \in {PowerOn, InUse} : actual = [d \in home.devices |-> state[d]]
        /\ inbox = [c \in home.devices \cup {"Website"} |-> <<>>]
        /\ outbox = [c \in home.devices \cup {"Website"} |-> <<>>]
        /\ connection = [c \in home.devices \cup {"Website"} |-> "none"]
        /\ left = [inputs |-> home.inputs, faults |-> home.faults]
    /\ page = BlankPage
    /\ object = << >>
    /\ crossed = {}
    /\ lost = [d \in Home |-> {}]

Input == left.inputs > 0 /\ left' = [left EXCEPT !.inputs = @ - 1]

Fault == left.faults > 0 /\ left' = [left EXCEPT !.faults = @ - 1]

Message(command, value) == [command |-> command, value |-> value]

Connected(c) == connection[c] \in {"first", "again"}

-----------------------------------------------------------------------------
(* The parse thread registers a client's connection and passes the first   *)
(* registration on to main, not those that replace it.  A page asks for an *)
(* update at once.                                                         *)
Connect(c) ==
    /\ ~Connected(c)
    /\ connection' = [connection EXCEPT ![c] = IF @ = "none" THEN "first" ELSE "again"]
    /\ LET registration == IF connection[c] = "none" THEN <<Message("REGISTRATION", "")>>
                           ELSE <<>>
           question     == IF c = "Website" THEN <<Message("WEBSITE_UPDATE", "")>> ELSE <<>>
       IN  inbox' = [inbox EXCEPT ![c] = @ \o registration \o question]
    /\ UNCHANGED <<actual, page, object, outbox, crossed, lost, left>>

(* A client's connection breaks: what is under way to it, and what main    *)
(* sends before it registers again, is lost.  The device keeps its state   *)
(* or restarts; the page is loaded again.  No object asks its device again *)
(* after it has registered again: each value stays in doubt until one side *)
(* happens to tell the other.                                              *)
Break(c) ==
    /\ Fault
    /\ Connected(c)
    /\ connection' = [connection EXCEPT ![c] = "broken"]
    /\ outbox' = [outbox EXCEPT ![c] = <<>>]
    /\ IF c = "Website" THEN page' = BlankPage /\ UNCHANGED <<actual, lost>>
       ELSE /\ UNCHANGED page
            /\ lost' = [lost EXCEPT ![c] = DOMAIN actual[c]]
            /\ \E state \in {actual, PowerOn} : actual' = [actual EXCEPT ![c] = state[c]]
    /\ UNCHANGED <<object, inbox, crossed>>

(* Does the object still wait for the device's answer?                     *)
AnswerAwaited(d, received) ==
    \/ \E i \in 1..Len(outbox[d]) : outbox[d][i].command = "DEVICE_INFO"
    \/ \E i \in 1..Len(received[d]) : received[d][i].command = "DEVICE_INFO"

SentTo(c, sent) == Select(sent, {i \in 1..Len(sent) : sent[i].to = c})

Commands(sent) == {sent[i].command : i \in 1..Len(sent)}

(* main handles the next message of a client.                              *)
Handle(c) ==
    /\ inbox[c] # <<>>
    /\ LET t == HandleMessage(Turn(object), c, Head(inbox[c]))
       IN  /\ object' = t.object
           /\ inbox' = [inbox EXCEPT ![c] = Tail(@)]
           /\ outbox' = [e \in Client |->
                IF Connected(e) THEN outbox[e] \o SentTo(e, t.sent) ELSE outbox[e]]
           /\ crossed' = crossed \cup
                {d \in Home : SentTo(d, t.sent) # <<>> /\ AnswerAwaited(d, inbox')}
           /\ lost' = [d \in Home |-> IF Connected(d)
                THEN lost[d] \ Commands(SentTo(d, t.sent)) ELSE lost[d]]
    /\ UNCHANGED <<actual, page, connection, left>>

-----------------------------------------------------------------------------
(* A sensor or a button of a device.  A button has no state to answer with.*)
Sense(d) ==
    /\ Input
    /\ Connected(d)
    /\ \E f \in DOMAIN Reading[d] : \E v \in Reading[d][f] :
        /\ inbox' = [inbox EXCEPT ![d] = Append(@, Message(f, v))]
        /\ actual' = IF f \in DOMAIN actual[d] THEN [actual EXCEPT ![d][f] = v] ELSE actual
        /\ lost' = [lost EXCEPT ![d] = @ \ {f}]
    /\ UNCHANGED <<page, object, outbox, connection, crossed>>

(* A device receives a question for its state, or a command.               *)
Obey(d) ==
    /\ d \in Home
    /\ outbox[d] # <<>>
    /\ outbox' = [outbox EXCEPT ![d] = Tail(@)]
    /\ IF Head(outbox[d]).command = "DEVICE_INFO"
       THEN /\ inbox' = [inbox EXCEPT ![d] =
                    Append(@, Message("DEVICE_INFO", actual[d]))]
            /\ lost' = [lost EXCEPT ![d] = {}]
            /\ UNCHANGED actual
       ELSE /\ actual' = [actual EXCEPT ![d][Head(outbox[d]).command] = Head(outbox[d]).value]
            /\ UNCHANGED <<inbox, lost>>
    /\ UNCHANGED <<page, object, connection, crossed, left>>

(* The heartbeat thread reports a status of a device that has registered.  *)
Report(d) ==
    /\ Fault
    /\ d \in DOMAIN object \ {"Website"}
    /\ \E s \in ReportedStatus :
        inbox' = [inbox EXCEPT ![d] = Append(@, Message("HEARTBEAT", s))]
    /\ UNCHANGED <<actual, page, object, outbox, connection, crossed, lost>>

(* The user rings or moves a control to another value than it shows;       *)
(* nothing is sent for a device the page takes for disconnected.           *)
Move(d) ==
    /\ Input
    /\ Connected("Website")
    /\ \E f \in DOMAIN Setting[d] : \E v \in Setting[d][f] :
        /\ f \in DOMAIN page[d] => page[d][f] # v
        /\ page' = MoveControl(page, d, f, v)
        /\ inbox' = IF IsConnected(page, d)
                    THEN [inbox EXCEPT !["Website"] = @ \o Forwards(d, f, v)]
                    ELSE inbox
    /\ UNCHANGED <<actual, object, outbox, connection, crossed, lost>>

Show ==
    /\ outbox["Website"] # <<>>
    /\ page' = OnMessage(page, Head(outbox["Website"]))
    /\ outbox' = [outbox EXCEPT !["Website"] = Tail(@)]
    /\ UNCHANGED <<actual, object, inbox, connection, crossed, lost, left>>

Next ==
    \/ \E c \in Client : Connect(c) \/ Break(c) \/ Handle(c)
    \/ \E d \in Home : Sense(d) \/ Obey(d) \/ Report(d) \/ Move(d)
    \/ Show

Spec == Init /\ [][Next]_vars

-----------------------------------------------------------------------------
(* The fields of objects keep to the widths and values of their types, and *)
(* only clients with an object or a connection have messages under way.    *)
TypeOK ==
    /\ connection \in [Client -> {"none", "first", "broken", "again"}]
    /\ crossed \subseteq Home
    /\ \A d \in Home : lost[d] \subseteq DOMAIN actual[d]
    /\ left \in [inputs : Nat, faults : Nat]
    /\ DOMAIN object \subseteq Client
    /\ \A c \in DOMAIN object : DOMAIN object[c] = DOMAIN NewObject[c]
    /\ "Chair" \in DOMAIN object => object["Chair"].CHAIR_PRESSURE_SENSOR_VALUE \in 0..255
    /\ "SimulatedDevice" \in DOMAIN object => object["SimulatedDevice"].activeLed \in 1..3
    /\ \A c \in Client : ~Connected(c) => outbox[c] = <<>>

(* Nothing is under way between main and a client it has an object for.    *)
Quiet(c) ==
    /\ c \in DOMAIN object /\ Connected(c)
    /\ inbox[c] = <<>> /\ outbox[c] = <<>>

(* What main takes the device to have: a lamp that is off shines with no   *)
(* level.                                                                  *)
Believed(o, d, f) ==
    IF d = "Lamp" /\ f = "LAMP_LED_VALUE" /\ ~o[d].LAMP_LED_ON THEN 0 ELSE o[d][f]

(* Once nothing is under way between them, on the first connection or a    *)
(* later one, the object and the device agree on every shared field.       *)
(* Left out are a device sent a command while its answer was under way,    *)
(* which that answer can overwrite (crossed), and of a device that was     *)
(* away the fields neither side has mentioned since (lost).                *)
ObjectsFollowDevices ==
    \A d \in Home : (Quiet(d) /\ d \notin crossed) =>
        \A f \in (Sensed(d) \cup Commanded(d)) \ lost[d] :
            Believed(object, d, f) = actual[d][f]

(* The values of the page every change of which main sends there.          *)
Pushed(d) ==
    CASE d = "Column" -> {"COLUMN_LED_ON", "COLUMN_SMOKE_TRESHOLD_VALUE"}
      [] d = "Door"   -> {"DOOR_DOOR_OPEN", "DOOR_DOOR_LOCKED"}
      [] d = "Fridge" -> {"FRIDGE_TEMPERATURE_INSIDE_VALUE", "FRIDGE_DOOR_OPEN_COUNTER"}
      [] d = "Lamp"   -> {"LAMP_LED_ON", "LAMP_LED_VALUE"}
      [] d = "Wall"   -> {"WALL_LEDSTRIP_VALUE", "WALL_LDR_VALUE"}
      [] d = "SimulatedDevice" -> {Led[i] : i \in 1..3}
      [] OTHER        -> {}

(* Once nothing is under way to or from the page, a device it takes for    *)
(* connected has the values of its object there, whatever the user, the    *)
(* device and a refused command did before, and in whatever order.         *)
PageFollowsObjects ==
    Quiet("Website") => \A d \in Home : IsConnected(page, d) =>
        /\ d \in DOMAIN object
        /\ \A f \in Pushed(d) : page[d][f] = object[d][f]

(* Whatever the page forwards is for a device main has an object for: the  *)
(* website's object calls the one it finds without a check.                *)
ForwardsFindObjects ==
    \A i \in 1..Len(inbox["Website"]) :
        inbox["Website"][i].command = "WEBSITE_FORWARD" =>
            inbox["Website"][i].value.type \in DOMAIN object

(* No button, switch or message makes main open a door that is locked.     *)
LockedDoorStaysShut ==
    [][("Door" \in Home /\ "Door" \in DOMAIN object /\ object["Door"].DOOR_DOOR_LOCKED) =>
        \A i \in Len(outbox["Door"]) + 1 .. Len(outbox'["Door"]) :
            outbox'["Door"][i].command = "DOOR_DOOR_OPEN" => ~outbox'["Door"][i].value]_vars

(* Once nothing is under way, the fridge itself cools when it is a degree  *)
(* too warm and does not when it is a degree too cold, whichever of its    *)
(* answer, its readings and the requests came first (crossed or not); a    *)
(* fridge that was away does so from its first command on.                 *)
CoolsWhenTooWarm ==
    ("Fridge" \in Home /\ Quiet("Fridge")
        /\ lost["Fridge"] \cap {"FRIDGE_COOLER_ON", "FRIDGE_FAN_ON"} = {}) =>
        LET over == object["Fridge"].FRIDGE_TEMPERATURE_INSIDE_VALUE
                        - object["Fridge"].FRIDGE_REQUESTED_FRIDGE_TEMPERATURE
        IN  /\ over >= 1 => actual["Fridge"].FRIDGE_COOLER_ON /\ actual["Fridge"].FRIDGE_FAN_ON
            /\ over <= -1 => ~actual["Fridge"].FRIDGE_COOLER_ON /\ ~actual["Fridge"].FRIDGE_FAN_ON

(* "Turns the LED on or off" (Column::turnLedOn): once nothing is under    *)
(* way, the alarm light shines just when the object has it on.             *)
AlarmLightFollows ==
    ("Column" \in Home /\ Quiet("Column") /\ "Column" \notin crossed
        /\ "COLUMN_LED_ON" \notin lost["Column"]) =>
        object["Column"].COLUMN_LED_ON = actual["Column"].COLUMN_LED_ON

(* "Sends message to the website with updated information"                 *)
(* (Website::update): once nothing is under way, the page shows the WIB's  *)
(* LED as it is.                                                           *)
PageShowsWIB ==
    ("WIB" \in Home /\ Quiet("Website") /\ Quiet("WIB") /\ "WIB" \notin crossed
        /\ "WIB_LED_ON" \notin lost["WIB"] /\ IsConnected(page, "WIB")) =>
            page["WIB"].WIB_LED_ON = actual["WIB"].WIB_LED_ON

=============================================================================
