------------------------------- MODULE WebPage -------------------------------
(***************************************************************************)
(* communication.js: the page a user sees.  Per device it shows a status   *)
(* and some values, each kept under the name of the command it is for; a   *)
(* text still blank counts as 0.                                           *)
(***************************************************************************)
EXTENDS Website

(* What index.html starts with.                                            *)
BlankPage ==
    [d \in Device |->
        CASE d = "Bed"    -> [Status |-> "DISCONNECTED", BED_LED_ON |-> FALSE,
                              BED_PRESSURE_SENSOR_VALUE |-> 0]
          [] d = "Chair"  -> [Status |-> "DISCONNECTED", CHAIR_VIBRATOR_ON |-> FALSE,
                              CHAIR_PRESSURE_SENSOR_VALUE |-> 0]
          [] d = "Column" -> [Status |-> "DISCONNECTED", COLUMN_LED_ON |-> FALSE,
                              COLUMN_SMOKE_SENSOR_VALUE |-> 0, COLUMN_SMOKE_TRESHOLD_VALUE |-> 0]
          [] d = "Door"   -> [Status |-> "DISCONNECTED", DOOR_DOOR_OPEN |-> FALSE,
                              DOOR_DOOR_LOCKED |-> FALSE]
          [] d = "Fridge" -> [Status |-> "DISCONNECTED", FRIDGE_TEMPERATURE_INSIDE_VALUE |-> 0,
                              FRIDGE_REQUESTED_FRIDGE_TEMPERATURE |-> 15,
                              FRIDGE_DOOR_OPEN_COUNTER |-> 0]
          [] d = "Lamp"   -> [Status |-> "DISCONNECTED", LAMP_LED_ON |-> FALSE,
                              LAMP_LED_VALUE |-> 0]
          [] d = "SimulatedDevice" ->
                             [Status |-> "DISCONNECTED", SIMULATED_LED1_VALUE |-> 0,
                              SIMULATED_LED2_VALUE |-> 0, SIMULATED_LED3_VALUE |-> 0]
          [] d = "Wall"   -> [Status |-> "DISCONNECTED", WALL_CURTAIN_OPEN |-> FALSE,
                              WALL_LEDSTRIP_ON |-> FALSE, WALL_LAMP_ON |-> FALSE,
                              WALL_LEDSTRIP_VALUE |-> 0, WALL_LDR_VALUE |-> 0]
          [] d = "WIB"    -> [Status |-> "DISCONNECTED", WIB_SWITCH_ON |-> FALSE,
                              WIB_LED_ON |-> FALSE, WIB_DIMMER_VALUE |-> 0]]

(* Variant: the status is not looked at before a message is sent.          *)
Connectible(page, d) == TRUE

IsConnected(page, d) == page[d].Status # "DISCONNECTED"

(* What an update leaves alone: the texts it has no value for, and the     *)
(* switches of bed and chair, whose text it sets but not their position.   *)
NotUpdated ==
    {"BED_LED_ON", "BED_PRESSURE_SENSOR_VALUE", "CHAIR_VIBRATOR_ON",
     "CHAIR_PRESSURE_SENSOR_VALUE", "COLUMN_SMOKE_SENSOR_VALUE"}

(* The information each value is taken from.  The switches that enable     *)
(* lamp and ledstrip on the wall take another switch's.                    *)
UpdatedFrom(f) ==
    CASE f = "WALL_LAMP_ON"     -> "WALL_CURTAIN_OPEN"
      [] f = "WALL_LEDSTRIP_ON" -> "WALL_LAMP_ON"
      [] OTHER                  -> f

UpdateDeviceInformation(page, info) ==
    [d \in Device |->
        IF d \notin DOMAIN info THEN page[d]
        ELSE [f \in DOMAIN page[d] |->
                IF f \in NotUpdated THEN page[d][f] ELSE info[d][UpdatedFrom(f)]]]

(* Messages about single values that onmessage has no branch for.          *)
NotShown ==
    {"WALL_CURTAIN_OPEN", "LAMP_MOVEMENT_DETECTED"}

OnMessage(page, m) ==
    IF m.command = "WEBSITE_UPDATE" THEN UpdateDeviceInformation(page, m.value)
    ELSE IF m.command \in NotShown THEN page
    ELSE [page EXCEPT ![m.type][m.command] = m.value]

(* The messages a moved control or the bell sends: the column's switch is  *)
(* for its LED and its buzzer.                                             *)
Forwards(d, control, value) ==
    LET forward(c) == [command |-> "WEBSITE_FORWARD",
                       value |-> [type |-> d, command |-> c, value |-> value]]
    IN  IF control = "COLUMN_LED_ON"
        THEN <<forward("COLUMN_LED_ON"), forward("COLUMN_BUZZER_ON")>>
        ELSE <<forward(control)>>

(* The bell shows nothing.                                                 *)
MoveControl(page, d, control, value) ==
    IF control = "DOOR_DOORBELL_PRESSED" THEN page
    ELSE [page EXCEPT ![d][control] = value]

=============================================================================
