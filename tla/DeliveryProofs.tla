--------------------------- MODULE DeliveryProofs ---------------------------
(***************************************************************************)
(* The way of a registration through the server: from the list to the      *)
(* packet in work, the queue and the object main makes.  For each UUID a   *)
(* handful of facts say where its registration is; each step changes them  *)
(* in one of a few ways (the lemmas), and the invariants follow            *)
(* propositionally.  Then why main knows a device before it hears of it.   *)
(* The second half is why main's messages find their receivers, and why    *)
(* main and the heartbeat thread agree on every device's status, where no  *)
(* UUID's text occurs in another's: whatever main may come to send to is   *)
(* listed, or about to be listed again; and while a registration is in     *)
(* work nothing of its UUID is with main, so nothing is sent to it.        *)
(***************************************************************************)
EXTENDS ServerProofs

Queued(u) == \E i \in 1..Len(messageQueue) : RegistrationAt(u, i)

Twice(u) == \E i, j \in 1..Len(messageQueue) :
                i # j /\ RegistrationAt(u, i) /\ RegistrationAt(u, j)

BeingReplaced(u) == parsing = "reregister" /\ websocketppMessage.uuid = u

(* Where the registration of u is: in one place at most, and only if u is  *)
(* listed or being replaced.                                               *)
OnePlace(u) ==
    /\ ~Twice(u)
    /\ Queued(u) => ~InWork(u) /\ ~Created(u)
    /\ InWork(u) => ~Created(u)
    /\ Queued(u) \/ InWork(u) \/ Created(u) => Listed(u) \/ BeingReplaced(u)

OnePlaceEach == \A u \in UUID : OnePlace(u)

LEMMA ElementType ==
    ASSUME NEW S, NEW s \in Seq(S), NEW i \in 1..Len(s) PROVE s[i] \in S
OBVIOUS

-----------------------------------------------------------------------------
(* What the queue operations do to Queued and Twice.                       *)

LEMMA QueueAppend ==
    ASSUME messageQueue \in Seq(Message), NEW m \in Message,
           messageQueue' = Append(messageQueue, m), NEW u \in UUID
    PROVE  LET reg == m.command = "REGISTRATION" /\ m.uuid = u
           IN  /\ Queued(u)' <=> Queued(u) \/ reg
               /\ Twice(u)' <=> Twice(u) \/ (Queued(u) /\ reg)
<1> DEFINE n == Len(messageQueue)
           reg == m.command = "REGISTRATION" /\ m.uuid = u
<1>1. /\ n \in Nat /\ Len(messageQueue') = n + 1
      /\ \A i \in 1..n : messageQueue'[i] = messageQueue[i]
      /\ messageQueue'[n+1] = m
    OBVIOUS
<1>2. /\ \A i \in 1..n : RegistrationAt(u, i)' <=> RegistrationAt(u, i)
      /\ \A i : i = n+1 => (RegistrationAt(u, i)' <=> reg)
    BY <1>1 DEF RegistrationAt
<1>3. 1..(n+1) = (1..n) \cup {n+1} /\ n+1 \notin 1..n
    BY <1>1
<1>4. Queued(u)' <=> \E i \in 1..(n+1) : RegistrationAt(u, i)'
    BY <1>1 DEF Queued
<1>5. Twice(u)' <=> \E i, j \in 1..(n+1) :
                        i # j /\ RegistrationAt(u, i)' /\ RegistrationAt(u, j)'
    BY <1>1 DEF Twice
<1>6. Queued(u) <=> \E i \in 1..n : RegistrationAt(u, i)
    BY DEF Queued
<1>7. Twice(u) <=> \E i, j \in 1..n : i # j /\ RegistrationAt(u, i) /\ RegistrationAt(u, j)
    BY DEF Twice
<1> HIDE DEF n, reg
<1>8. Queued(u)' <=> Queued(u) \/ reg
    BY <1>2, <1>3, <1>4, <1>6
<1>9. Twice(u)' <=> Twice(u) \/ (Queued(u) /\ reg)
    BY <1>2, <1>3, <1>5, <1>6, <1>7
<1>10. QED
    BY <1>8, <1>9 DEF reg

LEMMA QueueTail ==
    ASSUME messageQueue \in Seq(Message), messageQueue # <<>>,
           messageQueue' = Tail(messageQueue), NEW u \in UUID
    PROVE  LET m == Head(messageQueue)
               reg == m.command = "REGISTRATION" /\ m.uuid = u
           IN  /\ Twice(u)' => Twice(u)
               /\ Queued(u)' => Queued(u)
               /\ ~reg => (Queued(u) => Queued(u)')
               /\ reg => Queued(u) /\ (Queued(u)' => Twice(u))
<1> DEFINE n == Len(messageQueue)
           reg == Head(messageQueue).command = "REGISTRATION" /\ Head(messageQueue).uuid = u
<1>1. /\ n \in Nat /\ n > 0 /\ Len(messageQueue') = n - 1
      /\ \A i \in 1..(n-1) : messageQueue'[i] = messageQueue[i+1]
      /\ Head(messageQueue) = messageQueue[1]
    BY HeadTailProperties
<1>2. /\ \A i \in 1..(n-1) : RegistrationAt(u, i)' <=> RegistrationAt(u, i+1)
      /\ RegistrationAt(u, 1) <=> reg
    BY <1>1 DEF RegistrationAt
<1>3. Queued(u)' <=> \E i \in 1..(n-1) : RegistrationAt(u, i)'
    BY <1>1 DEF Queued
<1>4. Twice(u)' <=> \E i, j \in 1..(n-1) :
                        i # j /\ RegistrationAt(u, i)' /\ RegistrationAt(u, j)'
    BY <1>1 DEF Twice
<1>5. Queued(u) <=> \E i \in 1..n : RegistrationAt(u, i)
    BY DEF Queued
<1>6. Twice(u) <=> \E i, j \in 1..n : i # j /\ RegistrationAt(u, i) /\ RegistrationAt(u, j)
    BY DEF Twice
<1> HIDE DEF n, reg
<1>7. Queued(u)' <=> \E k \in 2..n : RegistrationAt(u, k)
    <2>1. ASSUME NEW k \in 2..n, RegistrationAt(u, k) PROVE Queued(u)'
        <3>1. k-1 \in 1..(n-1) /\ (k-1)+1 = k
            BY <1>1
        <3>2. QED
            BY <1>2, <1>3, <2>1, <3>1
    <2>2. ASSUME NEW i \in 1..(n-1), RegistrationAt(u, i)'
          PROVE  \E k \in 2..n : RegistrationAt(u, k)
        <3>1. i+1 \in 2..n
            BY <1>1
        <3>2. QED
            BY <1>2, <2>2, <3>1
    <2>3. QED
        BY <1>3, <2>1, <2>2
<1>8. Twice(u)' => Twice(u)
    <2>1. ASSUME NEW i \in 1..(n-1), NEW j \in 1..(n-1), i # j,
                 RegistrationAt(u, i)', RegistrationAt(u, j)'
          PROVE  Twice(u)
        <3>1. i+1 \in 1..n /\ j+1 \in 1..n /\ i+1 # j+1
            BY <1>1, <2>1
        <3>2. RegistrationAt(u, i+1) /\ RegistrationAt(u, j+1)
            BY <1>2, <2>1
        <3>3. QED
            BY <1>6, <3>1, <3>2
    <2>2. QED
        BY <1>4, <2>1
<1>9. 1..n = {1} \cup 2..n /\ 1 \notin 2..n
    BY <1>1
<1>10. Queued(u) <=> reg \/ Queued(u)'
    BY <1>2, <1>5, <1>7, <1>9
<1>11. reg /\ Queued(u)' => Twice(u)
    BY <1>2, <1>6, <1>7, <1>9
<1>12. QED
    BY <1>8, <1>10, <1>11 DEF reg

-----------------------------------------------------------------------------
(* What the threads do to the place of a registration.                     *)

Unmoved(u) ==
    /\ Queued(u)' <=> Queued(u)
    /\ Twice(u)' <=> Twice(u)
    /\ InWork(u)' <=> InWork(u)
    /\ Created(u)' <=> Created(u)
    /\ Listed(u)' <=> Listed(u)
    /\ BeingReplaced(u)' <=> BeingReplaced(u)

(* The steps of the parse thread that register: first for a new UUID, then *)
(* the two halves of a re-registration, then the hand-over to main.        *)
ParseMoves(u) ==
    \/ Unmoved(u)
    \/ /\ ~Listed(u) /\ ~BeingReplaced(u) /\ ~InWork(u)
       /\ Listed(u)' /\ ~BeingReplaced(u)' /\ InWork(u)'
       /\ Queued(u)' <=> Queued(u)
       /\ Twice(u)' <=> Twice(u)
       /\ Created(u)' <=> Created(u)
    \/ /\ ~BeingReplaced(u) /\ ~Listed(u)' /\ BeingReplaced(u)'
       /\ ExactMatch => Listed(u)
       /\ ~InWork(u) /\ ~InWork(u)'
       /\ Queued(u)' <=> Queued(u)
       /\ Twice(u)' <=> Twice(u)
       /\ Created(u)' <=> Created(u)
    \/ /\ BeingReplaced(u) /\ Listed(u)' /\ ~BeingReplaced(u)'
       /\ ~InWork(u) /\ ~InWork(u)'
       /\ Queued(u)' <=> Queued(u)
       /\ Twice(u)' <=> Twice(u)
       /\ Created(u)' <=> Created(u)
    \/ /\ InWork(u) /\ ~InWork(u)' /\ Queued(u)'
       /\ Twice(u)' <=> Twice(u) \/ Queued(u)
       /\ Created(u)' <=> Created(u)
       /\ Listed(u)' <=> Listed(u)
       /\ BeingReplaced(u)' <=> BeingReplaced(u)

LEMMA ParseMove ==
    ASSUME Typed, Parse, NEW u \in UUID PROVE ParseMoves(u)
<1>1. /\ TypeOK /\ ListedOnce /\ Reports /\ ParseStep
      /\ Created(u)' <=> Created(u)
    BY DEF Typed, Parse, mainVars, Created, Present
<1>2. ASSUME UNCHANGED messageQueue
      PROVE  (Queued(u)' <=> Queued(u)) /\ (Twice(u)' <=> Twice(u))
    BY <1>2 DEF Queued, Twice, RegistrationAt
<1>3. ASSUME UNCHANGED registeredDevices PROVE Listed(u)' <=> Listed(u)
    BY <1>3 DEF Listed
<1>4. RegistryTypeOK /\ ParseTypeOK
    BY <1>1 DEF TypeOK
<1>5. CASE RegisterNew
    <2> DEFINE p == Head(RxQueue)
    <2>1. /\ p \in Packet /\ RegisterDevice(p) /\ websocketppMessage' = p
          /\ parsing = "idle" /\ parsing' = "passOn" /\ p.command = "REGISTRATION"
          /\ UNCHANGED messageQueue
        BY <1>1, <1>5, TakeType DEF RegisterNew
    <2>2. ~Listed(p.uuid) /\ p.uuid \in UUID
        BY <1>4, <1>5, <2>1, SubstringAssumption
        DEF RegisterNew, IsDeviceRegistered, RegistrationsOf, Packet, Listed, RegistryTypeOK
    <2> HIDE DEF p
    <2>3. Listed(u)' <=> Listed(u) \/ u = p.uuid
        BY <1>1, <1>4, <2>1, <2>2, RegisterOnce
    <2>4. QED
        BY <1>1, <1>2, <2>1, <2>2, <2>3 DEF ParseMoves, Unmoved, InWork, BeingReplaced
<1>6. CASE EraseOld
    <2> DEFINE p == Head(RxQueue)
    <2>1. /\ p \in Packet /\ EraseRegistration(p.uuid) /\ websocketppMessage' = p
          /\ parsing = "idle" /\ parsing' = "reregister"
          /\ UNCHANGED messageQueue /\ IsDeviceRegistered(p.uuid)
        BY <1>1, <1>6, TakeType DEF EraseOld
    <2>2. p.uuid \in UUID
        BY <2>1 DEF Packet
    <2> HIDE DEF p
    <2>3. Listed(u)' <=> Listed(u) /\ u # p.uuid
        BY <1>1, <1>4, <2>1, <2>2, EraseType
    <2>4. ExactMatch => Listed(p.uuid)
        <3>1. PICK i \in 1..Len(registeredDevices) :
                    <<p.uuid, registeredDevices[i].uuid>> \in Substring
            BY <2>1 DEF IsDeviceRegistered, RegistrationsOf
        <3>2. registeredDevices[i].uuid \in UUID
            <4>1. registeredDevices \in Seq([uuid : UUID, conn : Connection])
                BY <1>4 DEF RegistryTypeOK
            <4>2. registeredDevices[i] \in [uuid : UUID, conn : Connection]
                BY <4>1, ElementType
            <4>3. QED
                BY <4>2
        <3>3. QED
            BY <2>2, <3>1, <3>2 DEF ExactMatch, Listed
    <2>5. QED
        BY <1>1, <1>2, <2>1, <2>2, <2>3, <2>4 DEF ParseMoves, Unmoved, InWork, BeingReplaced
<1>7. CASE ReRegister
    <2> DEFINE p == websocketppMessage
    <2>1. /\ p \in Packet /\ RegisterDevice(p)
          /\ parsing = "reregister" /\ parsing' = "idle" /\ UNCHANGED messageQueue
          /\ ~Listed(p.uuid)
        BY <1>1, <1>4, <1>7 DEF ReRegister, ParseTypeOK, ListedOnce, queueVars
    <2>2. BeingReplaced(u) <=> u = p.uuid
        BY <2>1 DEF BeingReplaced
    <2> HIDE DEF p
    <2>3. Listed(u)' <=> Listed(u) \/ u = p.uuid
        BY <1>1, <1>4, <2>1, RegisterOnce
    <2>4. QED
        BY <1>1, <1>2, <2>1, <2>2, <2>3 DEF ParseMoves, Unmoved, InWork, BeingReplaced
<1>8. CASE PassOn
    <2> DEFINE m == Payload(websocketppMessage)
    <2>1. /\ parsing = "passOn" /\ parsing' = "idle" /\ UNCHANGED registeredDevices
          /\ messageQueue' = Append(messageQueue, m) /\ websocketppMessage \in Packet
        BY <1>4, <1>8 DEF PassOn, registryVars, ParseTypeOK
    <2>2. m \in Message /\ (InWork(u) <=> m.command = "REGISTRATION" /\ m.uuid = u)
        BY <2>1, PayloadType DEF InWork, Payload
    <2> HIDE DEF m
    <2>3. messageQueue \in Seq(Message)
        BY <1>1 DEF TypeOK, QueuesTypeOK
    <2>4. /\ Queued(u)' <=> Queued(u) \/ InWork(u)
          /\ Twice(u)' <=> Twice(u) \/ (Queued(u) /\ InWork(u))
        BY <2>1, <2>2, <2>3, QueueAppend
    <2>5. QED
        BY <1>1, <1>3, <2>1, <2>4 DEF ParseMoves, Unmoved, InWork, BeingReplaced
<1>9. CASE RejectInvalid \/ FailUnnamed \/ RejectUnregistered \/ TakeHeartbeatPacket
           \/ TakeOther \/ QueueHeartbeat
    <2>1. UNCHANGED <<messageQueue, registeredDevices>>
        BY <1>9 DEF RejectInvalid, FailUnnamed, RejectUnregistered, TakeHeartbeatPacket,
            TakeOther, QueueHeartbeat, TakePacket, registryVars
    <2>2. /\ parsing \notin {"passOn", "reregister"}
          /\ parsing' # "reregister"
          /\ parsing' = "passOn" => websocketppMessage'.command # "REGISTRATION"
        BY <1>1, <1>9, TakeType
        DEF RejectInvalid, FailUnnamed, RejectUnregistered, TakeHeartbeatPacket,
            TakeOther, QueueHeartbeat
    <2>3. QED
        BY <1>1, <1>2, <1>3, <2>1, <2>2 DEF ParseMoves, Unmoved, InWork, BeingReplaced
<1>10. QED
    BY <1>1, <1>5, <1>6, <1>7, <1>8, <1>9 DEF ParseStep

(* The heartbeat thread moves no registration.                             *)
LEMMA HeartbeatMove ==
    ASSUME Typed, Heartbeat, NEW u \in UUID PROVE Unmoved(u)
<1>1. /\ TypeOK /\ HeartbeatStep
      /\ UNCHANGED <<registeredDevices, parsing, websocketppMessage, devices, newDevice>>
    BY DEF Typed, Heartbeat, registryVars, parseVars, mainVars
<1>2. (Queued(u)' <=> Queued(u)) /\ (Twice(u)' <=> Twice(u))
    <2>1. ASSUME UNCHANGED messageQueue
          PROVE  (Queued(u)' <=> Queued(u)) /\ (Twice(u)' <=> Twice(u))
        BY <2>1 DEF Queued, Twice, RegistrationAt
    <2>2. ASSUME NEW v \in UUID, PublishStatus(v)
          PROVE  (Queued(u)' <=> Queued(u)) /\ (Twice(u)' <=> Twice(u))
        <3> DEFINE m == Report(v, StatusAt(age[v]))
        <3>1. m \in Message /\ m.command # "REGISTRATION"
            BY StatusType, ReportType DEF Report
        <3>2. messageQueue \in Seq(Message) /\ messageQueue' = Append(messageQueue, m)
            BY <1>1, <2>2 DEF PublishStatus, TypeOK, QueuesTypeOK
        <3> HIDE DEF m
        <3>3. QED
            BY <3>1, <3>2, QueueAppend
    <2>3. QED
        BY <1>1, <2>1, <2>2
        DEF HeartbeatStep, WakeUp, TakeHeartbeat, HeartbeatFails, StartScan, KeepStatus,
            EndScan, queueVars
<1>3. QED
    BY <1>1, <1>2 DEF Unmoved, InWork, Created, Present, Listed, BeingReplaced

(* The main thread takes a registration from the queue and makes an object *)
(* for it, unless it has no class for the type or the Type does not        *)
(* convert.                                                                *)
MainMoves(u) ==
    /\ InWork(u)' <=> InWork(u)
    /\ Listed(u)' <=> Listed(u)
    /\ BeingReplaced(u)' <=> BeingReplaced(u)
    /\ Twice(u)' => Twice(u)
    /\ Queued(u)' => Queued(u)
    /\ \/ (Queued(u)' <=> Queued(u)) /\ (Created(u)' <=> Created(u))
       \/ Queued(u) /\ (Queued(u)' => Twice(u)) /\ Created(u)'
       \/ (~Known(u) \/ ~running') /\ (Created(u)' <=> Created(u))

LEMMA MainMove ==
    ASSUME Typed, Main, NEW u \in UUID PROVE MainMoves(u)
<1>1. TypeOK /\ Reports /\ MainStep
    BY DEF Typed, Main
<1>2. UNCHANGED <<registeredDevices, parsing, websocketppMessage>>
    BY <1>1 DEF Main, parseVars, MainStep, FailIlltyped, CreateDevice, IgnoreUnknownType,
        InsertDevice, HandleReport, HandleNothing, HandleDeviceCommand, ForwardToWebsite, ForwardToNobody,
        HandleWebsiteUpdate, ReplyNotCreated, DropMessage, LookUp, Transmit,
        TransmitDangling, GetMessage, registryVars
<1>3. /\ InWork(u)' <=> InWork(u)
      /\ Listed(u)' <=> Listed(u)
      /\ BeingReplaced(u)' <=> BeingReplaced(u)
    BY <1>2 DEF InWork, Listed, BeingReplaced
<1>4. messageQueue \in Seq(Message) /\ MainTypeOK
    BY <1>1 DEF TypeOK, QueuesTypeOK
<1> DEFINE m == Head(messageQueue)
           reg == m.command = "REGISTRATION" /\ m.uuid = u
<1>5. ASSUME GetMessage
      PROVE  /\ Twice(u)' => Twice(u)
             /\ Queued(u)' => Queued(u)
             /\ ~reg => (Queued(u) => Queued(u)')
             /\ reg => Queued(u) /\ (Queued(u)' => Twice(u))
    <2>1. messageQueue # <<>> /\ messageQueue' = Tail(messageQueue)
        BY <1>5 DEF GetMessage
    <2>2. QED
        BY <1>4, <2>1, QueueTail
<1>6. ASSUME UNCHANGED messageQueue
      PROVE  (Queued(u)' <=> Queued(u)) /\ (Twice(u)' <=> Twice(u))
    BY <1>6 DEF Queued, Twice, RegistrationAt
<1>7. CASE CreateDevice
    <2>1. /\ GetMessage /\ m.command = "REGISTRATION" /\ newDevice' = m.uuid
          /\ newDevice = NoDevice /\ UNCHANGED devices
        BY <1>7 DEF CreateDevice, GetMessage
    <2> HIDE DEF m
    <2>2. Created(u)' <=> Created(u) \/ reg
        BY <2>1, MainAssumption DEF Created, Present
    <2>3. QED
        BY <1>3, <1>5, <2>1, <2>2 DEF MainMoves
<1>8. CASE IgnoreUnknownType \/ FailIlltyped
    <2>1. /\ GetMessage /\ UNCHANGED <<devices, newDevice>>
          /\ ~Known(m.uuid) \/ ~running'
        BY <1>8 DEF IgnoreUnknownType, FailIlltyped
    <2> HIDE DEF m
    <2>2. Created(u)' <=> Created(u)
        BY <2>1 DEF Created, Present
    <2>3. QED
        BY <1>3, <1>5, <2>1, <2>2 DEF MainMoves
<1>9. CASE HandleReport
    <2>1. /\ GetMessage /\ m.command = "HEARTBEAT" /\ m.arg \in Status
          /\ m.uuid \in Present
          /\ devices' = [devices EXCEPT ![m.uuid] = m.arg] /\ UNCHANGED newDevice
        BY <1>1, <1>9, GetType DEF HandleReport
    <2> HIDE DEF m
    <2>2. Created(u)' <=> Created(u)
        BY <1>4, <2>1 DEF Created, Present, Status, MainTypeOK
    <2>3. QED
        BY <1>3, <1>5, <2>1, <2>2 DEF MainMoves
<1>10. CASE HandleNothing \/ HandleDeviceCommand \/ ForwardToWebsite \/ ForwardToNobody
            \/ HandleWebsiteUpdate \/ ReplyNotCreated
    <2>1. GetMessage /\ m.command # "REGISTRATION" /\ UNCHANGED <<devices, newDevice>>
        BY <1>10 DEF HandleNothing, HandleDeviceCommand, ForwardToWebsite, ForwardToNobody,
            HandleWebsiteUpdate, ReplyNotCreated
    <2> HIDE DEF m
    <2>2. Created(u)' <=> Created(u)
        BY <2>1 DEF Created, Present
    <2>3. QED
        BY <1>3, <1>5, <2>1, <2>2 DEF MainMoves
<1>11. CASE InsertDevice
    <2>1. Created(u)' <=> Created(u)
        BY <1>4, <1>11, MainAssumption DEF InsertDevice, Created, Present, MainTypeOK
    <2>2. UNCHANGED messageQueue
        BY <1>11 DEF InsertDevice, queueVars
    <2>3. QED
        BY <1>3, <1>6, <2>1, <2>2 DEF MainMoves
<1>12. CASE DropMessage \/ LookUp \/ Transmit \/ TransmitDangling
    <2>1. UNCHANGED <<messageQueue, devices, newDevice>>
        BY <1>12 DEF DropMessage, LookUp, Transmit, TransmitDangling, queueVars
    <2>2. Created(u)' <=> Created(u)
        BY <2>1 DEF Created, Present
    <2>3. QED
        BY <1>3, <1>6, <2>1, <2>2 DEF MainMoves
<1>13. QED
    BY <1>1, <1>7, <1>8, <1>9, <1>10, <1>11, <1>12 DEF MainStep

LEMMA OtherMove ==
    ASSUME [Next]_vars, ~Parse, ~Heartbeat, ~Main, NEW u \in UUID PROVE Unmoved(u)
<1>1. UNCHANGED <<messageQueue, registeredDevices, parsing, websocketppMessage, devices,
                  newDevice>>
    BY DEF Next, Receive, MessageReceived, Disconnect, ConnectionClosed, StopListening,
        StartSocketEnds, Polling, Ended, vars, queueVars, registryVars, parseVars, mainVars
<1>2. QED
    BY <1>1 DEF Unmoved, Queued, Twice, RegistrationAt, InWork, Created, Present, Listed,
        BeingReplaced

-----------------------------------------------------------------------------
LEMMA OnePlaceInductive == Typed /\ OnePlaceEach /\ [Next]_vars => OnePlaceEach'
<1> SUFFICES ASSUME Typed, OnePlaceEach, [Next]_vars, NEW u \in UUID PROVE OnePlace(u)'
    BY DEF OnePlaceEach
<1>1. OnePlace(u)
    BY DEF OnePlaceEach
<1>2. CASE Parse
    BY <1>1, <1>2, ParseMove DEF ParseMoves, Unmoved, OnePlace
<1>3. CASE Heartbeat
    BY <1>1, <1>3, HeartbeatMove DEF Unmoved, OnePlace
<1>4. CASE Main
    BY <1>1, <1>4, MainMove DEF MainMoves, OnePlace
<1>5. CASE ~Parse /\ ~Heartbeat /\ ~Main
    BY <1>1, <1>5, OtherMove DEF Unmoved, OnePlace
<1>6. QED
    BY <1>2, <1>3, <1>4, <1>5

LEMMA InitOnePlace == Init => OnePlaceEach
BY MainAssumption
DEF Init, QueuesInit, ParseInit, MainInit, OnePlaceEach, OnePlace, Queued, Twice, InWork,
    Created, Present

(* main.cpp:57-103: main is told of each UUID at most once, whatever the   *)
(* clients send and whichever UUIDs contain one another: it never makes a  *)
(* second object, which could not enter the map.                           *)
THEOREM ServerMakesOneObject == Spec => []OneObjectEach
<1>1. OnePlaceEach => OneObjectEach
    BY DEF OnePlaceEach, OnePlace, OneObjectEach, Queued, Twice
<1>2. QED
    BY <1>1, InitTyped, TypedInductive, InitOnePlace, OnePlaceInductive, PTL DEF Spec

-----------------------------------------------------------------------------
(* Where no UUID's text occurs in another's, a message is passed on only   *)
(* for a listed UUID; a listed UUID was announced to main, and every place *)
(* a message or a heartbeat can wait in comes behind the announcement.     *)

(* Something of u other than its registration is on its way to main.       *)
Heard(u) ==
    \/ \E i \in 1..Len(heartbeatQueue) : heartbeatQueue[i].uuid = u
    \/ u \in Recorded
    \/ parsing = "heartbeat" /\ websocketppMessage.uuid = u
    \/ /\ parsing = "passOn" /\ websocketppMessage.command # "REGISTRATION"
       /\ websocketppMessage.uuid = u

(* Every message of u in the queue has a registration of u before it.      *)
Ordered(u) ==
    \A i \in 1..Len(messageQueue) :
        messageQueue[i].uuid = u => \E j \in 1..i : RegistrationAt(u, j)

Announced(u) ==
    /\ Listed(u) \/ BeingReplaced(u) => Queued(u) \/ Created(u) \/ InWork(u)
    /\ Heard(u) => Queued(u) \/ Created(u)
    /\ Created(u) \/ Ordered(u)

(* Once the process has ended, an announcement may have been consumed.     *)
AnnouncedEach == running => \A u \in UUID : Known(u) => Announced(u)

-----------------------------------------------------------------------------
(* What the queue operations do to Ordered.                                *)

LEMMA OrderedAppend ==
    ASSUME messageQueue \in Seq(Message), NEW m \in Message,
           messageQueue' = Append(messageQueue, m), NEW u \in UUID, Ordered(u),
           m.uuid = u => m.command = "REGISTRATION" \/ Queued(u)
    PROVE  Ordered(u)'
<1> DEFINE n == Len(messageQueue)
<1>1. /\ n \in Nat /\ Len(messageQueue') = n + 1
      /\ \A i \in 1..n : messageQueue'[i] = messageQueue[i]
      /\ messageQueue'[n+1] = m
    OBVIOUS
<1>2. \A i \in 1..n : RegistrationAt(u, i) => RegistrationAt(u, i)'
    BY <1>1 DEF RegistrationAt
<1>3. m.uuid = u /\ m.command = "REGISTRATION"
        => \A i : i = n+1 => RegistrationAt(u, i)'
    BY <1>1 DEF RegistrationAt
<1>4. Queued(u) => \E j \in 1..n : RegistrationAt(u, j)
    BY DEF Queued
<1>5. \A i \in 1..n : messageQueue[i].uuid = u => \E j \in 1..i : RegistrationAt(u, j)
    BY DEF Ordered
<1> HIDE DEF n
<1>6. SUFFICES ASSUME NEW i \in 1..(n+1), messageQueue'[i].uuid = u
               PROVE  \E j \in 1..i : RegistrationAt(u, j)'
    BY <1>1 DEF Ordered
<1>7. CASE i \in 1..n
    <2>1. PICK j \in 1..i : RegistrationAt(u, j)
        BY <1>1, <1>5, <1>6, <1>7
    <2>2. j \in 1..n
        BY <1>1, <1>7, <2>1
    <2>3. QED
        BY <1>2, <2>1, <2>2
<1>8. CASE i = n+1
    <2>1. 1..n \subseteq 1..i /\ n+1 \in 1..i
        BY <1>1, <1>8
    <2>2. m.uuid = u
        BY <1>1, <1>6, <1>8
    <2>3. CASE m.command = "REGISTRATION"
        <3>1. RegistrationAt(u, i)' /\ i \in 1..i
            BY <1>3, <1>8, <2>1, <2>2, <2>3
        <3>2. QED
            BY <3>1
    <2>4. CASE Queued(u)
        BY <1>2, <1>4, <2>1, <2>4
    <2>5. QED
        BY <2>2, <2>3, <2>4
<1>9. QED
    BY <1>1, <1>7, <1>8

LEMMA OrderedTail ==
    ASSUME messageQueue \in Seq(Message), messageQueue # <<>>,
           messageQueue' = Tail(messageQueue), NEW u \in UUID, Ordered(u),
           ~(Head(messageQueue).command = "REGISTRATION" /\ Head(messageQueue).uuid = u)
    PROVE  Ordered(u)'
<1> DEFINE n == Len(messageQueue)
<1>1. /\ n \in Nat /\ n > 0 /\ Len(messageQueue') = n - 1
      /\ \A i \in 1..(n-1) : messageQueue'[i] = messageQueue[i+1]
      /\ Head(messageQueue) = messageQueue[1]
    BY HeadTailProperties
<1>2. /\ \A i \in 1..(n-1) : RegistrationAt(u, i)' <=> RegistrationAt(u, i+1)
      /\ ~RegistrationAt(u, 1)
    BY <1>1 DEF RegistrationAt
<1>3. \A i \in 1..n : messageQueue[i].uuid = u => \E j \in 1..i : RegistrationAt(u, j)
    BY DEF Ordered
<1> HIDE DEF n
<1>4. SUFFICES ASSUME NEW i \in 1..(n-1), messageQueue'[i].uuid = u
               PROVE  \E j \in 1..i : RegistrationAt(u, j)'
    BY <1>1 DEF Ordered
<1>5. i+1 \in 1..n /\ messageQueue[i+1].uuid = u
    BY <1>1, <1>4
<1>6. PICK k \in 1..(i+1) : RegistrationAt(u, k)
    BY <1>3, <1>5
<1>7. k # 1
    BY <1>2, <1>6
<1>8. k-1 \in 1..i /\ k-1 \in 1..(n-1) /\ (k-1)+1 = k
    BY <1>1, <1>6, <1>7
<1>9. QED
    BY <1>2, <1>6, <1>8

-----------------------------------------------------------------------------
(* What the threads do to what was heard of u.                             *)

(* The parse thread hears only of a listed device, when it takes a packet, *)
(* and passes on only what it heard, or a registration.                    *)
LEMMA ParseHears ==
    ASSUME Typed, Parse, ExactMatch, NEW u \in UUID
    PROVE  /\ Heard(u)' => Heard(u) \/ (Listed(u) /\ ~InWork(u))
           /\ Ordered(u) /\ (Heard(u) => Queued(u)) => Ordered(u)'
<1>1. /\ TypeOK /\ ParseStep /\ RegistryTypeOK /\ ParseTypeOK /\ UNCHANGED hbStatus
      /\ messageQueue \in Seq(Message) /\ heartbeatQueue \in Seq(Message)
    BY DEF Typed, Parse, TypeOK, QueuesTypeOK, heartbeatVars
<1>2. Recorded' = Recorded
    BY <1>1 DEF Recorded
<1>3. ASSUME UNCHANGED messageQueue PROVE Ordered(u) => Ordered(u)'
    BY <1>3 DEF Ordered, RegistrationAt
<1>4. ASSUME NEW p \in Packet, IsDeviceRegistered(p.uuid) PROVE Listed(p.uuid)
    <2>1. PICK i \in 1..Len(registeredDevices) :
                <<p.uuid, registeredDevices[i].uuid>> \in Substring
        BY <1>4 DEF IsDeviceRegistered, RegistrationsOf
    <2>2. registeredDevices[i] \in [uuid : UUID, conn : Connection]
        BY <1>1, ElementType DEF RegistryTypeOK
    <2>3. p.uuid \in UUID /\ registeredDevices[i].uuid \in UUID
        BY <2>2 DEF Packet
    <2>4. QED
        BY <2>1, <2>3 DEF ExactMatch, Listed
<1>5. CASE RegisterNew \/ EraseOld \/ RejectInvalid \/ FailUnnamed \/ RejectUnregistered
    <2>1. /\ UNCHANGED <<messageQueue, heartbeatQueue>>
          /\ parsing' # "heartbeat"
          /\ parsing' = "passOn" => websocketppMessage'.command = "REGISTRATION"
        BY <1>1, <1>5, TakeType
        DEF RegisterNew, EraseOld, RejectInvalid, FailUnnamed, RejectUnregistered,
            TakePacket
    <2>2. QED
        BY <1>2, <1>3, <2>1 DEF Heard
<1>6. CASE ReRegister
    <2>1. UNCHANGED <<messageQueue, heartbeatQueue>> /\ parsing' = "idle"
        BY <1>6 DEF ReRegister, queueVars
    <2>2. QED
        BY <1>2, <1>3, <2>1 DEF Heard
<1>7. CASE TakeHeartbeatPacket \/ TakeOther
    <2> DEFINE p == Head(RxQueue)
    <2>1. /\ UNCHANGED <<messageQueue, heartbeatQueue>> /\ parsing = "idle"
          /\ p \in Packet /\ websocketppMessage' = p /\ IsDeviceRegistered(p.uuid)
        BY <1>1, <1>7, TakeType DEF TakeHeartbeatPacket, TakeOther, TakePacket
    <2>2. Listed(p.uuid)
        BY <1>4, <2>1
    <2> HIDE DEF p
    <2>3. QED
        BY <1>2, <1>3, <2>1, <2>2 DEF Heard, InWork
<1>8. CASE QueueHeartbeat
    <2> DEFINE m == Payload(websocketppMessage)
               n == Len(heartbeatQueue)
    <2>1. /\ parsing = "heartbeat" /\ parsing' = "idle" /\ UNCHANGED messageQueue
          /\ heartbeatQueue' = Append(heartbeatQueue, m) /\ websocketppMessage \in Packet
        BY <1>1, <1>8 DEF QueueHeartbeat, ParseTypeOK
    <2>a. m \in Message /\ m.uuid = websocketppMessage.uuid
        BY <2>1, PayloadType DEF Payload
    <2> HIDE DEF m
    <2>2. /\ n \in Nat /\ Len(heartbeatQueue') = n + 1
          /\ \A i \in 1..n : heartbeatQueue'[i] = heartbeatQueue[i]
          /\ heartbeatQueue'[n+1] = m
        BY <1>1, <2>1, <2>a
    <2>3. \A i \in 1..(n+1) : i \in 1..n \/ i = n+1
        BY <2>2
    <2>4. Heard(u)' => Heard(u)
        BY <1>2, <2>1, <2>a, <2>2, <2>3 DEF Heard
    <2>5. QED
        BY <1>3, <2>1, <2>4
<1>9. CASE PassOn
    <2> DEFINE m == Payload(websocketppMessage)
    <2>1. /\ parsing = "passOn" /\ parsing' = "idle" /\ UNCHANGED heartbeatQueue
          /\ messageQueue' = Append(messageQueue, m) /\ websocketppMessage \in Packet
        BY <1>1, <1>9 DEF PassOn, ParseTypeOK
    <2>2. /\ m \in Message
          /\ m.uuid = u => m.command = "REGISTRATION" \/ Heard(u)
        BY <2>1, PayloadType DEF Payload, Heard
    <2> HIDE DEF m
    <2>3. Heard(u)' => Heard(u)
        BY <1>2, <2>1 DEF Heard
    <2>4. QED
        BY <1>1, <2>1, <2>2, <2>3, OrderedAppend
<1>10. QED
    BY <1>1, <1>5, <1>6, <1>7, <1>8, <1>9 DEF ParseStep

(* A heartbeat becomes a record and a record a report: the heartbeat       *)
(* thread hears of nobody else.                                            *)
LEMMA HeartbeatHears ==
    ASSUME Typed, Heartbeat, NEW u \in UUID
    PROVE  /\ Heard(u)' => Heard(u)
           /\ Ordered(u) /\ (Heard(u) => Queued(u)) => Ordered(u)'
<1>1. /\ TypeOK /\ HeartbeatStep /\ UNCHANGED <<parsing, websocketppMessage>>
      /\ messageQueue \in Seq(Message) /\ heartbeatQueue \in Seq(Message)
      /\ HeartbeatTypeOK
    BY DEF Typed, Heartbeat, TypeOK, QueuesTypeOK, parseVars
<1>2. ASSUME UNCHANGED messageQueue PROVE Ordered(u) => Ordered(u)'
    BY <1>2 DEF Ordered, RegistrationAt
<1>3. CASE \/ \E d \in ClockSteps : WakeUp(d)
           \/ StartScan
           \/ \E v \in UUID : KeepStatus(v)
           \/ EndScan
    <2>1. UNCHANGED <<messageQueue, heartbeatQueue, hbStatus>>
        BY <1>3 DEF WakeUp, StartScan, KeepStatus, EndScan, queueVars, heartbeatVars
    <2>2. QED
        BY <1>1, <1>2, <2>1 DEF Heard, Recorded
<1>4. CASE TakeHeartbeat
    <2> DEFINE v == Head(heartbeatQueue).uuid
               n == Len(heartbeatQueue)
    <2>1. /\ heartbeatQueue # <<>> /\ heartbeatQueue' = Tail(heartbeatQueue)
          /\ UNCHANGED messageQueue
          /\ hbStatus' = [hbStatus EXCEPT
                             ![v] = IF v \in Recorded THEN @ ELSE "DISCONNECTED"]
        BY <1>4 DEF TakeHeartbeat
    <2>2. /\ n \in Nat /\ n > 0 /\ Len(heartbeatQueue') = n - 1
          /\ \A i \in 1..(n-1) : heartbeatQueue'[i] = heartbeatQueue[i+1]
          /\ v = heartbeatQueue[1].uuid
        <3>1. heartbeatQueue \in Seq(Message)
            BY <1>1
        <3>2. QED
            BY <2>1, <3>1, HeadTailProperties
    <2>3. 1 \in 1..n /\ \A i \in 1..(n-1) : i+1 \in 1..n
        BY <2>2
    <2> HIDE DEF v, n
    <2>4. Recorded' \subseteq Recorded \cup {v}
        BY <1>1, <2>1 DEF Recorded, HeartbeatTypeOK
    <2>5. Heard(u)' => Heard(u)
        BY <1>1, <2>2, <2>3, <2>4 DEF Heard, n
    <2>6. QED
        BY <1>2, <2>1, <2>5
<1>5. ASSUME NEW v \in UUID, PublishStatus(v)
      PROVE  /\ Heard(u)' => Heard(u)
             /\ Ordered(u) /\ (Heard(u) => Queued(u)) => Ordered(u)'
    <2> DEFINE m == Report(v, StatusAt(age[v]))
    <2>1. /\ v \in Recorded /\ UNCHANGED heartbeatQueue
          /\ messageQueue' = Append(messageQueue, m)
          /\ hbStatus' = [hbStatus EXCEPT ![v] = StatusAt(age[v])]
        BY <1>1, <1>5 DEF PublishStatus, HeartbeatTypeOK
    <2>2. m \in Message /\ m.uuid = v
        BY StatusType, ReportType DEF Report
    <2> HIDE DEF m
    <2>3. Recorded' \subseteq Recorded
        BY <1>1, <2>1 DEF Recorded, HeartbeatTypeOK
    <2>4. Heard(u)' => Heard(u)
        BY <1>1, <2>1, <2>3 DEF Heard
    <2>5. m.uuid = u => Heard(u)
        BY <2>1, <2>2 DEF Heard
    <2>6. QED
        BY <1>1, <2>1, <2>2, <2>4, <2>5, OrderedAppend
<1>6. CASE HeartbeatFails
    <2>1. /\ heartbeatQueue # <<>> /\ heartbeatQueue' = Tail(heartbeatQueue)
          /\ UNCHANGED <<messageQueue, hbStatus>>
        BY <1>6 DEF HeartbeatFails
    <2>2. /\ \A i \in 1..Len(heartbeatQueue') :
                i+1 \in 1..Len(heartbeatQueue) /\ heartbeatQueue'[i] = heartbeatQueue[i+1]
        BY <1>1, <2>1, HeadTailProperties
    <2>3. Heard(u)' => Heard(u)
        BY <1>1, <2>1, <2>2 DEF Heard, Recorded
    <2>4. QED
        BY <1>2, <2>1, <2>3
<1>7. QED
    BY <1>1, <1>3, <1>4, <1>5, <1>6 DEF HeartbeatStep

(* The main thread takes messages in order; the registration of a device   *)
(* it has a class for makes the object.                                    *)
LEMMA MainHears ==
    ASSUME Typed, Main, NEW u \in UUID, Known(u), running'
    PROVE  /\ Heard(u)' => Heard(u)
           /\ Ordered(u) => Ordered(u)' \/ Created(u)'
<1>1. /\ TypeOK /\ MainStep /\ UNCHANGED <<parsing, websocketppMessage, hbStatus>>
      /\ messageQueue \in Seq(Message)
    BY DEF Typed, Main, TypeOK, QueuesTypeOK, parseVars, heartbeatVars
<1>2. UNCHANGED heartbeatQueue
    BY <1>1 DEF MainStep, FailIlltyped, CreateDevice, IgnoreUnknownType, InsertDevice,
        HandleReport, HandleNothing, HandleDeviceCommand, ForwardToWebsite,
        ForwardToNobody, HandleWebsiteUpdate, ReplyNotCreated, DropMessage, LookUp,
        Transmit, TransmitDangling, GetMessage, queueVars
<1>3. Heard(u)' => Heard(u)
    BY <1>1, <1>2 DEF Heard, Recorded
<1>4. CASE CreateDevice
    <2>1. /\ messageQueue # <<>> /\ messageQueue' = Tail(messageQueue)
          /\ newDevice' = Head(messageQueue).uuid
        BY <1>4 DEF CreateDevice, GetMessage
    <2>2. CASE Head(messageQueue).uuid = u
        BY <1>3, <2>1, <2>2 DEF Created
    <2>3. CASE Head(messageQueue).uuid # u
        BY <1>1, <1>3, <2>1, <2>3, OrderedTail
    <2>4. QED
        BY <2>2, <2>3
<1>5. CASE \/ IgnoreUnknownType \/ HandleReport \/ HandleNothing \/ HandleDeviceCommand
           \/ ForwardToWebsite \/ ForwardToNobody \/ HandleWebsiteUpdate \/ ReplyNotCreated
    <2>1. /\ messageQueue # <<>> /\ messageQueue' = Tail(messageQueue)
          /\ ~(Head(messageQueue).command = "REGISTRATION" /\ Head(messageQueue).uuid = u)
        BY <1>5 DEF IgnoreUnknownType, HandleReport, HandleNothing, HandleDeviceCommand,
            ForwardToWebsite, ForwardToNobody, HandleWebsiteUpdate, ReplyNotCreated,
            GetMessage
    <2>2. QED
        BY <1>1, <1>3, <2>1, OrderedTail
<1>6. CASE InsertDevice \/ DropMessage \/ LookUp \/ Transmit \/ TransmitDangling
    <2>1. UNCHANGED messageQueue
        BY <1>6 DEF InsertDevice, DropMessage, LookUp, Transmit, TransmitDangling, queueVars
    <2>2. QED
        BY <1>3, <2>1 DEF Ordered, RegistrationAt
<1>7. ~FailIlltyped
    BY DEF FailIlltyped
<1>8. QED
    BY <1>1, <1>4, <1>5, <1>6, <1>7 DEF MainStep

LEMMA OtherHears ==
    ASSUME [Next]_vars, ~Parse, ~Heartbeat, ~Main, NEW u \in UUID
    PROVE  (Heard(u)' => Heard(u)) /\ (Ordered(u) => Ordered(u)')
<1>1. UNCHANGED <<messageQueue, heartbeatQueue, parsing, websocketppMessage, hbStatus>>
    BY DEF Next, Receive, MessageReceived, Disconnect, ConnectionClosed, StopListening,
        StartSocketEnds, Polling, Ended, vars, queueVars, parseVars, heartbeatVars
<1>2. QED
    BY <1>1 DEF Heard, Recorded, Ordered, RegistrationAt

-----------------------------------------------------------------------------
(* A process that has ended does not come back.                            *)
LEMMA RanBefore == ASSUME [Next]_vars, running' PROVE running
<1>1. ASSUME ParseStep PROVE running
    BY <1>1 DEF ParseStep, TakePacket, RejectInvalid, FailUnnamed, RejectUnregistered,
        RegisterNew, EraseOld, ReRegister, TakeHeartbeatPacket, TakeOther, QueueHeartbeat,
        PassOn
<1>2. ASSUME HeartbeatStep PROVE running
    BY <1>2 DEF HeartbeatStep, WakeUp, TakeHeartbeat, HeartbeatFails, StartScan, KeepStatus,
        PublishStatus, EndScan
<1>3. ASSUME MainStep PROVE running
    BY <1>3 DEF MainStep, GetMessage, FailIlltyped, CreateDevice, IgnoreUnknownType,
        InsertDevice, HandleReport, HandleNothing, HandleDeviceCommand, ForwardToWebsite,
        ForwardToNobody, HandleWebsiteUpdate, ReplyNotCreated, DropMessage, LookUp,
        Transmit, TransmitDangling
<1>4. QED
    BY <1>1, <1>2, <1>3
    DEF Next, Receive, MessageReceived, Disconnect, ConnectionClosed, StopListening,
        StartSocketEnds, Parse, Heartbeat, Main, Polling, Ended, vars, queueVars

LEMMA AnnouncedInductive ==
    Typed /\ ExactMatch /\ AnnouncedEach /\ [Next]_vars => AnnouncedEach'
<1> SUFFICES ASSUME Typed, ExactMatch, AnnouncedEach, [Next]_vars, running',
                    NEW u \in UUID, Known(u)
             PROVE  Announced(u)'
    BY DEF AnnouncedEach, Known
<1>1. Announced(u)
    BY RanBefore DEF AnnouncedEach
<1>2. CASE Parse
    BY <1>1, <1>2, ParseMove, ParseHears DEF ParseMoves, Unmoved, Announced
<1>3. CASE Heartbeat
    BY <1>1, <1>3, HeartbeatMove, HeartbeatHears DEF Unmoved, Announced
<1>4. CASE Main
    BY <1>1, <1>4, MainMove, MainHears DEF MainMoves, Announced
<1>5. CASE ~Parse /\ ~Heartbeat /\ ~Main
    BY <1>1, <1>5, OtherMove, OtherHears DEF Unmoved, Announced
<1>6. QED
    BY <1>2, <1>3, <1>4, <1>5

LEMMA InitAnnounced == Init => AnnouncedEach
BY DEF Init, QueuesInit, RegistryInit, ParseInit, HeartbeatInit, AnnouncedEach, Announced,
    Heard, Ordered, Listed, BeingReplaced, Recorded

(* SocketServer.cpp:103-186, main.cpp:57-115: if no UUID's text occurs in  *)
(* another's, main never takes a message of a device it has a class for    *)
(* before the device's registration, however the threads interleave.       *)
THEOREM ServerKnowsSenders == ExactMatch => (Spec => []ObjectBeforeMessages)
<1> SUFFICES ASSUME ExactMatch PROVE Spec => []ObjectBeforeMessages
    OBVIOUS
<1>1. Init => Typed /\ AnnouncedEach
    BY InitTyped, InitAnnounced
<1>2. Typed /\ AnnouncedEach /\ [Next]_vars => (Typed /\ AnnouncedEach)'
    BY TypedInductive, AnnouncedInductive
<1>3. Typed /\ AnnouncedEach => ObjectBeforeMessages
    <2> SUFFICES ASSUME Typed, AnnouncedEach, running, NEW i \in 1..Len(messageQueue),
                        Known(messageQueue[i].uuid)
                 PROVE  \/ Created(messageQueue[i].uuid)
                        \/ \E j \in 1..i : RegistrationAt(messageQueue[i].uuid, j)
        BY DEF ObjectBeforeMessages
    <2>1. messageQueue \in Seq(Message)
        BY DEF Typed, TypeOK, QueuesTypeOK
    <2>2. messageQueue[i] \in Message
        BY <2>1, ElementType
    <2>3. messageQueue[i].uuid \in UUID
        BY <2>2 DEF Message
    <2>4. QED
        BY <2>3 DEF AnnouncedEach, Announced, Ordered
<1>4. QED
    BY <1>1, <1>2, <1>3, PTL DEF Spec

-----------------------------------------------------------------------------
(* Main's messages and their receivers.                                    *)

InQueue(u) == \E i \in 1..Len(messageQueue) : messageQueue[i].uuid = u

InOutbox(u) == \E i \in 1..Len(outbox) : outbox[i] = u

(* Main sends to u, may come to, or knows it.                              *)
Waiting(u) == Heard(u) \/ InQueue(u) \/ Created(u) \/ InOutbox(u)

Kept(u) ==
    /\ Waiting(u) \/ InWork(u) => Listed(u) \/ BeingReplaced(u)
    /\ InWork(u) => ~Waiting(u)

KeptEach == \A u \in UUID : Kept(u)

-----------------------------------------------------------------------------
(* A message appended to the queue is the only new one.                    *)
LEMMA InQueueAppend ==
    ASSUME messageQueue \in Seq(Message), NEW m \in Message, NEW u \in UUID,
           messageQueue' = Append(messageQueue, m)
    PROVE  InQueue(u)' => InQueue(u) \/ m.uuid = u
<1>1. /\ Len(messageQueue') = Len(messageQueue) + 1 /\ Len(messageQueue) \in Nat
      /\ \A i \in 1..Len(messageQueue) : messageQueue'[i] = messageQueue[i]
      /\ messageQueue'[Len(messageQueue) + 1] = m
    OBVIOUS
<1>2. QED
    BY <1>1 DEF InQueue

(* Nothing of u comes to main's side except what the parse thread has in   *)
(* work or finds listed.                                                   *)
LEMMA ParseWaits ==
    ASSUME Typed, Parse, ExactMatch, NEW u \in UUID
    PROVE  Waiting(u)' => \/ Waiting(u)
                          \/ InWork(u) /\ ~InWork(u)'
                          \/ Listed(u) /\ ~InWork(u)
<1>1. /\ ParseStep /\ ParseTypeOK /\ messageQueue \in Seq(Message)
      /\ UNCHANGED <<devices, newDevice, outbox>>
    BY DEF Typed, Parse, TypeOK, QueuesTypeOK, mainVars
<1>2. (Created(u)' <=> Created(u)) /\ (InOutbox(u)' <=> InOutbox(u))
    BY <1>1 DEF Created, Present, InOutbox
<1>3. CASE PassOn
    <2> DEFINE m == Payload(websocketppMessage)
    <2>1. /\ parsing = "passOn" /\ parsing' = "idle"
          /\ messageQueue' = Append(messageQueue, m) /\ websocketppMessage \in Packet
        BY <1>1, <1>3 DEF PassOn, ParseTypeOK
    <2>2. m \in Message /\ m.uuid = websocketppMessage.uuid
        BY <2>1, PayloadType DEF Payload
    <2>3. ~InWork(u)' /\ (m.uuid = u => InWork(u) \/ Heard(u))
        BY <2>1, <2>2 DEF InWork, Heard
    <2> HIDE DEF m
    <2>4. InQueue(u)' => InQueue(u) \/ m.uuid = u
        BY <1>1, <2>1, <2>2, InQueueAppend
    <2>5. QED
        BY <1>2, <2>3, <2>4, ParseHears DEF Waiting
<1>4. CASE ~PassOn
    <2>1. UNCHANGED messageQueue
        BY <1>1, <1>4 DEF ParseStep, RegisterNew, EraseOld, ReRegister, RejectInvalid,
            FailUnnamed, RejectUnregistered, TakeHeartbeatPacket, TakeOther,
            QueueHeartbeat, TakePacket, queueVars
    <2>2. InQueue(u)' <=> InQueue(u)
        BY <2>1 DEF InQueue
    <2>3. QED
        BY <1>2, <2>2, ParseHears DEF Waiting
<1>5. QED
    BY <1>3, <1>4

(* The heartbeat thread reports only devices it heard of.                  *)
LEMMA HeartbeatWaits ==
    ASSUME Typed, Heartbeat, NEW u \in UUID PROVE Waiting(u)' => Waiting(u)
<1>1. /\ HeartbeatStep /\ messageQueue \in Seq(Message) /\ HeartbeatTypeOK
      /\ UNCHANGED <<devices, newDevice, outbox>>
    BY DEF Typed, Heartbeat, TypeOK, QueuesTypeOK, mainVars
<1>2. (Created(u)' <=> Created(u)) /\ (InOutbox(u)' <=> InOutbox(u))
    BY <1>1 DEF Created, Present, InOutbox
<1>3. Heard(u)' => Heard(u)
    BY HeartbeatHears
<1>4. InQueue(u)' => InQueue(u) \/ Heard(u)
    <2>1. ASSUME NEW v \in UUID, PublishStatus(v) PROVE InQueue(u)' => InQueue(u) \/ Heard(u)
        <3> DEFINE m == Report(v, StatusAt(age[v]))
        <3>1. v \in Recorded /\ messageQueue' = Append(messageQueue, m)
            BY <1>1, <2>1 DEF PublishStatus, HeartbeatTypeOK
        <3>2. m \in Message /\ m.uuid = v
            BY StatusType, ReportType DEF Report
        <3> HIDE DEF m
        <3>3. QED
            BY <1>1, <3>1, <3>2, InQueueAppend DEF Heard
    <2>2. ASSUME UNCHANGED messageQueue PROVE InQueue(u)' => InQueue(u)
        BY <2>2 DEF InQueue
    <2>3. QED
        BY <1>1, <2>1, <2>2
        DEF HeartbeatStep, WakeUp, TakeHeartbeat, HeartbeatFails, StartScan, KeepStatus,
            EndScan, queueVars
<1>5. QED
    BY <1>2, <1>3, <1>4 DEF Waiting

(* The main thread sends to the sender of the message it took and to       *)
(* devices that have an object.                                            *)
LEMMA MainWaits ==
    ASSUME Typed, Main, NEW u \in UUID PROVE Waiting(u)' => Waiting(u)
<1>1. /\ MainStep /\ MainTypeOK /\ messageQueue \in Seq(Message)
      /\ UNCHANGED <<parsing, websocketppMessage, hbStatus>>
    BY DEF Typed, Main, TypeOK, QueuesTypeOK, parseVars, heartbeatVars
<1>2. UNCHANGED heartbeatQueue
    BY <1>1 DEF MainStep, FailIlltyped, CreateDevice, IgnoreUnknownType, InsertDevice,
        HandleReport, HandleNothing, HandleDeviceCommand, ForwardToWebsite,
        ForwardToNobody, HandleWebsiteUpdate, ReplyNotCreated, DropMessage, LookUp,
        Transmit, TransmitDangling, GetMessage, queueVars
<1>3. Heard(u)' <=> Heard(u)
    BY <1>1, <1>2 DEF Heard, Recorded
<1>4. Queued(u) => InQueue(u)
    BY DEF Queued, InQueue, RegistrationAt
<1>5. Created(u)' => Created(u) \/ InQueue(u)
    BY <1>4, MainMove DEF MainMoves
<1>6. ASSUME GetMessage
      PROVE  /\ InQueue(u)' => InQueue(u)
             /\ Head(messageQueue).uuid = u => InQueue(u)
    <2>1. messageQueue # <<>> /\ messageQueue' = Tail(messageQueue)
        BY <1>6 DEF GetMessage
    <2>2. /\ Len(messageQueue) \in Nat /\ Len(messageQueue) > 0
          /\ Len(messageQueue') = Len(messageQueue) - 1
          /\ \A i \in 1..Len(messageQueue') :
                i+1 \in 1..Len(messageQueue) /\ messageQueue'[i] = messageQueue[i+1]
          /\ Head(messageQueue) = messageQueue[1]
        BY <1>1, <2>1, HeadTailProperties
    <2>3. QED
        BY <2>2 DEF InQueue
<1>7. ASSUME UNCHANGED messageQueue PROVE InQueue(u)' => InQueue(u)
    BY <1>7 DEF InQueue
<1>8. ASSUME NEW s \in Seq(UUID), outbox' = s,
             \A i \in 1..Len(s) : s[i] = u => InQueue(u) \/ u \in Present
      PROVE  InOutbox(u)' => InQueue(u) \/ Created(u)
    BY <1>8 DEF InOutbox, Created
<1>9. ASSUME NEW v, outbox' = <<v>>, v = u => InQueue(u) \/ u \in Present
      PROVE  InOutbox(u)' => InQueue(u) \/ Created(u)
    BY <1>9 DEF InOutbox, Created
<1>10. ASSUME outbox # <<>>, outbox' = Tail(outbox) PROVE InOutbox(u)' => InOutbox(u)
    <2>1. outbox \in Seq(UUID)
        BY <1>1 DEF MainTypeOK
    <2>2. \A i \in 1..Len(outbox') : i+1 \in 1..Len(outbox) /\ outbox'[i] = outbox[i+1]
        BY <1>10, <2>1, HeadTailProperties
    <2>3. QED
        BY <2>2 DEF InOutbox
<1>11. ASSUME outbox' = <<>> \/ outbox' = outbox PROVE InOutbox(u)' => InOutbox(u)
    BY <1>11 DEF InOutbox
<1>12. CASE CreateDevice \/ HandleWebsiteUpdate \/ ReplyNotCreated
    <2>1. GetMessage /\ outbox' = <<Head(messageQueue).uuid>>
        BY <1>12 DEF CreateDevice, HandleWebsiteUpdate, ReplyNotCreated
    <2>2. QED
        BY <1>3, <1>5, <1>6, <1>9, <2>1 DEF Waiting
<1>13. CASE FailIlltyped \/ IgnoreUnknownType \/ HandleNothing \/ ForwardToWebsite
            \/ ForwardToNobody
    <2>1. GetMessage /\ outbox' = outbox
        BY <1>13 DEF FailIlltyped, IgnoreUnknownType, HandleNothing, ForwardToWebsite,
            ForwardToNobody
    <2>2. QED
        BY <1>3, <1>5, <1>6, <1>11, <2>1 DEF Waiting
<1>14. CASE HandleReport
    <2>1. GetMessage /\ UpdateWebsite
        BY <1>14 DEF HandleReport
    <2>2. CASE outbox' = <<>>
        BY <1>3, <1>5, <1>6, <1>11, <2>1, <2>2 DEF Waiting
    <2>3. ASSUME NEW website \in Present, outbox' = <<website>>
          PROVE  Waiting(u)' => Waiting(u)
        BY <1>3, <1>5, <1>6, <1>9, <2>1, <2>3 DEF Waiting
    <2>4. QED
        BY <2>1, <2>2, <2>3 DEF UpdateWebsite, GetDeviceByType, OfType
<1>15. CASE HandleDeviceCommand
    <2>1. GetMessage /\ outbox' \in SeqOf(Present, MaxSends)
        BY <1>15 DEF HandleDeviceCommand
    <2>2. \A i \in 1..Len(outbox') : outbox'[i] \in Present
        BY <2>1 DEF SeqOf
    <2>3. InOutbox(u)' => Created(u)
        BY <2>2 DEF InOutbox, Created
    <2>4. QED
        BY <1>3, <1>5, <1>6, <2>1, <2>3 DEF Waiting
<1>16. CASE InsertDevice
    <2>1. UNCHANGED <<messageQueue, outbox>>
        BY <1>16 DEF InsertDevice, queueVars
    <2>2. QED
        BY <1>3, <1>5, <1>7, <1>11, <2>1 DEF Waiting
<1>17. CASE DropMessage \/ LookUp \/ Transmit \/ TransmitDangling
    <2>1. UNCHANGED messageQueue /\ (outbox' = outbox \/ outbox' = Tail(outbox))
        BY <1>17 DEF DropMessage, LookUp, Transmit, TransmitDangling, queueVars
    <2>2. outbox # <<>>
        BY <1>1, <1>17 DEF DropMessage, LookUp, Transmit, TransmitDangling, MainTypeOK
    <2>3. QED
        BY <1>3, <1>5, <1>7, <1>10, <1>11, <2>1, <2>2 DEF Waiting
<1>18. QED
    BY <1>1, <1>12, <1>13, <1>14, <1>15, <1>16, <1>17 DEF MainStep

LEMMA OtherWaits ==
    ASSUME [Next]_vars, ~Parse, ~Heartbeat, ~Main, NEW u \in UUID
    PROVE  Waiting(u)' => Waiting(u)
<1>1. UNCHANGED <<messageQueue, outbox>>
    BY DEF Next, Receive, MessageReceived, Disconnect, ConnectionClosed, StopListening,
        StartSocketEnds, Polling, Ended, vars, queueVars, mainVars
<1>2. QED
    BY <1>1, OtherHears, OtherMove DEF Waiting, InQueue, InOutbox, Unmoved

-----------------------------------------------------------------------------
LEMMA KeptInductive == Typed /\ ExactMatch /\ KeptEach /\ [Next]_vars => KeptEach'
<1> SUFFICES ASSUME Typed, ExactMatch, KeptEach, [Next]_vars, NEW u \in UUID
             PROVE  Kept(u)'
    BY DEF KeptEach
<1>1. Kept(u)
    BY DEF KeptEach
<1>2. CASE Parse
    BY <1>1, <1>2, ParseMove, ParseWaits DEF ParseMoves, Unmoved, Kept
<1>3. CASE Heartbeat
    BY <1>1, <1>3, HeartbeatMove, HeartbeatWaits DEF Unmoved, Kept
<1>4. CASE Main
    BY <1>1, <1>4, MainMove, MainWaits DEF MainMoves, Kept
<1>5. CASE ~Parse /\ ~Heartbeat /\ ~Main
    BY <1>1, <1>5, OtherMove, OtherWaits DEF Unmoved, Kept
<1>6. QED
    BY <1>2, <1>3, <1>4, <1>5

LEMMA InitKept == Init => KeptEach
BY MainAssumption
DEF Init, QueuesInit, RegistryInit, ParseInit, HeartbeatInit, MainInit, KeptEach, Kept,
    Waiting, Heard, Recorded, InQueue, InOutbox, Created, Present, InWork

(* SocketServer.cpp:63-76, 155-171: if no UUID's text occurs in another's, *)
(* a message of main is dropped for want of a registration only while the  *)
(* parse thread is replacing that registration.                            *)
THEOREM ServerDropsOnlyWhileReplacing ==
    ExactMatch => (Spec => []DroppedOnlyWhileReplacing)
<1> SUFFICES ASSUME ExactMatch PROVE Spec => []DroppedOnlyWhileReplacing
    OBVIOUS
<1>1. Typed /\ KeptEach => DroppedOnlyWhileReplacing
    <2> SUFFICES ASSUME Typed, KeptEach, NEW i \in 1..Len(outbox),
                        ~IsDeviceRegistered(outbox[i])
                 PROVE  BeingReplaced(outbox[i])
        BY DEF DroppedOnlyWhileReplacing, BeingReplaced
    <2>1. outbox \in Seq(UUID)
        BY DEF Typed, TypeOK, MainTypeOK
    <2>2. outbox[i] \in UUID
        BY <2>1, ElementType
    <2>3. Listed(outbox[i]) \/ BeingReplaced(outbox[i])
        BY <2>2 DEF KeptEach, Kept, Waiting, InOutbox
    <2>4. ~Listed(outbox[i])
        BY <2>2, SubstringAssumption DEF Listed, IsDeviceRegistered, RegistrationsOf
    <2>5. QED
        BY <2>3, <2>4
<1>2. QED
    BY <1>1, InitTyped, TypedInductive, InitKept, KeptInductive, PTL DEF Spec

-----------------------------------------------------------------------------
(* The pointer SendMessage holds, as long as it points into the vector's   *)
(* memory: at an element, or at where the last one was that is being       *)
(* replaced; never at the registration in work.                            *)

Aimed ==
    /\ pointer.allocation <= capacity
    /\ pointer # NoPointer /\ pointer.allocation = capacity =>
        /\ pointer.index > 0
        /\ pointer.index <= Len(registeredDevices)
                            + (IF parsing = "reregister" THEN 1 ELSE 0)

OffTarget ==
    parsing = "passOn" /\ websocketppMessage.command = "REGISTRATION" =>
        (pointer # NoPointer /\ ~Dangling => Destination.uuid # websocketppMessage.uuid)

(* What registering does to the length of the vector and to its memory.    *)
LEMMA RegisterGrows ==
    ASSUME RegistryTypeOK, NEW p \in Packet, RegisterDevice(p)
    PROVE  /\ Len(registeredDevices') = Len(registeredDevices) + 1
           /\ \A i \in 1..Len(registeredDevices) :
                registeredDevices'[i] = registeredDevices[i]
           /\ capacity' = capacity \/ capacity' > capacity
           /\ capacity' \in Nat
<1>1. capacity \in Nat
    BY DEF RegistryTypeOK
<1>2. /\ capacity' = capacity \/ capacity' > capacity
      /\ capacity' \in Nat
    BY <1>1 DEF RegisterDevice
<1>3. QED
    BY <1>2, RegisterType

(* And what erasing does, when it follows the guard of its step.           *)
LEMMA EraseShrinks ==
    ASSUME RegistryTypeOK, ListedOnce, NEW u \in UUID, EraseRegistration(u)
    PROVE  /\ Len(registeredDevices) <= Len(registeredDevices') + 1
           /\ Len(registeredDevices') \in Nat /\ Len(registeredDevices) \in Nat
           /\ capacity' = capacity
<1> DEFINE exact == {i \in 1..Len(registeredDevices) : registeredDevices[i].uuid = u}
           R == [uuid : UUID, conn : Connection]
<1>0. capacity' = capacity /\ registeredDevices \in Seq(R)
    BY DEF EraseRegistration, RegistryTypeOK
<1>1. CASE exact = {}
    BY <1>0, <1>1 DEF EraseRegistration
<1>2. CASE exact # {}
    <2>1. PICK k \in 1..Len(registeredDevices) : registeredDevices[k].uuid = u
        BY <1>2
    <2>2. exact = {k}
        BY <2>1 DEF ListedOnce
    <2>3. Min(exact) = k
        BY <2>2 DEF Min
    <2>4. registeredDevices' = RemoveAt(registeredDevices, k)
        BY <1>2, <2>3 DEF EraseRegistration
    <2>5. Len(RemoveAt(registeredDevices, k)) = Len(registeredDevices) - 1
        BY <1>0, <2>1, RemoveAtProperties
    <2>6. Len(registeredDevices) \in Nat /\ Len(registeredDevices) > 0
        BY <1>0, <2>1
    <2>7. QED
        BY <1>0, <2>4, <2>5, <2>6
<1>3. QED
    BY <1>1, <1>2

LEMMA AimedInductive == Typed /\ Aimed /\ [Next]_vars => Aimed'
<1> SUFFICES ASSUME Typed, Aimed, [Next]_vars PROVE Aimed'
    OBVIOUS
<1>1. /\ TypeOK /\ ListedOnce /\ RegistryTypeOK /\ ParseTypeOK /\ MainTypeOK
      /\ pointer.allocation \in Nat /\ pointer.index \in Nat /\ capacity \in Nat
      /\ Len(registeredDevices) \in Nat
    BY DEF Typed, TypeOK, MainTypeOK, RegistryTypeOK
<1>2. CASE Parse
    <2>1. ParseStep /\ UNCHANGED pointer
        BY <1>2 DEF Parse, mainVars
    <2>2. CASE RegisterNew
        <3>1. /\ Head(RxQueue) \in Packet /\ RegisterDevice(Head(RxQueue))
              /\ parsing = "idle" /\ parsing' = "passOn"
            BY <1>1, <2>2, TakeType DEF RegisterNew
        <3>2. QED
            BY <1>1, <2>1, <3>1, RegisterGrows DEF Aimed
    <2>3. CASE EraseOld
        <3>1. /\ Head(RxQueue).uuid \in UUID /\ EraseRegistration(Head(RxQueue).uuid)
              /\ parsing = "idle" /\ parsing' = "reregister"
            BY <1>1, <2>3, TakeType DEF EraseOld, Packet
        <3>2. QED
            BY <1>1, <2>1, <3>1, EraseShrinks DEF Aimed
    <2>4. CASE ReRegister
        <3>1. /\ websocketppMessage \in Packet /\ RegisterDevice(websocketppMessage)
              /\ parsing = "reregister" /\ parsing' = "idle"
            BY <1>1, <2>4 DEF ReRegister, ParseTypeOK
        <3>2. QED
            BY <1>1, <2>1, <3>1, RegisterGrows DEF Aimed
    <2>5. CASE ~RegisterNew /\ ~EraseOld /\ ~ReRegister
        <3>1. UNCHANGED <<registeredDevices, capacity>>
              /\ parsing # "reregister" /\ parsing' # "reregister"
            BY <2>1, <2>5 DEF ParseStep, RejectInvalid, FailUnnamed, RejectUnregistered,
                TakeHeartbeatPacket, TakeOther, QueueHeartbeat, PassOn, TakePacket,
                registryVars
        <3>2. QED
            BY <1>1, <2>1, <3>1 DEF Aimed
    <2>6. QED
        BY <2>2, <2>3, <2>4, <2>5
<1>3. CASE Main
    <2>1. UNCHANGED <<registeredDevices, capacity, parsing>> /\ MainStep
        BY <1>3 DEF Main, parseVars, MainStep, FailIlltyped, CreateDevice, IgnoreUnknownType,
            InsertDevice, HandleReport, HandleNothing, HandleDeviceCommand,
            ForwardToWebsite, ForwardToNobody, HandleWebsiteUpdate, ReplyNotCreated,
            DropMessage, LookUp, Transmit, TransmitDangling, GetMessage, registryVars
    <2>2. CASE LookUp
        <3>1. PICK i \in GetRegisteredDevice(Head(outbox)) :
                    pointer' = [index |-> i, allocation |-> capacity]
            BY <2>2 DEF LookUp
        <3>2. i \in 1..Len(registeredDevices)
            BY <3>1 DEF GetRegisteredDevice, RegistrationsOf
        <3>3. QED
            BY <1>1, <2>1, <3>1, <3>2 DEF Aimed
    <2>3. CASE Transmit \/ TransmitDangling
        <3>1. pointer' = NoPointer
            BY <2>3 DEF Transmit, TransmitDangling
        <3>2. QED
            BY <1>1, <2>1, <3>1 DEF Aimed, NoPointer
    <2>4. CASE ~LookUp /\ ~Transmit /\ ~TransmitDangling
        <3>1. UNCHANGED pointer
            BY <2>1, <2>4 DEF MainStep, FailIlltyped, CreateDevice, IgnoreUnknownType,
                InsertDevice, HandleReport, HandleNothing, HandleDeviceCommand,
                ForwardToWebsite, ForwardToNobody, HandleWebsiteUpdate, ReplyNotCreated,
                DropMessage, GetMessage
        <3>2. QED
            BY <2>1, <3>1 DEF Aimed
    <2>5. QED
        BY <2>2, <2>3, <2>4
<1>4. CASE ~Parse /\ ~Main
    <2>1. UNCHANGED <<registeredDevices, capacity, parsing, pointer>>
        BY <1>4 DEF Next, Heartbeat, Receive, MessageReceived, Disconnect, ConnectionClosed,
            StopListening, StartSocketEnds, Polling, Ended, vars, registryVars, parseVars,
            mainVars
    <2>2. QED
        BY <2>1 DEF Aimed
<1>5. QED
    BY <1>2, <1>3, <1>4

(* No step aims the pointer at the registration in work.                   *)
LEMMA OffTargetInductive ==
    Typed /\ ExactMatch /\ KeptEach /\ Aimed /\ OffTarget /\ [Next]_vars => OffTarget'
<1> SUFFICES ASSUME Typed, ExactMatch, KeptEach, Aimed, OffTarget, [Next]_vars,
                    parsing' = "passOn", websocketppMessage'.command = "REGISTRATION",
                    pointer' # NoPointer, ~Dangling'
             PROVE  Destination'.uuid # websocketppMessage'.uuid
    BY DEF OffTarget
<1>1. /\ TypeOK /\ ListedOnce /\ RegistryTypeOK /\ ParseTypeOK /\ MainTypeOK
      /\ pointer.allocation \in Nat /\ pointer.index \in Nat /\ capacity \in Nat
      /\ Len(registeredDevices) \in Nat
    BY DEF Typed, TypeOK, MainTypeOK, RegistryTypeOK
<1>2. CASE Parse
    <2>1. ParseStep /\ UNCHANGED pointer
        BY <1>2 DEF Parse, mainVars
    <2>2. RegisterNew
        BY <1>1, <2>1, TakeType DEF ParseStep, RejectInvalid, FailUnnamed,
            RejectUnregistered, EraseOld, ReRegister, TakeHeartbeatPacket, TakeOther,
            QueueHeartbeat, PassOn
    <2> DEFINE p == Head(RxQueue)
    <2>3. /\ p \in Packet /\ RegisterDevice(p) /\ websocketppMessage' = p
          /\ parsing = "idle" /\ ~IsDeviceRegistered(p.uuid)
        BY <1>1, <2>2, TakeType DEF RegisterNew
    <2>4. p.uuid \in UUID /\ ~Listed(p.uuid)
        BY <1>1, <2>3, SubstringAssumption
        DEF IsDeviceRegistered, RegistrationsOf, Packet, Listed, RegistryTypeOK
    <2> HIDE DEF p
    <2>5. capacity' \in Nat /\ (capacity' = capacity \/ capacity' > capacity)
        BY <1>1, <2>3, RegisterGrows
    <2>6. pointer.allocation = capacity
        BY <1>1, <2>1, <2>5 DEF Dangling, Aimed
    <2>7. pointer.index \in 1..Len(registeredDevices)
        BY <1>1, <2>1, <2>3, <2>6 DEF Aimed
    <2>8. Destination' = registeredDevices[pointer.index]
        BY <1>1, <2>1, <2>3, <2>7, RegisterGrows DEF Destination
    <2>9. QED
        BY <2>3, <2>4, <2>7, <2>8 DEF Listed
<1>3. CASE Main
    <2>1. UNCHANGED <<registeredDevices, capacity, parsing, websocketppMessage>> /\ MainStep
        BY <1>3 DEF Main, parseVars, MainStep, FailIlltyped, CreateDevice, IgnoreUnknownType,
            InsertDevice, HandleReport, HandleNothing, HandleDeviceCommand,
            ForwardToWebsite, ForwardToNobody, HandleWebsiteUpdate, ReplyNotCreated,
            DropMessage, LookUp, Transmit, TransmitDangling, GetMessage, registryVars
    <2>2. CASE LookUp
        <3> DEFINE u == Head(outbox)
        <3>1. PICK i \in GetRegisteredDevice(u) :
                    pointer' = [index |-> i, allocation |-> capacity]
            BY <2>2 DEF LookUp
        <3>2. outbox \in Seq(UUID) /\ outbox # <<>>
            BY <1>1, <2>2 DEF LookUp, MainTypeOK
        <3>3. u \in UUID /\ InOutbox(u)
            BY <3>2, HeadTailProperties DEF InOutbox
        <3> HIDE DEF u
        <3>4. i \in 1..Len(registeredDevices) /\ <<u, registeredDevices[i].uuid>> \in Substring
            BY <3>1 DEF GetRegisteredDevice, RegistrationsOf
        <3>5. registeredDevices[i].uuid = u
            BY <3>3, <3>4, SubstringAssumption DEF ExactMatch
        <3>6. Destination' = registeredDevices[i]
            BY <2>1, <3>1 DEF Destination
        <3>7. InWork(websocketppMessage.uuid) /\ websocketppMessage.uuid \in UUID
            BY <1>1, <2>1 DEF InWork, ParseTypeOK, Packet
        <3>8. ~InOutbox(websocketppMessage.uuid)
            BY <3>7 DEF KeptEach, Kept, Waiting
        <3>9. QED
            BY <2>1, <3>3, <3>5, <3>6, <3>8
    <2>3. CASE ~LookUp
        <3>1. UNCHANGED pointer
            BY <2>1, <2>3 DEF MainStep, FailIlltyped, CreateDevice, IgnoreUnknownType,
                InsertDevice, HandleReport, HandleNothing, HandleDeviceCommand,
                ForwardToWebsite, ForwardToNobody, HandleWebsiteUpdate, ReplyNotCreated,
                DropMessage, GetMessage, Transmit, TransmitDangling
        <3>2. QED
            BY <2>1, <3>1 DEF OffTarget, Destination, Dangling
    <2>4. QED
        BY <2>2, <2>3
<1>4. CASE ~Parse /\ ~Main
    <2>1. UNCHANGED <<registeredDevices, capacity, parsing, websocketppMessage, pointer>>
        BY <1>4 DEF Next, Heartbeat, Receive, MessageReceived, Disconnect, ConnectionClosed,
            StopListening, StartSocketEnds, Polling, Ended, vars, registryVars, parseVars,
            mainVars
    <2>2. QED
        BY <2>1 DEF OffTarget, Destination, Dangling
<1>5. QED
    BY <1>2, <1>3, <1>4

LEMMA InitAimed == Init => Aimed /\ OffTarget
BY DEF Init, RegistryInit, ParseInit, MainInit, Aimed, OffTarget, NoPointer

(* SocketServer.cpp:71, 183: if no UUID's text occurs in another's, main   *)
(* sends nothing through the list to a device whose registration the parse *)
(* thread has not passed on yet, not even through a pointer it held from   *)
(* before.                                                                 *)
THEOREM ServerLeavesRegistrations ==
    ExactMatch => (Spec => []RegistrationUntouched)
<1> SUFFICES ASSUME ExactMatch PROVE Spec => []RegistrationUntouched
    OBVIOUS
<1> DEFINE All == Typed /\ KeptEach /\ Aimed /\ OffTarget
<1>1. Init => All
    BY InitTyped, InitKept, InitAimed
<1>2. All /\ [Next]_vars => All'
    BY TypedInductive, KeptInductive, AimedInductive, OffTargetInductive
<1>3. All => RegistrationUntouched
    <2> SUFFICES ASSUME Typed, KeptEach, OffTarget, parsing = "passOn",
                        websocketppMessage.command = "REGISTRATION"
                 PROVE  \A i \in 1..Len(outbox) : outbox[i] # websocketppMessage.uuid
        BY DEF RegistrationUntouched, OffTarget
    <2>1. InWork(websocketppMessage.uuid) /\ websocketppMessage.uuid \in UUID
        BY DEF Typed, TypeOK, InWork, ParseTypeOK, Packet
    <2>2. QED
        BY <2>1 DEF KeptEach, Kept, Waiting, InOutbox
<1> HIDE DEF All
<1>4. QED
    BY <1>1, <1>2, <1>3, PTL DEF Spec

-----------------------------------------------------------------------------
(* The connection a device is reached on.                                  *)

RegistersAt(u, i) == RxQueue[i].command = "REGISTRATION" /\ RxQueue[i].uuid = u

NoneWaits(u) == \A j \in 1..Len(RxQueue) : ~RegistersAt(u, j)

(* The youngest registration of u that was received, whether it waits, is  *)
(* in work or is listed, came on the latest connection.                    *)
Youngest(u) ==
    /\ \A i \in 1..Len(RxQueue) :
        RegistersAt(u, i) /\ (\A j \in i+1..Len(RxQueue) : ~RegistersAt(u, j))
            => RxQueue[i].conn = latest[u]
    /\ NoneWaits(u) =>
        /\ BeingReplaced(u) => websocketppMessage.conn = latest[u]
        /\ \A i \in 1..Len(registeredDevices) :
            registeredDevices[i].uuid = u => registeredDevices[i].conn = latest[u]

YoungestEach == \A u \in UUID : Youngest(u)

(* The elements of the list after a registration.                          *)
LEMMA RegisterAdds ==
    ASSUME RegistryTypeOK, NEW p \in Packet, RegisterDevice(p),
           NEW i \in 1..Len(registeredDevices')
    PROVE  \/ \E j \in 1..Len(registeredDevices) :
                registeredDevices'[i] = registeredDevices[j]
           \/ registeredDevices'[i] = [uuid |-> p.uuid, conn |-> p.conn]
<1> DEFINE r == [uuid |-> p.uuid, conn |-> p.conn]
<1>1. registeredDevices \in Seq([uuid : UUID, conn : Connection])
    BY DEF RegistryTypeOK
<1>2. registeredDevices' = Append(registeredDevices, r)
    BY DEF RegisterDevice
<1> HIDE DEF r
<1>3. \/ i \in 1..Len(registeredDevices) /\ registeredDevices'[i] = registeredDevices[i]
      \/ registeredDevices'[i] = r
    BY <1>1, <1>2
<1>4. QED
    BY <1>3 DEF r

(* And after an erasure.                                                   *)
LEMMA EraseKeeps ==
    ASSUME RegistryTypeOK, ListedOnce, NEW u \in UUID, EraseRegistration(u),
           NEW i \in 1..Len(registeredDevices')
    PROVE  \E j \in 1..Len(registeredDevices) :
                registeredDevices'[i] = registeredDevices[j]
<1> DEFINE exact == {j \in 1..Len(registeredDevices) : registeredDevices[j].uuid = u}
<1>1. CASE exact = {}
    BY <1>1 DEF EraseRegistration
<1>2. CASE exact # {}
    <2>1. PICK k \in 1..Len(registeredDevices) : registeredDevices[k].uuid = u
        BY <1>2
    <2>2. exact = {k}
        BY <2>1 DEF ListedOnce
    <2>3. Min(exact) = k
        BY <2>2 DEF Min
    <2>4. registeredDevices' = RemoveAt(registeredDevices, k)
        BY <1>2, <2>3 DEF EraseRegistration
    <2>5. registeredDevices \in Seq([uuid : UUID, conn : Connection])
        BY DEF RegistryTypeOK
    <2>6. /\ Len(registeredDevices') = Len(registeredDevices) - 1
          /\ registeredDevices'[i] =
                IF i < k THEN registeredDevices[i] ELSE registeredDevices[i+1]
        BY <2>1, <2>4, <2>5, RemoveAtProperties
    <2>7. i \in 1..Len(registeredDevices) /\ i+1 \in 1..Len(registeredDevices)
        BY <2>5, <2>6
    <2>8. QED
        BY <2>6, <2>7
<1>3. QED
    BY <1>1, <1>2

(* A registration that is received is the youngest.                        *)
LEMMA ReceiveYoungest ==
    ASSUME Typed, YoungestEach, NEW packet \in Incoming, Receive(packet), NEW u \in UUID
    PROVE  Youngest(u)'
<1> DEFINE n == Len(RxQueue)
           reg == packet.command = "REGISTRATION" /\ packet.uuid = u
<1>1. /\ packet \in Packet /\ RxQueue \in Seq(Packet) /\ RxQueue' = Append(RxQueue, packet)
      /\ latest \in [UUID -> Connection \cup {NoConnection}] /\ Youngest(u)
      /\ UNCHANGED <<registeredDevices, parsing, websocketppMessage>>
    BY IncomingAssumption DEF Receive, MessageReceived, Typed, TypeOK, BackendTypeOK,
        registryVars, parseVars, YoungestEach
<1>2. /\ n \in Nat /\ Len(RxQueue') = n + 1
      /\ \A i \in 1..n : RxQueue'[i] = RxQueue[i]
      /\ RxQueue'[n+1] = packet
    BY <1>1
<1>3. latest'[u] = IF reg THEN packet.conn ELSE latest[u]
    BY <1>1 DEF Receive
<1>4. /\ \A i \in 1..n : RegistersAt(u, i)' <=> RegistersAt(u, i)
      /\ \A i : i = n+1 => (RegistersAt(u, i)' <=> reg)
    BY <1>2 DEF RegistersAt
<1>5. NoneWaits(u)' <=> NoneWaits(u) /\ ~reg
    <2>1. 1..(n+1) = (1..n) \cup {n+1}
        BY <1>2
    <2>2. QED
        BY <1>2, <1>4, <2>1 DEF NoneWaits
<1>6. ASSUME NEW i \in 1..Len(RxQueue'), RegistersAt(u, i)',
             \A j \in i+1..Len(RxQueue') : ~RegistersAt(u, j)'
      PROVE  RxQueue'[i].conn = latest'[u]
    <2>1. CASE reg
        <3>1. n+1 \notin i+1..n+1
            BY <1>2, <1>4, <1>6, <2>1
        <3>2. i = n+1
            BY <1>2, <3>1
        <3>3. QED
            BY <1>2, <1>3, <2>1, <3>2
    <2>2. CASE ~reg
        <3>1. i # n+1
            BY <1>4, <1>6, <2>2
        <3>2. i \in 1..n /\ i+1..n \subseteq i+1..n+1 /\ i+1..n \subseteq 1..n
            BY <1>2, <3>1
        <3>3. RegistersAt(u, i) /\ \A j \in i+1..n : ~RegistersAt(u, j)
            BY <1>2, <1>4, <1>6, <3>2
        <3>4. RxQueue[i].conn = latest[u]
            BY <1>1, <3>2, <3>3 DEF Youngest
        <3>5. QED
            BY <1>2, <1>3, <2>2, <3>2, <3>4
    <2>3. QED
        BY <2>1, <2>2
<1>7. ASSUME NoneWaits(u)'
      PROVE  /\ BeingReplaced(u)' => websocketppMessage'.conn = latest'[u]
             /\ \A i \in 1..Len(registeredDevices') :
                    registeredDevices'[i].uuid = u => registeredDevices'[i].conn = latest'[u]
    <2>1. NoneWaits(u) /\ latest'[u] = latest[u]
        BY <1>3, <1>5, <1>7
    <2>2. QED
        BY <1>1, <2>1 DEF Youngest, BeingReplaced
<1>8. QED
    BY <1>6, <1>7 DEF Youngest

(* Taking a packet uncovers the next; when no registration of u is left    *)
(* and the packet was one, it is the youngest.                             *)
LEMMA TakeYoungest ==
    ASSUME Typed, NEW next \in {"idle", "reregister", "heartbeat", "passOn"},
           TakePacket(next), UNCHANGED latest, NEW u \in UUID, Youngest(u)
    PROVE  LET p == Head(RxQueue)
           IN  /\ \A i \in 1..Len(RxQueue') :
                    RegistersAt(u, i)' /\ (\A j \in i+1..Len(RxQueue') : ~RegistersAt(u, j)')
                        => RxQueue'[i].conn = latest'[u]
               /\ NoneWaits(u)' /\ p.command = "REGISTRATION" /\ p.uuid = u
                    => p.conn = latest'[u]
               /\ NoneWaits(u)' /\ ~(p.command = "REGISTRATION" /\ p.uuid = u)
                    => NoneWaits(u)
<1> DEFINE n == Len(RxQueue)
           reg == Head(RxQueue).command = "REGISTRATION" /\ Head(RxQueue).uuid = u
<1>1. /\ RxQueue \in Seq(Packet) /\ RxQueue # <<>> /\ RxQueue' = Tail(RxQueue)
      /\ latest'[u] = latest[u]
    BY DEF Typed, TypeOK, BackendTypeOK, TakePacket
<1>2. /\ n \in Nat /\ n > 0 /\ Len(RxQueue') = n - 1
      /\ \A i \in 1..n-1 : RxQueue'[i] = RxQueue[i+1]
      /\ Head(RxQueue) = RxQueue[1]
    BY <1>1, HeadTailProperties
<1>3. /\ \A i \in 1..n-1 : RegistersAt(u, i)' <=> RegistersAt(u, i+1)
      /\ RegistersAt(u, 1) <=> reg
    BY <1>2 DEF RegistersAt
<1>4. ASSUME NoneWaits(u)', NEW k \in 2..n PROVE ~RegistersAt(u, k)
    <2>1. k-1 \in 1..n-1 /\ (k-1)+1 = k
        BY <1>2
    <2>2. QED
        BY <1>2, <1>3, <1>4, <2>1 DEF NoneWaits
<1>5. ASSUME NEW i \in 1..n-1, RegistersAt(u, i)',
             \A j \in i+1..n-1 : ~RegistersAt(u, j)'
      PROVE  RxQueue'[i].conn = latest'[u]
    <2>1. ASSUME NEW k \in (i+1)+1..n PROVE ~RegistersAt(u, k)
        <3>1. k-1 \in i+1..n-1 /\ k-1 \in 1..n-1 /\ (k-1)+1 = k
            BY <1>2
        <3>2. QED
            BY <1>3, <1>5, <3>1
    <2>2. i+1 \in 1..n /\ RegistersAt(u, i+1)
        BY <1>2, <1>3, <1>5
    <2>3. RxQueue[i+1].conn = latest[u]
        BY <2>1, <2>2 DEF Youngest
    <2>4. QED
        BY <1>1, <1>2, <2>3
<1>6. ASSUME NoneWaits(u)', reg PROVE RxQueue[1].conn = latest'[u]
    <2>1. 1 \in 1..n /\ 1+1 = 2
        BY <1>2
    <2>2. \A j \in 1+1..n : ~RegistersAt(u, j)
        BY <1>4, <1>6, <2>1
    <2>3. QED
        BY <1>1, <1>3, <1>6, <2>1, <2>2 DEF Youngest
<1>7. ASSUME NoneWaits(u)', ~reg PROVE NoneWaits(u)
    <2>1. 1..n = {1} \cup 2..n
        BY <1>2
    <2>2. QED
        BY <1>3, <1>4, <1>7, <2>1 DEF NoneWaits
<1>8. QED
    BY <1>2, <1>5, <1>6, <1>7

LEMMA ParseYoungest ==
    ASSUME Typed, Parse, NEW u \in UUID, Youngest(u) PROVE Youngest(u)'
<1>1. /\ TypeOK /\ ListedOnce /\ RegistryTypeOK /\ ParseTypeOK /\ ParseStep
      /\ UNCHANGED latest
    BY DEF Typed, TypeOK, Parse
<1> DEFINE Reached == /\ BeingReplaced(u) => websocketppMessage.conn = latest[u]
                      /\ \A i \in 1..Len(registeredDevices) :
                            registeredDevices[i].uuid = u
                                => registeredDevices[i].conn = latest[u]
           p == Head(RxQueue)
           reg == p.command = "REGISTRATION" /\ p.uuid = u
<1>2. NoneWaits(u) => Reached
    BY DEF Youngest
<1>3. ASSUME NEW next \in {"idle", "reregister", "heartbeat", "passOn"},
             TakePacket(next), NoneWaits(u)' => Reached'
      PROVE  Youngest(u)'
    BY <1>1, <1>3, TakeYoungest DEF Youngest
<1>4. ASSUME NEW next \in {"idle", "reregister", "heartbeat", "passOn"}, TakePacket(next)
      PROVE  /\ p \in Packet /\ p.uuid \in UUID /\ parsing = "idle" /\ parsing' = next
             /\ next # "idle" => websocketppMessage' = p
             /\ NoneWaits(u)' /\ reg => p.conn = latest'[u]
             /\ NoneWaits(u)' /\ ~reg => NoneWaits(u)
    BY <1>1, <1>4, TakeType, TakeYoungest DEF Packet
<1>5. CASE RegisterNew
    <2>1. /\ TakePacket("passOn") /\ RegisterDevice(p) /\ ~Listed(p.uuid)
          /\ p.command = "REGISTRATION"
        BY <1>1, <1>4, <1>5, SubstringAssumption
        DEF RegisterNew, IsDeviceRegistered, RegistrationsOf, Listed
    <2>2. NoneWaits(u)' => Reached'
        <3> SUFFICES ASSUME NoneWaits(u)', NEW i \in 1..Len(registeredDevices'),
                            registeredDevices'[i].uuid = u
                     PROVE  registeredDevices'[i].conn = latest'[u]
            BY <1>4, <2>1 DEF BeingReplaced
        <3>1. p \in Packet
            BY <1>4, <2>1
        <3>2. CASE registeredDevices'[i] = [uuid |-> p.uuid, conn |-> p.conn]
            BY <1>4, <2>1, <3>2
        <3>3. ASSUME NEW j \in 1..Len(registeredDevices),
                     registeredDevices'[i] = registeredDevices[j]
              PROVE  registeredDevices'[i].conn = latest'[u]
            <4>1. ~reg
                BY <2>1, <3>3 DEF Listed
            <4>2. QED
                BY <1>1, <1>2, <1>4, <2>1, <3>3, <4>1
        <3> HIDE DEF p
        <3>4. QED
            BY <1>1, <2>1, <3>1, <3>2, <3>3, RegisterAdds
    <2>3. QED
        BY <1>3, <2>1, <2>2
<1>6. CASE EraseOld
    <2>1. /\ TakePacket("reregister") /\ EraseRegistration(p.uuid)
          /\ p.command = "REGISTRATION"
        BY <1>6 DEF EraseOld
    <2>2. p.uuid \in UUID
        BY <1>4, <2>1
    <2>3. NoneWaits(u)' => Reached'
        <3> SUFFICES ASSUME NoneWaits(u)' PROVE Reached'
            OBVIOUS
        <3>1. BeingReplaced(u)' => websocketppMessage'.conn = latest'[u]
            BY <1>4, <2>1 DEF BeingReplaced
        <3>2. ASSUME NEW i \in 1..Len(registeredDevices'), registeredDevices'[i].uuid = u
              PROVE  registeredDevices'[i].conn = latest'[u]
            <4>1. PICK j \in 1..Len(registeredDevices) :
                        registeredDevices'[i] = registeredDevices[j]
                BY <1>1, <2>1, <2>2, EraseKeeps
            <4>2. u # p.uuid
                BY <1>1, <2>1, <2>2, <3>2, EraseType DEF Listed
            <4>3. QED
                BY <1>1, <1>2, <1>4, <2>1, <3>2, <4>1, <4>2
        <3>3. QED
            BY <3>1, <3>2
    <2>4. QED
        BY <1>3, <2>1, <2>3
<1>7. CASE RejectInvalid \/ FailUnnamed \/ RejectUnregistered \/ TakeHeartbeatPacket
           \/ TakeOther
    <2>1. PICK next \in {"idle", "heartbeat", "passOn"} :
                TakePacket(next) /\ p.command # "REGISTRATION" /\ UNCHANGED registeredDevices
        BY <1>7 DEF RejectInvalid, FailUnnamed, RejectUnregistered, TakeHeartbeatPacket,
            TakeOther, registryVars
    <2>2. NoneWaits(u)' => Reached'
        BY <1>1, <1>2, <1>4, <2>1 DEF BeingReplaced
    <2>3. QED
        BY <1>3, <2>1, <2>2
<1>8. ASSUME UNCHANGED RxQueue, NoneWaits(u)' => Reached' PROVE Youngest(u)'
    BY <1>1, <1>8 DEF Youngest, RegistersAt, NoneWaits
<1>9. UNCHANGED RxQueue => (NoneWaits(u)' <=> NoneWaits(u))
    BY DEF NoneWaits, RegistersAt
<1>10. CASE ReRegister
    <2> DEFINE q == websocketppMessage
    <2>1. /\ RegisterDevice(q) /\ ~Listed(q.uuid) /\ UNCHANGED RxQueue
          /\ parsing = "reregister" /\ parsing' = "idle" /\ q \in Packet
        BY <1>1, <1>10 DEF ReRegister, ListedOnce, ParseTypeOK, backendVars
    <2>2. ASSUME NoneWaits(u)', NEW i \in 1..Len(registeredDevices'),
                 registeredDevices'[i].uuid = u
          PROVE  registeredDevices'[i].conn = latest'[u]
        <3>1. Reached
            BY <1>2, <1>9, <2>1, <2>2
        <3>2. CASE registeredDevices'[i] = [uuid |-> q.uuid, conn |-> q.conn]
            BY <1>1, <2>1, <2>2, <3>1, <3>2 DEF BeingReplaced
        <3>3. ASSUME NEW j \in 1..Len(registeredDevices),
                     registeredDevices'[i] = registeredDevices[j]
              PROVE  registeredDevices'[i].conn = latest'[u]
            BY <1>1, <2>2, <3>1, <3>3
        <3> HIDE DEF q
        <3>4. QED
            BY <1>1, <2>1, <3>2, <3>3, RegisterAdds
    <2>3. QED
        BY <1>8, <2>1, <2>2 DEF BeingReplaced
<1>11. CASE QueueHeartbeat \/ PassOn
    <2>1. UNCHANGED <<RxQueue, registeredDevices>> /\ parsing' = "idle"
        BY <1>11 DEF QueueHeartbeat, PassOn, backendVars, registryVars
    <2>2. QED
        BY <1>1, <1>2, <1>8, <1>9, <2>1 DEF BeingReplaced
<1>12. QED
    BY <1>1, <1>5, <1>6, <1>7, <1>10, <1>11 DEF ParseStep

LEMMA YoungestInductive == Typed /\ YoungestEach /\ [Next]_vars => YoungestEach'
<1> SUFFICES ASSUME Typed, YoungestEach, [Next]_vars, NEW u \in UUID PROVE Youngest(u)'
    BY DEF YoungestEach
<1>1. CASE \E packet \in Incoming : Receive(packet)
    BY <1>1, ReceiveYoungest
<1>2. CASE Parse
    BY <1>2, ParseYoungest DEF YoungestEach
<1>3. CASE ~Parse /\ ~\E packet \in Incoming : Receive(packet)
    <2>1. ASSUME Main PROVE UNCHANGED <<RxQueue, registeredDevices>>
        BY <2>1 DEF Main, MainStep, FailIlltyped, CreateDevice, IgnoreUnknownType,
            InsertDevice, HandleReport, HandleNothing, HandleDeviceCommand,
            ForwardToWebsite, ForwardToNobody, HandleWebsiteUpdate, ReplyNotCreated,
            DropMessage, LookUp, Transmit, TransmitDangling, GetMessage, registryVars,
            backendVars
    <2>2. UNCHANGED <<RxQueue, registeredDevices, parsing, websocketppMessage, latest>>
        BY <1>3, <2>1 DEF Next, Heartbeat, Main, Disconnect, ConnectionClosed, StopListening,
            StartSocketEnds, Polling, Ended, vars, backendVars, registryVars, parseVars
    <2>3. QED
        BY <2>2 DEF YoungestEach, Youngest, NoneWaits, RegistersAt, BeingReplaced
<1>4. QED
    BY <1>1, <1>2, <1>3

LEMMA InitYoungest == Init => YoungestEach
BY DEF Init, BackendInit, RegistryInit, ParseInit, YoungestEach, Youngest, BeingReplaced

(* SocketServer.cpp:155-171: through any registrations and substrings, the *)
(* list leads to the connection a device registered on last, except while  *)
(* a younger registration of it waits.                                     *)
THEOREM ServerReachesLatest == Spec => []LatestConnection
<1>1. Typed /\ YoungestEach => LatestConnection
    <2> SUFFICES ASSUME Typed, YoungestEach, NEW i \in 1..Len(registeredDevices),
                        NoneWaits(registeredDevices[i].uuid)
                 PROVE  registeredDevices[i].conn = latest[registeredDevices[i].uuid]
        BY DEF LatestConnection, NoneWaits, RegistersAt
    <2>1. registeredDevices \in Seq([uuid : UUID, conn : Connection])
        BY DEF Typed, TypeOK, RegistryTypeOK
    <2>2. registeredDevices[i] \in [uuid : UUID, conn : Connection]
        BY <2>1, ElementType
    <2>3. QED
        BY <2>2 DEF YoungestEach, Youngest
<1>2. QED
    BY <1>1, InitTyped, TypedInductive, InitYoungest, YoungestInductive, PTL DEF Spec

-----------------------------------------------------------------------------
(* A record's status is the last word main has or will have on its device, *)
(* except from the step that makes the record to the report that follows   *)
(* in the same round; main has an object for every report it takes.        *)

IsReport(m, u) == m.command = "HEARTBEAT" /\ m.uuid = u

(* After the messages of q the status of u is s, being d before them.      *)
Word(q, d, u, s) ==
    \/ d = s /\ \A i \in 1..Len(q) : ~IsReport(q[i], u)
    \/ \E k \in 1..Len(q) :
        /\ IsReport(q[k], u) /\ q[k].arg = s
        /\ \A i \in k+1..Len(q) : ~IsReport(q[i], u)

LastWord(u) == Word(messageQueue, devices[u], u, hbStatus[u])

(* A record that was made in this round and not reported yet.              *)
New(u) ==
    /\ hbStatus[u] = "DISCONNECTED" /\ age[u] = 0
    /\ holding = "heartbeatLock" \/ u \in todo

Agreed(u) == LastWord(u) \/ New(u)

AgreedEach ==
    beating => \A u \in Recorded : Known(u) /\ ~IsWebsite(u) => Agreed(u)

-----------------------------------------------------------------------------
(* What queue operations do to the last word.                              *)

LEMMA WordAppend ==
    ASSUME NEW q \in Seq(Message), NEW m \in Message, NEW d, NEW u, NEW s,
           Word(q, d, u, s), ~IsReport(m, u)
    PROVE  Word(Append(q, m), d, u, s)
<1> DEFINE n == Len(q)
           r == Append(q, m)
<1>1. /\ n \in Nat /\ Len(r) = n + 1
      /\ \A i \in 1..n : r[i] = q[i]
      /\ r[n+1] = m
    OBVIOUS
<1> HIDE DEF r
<1>2. \A i \in 1..n+1 : IsReport(r[i], u) => i \in 1..n /\ IsReport(q[i], u)
    <2> SUFFICES ASSUME NEW i \in 1..n+1, IsReport(r[i], u)
                 PROVE  i \in 1..n /\ IsReport(q[i], u)
        OBVIOUS
    <2>1. i # n+1
        BY <1>1
    <2>2. QED
        BY <1>1, <2>1
<1>3. CASE d = s /\ \A i \in 1..n : ~IsReport(q[i], u)
    BY <1>1, <1>2, <1>3 DEF Word, r
<1>4. ASSUME NEW k \in 1..n, IsReport(q[k], u), q[k].arg = s,
             \A i \in k+1..n : ~IsReport(q[i], u)
      PROVE  Word(r, d, u, s)
    <2>1. k \in 1..n+1 /\ IsReport(r[k], u) /\ r[k].arg = s
        BY <1>1, <1>4
    <2>2. \A i \in k+1..n+1 : ~IsReport(r[i], u)
        <3> SUFFICES ASSUME NEW i \in k+1..n+1, IsReport(r[i], u) PROVE FALSE
            OBVIOUS
        <3>1. i \in 1..n+1
            BY <1>1
        <3>2. i \in 1..n /\ IsReport(q[i], u)
            BY <1>2, <3>1
        <3>3. i \in k+1..n
            BY <1>1, <3>2
        <3>4. QED
            BY <1>4, <3>2, <3>3
    <2>3. QED
        BY <1>1, <2>1, <2>2 DEF Word
<1>5. QED
    BY <1>3, <1>4 DEF Word, r

LEMMA WordReport ==
    ASSUME NEW q \in Seq(Message), NEW m \in Message, NEW d, NEW u, IsReport(m, u)
    PROVE  Word(Append(q, m), d, u, m.arg)
<1>1. /\ Len(q) \in Nat /\ Len(Append(q, m)) = Len(q) + 1
      /\ Append(q, m)[Len(q) + 1] = m
    OBVIOUS
<1> DEFINE r == Append(q, m)
           n == Len(q)
<1>2. n \in Nat /\ Len(r) = n + 1 /\ r[n+1] = m
    BY <1>1
<1> HIDE DEF r, n
<1>3. n+1 \in 1..n+1 /\ \A i \in (n+1)+1..n+1 : FALSE
    BY <1>2
<1>4. QED
    BY <1>2, <1>3 DEF Word, r

LEMMA WordTail ==
    ASSUME NEW q \in Seq(Message), q # <<>>, NEW d, NEW u, NEW s, Word(q, d, u, s)
    PROVE  /\ ~IsReport(Head(q), u) => Word(Tail(q), d, u, s)
           /\ IsReport(Head(q), u) => Word(Tail(q), Head(q).arg, u, s)
<1> DEFINE n == Len(q)
           r == Tail(q)
           e == IF IsReport(Head(q), u) THEN Head(q).arg ELSE d
<1>1. /\ n \in Nat /\ n > 0 /\ Len(r) = n - 1
      /\ \A i \in 1..n-1 : r[i] = q[i+1]
      /\ Head(q) = q[1]
    BY HeadTailProperties
<1> HIDE DEF r, e
<1>2. ASSUME NEW k \in 1..n, IsReport(q[k], u), q[k].arg = s,
             \A i \in k+1..n : ~IsReport(q[i], u)
      PROVE  Word(r, e, u, s)
    <2>1. CASE k = 1
        <3>1. e = s
            BY <1>1, <1>2, <2>1 DEF e
        <3>2. \A i \in 1..n-1 : i+1 \in k+1..n
            BY <1>1, <2>1
        <3>3. \A i \in 1..n-1 : ~IsReport(r[i], u)
            BY <1>1, <1>2, <3>2
        <3>4. QED
            BY <1>1, <3>1, <3>3 DEF Word
    <2>2. CASE k # 1
        <3>1. k-1 \in 1..n-1 /\ (k-1)+1 = k
            BY <1>1, <2>2
        <3>2. IsReport(r[k-1], u) /\ r[k-1].arg = s
            BY <1>1, <1>2, <3>1
        <3>3. \A i \in (k-1)+1..n-1 : i \in 1..n-1 /\ i+1 \in k+1..n
            BY <1>1, <3>1
        <3>4. \A i \in (k-1)+1..n-1 : ~IsReport(r[i], u)
            BY <1>1, <1>2, <3>3
        <3>5. QED
            BY <1>1, <3>1, <3>2, <3>4 DEF Word
    <2>3. QED
        BY <2>1, <2>2
<1>3. Word(r, e, u, s)
    <2>1. CASE d = s /\ \A i \in 1..n : ~IsReport(q[i], u)
        <3>1. 1 \in 1..n /\ \A i \in 1..n-1 : i+1 \in 1..n
            BY <1>1
        <3>2. e = s /\ \A i \in 1..n-1 : ~IsReport(r[i], u)
            BY <1>1, <2>1, <3>1 DEF e
        <3>3. QED
            BY <1>1, <3>2 DEF Word
    <2>2. QED
        BY <1>2, <2>1 DEF Word
<1>4. QED
    BY <1>3 DEF r, e

-----------------------------------------------------------------------------
LEMMA NewRecordDue == StatusAt(0) = "CONNECTED"
<1>1. 0 % Wrap = 0
    <2>1. Wrap \in Nat /\ 0 < Wrap
        BY ClockAssumption
    <2>2. QED
        BY <2>1, SMT
<1>2. QED
    BY <1>1, ClockAssumption DEF StatusAt, Elapsed

(* The parse thread passes on no reports.                                  *)
LEMMA ParseAgrees == Typed /\ Parse /\ AgreedEach => AgreedEach'
<1> SUFFICES ASSUME Typed, Parse, AgreedEach, beating', NEW u \in Recorded',
                    Known(u), ~IsWebsite(u)
             PROVE  Agreed(u)'
    BY DEF AgreedEach, Known, IsWebsite
<1>1. /\ ParseStep /\ ParseTypeOK /\ Reports /\ messageQueue \in Seq(Message)
      /\ UNCHANGED <<devices, hbStatus, age, todo, beating>>
    BY DEF Typed, Parse, TypeOK, QueuesTypeOK, mainVars, heartbeatVars
<1>2. Agreed(u)
    BY <1>1 DEF AgreedEach, Recorded
<1>3. UNCHANGED holding
    BY <1>1 DEF ParseStep, RegisterNew, EraseOld, ReRegister, RejectInvalid, FailUnnamed,
        RejectUnregistered, TakeHeartbeatPacket, TakeOther, QueueHeartbeat, PassOn,
        TakePacket, queueVars
<1>4. CASE PassOn
    <2> DEFINE m == Payload(websocketppMessage)
    <2>1. messageQueue' = Append(messageQueue, m) /\ websocketppMessage \in Packet
        BY <1>1, <1>4 DEF PassOn, ParseTypeOK
    <2>2. m \in Message /\ ~IsReport(m, u)
        BY <1>1, <1>4, <2>1, PayloadType DEF PassOn, Payload, Reports, IsReport
    <2> HIDE DEF m
    <2>3. LastWord(u) => LastWord(u)'
        BY <1>1, <2>1, <2>2, WordAppend DEF LastWord
    <2>4. QED
        BY <1>1, <1>2, <1>3, <2>3 DEF Agreed, New
<1>5. CASE ~PassOn
    <2>1. UNCHANGED messageQueue
        BY <1>1, <1>5 DEF ParseStep, RegisterNew, EraseOld, ReRegister, RejectInvalid,
            FailUnnamed, RejectUnregistered, TakeHeartbeatPacket, TakeOther,
            QueueHeartbeat, TakePacket, queueVars
    <2>2. QED
        BY <1>1, <1>2, <1>3, <2>1 DEF Agreed, LastWord, New
<1>6. QED
    BY <1>4, <1>5

(* The heartbeat thread reports what it stores, and a new record before    *)
(* its round ends.                                                         *)
LEMMA HeartbeatAgrees == Typed /\ Heartbeat /\ AgreedEach => AgreedEach'
<1> SUFFICES ASSUME Typed, Heartbeat, AgreedEach, beating', NEW u \in Recorded',
                    Known(u), ~IsWebsite(u)
             PROVE  Agreed(u)'
    BY DEF AgreedEach, Known, IsWebsite
<1>1. /\ HeartbeatStep /\ HeartbeatTypeOK /\ messageQueue \in Seq(Message)
      /\ UNCHANGED devices
    BY DEF Typed, Heartbeat, TypeOK, QueuesTypeOK, mainVars
<1>2. u \in UUID
    BY DEF Recorded
<1>3. ASSUME UNCHANGED <<messageQueue, hbStatus>>
      PROVE  LastWord(u)' <=> LastWord(u)
    BY <1>1, <1>3 DEF LastWord
<1>4. ASSUME beating, u \in Recorded PROVE Agreed(u)
    BY <1>4 DEF AgreedEach
<1>5. ASSUME NEW d \in ClockSteps, WakeUp(d) PROVE Agreed(u)'
    <2>1. /\ UNCHANGED <<messageQueue, hbStatus>> /\ beating
          /\ holding = "none" /\ todo = {}
        BY <1>1, <1>5 DEF WakeUp, HeartbeatTypeOK
    <2>2. Agreed(u) /\ ~New(u)
        BY <1>4, <2>1 DEF Recorded, New
    <2>3. QED
        BY <1>3, <2>1, <2>2 DEF Agreed
<1>6. CASE TakeHeartbeat
    <2> DEFINE v == Head(heartbeatQueue).uuid
    <2>1. /\ age' = [age EXCEPT ![v] = 0]
          /\ hbStatus' = [hbStatus EXCEPT ![v] = IF v \in Recorded THEN @ ELSE "DISCONNECTED"]
          /\ holding = "heartbeatLock"
          /\ UNCHANGED <<messageQueue, holding, todo, beating>>
        BY <1>6 DEF TakeHeartbeat
    <2> HIDE DEF v
    <2>2. CASE u \in Recorded
        <3>1. hbStatus'[u] = hbStatus[u] /\ (age'[u] = age[u] \/ age'[u] = 0)
            BY <1>1, <1>2, <2>1, <2>2 DEF HeartbeatTypeOK
        <3>2. Agreed(u)
            BY <1>4, <2>1, <2>2
        <3>3. LastWord(u) => LastWord(u)'
            BY <1>1, <2>1, <3>1 DEF LastWord
        <3>4. New(u) => New(u)'
            BY <2>1, <3>1 DEF New
        <3>5. QED
            BY <3>2, <3>3, <3>4 DEF Agreed
    <2>3. CASE u \notin Recorded
        <3>1. u = v
            BY <1>1, <1>2, <2>1, <2>3 DEF Recorded, HeartbeatTypeOK
        <3>2. hbStatus'[u] = "DISCONNECTED" /\ age'[u] = 0
            BY <1>1, <1>2, <2>1, <2>3, <3>1 DEF HeartbeatTypeOK
        <3>3. QED
            BY <2>1, <3>2 DEF Agreed, New
    <2>4. QED
        BY <2>2, <2>3
<1>7. CASE StartScan
    <2>1. /\ UNCHANGED <<messageQueue, hbStatus, age, beating>> /\ todo' = Recorded
          /\ u \in Recorded
        BY <1>7 DEF StartScan, Recorded
    <2>2. Agreed(u)
        BY <1>4, <2>1
    <2>3. New(u) => New(u)'
        BY <2>1 DEF New
    <2>4. QED
        BY <1>3, <2>1, <2>2, <2>3 DEF Agreed
<1>8. ASSUME NEW v \in UUID, KeepStatus(v) PROVE Agreed(u)'
    <2>1. /\ UNCHANGED <<messageQueue, hbStatus, age, beating, holding>> /\ todo' = todo \ {v}
          /\ hbStatus[v] = StatusAt(age[v])
          /\ holding = "messageLock" /\ u \in Recorded
        BY <1>8 DEF KeepStatus, queueVars, Recorded
    <2>2. Agreed(u)
        BY <1>4, <2>1
    <2>3. New(u) => u # v
        BY <2>1, NewRecordDue DEF New
    <2>4. New(u) => New(u)'
        BY <2>1, <2>3 DEF New
    <2>5. QED
        BY <1>3, <2>1, <2>2, <2>4 DEF Agreed
<1>9. ASSUME NEW v \in UUID, PublishStatus(v) PROVE Agreed(u)'
    <2> DEFINE s == StatusAt(age[v])
               m == Report(v, s)
    <2>1. /\ UNCHANGED <<age, beating, holding>> /\ todo' = todo \ {v} /\ v \in todo
          /\ holding = "messageLock"
          /\ messageQueue' = Append(messageQueue, m)
          /\ hbStatus' = [hbStatus EXCEPT ![v] = s]
        BY <1>9 DEF PublishStatus
    <2>2. m \in Message /\ m.arg = s /\ (IsReport(m, u) <=> u = v)
        BY StatusType, ReportType DEF Report, IsReport
    <2> HIDE DEF s, m
    <2>3. CASE u = v
        <3>1. hbStatus'[u] = m.arg
            BY <1>1, <1>2, <2>1, <2>2, <2>3 DEF HeartbeatTypeOK
        <3>2. Word(messageQueue', devices'[u], u, m.arg)
            BY <1>1, <2>1, <2>2, <2>3, WordReport
        <3>3. QED
            BY <3>1, <3>2 DEF Agreed, LastWord
    <2>4. CASE u # v
        <3>1. hbStatus'[u] = hbStatus[u] /\ u \in Recorded
            BY <1>1, <1>2, <2>1, <2>4 DEF HeartbeatTypeOK, Recorded
        <3>2. Agreed(u)
            BY <1>4, <2>1, <3>1
        <3>3. LastWord(u) => LastWord(u)'
            BY <1>1, <2>1, <2>2, <2>4, <3>1, WordAppend DEF LastWord
        <3>4. New(u) => New(u)'
            BY <2>1, <2>4, <3>1 DEF New
        <3>5. QED
            BY <3>2, <3>3, <3>4 DEF Agreed
    <2>5. QED
        BY <2>3, <2>4
<1>10. CASE EndScan
    <2>1. /\ UNCHANGED <<messageQueue, hbStatus, age, beating, todo>>
          /\ holding = "messageLock" /\ todo = {} /\ u \in Recorded
        BY <1>10 DEF EndScan, heartbeatVars, Recorded
    <2>2. Agreed(u) /\ ~New(u)
        BY <1>4, <2>1 DEF New
    <2>3. QED
        BY <1>3, <2>1, <2>2 DEF Agreed
<1>11. ~HeartbeatFails
    BY DEF HeartbeatFails
<1>12. QED
    BY <1>1, <1>5, <1>6, <1>7, <1>8, <1>9, <1>10, <1>11 DEF HeartbeatStep

(* Main has an object for each report it takes and stores it.              *)
LEMMA MainAgrees ==
    Typed /\ AnnouncedEach /\ Main /\ AgreedEach => AgreedEach'
<1> SUFFICES ASSUME Typed, AnnouncedEach, Main, AgreedEach, beating', NEW u \in Recorded',
                    Known(u), ~IsWebsite(u)
             PROVE  Agreed(u)'
    BY DEF AgreedEach, Known, IsWebsite
<1>1. /\ MainStep /\ Reports /\ TypeOK /\ MainTypeOK /\ HeartbeatTypeOK
      /\ messageQueue \in Seq(Message)
      /\ UNCHANGED <<hbStatus, age, todo, beating>>
    BY DEF Typed, Main, TypeOK, QueuesTypeOK, heartbeatVars
<1>2. Agreed(u) /\ u \in UUID /\ hbStatus[u] \in Status
    BY <1>1 DEF AgreedEach, Recorded, HeartbeatTypeOK
<1>3. UNCHANGED holding
    BY <1>1 DEF MainStep, FailIlltyped, CreateDevice, IgnoreUnknownType, InsertDevice,
        HandleReport, HandleNothing, HandleDeviceCommand, ForwardToWebsite,
        ForwardToNobody, HandleWebsiteUpdate, ReplyNotCreated, DropMessage, LookUp,
        Transmit, TransmitDangling, GetMessage, queueVars
<1> DEFINE m == Head(messageQueue)
<1>4. SUFFICES LastWord(u) => LastWord(u)'
    BY <1>1, <1>2, <1>3 DEF Agreed, New
<1>5. ASSUME GetMessage, UNCHANGED devices, ~IsReport(m, u) PROVE LastWord(u) => LastWord(u)'
    <2>1. messageQueue # <<>> /\ messageQueue' = Tail(messageQueue)
        BY <1>5 DEF GetMessage
    <2>2. QED
        BY <1>1, <1>5, <2>1, WordTail DEF LastWord
<1>6. CASE \/ FailIlltyped \/ CreateDevice \/ IgnoreUnknownType \/ HandleDeviceCommand
           \/ ForwardToWebsite \/ ForwardToNobody \/ HandleWebsiteUpdate
    <2>1. GetMessage /\ UNCHANGED devices /\ m.command # "HEARTBEAT"
        BY <1>6 DEF FailIlltyped, CreateDevice, IgnoreUnknownType, HandleDeviceCommand,
            ForwardToWebsite, ForwardToNobody, HandleWebsiteUpdate
    <2>2. QED
        BY <1>5, <2>1 DEF IsReport
<1>7. CASE HandleNothing
    <2>1. GetMessage /\ UNCHANGED devices /\ (m.command = "HEARTBEAT" => IsWebsite(m.uuid))
        BY <1>7 DEF HandleNothing
    <2>2. QED
        BY <1>5, <2>1 DEF IsReport
<1>8. CASE ReplyNotCreated
    <2>1. GetMessage /\ UNCHANGED devices /\ m.uuid \notin Present /\ m.command # "REGISTRATION"
        BY <1>8 DEF ReplyNotCreated
    <2>2. ASSUME m.uuid = u PROVE FALSE
        <3>1. running /\ newDevice = NoDevice /\ messageQueue # <<>>
            BY <2>1 DEF GetMessage
        <3>2. Announced(u)
            BY <1>2, <3>1 DEF AnnouncedEach
        <3>3. ~Created(u)
            BY <1>2, <2>1, <2>2, <3>1, MainAssumption DEF Created
        <3>4. 1 \in 1..Len(messageQueue) /\ m = messageQueue[1]
            BY <1>1, <3>1, HeadTailProperties
        <3>5. PICK j \in 1..1 : RegistrationAt(u, j)
            BY <2>2, <3>2, <3>3, <3>4 DEF Announced, Ordered
        <3>6. j = 1
            OBVIOUS
        <3>7. QED
            BY <2>1, <3>4, <3>5, <3>6 DEF RegistrationAt
    <2>3. QED
        BY <1>5, <2>1, <2>2 DEF IsReport
<1>9. CASE HandleReport
    <2>1. /\ GetMessage /\ m.command = "HEARTBEAT"
          /\ devices' = [devices EXCEPT ![m.uuid] = m.arg]
          /\ messageQueue # <<>> /\ messageQueue' = Tail(messageQueue)
        BY <1>9 DEF HandleReport, GetMessage
    <2>2. devices'[u] = IF m.uuid = u THEN m.arg ELSE devices[u]
        BY <1>1, <1>2, <2>1 DEF MainTypeOK
    <2>3. IsReport(m, u) <=> m.uuid = u
        BY <2>1 DEF IsReport
    <2>4. QED
        BY <1>1, <2>1, <2>2, <2>3, WordTail DEF LastWord
<1>10. CASE InsertDevice
    <2>1. /\ UNCHANGED messageQueue
          /\ devices' = IF newDevice \in Present THEN devices
                        ELSE [devices EXCEPT ![newDevice] = "CONNECTED"]
        BY <1>10 DEF InsertDevice, queueVars
    <2>2. devices'[u] = devices[u] \/ devices[u] = "absent"
        BY <1>1, <1>2, <2>1 DEF Present, MainTypeOK
    <2>3. devices[u] = "absent" => devices[u] # hbStatus[u]
        BY <1>2 DEF Status
    <2>4. QED
        BY <1>1, <2>1, <2>2, <2>3 DEF LastWord, Word
<1>11. CASE DropMessage \/ LookUp \/ Transmit \/ TransmitDangling
    <2>1. UNCHANGED <<messageQueue, devices>>
        BY <1>11 DEF DropMessage, LookUp, Transmit, TransmitDangling, queueVars
    <2>2. QED
        BY <1>1, <2>1 DEF LastWord
<1>12. QED
    BY <1>1, <1>6, <1>7, <1>8, <1>9, <1>10, <1>11 DEF MainStep

LEMMA AgreedInductive ==
    Typed /\ AnnouncedEach /\ AgreedEach /\ [Next]_vars => AgreedEach'
<1> SUFFICES ASSUME Typed, AnnouncedEach, AgreedEach, [Next]_vars PROVE AgreedEach'
    OBVIOUS
<1>1. CASE ~Parse /\ ~Heartbeat /\ ~Main
    <2>1. UNCHANGED <<messageQueue, holding, devices, hbStatus, age, todo, beating>>
        BY <1>1 DEF Next, Receive, MessageReceived, Disconnect, ConnectionClosed,
            StopListening, StartSocketEnds, Polling, Ended, vars, queueVars,
            heartbeatVars, mainVars
    <2>2. QED
        BY <2>1 DEF AgreedEach, Agreed, LastWord, New, Recorded
<1>2. QED
    BY <1>1, ParseAgrees, HeartbeatAgrees, MainAgrees

LEMMA InitAgreed == Init => AgreedEach
BY DEF Init, HeartbeatInit, AgreedEach, Recorded

(* SocketServer.cpp:333-361, main.cpp:112-115: if no UUID's text occurs in *)
(* another's, then between two scans the status main has of a device, or   *)
(* will have after the reports in its queue, is the one on record.         *)
THEOREM ServerAgreesOnStatus == ExactMatch => (Spec => []StatusAgreement)
<1> SUFFICES ASSUME ExactMatch PROVE Spec => []StatusAgreement
    OBVIOUS
<1> DEFINE IInv == Typed /\ AnnouncedEach /\ AgreedEach
<1>1. Init => IInv
    BY InitTyped, InitAnnounced, InitAgreed
<1>2. IInv /\ [Next]_vars => IInv'
    BY TypedInductive, AnnouncedInductive, AgreedInductive
<1>3. IInv => StatusAgreement
    <2> SUFFICES ASSUME IInv, NEW u \in Recorded \ todo, Known(u), ~IsWebsite(u), beating,
                        holding # "heartbeatLock"
                 PROVE  StatusOnTheWay(u) = hbStatus[u]
        BY DEF StatusAgreement
    <2> DEFINE reports == {i \in 1..Len(messageQueue) :
                            messageQueue[i].command = "HEARTBEAT" /\ messageQueue[i].uuid = u}
    <2>1. LastWord(u) /\ Len(messageQueue) \in Nat
        BY DEF AgreedEach, Agreed, New, Typed, TypeOK, QueuesTypeOK
    <2>2. StatusOnTheWay(u) = IF reports = {} THEN devices[u]
                              ELSE messageQueue[Max(reports)].arg
        BY DEF StatusOnTheWay
    <2>3. CASE \A i \in 1..Len(messageQueue) : ~IsReport(messageQueue[i], u)
        <3>1. reports = {}
            BY <2>3 DEF IsReport
        <3>2. devices[u] = hbStatus[u]
            BY <2>1, <2>3 DEF LastWord, Word
        <3>3. QED
            BY <2>2, <3>1, <3>2
    <2>4. ASSUME NEW k \in 1..Len(messageQueue), IsReport(messageQueue[k], u),
                 messageQueue[k].arg = hbStatus[u],
                 \A i \in k+1..Len(messageQueue) : ~IsReport(messageQueue[i], u)
          PROVE  StatusOnTheWay(u) = hbStatus[u]
        <3>1. k \in reports /\ \A i \in reports : i \in Nat /\ k >= i
            BY <2>1, <2>4 DEF IsReport
        <3> HIDE DEF reports
        <3>2. Max(reports) = k
            <4>1. \E x \in reports : \A y \in reports : x >= y
                BY <3>1
            <4>2. Max(reports) \in reports /\ \A y \in reports : Max(reports) >= y
                BY <4>1 DEF Max
            <4>3. k \in Nat /\ Max(reports) \in Nat
                BY <3>1, <4>2
            <4>4. k >= Max(reports) /\ Max(reports) >= k
                BY <3>1, <4>2
            <4> DEFINE x == Max(reports)
            <4>5. x \in Nat /\ k >= x /\ x >= k
                BY <4>3, <4>4
            <4> HIDE DEF x
            <4>6. x = k
                BY <4>3, <4>5
            <4>7. QED
                BY <4>6 DEF x
        <3>3. QED
            BY <2>2, <2>4, <3>1, <3>2
    <2>5. QED
        BY <2>1, <2>3, <2>4 DEF LastWord, Word
<1> HIDE DEF IInv
<1>4. QED
    BY <1>1, <1>2, <1>3, PTL DEF Spec

=============================================================================
