---------------------------- MODULE ServerProofs ----------------------------
(***************************************************************************)
(* Proofs about Server, for every set of clients, every traffic and every  *)
(* value of the bounds: the first layer of the invariant, Typed (types,    *)
(* what may be in which queue, and that nothing is listed twice), which    *)
(* DeliveryProofs builds on; and, from the types alone, why the server is  *)
(* a channel from every client to main (ClientChannel).  What a client     *)
(* sent and main has still to get are selections of the queues; every step *)
(* of a thread appends to one of them, takes from one, or leaves both      *)
(* alone.                                                                  *)
(***************************************************************************)
EXTENDS Server, ListLemmas, TLAPS

(* What the types alone do not say: a message with the command HEARTBEAT   *)
(* is a status report, because the parse thread passes on neither          *)
(* heartbeats nor malformed packets; the thread re-registers for           *)
(* registrations only.                                                     *)
Reports ==
    /\ \A i \in 1..Len(messageQueue) :
        messageQueue[i].command = "HEARTBEAT" => messageQueue[i].arg \in Status
    /\ parsing = "passOn" =>
        websocketppMessage.command \notin {"HEARTBEAT", "MALFORMED"}

Typed == TypeOK /\ ListedOnce /\ Reports

-----------------------------------------------------------------------------
(* Facts about the operators the steps are made of.                        *)

LEMMA PayloadType == ASSUME NEW p \in Packet PROVE Payload(p) \in Message
BY DEF Payload, Packet, Message

LEMMA ReportType == ASSUME NEW u \in UUID, NEW s \in Status PROVE Report(u, s) \in Message
BY DEF Report, Message, Command, Argument

LEMMA StatusType == \A a : StatusAt(a) \in Status
BY DEF StatusAt, Status

LEMMA ClampType == ASSUME NEW a \in Int PROVE Clamp(a) \in -MaxAge .. MaxAge
BY ClockAssumption DEF Clamp

(* Registering appends to the list and keeps it within its allocation.     *)
LEMMA RegisterType ==
    ASSUME RegistryTypeOK, NEW p \in Packet, RegisterDevice(p)
    PROVE  /\ RegistryTypeOK'
           /\ Len(registeredDevices') = Len(registeredDevices) + 1
           /\ \A i \in 1..Len(registeredDevices) :
                registeredDevices'[i] = registeredDevices[i]
           /\ registeredDevices'[Len(registeredDevices')].uuid = p.uuid
<1> DEFINE r == [uuid |-> p.uuid, conn |-> p.conn]
<1>1. r \in [uuid : UUID, conn : Connection]
    BY DEF Packet
<1> HIDE DEF r
<1>2. registeredDevices' = Append(registeredDevices, r)
    BY DEF RegisterDevice, r
<1>3. capacity' \in Nat /\ Len(registeredDevices) + 1 <= capacity'
    BY DEF RegisterDevice, RegistryTypeOK
<1>4. r.uuid = p.uuid
    BY DEF r
<1>5. QED
    BY <1>1, <1>2, <1>3, <1>4 DEF RegistryTypeOK

(* A UUID that is not listed may be registered: every UUID still occurs    *)
(* once.                                                                   *)
LEMMA RegisterOnce ==
    ASSUME RegistryTypeOK, ListedOnce, NEW p \in Packet, RegisterDevice(p), ~Listed(p.uuid)
    PROVE  /\ \A i, j \in 1..Len(registeredDevices') :
                registeredDevices'[i].uuid = registeredDevices'[j].uuid => i = j
           /\ \A v \in UUID : Listed(v)' <=> Listed(v) \/ v = p.uuid
<1> DEFINE n == Len(registeredDevices)
<1>1. n \in Nat /\ Len(registeredDevices') = n + 1
    BY RegisterType DEF RegistryTypeOK
<1>2. /\ \A i \in 1..n : registeredDevices'[i].uuid = registeredDevices[i].uuid
      /\ registeredDevices'[n+1].uuid = p.uuid
    BY <1>1, RegisterType
<1>3. \A i \in 1..n : registeredDevices[i].uuid # p.uuid
    BY DEF Listed
<1>4. \A i, j \in 1..n : registeredDevices[i].uuid = registeredDevices[j].uuid => i = j
    BY DEF ListedOnce
<1> HIDE DEF n
<1>5. \A v : Listed(v)' <=> (\E i \in 1..n : registeredDevices[i].uuid = v) \/ v = p.uuid
    <2> TAKE v
    <2>1. 1..Len(registeredDevices') = (1..n) \cup {n+1}
        BY <1>1
    <2>2. QED
        BY <1>2, <2>1 DEF Listed
<1>6. \A v : Listed(v) <=> \E i \in 1..n : registeredDevices[i].uuid = v
    BY DEF Listed, n
<1>7. QED
    BY <1>1, <1>2, <1>3, <1>4, <1>5, <1>6

(* Erasing u from a list in which every UUID occurs once leaves the other  *)
(* registrations in their order, and no registration of u.                 *)
LEMMA EraseType ==
    ASSUME RegistryTypeOK, ListedOnce, NEW u \in UUID, EraseRegistration(u)
    PROVE  /\ RegistryTypeOK'
           /\ \A i, j \in 1..Len(registeredDevices') :
                registeredDevices'[i].uuid = registeredDevices'[j].uuid => i = j
           /\ \A v \in UUID : Listed(v)' <=> Listed(v) /\ v # u
<1> DEFINE exact == {i \in 1..Len(registeredDevices) : registeredDevices[i].uuid = u}
           R == [uuid : UUID, conn : Connection]
<1>0. capacity' = capacity /\ registeredDevices \in Seq(R)
    BY DEF EraseRegistration, RegistryTypeOK
<1>1. CASE exact = {}
    <2>1. registeredDevices' = registeredDevices
        BY <1>1 DEF EraseRegistration
    <2>2. QED
        BY <1>0, <1>1, <2>1 DEF ListedOnce, Listed, RegistryTypeOK
<1>2. CASE exact # {}
    <2>1. PICK k \in 1..Len(registeredDevices) : registeredDevices[k].uuid = u
        BY <1>2
    <2>2. exact = {k}
        BY <2>1 DEF ListedOnce
    <2>3. Min(exact) = k
        BY <2>2 DEF Min
    <2>4. registeredDevices' = RemoveAt(registeredDevices, k)
        BY <1>2, <2>3 DEF EraseRegistration
    <2>5. registeredDevices' \in Seq(R) /\ Without(registeredDevices, registeredDevices', k)
        BY <1>0, <2>1, <2>4, RemoveAtProperties DEF Without
    <2>6. RegistryTypeOK'
        BY <1>0, <2>5 DEF Without, RegistryTypeOK
    <2>7. Distinct(registeredDevices)
        BY DEF ListedOnce, Distinct
    <2>8. /\ Distinct(registeredDevices')
          /\ \A i \in 1..Len(registeredDevices') :
                /\ registeredDevices'[i].uuid # u
                /\ \E j \in 1..Len(registeredDevices) :
                    registeredDevices'[i] = registeredDevices[j]
          /\ \A j \in 1..Len(registeredDevices) : j # k =>
                \E i \in 1..Len(registeredDevices') :
                    registeredDevices'[i] = registeredDevices[j]
        BY <1>0, <2>1, <2>5, <2>7, WithoutProperties
    <2>9. \A v \in UUID : Listed(v)' => Listed(v) /\ v # u
        BY <2>8 DEF Listed
    <2>10. ASSUME NEW v \in UUID, Listed(v), v # u PROVE Listed(v)'
        <3>1. PICK j \in 1..Len(registeredDevices) : registeredDevices[j].uuid = v
            BY <2>10 DEF Listed
        <3>2. j # k
            BY <2>1, <2>10, <3>1
        <3>3. QED
            BY <2>8, <3>1, <3>2 DEF Listed
    <2>11. QED
        BY <2>6, <2>8, <2>9, <2>10 DEF Distinct
<1>3. QED
    BY <1>1, <1>2

-----------------------------------------------------------------------------
(* The parse thread.                                                       *)

LEMMA TakeType ==
    ASSUME TypeOK, NEW next \in {"idle", "reregister", "heartbeat", "passOn"},
           TakePacket(next)
    PROVE  /\ RxQueue # <<>> /\ Head(RxQueue) \in Packet
           /\ RxQueue' \in Seq(Packet)
           /\ ParseTypeOK'
           /\ parsing = "idle" /\ parsing' = next
           /\ next # "idle" => websocketppMessage' = Head(RxQueue)
           /\ UNCHANGED <<heartbeatQueue, messageQueue, holding, connectionVars>>
<1>1. RxQueue \in Seq(Packet) /\ RxQueue # <<>> /\ RxQueue' = Tail(RxQueue)
    BY DEF TypeOK, BackendTypeOK, TakePacket
<1>2. Head(RxQueue) \in Packet /\ RxQueue' \in Seq(Packet)
    BY <1>1, HeadTailProperties
<1>3. QED
    BY <1>1, <1>2, NoPacketAssumption DEF TakePacket, ParseTypeOK, TypeOK

(* What a step of the parse thread does to the registry.                   *)
LEMMA ParseRegistry ==
    ASSUME TypeOK, ListedOnce, ParseStep
    PROVE  RegistryTypeOK' /\ ListedOnce'
<1> USE DEF TypeOK
<1>1. CASE RegisterNew
    <2> DEFINE p == Head(RxQueue)
    <2>1. p \in Packet /\ RegisterDevice(p) /\ parsing' = "passOn"
        BY <1>1, TakeType DEF RegisterNew
    <2>2. ~Listed(p.uuid)
        BY <1>1, <2>1, SubstringAssumption
        DEF RegisterNew, IsDeviceRegistered, RegistrationsOf, Packet, Listed
    <2> HIDE DEF p
    <2>3. QED
        BY <2>1, <2>2, RegisterType, RegisterOnce DEF ListedOnce
<1>2. CASE EraseOld
    <2> DEFINE p == Head(RxQueue)
    <2>1. p \in Packet /\ EraseRegistration(p.uuid) /\ websocketppMessage' = p
        BY <1>2, TakeType DEF EraseOld
    <2>2. p.uuid \in UUID
        BY <2>1 DEF Packet
    <2> HIDE DEF p
    <2>3. QED
        BY <2>1, <2>2, EraseType DEF ListedOnce, Listed
<1>3. CASE ReRegister
    <2> DEFINE p == websocketppMessage
    <2>1. p \in Packet /\ RegisterDevice(p) /\ parsing' = "idle"
        BY <1>3 DEF ReRegister, ParseTypeOK
    <2>2. ~Listed(p.uuid)
        BY <1>3 DEF ReRegister, ListedOnce
    <2> HIDE DEF p
    <2>3. QED
        BY <2>1, <2>2, RegisterType, RegisterOnce DEF ListedOnce
<1>4. CASE ~(RegisterNew \/ EraseOld \/ ReRegister)
    <2>1. UNCHANGED registryVars /\ parsing' # "reregister"
        BY <1>4 DEF ParseStep, RejectInvalid, FailUnnamed, RejectUnregistered, TakeHeartbeatPacket,
            TakeOther, QueueHeartbeat, PassOn, TakePacket
    <2>2. QED
        BY <2>1 DEF registryVars, RegistryTypeOK, ListedOnce
<1>5. QED
    BY <1>1, <1>2, <1>3, <1>4

LEMMA ParseTyped == Typed /\ Parse => Typed'
<1> SUFFICES ASSUME Typed, Parse PROVE Typed'
    OBVIOUS
<1>1. TypeOK /\ ListedOnce /\ Reports /\ ParseStep
    BY DEF Typed, Parse
<1>2. RegistryTypeOK' /\ ListedOnce'
    BY <1>1, ParseRegistry
<1>3. HeartbeatTypeOK' /\ MainTypeOK' /\ latest' \in [UUID -> Connection \cup {NoConnection}]
    <2>1. UNCHANGED holding
        BY <1>1 DEF ParseStep, RejectInvalid, FailUnnamed, RejectUnregistered, RegisterNew, EraseOld,
            ReRegister, TakeHeartbeatPacket, TakeOther, QueueHeartbeat, PassOn, TakePacket,
            queueVars
    <2>2. QED
        BY <1>1, <2>1 DEF Parse, TypeOK, HeartbeatTypeOK, MainTypeOK, heartbeatVars, mainVars,
            Recorded
<1>4. QueuesTypeOK' /\ BackendTypeOK' /\ ParseTypeOK' /\ Reports'
    <2>1. CASE RejectInvalid \/ FailUnnamed \/ RejectUnregistered
        BY <1>1, <2>1, TakeType
        DEF RejectInvalid, FailUnnamed, RejectUnregistered, SendWebsocketppMessage, TypeOK,
            QueuesTypeOK, BackendTypeOK, Reports, connectionVars
    <2>2. CASE RegisterNew \/ TakeOther
        BY <1>1, <2>2, TakeType
        DEF RegisterNew, TakeOther, TypeOK, QueuesTypeOK, BackendTypeOK, Reports,
            connectionVars
    <2>3. CASE EraseOld \/ TakeHeartbeatPacket
        BY <1>1, <2>3, TakeType
        DEF EraseOld, TakeHeartbeatPacket, TypeOK, QueuesTypeOK, BackendTypeOK, Reports,
            connectionVars
    <2>4. CASE ReRegister
        BY <1>1, <2>4
        DEF ReRegister, TypeOK, QueuesTypeOK, BackendTypeOK, ParseTypeOK, Reports,
            queueVars, backendVars, connectionVars
    <2>5. CASE QueueHeartbeat
        <3>1. Payload(websocketppMessage) \in Message
            BY <1>1, <2>5, PayloadType DEF QueueHeartbeat, TypeOK, ParseTypeOK
        <3>2. heartbeatQueue' \in Seq(Message)
            BY <1>1, <2>5, <3>1 DEF QueueHeartbeat, TypeOK, QueuesTypeOK
        <3>3. QED
            BY <1>1, <2>5, <3>2
            DEF QueueHeartbeat, TypeOK, QueuesTypeOK, BackendTypeOK, ParseTypeOK, Reports,
                backendVars, connectionVars
    <2>6. CASE PassOn
        <3>1. websocketppMessage \in Packet
            BY <1>1, <2>6 DEF PassOn, TypeOK, ParseTypeOK
        <3>2. /\ Payload(websocketppMessage) \in Message
              /\ Payload(websocketppMessage).command # "HEARTBEAT"
            BY <1>1, <2>6, <3>1, PayloadType DEF PassOn, Payload, Reports
        <3> DEFINE m == Payload(websocketppMessage)
        <3> HIDE DEF m
        <3>3. messageQueue' = Append(messageQueue, m) /\ m \in Message /\ m.command # "HEARTBEAT"
            BY <2>6, <3>2 DEF PassOn, m
        <3>4. messageQueue' \in Seq(Message) /\ Reports'
            BY <1>1, <2>6, <3>3 DEF PassOn, Reports, TypeOK, QueuesTypeOK
        <3>5. QED
            BY <1>1, <2>6, <3>4
            DEF PassOn, TypeOK, QueuesTypeOK, BackendTypeOK, ParseTypeOK, backendVars, connectionVars
    <2>7. QED
        BY <1>1, <2>1, <2>2, <2>3, <2>4, <2>5, <2>6 DEF ParseStep
<1>5. QED
    BY <1>2, <1>3, <1>4 DEF Typed, TypeOK

-----------------------------------------------------------------------------
(* The heartbeat thread.                                                   *)

LEMMA DrainType ==
    ASSUME TypeOK, heartbeatQueue # <<>>, heartbeatQueue' = Tail(heartbeatQueue)
    PROVE  Head(heartbeatQueue).uuid \in UUID /\ heartbeatQueue' \in Seq(Message)
<1>1. heartbeatQueue \in Seq(Message)
    BY DEF TypeOK, QueuesTypeOK
<1>2. Head(heartbeatQueue) \in Message /\ heartbeatQueue' \in Seq(Message)
    BY <1>1, HeadTailProperties
<1>3. QED
    BY <1>2 DEF Message

LEMMA HeartbeatTyped == Typed /\ Heartbeat => Typed'
<1> SUFFICES ASSUME Typed, Heartbeat PROVE Typed'
    OBVIOUS
<1>1. TypeOK /\ ListedOnce /\ Reports /\ HeartbeatStep
    BY DEF Typed, Heartbeat
<1>2. /\ BackendTypeOK' /\ RegistryTypeOK' /\ ParseTypeOK' /\ MainTypeOK' /\ ListedOnce'
      /\ latest' \in [UUID -> Connection \cup {NoConnection}]
    BY <1>1
    DEF Heartbeat, TypeOK, BackendTypeOK, RegistryTypeOK, ParseTypeOK, MainTypeOK,
        ListedOnce, Listed, backendVars, connectionVars, registryVars, parseVars, mainVars
<1>3. UNCHANGED parsing /\ UNCHANGED websocketppMessage
    BY DEF Heartbeat, parseVars
<1>4. QueuesTypeOK' /\ HeartbeatTypeOK' /\ Reports'
    <2> USE DEF TypeOK, QueuesTypeOK, HeartbeatTypeOK, Recorded, MutexName
    <2>1. ASSUME NEW d \in ClockSteps, WakeUp(d)
          PROVE  QueuesTypeOK' /\ HeartbeatTypeOK' /\ Reports'
        <3>1. ASSUME NEW u \in UUID PROVE Clamp(age[u] + d) \in -MaxAge .. MaxAge
            <4>1. age[u] + d \in Int
                BY <1>1, ClockAssumption
            <4>2. QED
                BY <4>1, ClampType
        <3>2. age' \in [UUID -> -MaxAge .. MaxAge]
            BY <2>1, <3>1, ClockAssumption DEF WakeUp
        <3>3. QED
            BY <1>1, <1>3, <2>1, <3>2 DEF WakeUp, Reports
    <2>2. CASE TakeHeartbeat
        <3>1. Head(heartbeatQueue).uuid \in UUID /\ heartbeatQueue' \in Seq(Message)
            BY <1>1, <2>2, DrainType DEF TakeHeartbeat
        <3>2. age' \in [UUID -> -MaxAge .. MaxAge]
            BY <1>1, <2>2, <3>1, ClockAssumption DEF TakeHeartbeat
        <3>3. /\ hbStatus' \in [UUID -> Status \cup {"none"}]
              /\ Recorded \subseteq Recorded'
            BY <1>1, <2>2, <3>1 DEF TakeHeartbeat, Status
        <3>4. QED
            BY <1>1, <1>3, <2>2, <3>1, <3>2, <3>3 DEF TakeHeartbeat, Reports
    <2>3. CASE StartScan \/ HeartbeatFails
        <3>1. heartbeatQueue' \in Seq(Message)
            BY <1>1, <2>3, DrainType DEF StartScan, HeartbeatFails
        <3>2. QED
            BY <1>1, <1>3, <2>3, <3>1 DEF StartScan, HeartbeatFails, Reports
    <2>4. ASSUME NEW u \in UUID, KeepStatus(u)
          PROVE  QueuesTypeOK' /\ HeartbeatTypeOK' /\ Reports'
        BY <1>1, <1>3, <2>4 DEF KeepStatus, Reports, queueVars
    <2>5. ASSUME NEW u \in UUID, PublishStatus(u)
          PROVE  QueuesTypeOK' /\ HeartbeatTypeOK' /\ Reports'
        <3> DEFINE s == StatusAt(age[u])
                   m == Report(u, s)
        <3>1. s \in Status
            BY StatusType
        <3>2. m \in Message /\ m.arg \in Status
            BY <3>1, ReportType DEF Report
        <3>3. messageQueue' = Append(messageQueue, m)
            BY <2>5 DEF PublishStatus
        <3>4. hbStatus' = [hbStatus EXCEPT ![u] = s]
            BY <2>5 DEF PublishStatus
        <3> HIDE DEF s, m
        <3>5. hbStatus' \in [UUID -> Status \cup {"none"}] /\ Recorded \subseteq Recorded'
            BY <1>1, <3>1, <3>4 DEF Status
        <3>6. messageQueue' \in Seq(Message) /\ Reports'
            BY <1>1, <1>3, <3>2, <3>3 DEF Reports
        <3>7. QED
            BY <1>1, <2>5, <3>5, <3>6 DEF PublishStatus
    <2>6. CASE EndScan
        BY <1>1, <1>3, <2>6 DEF EndScan, Reports, heartbeatVars
    <2>7. QED
        BY <1>1, <2>1, <2>2, <2>3, <2>4, <2>5, <2>6 DEF HeartbeatStep
<1>5. QED
    BY <1>2, <1>4 DEF Typed, TypeOK

-----------------------------------------------------------------------------
(* The main thread.                                                        *)

LEMMA GetType ==
    ASSUME TypeOK, Reports, GetMessage
    PROVE  /\ messageQueue # <<>> /\ Head(messageQueue) \in Message
           /\ Head(messageQueue).command = "HEARTBEAT" =>
                Head(messageQueue).arg \in Status
           /\ messageQueue' \in Seq(Message)
           /\ \A i \in 1..Len(messageQueue') :
                messageQueue'[i].command = "HEARTBEAT" => messageQueue'[i].arg \in Status
           /\ outbox = <<>> /\ newDevice = NoDevice /\ pointer = NoPointer
           /\ UNCHANGED <<heartbeatQueue, holding, backendVars, registryVars, pointer>>
<1>1. messageQueue \in Seq(Message) /\ messageQueue # <<>> /\ messageQueue' = Tail(messageQueue)
    BY DEF TypeOK, QueuesTypeOK, GetMessage
<1>2. /\ Head(messageQueue) \in Message /\ messageQueue' \in Seq(Message)
      /\ Len(messageQueue') = Len(messageQueue) - 1
      /\ \A i \in 1..Len(messageQueue') : messageQueue'[i] = messageQueue[i+1]
      /\ Head(messageQueue) = messageQueue[1]
    BY <1>1, HeadTailProperties
<1>3. QED
    BY <1>1, <1>2 DEF Reports, GetMessage, TypeOK, MainTypeOK

LEMMA UpdateType == ASSUME MainTypeOK, UpdateWebsite PROVE outbox' \in Seq(UUID)
<1>1. CASE OfType("Website") = {}
    BY <1>1 DEF UpdateWebsite
<1>2. CASE OfType("Website") # {}
    <2>1. PICK website \in UUID : outbox' = <<website>>
        BY <1>2 DEF UpdateWebsite, GetDeviceByType, OfType, Present
    <2>2. QED
        BY <2>1
<1>3. QED
    BY <1>1, <1>2

LEMMA MainTyped == Typed /\ Main => Typed'
<1> SUFFICES ASSUME Typed, Main PROVE Typed'
    OBVIOUS
<1>1. TypeOK /\ ListedOnce /\ Reports /\ MainStep
    BY DEF Typed, Main
<1> DEFINE m == Head(messageQueue)
           Rest == QueuesTypeOK' /\ MainTypeOK' /\ Reports'
                   /\ UNCHANGED <<holding, backendVars, registryVars>>
<1>2. UNCHANGED <<parsing, websocketppMessage>>
    BY DEF Main, parseVars
<1>3. ASSUME GetMessage PROVE Rest
    <2>1. /\ m \in Message
          /\ m.command = "HEARTBEAT" => m.arg \in Status
          /\ outbox = <<>> /\ newDevice = NoDevice
          /\ pointer = NoPointer /\ pointer' = NoPointer
          /\ UNCHANGED <<heartbeatQueue, holding, backendVars, registryVars>>
          /\ messageQueue' \in Seq(Message) /\ Reports'
        BY <1>1, <1>2, <1>3, GetType DEF Reports
    <2>2. m.uuid \in UUID
        BY <2>1 DEF Message
    <2> HIDE DEF m
    <2>3. devices \in [UUID -> Status \cup {"absent"}] /\ pointer' \in [index : Nat, allocation : Nat]
        BY <1>1, <2>1 DEF TypeOK, MainTypeOK, NoPointer
    <2>4. SUFFICES /\ running' \in BOOLEAN
                   /\ devices' \in [UUID -> Status \cup {"absent"}]
                   /\ newDevice' \in UUID \cup {NoDevice}
                   /\ outbox' \in Seq(UUID)
        BY <1>1, <2>1, <2>3 DEF TypeOK, QueuesTypeOK, MainTypeOK
    <2> USE <1>1, <2>1, <2>2, <2>3 DEF TypeOK, QueuesTypeOK, MainTypeOK
    <2>5. CASE CreateDevice
        BY <2>5 DEF CreateDevice, m
    <2>6. CASE \/ FailIlltyped \/ IgnoreUnknownType \/ HandleNothing
               \/ ForwardToWebsite \/ ForwardToNobody
        <3>1. UNCHANGED <<devices, newDevice, outbox>>
            BY <2>6 DEF FailIlltyped, IgnoreUnknownType, HandleNothing, ForwardToWebsite,
                ForwardToNobody
        <3>2. running' \in {running, FALSE}
            BY <2>6 DEF FailIlltyped, IgnoreUnknownType, HandleNothing, ForwardToWebsite,
                ForwardToNobody
        <3>3. QED
            BY <3>1, <3>2
    <2>7. CASE HandleReport
        <3>1. UpdateWebsite /\ devices' = [devices EXCEPT ![m.uuid] = m.arg] /\ m.arg \in Status
              /\ UNCHANGED <<newDevice, running>>
            BY <2>7 DEF HandleReport, m
        <3>2. QED
            BY <3>1, UpdateType
    <2>8. CASE HandleDeviceCommand
        <3>1. outbox' \in SeqOf(Present, MaxSends) /\ UNCHANGED <<devices, newDevice, running>>
            BY <2>8 DEF HandleDeviceCommand
        <3>2. Present \subseteq UUID
            BY DEF Present
        <3>3. outbox' \in Seq(UUID)
            BY <3>1, <3>2, MainAssumption DEF SeqOf
        <3>4. QED
            BY <3>1, <3>3
    <2>9. CASE HandleWebsiteUpdate \/ ReplyNotCreated
        <3>1. outbox' = <<m.uuid>> /\ UNCHANGED <<devices, newDevice, running>>
            BY <2>9 DEF HandleWebsiteUpdate, ReplyNotCreated, m
        <3>2. QED
            BY <3>1
    <2>10. ~(InsertDevice \/ DropMessage \/ LookUp \/ Transmit \/ TransmitDangling)
        <3>1. ~InsertDevice
            BY DEF InsertDevice
        <3>2. ~(DropMessage \/ LookUp)
            BY DEF DropMessage, LookUp
        <3>3. ~(Transmit \/ TransmitDangling)
            BY DEF Transmit, TransmitDangling
        <3>4. QED
            BY <3>1, <3>2, <3>3
    <2>11. QED
        BY <2>5, <2>6, <2>7, <2>8, <2>9, <2>10 DEF MainStep
<1>4. ASSUME ~GetMessage PROVE Rest
    <2> USE DEF TypeOK, QueuesTypeOK, MainTypeOK, queueVars, Reports
    <2>1. CASE InsertDevice
        BY <1>1, <1>2, <2>1 DEF InsertDevice, Status, NoPointer
    <2>2. CASE DropMessage
        <3>1. outbox' \in Seq(UUID)
            BY <1>1, <2>2, HeadTailProperties DEF DropMessage
        <3>2. QED
            BY <1>1, <1>2, <2>2, <3>1 DEF DropMessage
    <2>3. CASE LookUp
        <3>1. PICK i \in GetRegisteredDevice(Head(outbox)) :
                    pointer' = [index |-> i, allocation |-> capacity]
            BY <2>3 DEF LookUp
        <3>2. i \in Nat /\ capacity \in Nat
            BY <1>1 DEF GetRegisteredDevice, RegistrationsOf, RegistryTypeOK
        <3>3. QED
            BY <1>1, <1>2, <2>3, <3>1, <3>2 DEF LookUp
    <2>4. CASE Transmit \/ TransmitDangling
        <3>1. outbox # <<>>
            BY <1>1, <2>4 DEF Transmit, TransmitDangling
        <3>2. outbox' \in Seq(UUID)
            <4>1. outbox' = Tail(outbox) /\ outbox \in Seq(UUID)
                BY <1>1, <2>4 DEF Transmit, TransmitDangling
            <4>2. QED
                BY <3>1, <4>1, HeadTailProperties
        <3>3. running' \in BOOLEAN
            BY <2>4 DEF Transmit, TransmitDangling, SendWebsocketppMessage
        <3>4. QED
            BY <1>1, <1>2, <2>4, <3>2, <3>3 DEF Transmit, TransmitDangling, NoPointer
    <2>5. QED
        BY <1>1, <1>4, <2>1, <2>2, <2>3, <2>4
        DEF MainStep, FailIlltyped, CreateDevice, IgnoreUnknownType, HandleReport,
            HandleNothing, HandleDeviceCommand, ForwardToWebsite, ForwardToNobody,
            HandleWebsiteUpdate, ReplyNotCreated
<1>5. Rest
    BY <1>3, <1>4
<1>6. /\ BackendTypeOK' /\ RegistryTypeOK' /\ ParseTypeOK' /\ HeartbeatTypeOK' /\ ListedOnce'
      /\ latest' \in [UUID -> Connection \cup {NoConnection}]
    BY <1>1, <1>2, <1>5
    DEF Main, TypeOK, BackendTypeOK, RegistryTypeOK, ParseTypeOK, HeartbeatTypeOK, Recorded,
        ListedOnce, Listed, backendVars, connectionVars, registryVars, heartbeatVars
<1>7. QED
    BY <1>5, <1>6 DEF Typed, TypeOK

-----------------------------------------------------------------------------
LEMMA TypedInductive == Typed /\ [Next]_vars => Typed'
<1> SUFFICES ASSUME Typed, [Next]_vars PROVE Typed'
    OBVIOUS
<1> USE DEF Typed, TypeOK, QueuesTypeOK, BackendTypeOK, RegistryTypeOK, ParseTypeOK,
            HeartbeatTypeOK, MainTypeOK, ListedOnce, Listed, Reports, Recorded,
            registryVars, parseVars, heartbeatVars, mainVars, queueVars
<1>1. ASSUME NEW packet \in Incoming, Receive(packet) PROVE Typed'
    <2>1. packet \in Packet /\ packet.uuid \in UUID /\ packet.conn \in Connection
        BY IncomingAssumption DEF Packet
    <2>2. RxQueue' \in Seq(Packet) /\ received' \in Nat
          /\ UNCHANGED <<queueVars, closed, listening>>
        BY <1>1, <2>1 DEF Receive, MessageReceived
    <2>3. latest' \in [UUID -> Connection \cup {NoConnection}]
        BY <1>1, <2>1 DEF Receive
    <2>4. UNCHANGED <<registryVars, parseVars, heartbeatVars, mainVars>>
        BY <1>1 DEF Receive
    <2>5. QED
        BY <2>2, <2>3, <2>4
<1>2. ASSUME NEW c \in Connection, Disconnect(c) PROVE Typed'
    BY <1>2 DEF Disconnect, ConnectionClosed
<1>3. CASE StopListening \/ Polling \/ Ended \/ UNCHANGED vars
    BY <1>3 DEF StopListening, StartSocketEnds, Polling, Ended, vars, backendVars, connectionVars
<1>4. QED
    BY <1>1, <1>2, <1>3, ParseTyped, HeartbeatTyped, MainTyped DEF Next

LEMMA InitTyped == Init => Typed
BY ClockAssumption
DEF Init, QueuesInit, BackendInit, RegistryInit, ParseInit, HeartbeatInit, MainInit, Typed,
    TypeOK, QueuesTypeOK, BackendTypeOK, RegistryTypeOK, ParseTypeOK, HeartbeatTypeOK,
    MainTypeOK, ListedOnce, Listed, Reports, Recorded, NoPointer, MutexName

(* Every variable of the server keeps to its type: for one, a status main  *)
(* stores is a status, the list fits its allocation, and a pointer is held *)
(* only while there is something to send.                                  *)
THEOREM ServerTyped == Spec => []TypeOK
BY InitTyped, TypedInductive, PTL DEF Spec, Typed

(* SocketServer.cpp:155-171: through any registrations, re-registrations   *)
(* and UUIDs that contain one another, no UUID is listed twice.            *)
THEOREM ServerListsOnce == Spec => []ListedOnce
BY InitTyped, TypedInductive, PTL DEF Spec, Typed

-----------------------------------------------------------------------------
(* The channels.                                                           *)

Payloads(q) == [i \in 1..Len(q) |-> Payload(q[i])]

(* A packet of u that the parse thread judges for main.                    *)
Judged(p, u) == p.uuid = u /\ p.command \notin {"HEARTBEAT", "MALFORMED", "UNNAMED"}

(* A message of u that u sent.                                             *)
Genuine(m, u) == m.uuid = u /\ m.command # "HEARTBEAT"

SentOf(q, u) == Select(Payloads(q), {i \in 1..Len(q) : Judged(q[i], u)})

QueuedOf(q, u) == Select(q, {i \in 1..Len(q) : Genuine(q[i], u)})

-----------------------------------------------------------------------------
(* The channels as selections, and what queue operations do to them.       *)

LEMMA SentIs ==
    /\ sent = [u \in UUID |-> SentOf(RxQueue, u)]
    /\ sent' = [u \in UUID |-> SentOf(RxQueue', u)]
BY DEF sent, SentOf, Payloads, Judged

LEMMA QueuedIs ==
    /\ queued = [u \in UUID |-> QueuedOf(messageQueue, u)]
    /\ queued' = [u \in UUID |-> QueuedOf(messageQueue', u)]
BY DEF queued, QueuedOf, Genuine

LEMMA PayloadsType ==
    ASSUME NEW q \in Seq(Packet)
    PROVE  Payloads(q) \in Seq(Message) /\ Len(Payloads(q)) = Len(q)
<1>1. \A i \in 1..Len(q) : Payload(q[i]) \in Message
    BY PayloadType
<1>2. Len(q) \in Nat
    OBVIOUS
<1> DEFINE f == [i \in 1..Len(q) |-> Payload(q[i])]
<1>3. f \in [1..Len(q) -> Message] /\ f = Payloads(q)
    BY <1>1 DEF Payloads
<1>4. f \in Seq(Message) /\ Len(f) = Len(q)
    BY <1>2, <1>3
<1>5. QED
    BY <1>3, <1>4

LEMMA SentAppend ==
    ASSUME NEW q \in Seq(Packet), NEW p \in Packet, NEW u
    PROVE  /\ SentOf(q, u) \in Seq(Message)
           /\ SentOf(Append(q, p), u) =
                IF Judged(p, u) THEN Append(SentOf(q, u), Payload(p)) ELSE SentOf(q, u)
<1> DEFINE r == Append(q, p)
           I == {i \in 1..Len(q) : Judged(q[i], u)}
           J == {i \in 1..Len(r) : Judged(r[i], u)}
<1>1. /\ r \in Seq(Packet) /\ Len(q) \in Nat /\ Len(r) = Len(q) + 1
      /\ r[Len(q)+1] = p /\ \A i \in 1..Len(q) : r[i] = q[i]
    OBVIOUS
<1> HIDE DEF r
<1>2. /\ Payloads(q) \in Seq(Message) /\ Len(Payloads(q)) = Len(q)
      /\ Payloads(r) \in Seq(Message) /\ Len(Payloads(r)) = Len(r)
      /\ Payload(p) \in Message
    BY <1>1, PayloadsType, PayloadType
<1>3. Payloads(r) = Append(Payloads(q), Payload(p))
    <2>1. \A i \in 1..Len(r) : Payloads(r)[i] = Append(Payloads(q), Payload(p))[i]
        <3>1. \A i \in 1..Len(r) : Payloads(r)[i] = Payload(r[i])
            BY DEF Payloads
        <3>2. \A i \in 1..Len(q) : Payloads(q)[i] = Payload(q[i])
            BY DEF Payloads
        <3>3. QED
            BY <1>1, <1>2, <3>1, <3>2
    <2>2. QED
        BY <1>1, <1>2, <2>1
<1>4. \A i \in 1..Len(q) : i \in I <=> i \in J
    BY <1>1
<1>5. Len(q) + 1 \in J <=> Judged(p, u)
    BY <1>1
<1> HIDE DEF I, J
<1>6. Select(Append(Payloads(q), Payload(p)), J) =
        IF Len(q) + 1 \in J THEN Append(Select(Payloads(q), I), Payload(p))
        ELSE Select(Payloads(q), I)
    BY <1>2, <1>4, SelectAppend
<1>7. Select(Payloads(q), I) \in Seq(Message)
    BY <1>2, SelectType
<1>8. QED
    BY <1>3, <1>5, <1>6, <1>7 DEF SentOf, I, J, r

LEMMA SentTail ==
    ASSUME NEW q \in Seq(Packet), q # <<>>, NEW u
    PROVE  /\ SentOf(q, u) \in Seq(Message)
           /\ ~Judged(Head(q), u) => SentOf(Tail(q), u) = SentOf(q, u)
           /\ Judged(Head(q), u) =>
                /\ SentOf(q, u) # <<>>
                /\ Head(SentOf(q, u)) = Payload(Head(q))
                /\ SentOf(Tail(q), u) = Tail(SentOf(q, u))
<1> DEFINE r == Tail(q)
           I == {i \in 1..Len(q) : Judged(q[i], u)}
           J == {i \in 1..Len(r) : Judged(r[i], u)}
<1>1. /\ r \in Seq(Packet) /\ Len(q) \in Nat /\ Len(r) = Len(q) - 1 /\ Len(q) # 0
      /\ Head(q) = q[1] /\ \A i \in 1..Len(r) : r[i] = q[i+1]
    OBVIOUS
<1> HIDE DEF r
<1>2. /\ Payloads(q) \in Seq(Message) /\ Len(Payloads(q)) = Len(q)
      /\ Payloads(r) \in Seq(Message) /\ Len(Payloads(r)) = Len(r)
    BY <1>1, PayloadsType
<1>3. /\ Payloads(q) # <<>> /\ Head(Payloads(q)) = Payload(Head(q))
      /\ Payloads(r) = Tail(Payloads(q))
    <2>1. \A i \in 1..Len(q) : Payloads(q)[i] = Payload(q[i])
        BY DEF Payloads
    <2>2. \A i \in 1..Len(r) : Payloads(r)[i] = Payload(r[i])
        BY DEF Payloads
    <2>3. \A i \in 1..Len(r) : Payloads(r)[i] = Tail(Payloads(q))[i]
        BY <1>1, <1>2, <2>1, <2>2
    <2>4. QED
        BY <1>1, <1>2, <2>1, <2>3
<1>4. \A i \in 1..Len(q)-1 : i \in J <=> i + 1 \in I
    BY <1>1
<1>5. 1 \in I <=> Judged(Head(q), u)
    BY <1>1
<1> HIDE DEF I, J
<1>6. /\ 1 \notin I => Select(Payloads(q), I) = Select(Payloads(r), J)
      /\ 1 \in I => /\ Select(Payloads(q), I) # <<>>
                    /\ Head(Select(Payloads(q), I)) = Head(Payloads(q))
                    /\ Tail(Select(Payloads(q), I)) = Select(Payloads(r), J)
    BY <1>2, <1>3, <1>4, SelectParts
<1>7. Select(Payloads(q), I) \in Seq(Message)
    BY <1>2, SelectType
<1>8. QED
    BY <1>3, <1>5, <1>6, <1>7 DEF SentOf, I, J, r

LEMMA QueuedAppend ==
    ASSUME NEW q \in Seq(Message), NEW m \in Message, NEW u
    PROVE  /\ QueuedOf(q, u) \in Seq(Message)
           /\ QueuedOf(Append(q, m), u) =
                IF Genuine(m, u) THEN Append(QueuedOf(q, u), m) ELSE QueuedOf(q, u)
<1> DEFINE r == Append(q, m)
           I == {i \in 1..Len(q) : Genuine(q[i], u)}
           J == {i \in 1..Len(r) : Genuine(r[i], u)}
<1>1. /\ Len(q) \in Nat /\ Len(r) = Len(q) + 1
      /\ r[Len(q)+1] = m /\ \A i \in 1..Len(q) : r[i] = q[i]
    OBVIOUS
<1> HIDE DEF r
<1>2. \A i \in 1..Len(q) : i \in I <=> i \in J
    BY <1>1
<1>3. Len(q) + 1 \in J <=> Genuine(m, u)
    BY <1>1
<1> HIDE DEF I, J
<1>4. Select(r, J) = IF Len(q) + 1 \in J THEN Append(Select(q, I), m) ELSE Select(q, I)
    BY <1>2, SelectAppend DEF r
<1>5. Select(q, I) \in Seq(Message)
    BY SelectType
<1>6. QED
    BY <1>3, <1>4, <1>5 DEF QueuedOf, I, J, r

LEMMA QueuedTail ==
    ASSUME NEW q \in Seq(Message), q # <<>>, NEW u
    PROVE  /\ QueuedOf(q, u) \in Seq(Message)
           /\ ~Genuine(Head(q), u) => QueuedOf(Tail(q), u) = QueuedOf(q, u)
           /\ Genuine(Head(q), u) =>
                /\ QueuedOf(q, u) # <<>>
                /\ Head(QueuedOf(q, u)) = Head(q)
                /\ QueuedOf(Tail(q), u) = Tail(QueuedOf(q, u))
<1> DEFINE r == Tail(q)
           I == {i \in 1..Len(q) : Genuine(q[i], u)}
           J == {i \in 1..Len(r) : Genuine(r[i], u)}
<1>1. /\ Len(q) \in Nat /\ Len(r) = Len(q) - 1 /\ Len(q) # 0
      /\ Head(q) = q[1] /\ \A i \in 1..Len(r) : r[i] = q[i+1]
    OBVIOUS
<1> HIDE DEF r
<1>2. \A i \in 1..Len(q)-1 : i \in J <=> i + 1 \in I
    BY <1>1
<1>3. 1 \in I <=> Genuine(Head(q), u)
    BY <1>1
<1> HIDE DEF I, J
<1>4. /\ 1 \notin I => Select(q, I) = Select(r, J)
      /\ 1 \in I => /\ Select(q, I) # <<>>
                    /\ Head(Select(q, I)) = Head(q)
                    /\ Tail(Select(q, I)) = Select(r, J)
    BY <1>2, SelectParts DEF r
<1>5. Select(q, I) \in Seq(Message)
    BY SelectType
<1>6. QED
    BY <1>3, <1>4, <1>5 DEF QueuedOf, I, J, r

-----------------------------------------------------------------------------
(* The steps.                                                              *)

LEMMA SentSame == RxQueue' = RxQueue => sent' = sent
BY SentIs

LEMMA PassedSame ==
    UNCHANGED <<messageQueue, parsing, websocketppMessage>> => passed' = passed
<1>1. messageQueue' = messageQueue => queued' = queued
    BY QueuedIs
<1>2. QED
    BY <1>1 DEF passed

LEMMA KnownSame ==
    UNCHANGED <<registeredDevices, parsing, websocketppMessage>> => known' = known
BY DEF known, Listed

LEMMA PassedType == ASSUME Typed, NEW u \in UUID PROVE passed[u] \in Seq(Message)
<1>1. messageQueue \in Seq(Message) /\ websocketppMessage \in Packet \cup {NoPacket}
      /\ (parsing # "idle" => websocketppMessage \in Packet)
    BY DEF Typed, TypeOK, QueuesTypeOK, ParseTypeOK
<1>2. queued[u] \in Seq(Message)
    <2>1. PICK m : m = [uuid |-> u, command |-> "DEVICE", arg |-> "none"]
        OBVIOUS
    <2>2. m \in Message
        BY <2>1 DEF Message, Command, Argument
    <2>3. QED
        BY <1>1, <2>2, QueuedAppend, QueuedIs
<1>3. parsing = "passOn" => Append(queued[u], Payload(websocketppMessage)) \in Seq(Message)
    <2>1. ASSUME parsing = "passOn" PROVE Payload(websocketppMessage) \in Message
        BY <1>1, <2>1, PayloadType
    <2> DEFINE m == Payload(websocketppMessage)
    <2> HIDE DEF m
    <2>2. QED
        BY <1>2, <2>1 DEF m
<1>4. QED
    BY <1>2, <1>3 DEF passed

(* The packet the parse thread takes is the next of its client, unless it  *)
(* is none that is judged for main.                                        *)
LEMMA TakeChannels ==
    ASSUME Typed, NEW next \in {"idle", "reregister", "heartbeat", "passOn"},
           TakePacket(next)
    PROVE  LET p == Head(RxQueue)
           IN  /\ running /\ p \in Packet /\ p.uuid \in UUID
               /\ passed = queued /\ queued' = queued
               /\ known = {v \in UUID : Listed(v)}
               /\ ~Judged(p, p.uuid) => sent' = sent
               /\ Judged(p, p.uuid) =>
                    /\ sent[p.uuid] # <<>>
                    /\ Head(sent[p.uuid]) = Payload(p)
                    /\ sent' = [sent EXCEPT ![p.uuid] = Tail(@)]
<1> DEFINE p == Head(RxQueue)
           u == p.uuid
<1>1. /\ RxQueue # <<>> /\ p \in Packet /\ RxQueue \in Seq(Packet)
      /\ parsing = "idle" /\ RxQueue' = Tail(RxQueue) /\ messageQueue' = messageQueue
      /\ running
    BY TakeType DEF Typed, TypeOK, BackendTypeOK, TakePacket
<1>2. u \in UUID
    BY <1>1 DEF Packet
<1>3. queued \in [UUID -> Seq(Message)] /\ passed = queued /\ queued' = queued
    <2>1. queued' = queued
        BY <1>1, QueuedIs
    <2>2. \A v \in UUID : passed[v] = queued[v]
        BY <1>1 DEF passed
    <2>3. passed = [v \in UUID |-> passed[v]] /\ queued = [v \in UUID |-> queued[v]]
        BY DEF passed, queued
    <2>4. \A v \in UUID : queued[v] \in Seq(Message)
        BY <2>2, PassedType
    <2>5. QED
        BY <2>1, <2>2, <2>3, <2>4
<1>4. known = {v \in UUID : Listed(v)}
    BY <1>1 DEF known
<1>5. ASSUME NEW v \in UUID
      PROVE  /\ ~Judged(p, v) => sent'[v] = sent[v]
             /\ Judged(p, v) => /\ sent[v] # <<>> /\ Head(sent[v]) = Payload(p)
                                /\ sent'[v] = Tail(sent[v])
    BY <1>1, SentTail, SentIs
<1>6. \A v \in UUID : Judged(p, v) <=> v = u /\ Judged(p, u)
    BY DEF Judged
<1>7. /\ sent = [v \in UUID |-> sent[v]] /\ sent' = [v \in UUID |-> sent'[v]]
    BY SentIs
<1> HIDE DEF p, u
<1>8. ~Judged(p, u) => sent' = sent
    BY <1>5, <1>6, <1>7
<1>9. Judged(p, u) =>
        sent[u] # <<>> /\ Head(sent[u]) = Payload(p) /\ sent' = [sent EXCEPT ![u] = Tail(@)]
    BY <1>2, <1>5, <1>6, <1>7
<1>10. QED
    BY <1>1, <1>2, <1>3, <1>4, <1>8, <1>9 DEF p, u

(* Among UUIDs of which none occurs in another a lookup finds the listed.  *)
LEMMA LookupExact ==
    ASSUME Typed, NEW u \in UUID
    PROVE  /\ Listed(u) => IsDeviceRegistered(u)
           /\ ExactMatch /\ IsDeviceRegistered(u) => Listed(u)
<1>1. \A i \in 1..Len(registeredDevices) : registeredDevices[i].uuid \in UUID
    <2> DEFINE R == [uuid : UUID, conn : Connection]
    <2>1. registeredDevices \in Seq(R) /\ \A r \in R : r.uuid \in UUID
        BY DEF Typed, TypeOK, RegistryTypeOK
    <2> HIDE DEF R
    <2>2. QED
        BY <2>1
<1>2. QED
    BY <1>1, SubstringAssumption
    DEF IsDeviceRegistered, RegistrationsOf, Listed, ExactMatch

LEMMA ParseChannels ==
    ASSUME ExactMatch, Typed, Parse
    PROVE  [Channels!Next]_(Channels!vars)
<1>1. Typed /\ TypeOK /\ ListedOnce /\ Reports /\ RegistryTypeOK /\ ParseTypeOK /\ ParseStep
    BY DEF Parse, Typed, TypeOK
<1> DEFINE p == Head(RxQueue)
           u == p.uuid
<1>2. ASSUME running, running' \in BOOLEAN, UNCHANGED <<sent, passed, known>>
      PROVE  [Channels!Next]_(Channels!vars)
    BY <1>2 DEF Channels!Next, Channels!End, Channels!vars
<1>3. ASSUME NEW next \in {"idle", "reregister", "heartbeat", "passOn"}, TakePacket(next)
      PROVE  /\ running /\ p \in Packet /\ u \in UUID
             /\ passed = queued /\ queued' = queued
             /\ known = {v \in UUID : Listed(v)}
             /\ ~Judged(p, u) => sent' = sent
             /\ Judged(p, u) => /\ sent[u] # <<>>
                                /\ Head(sent[u]) = Payload(p)
                                /\ sent' = [sent EXCEPT ![u] = Tail(@)]
             /\ parsing' = next
             /\ next # "idle" => websocketppMessage' = p
             /\ Payload(p).command = p.command
             /\ next # "passOn" => passed' = queued'
    <2>1. /\ parsing' = next
          /\ next # "idle" => websocketppMessage' = p
        BY <1>3 DEF TakePacket
    <2>2. passed' = queued' \/ next = "passOn"
        <3>1. ASSUME next # "passOn" PROVE passed' = queued'
            <4>1. \A v \in UUID : (passed')[v] = (queued')[v]
                BY <2>1, <3>1 DEF passed
            <4>2. passed' = [v \in UUID |-> (passed')[v]] /\ queued' = [v \in UUID |-> (queued')[v]]
                BY DEF passed, queued
            <4>3. QED
                BY <4>1, <4>2
        <3>2. QED
            BY <3>1
    <2>3. Payload(p).command = p.command
        BY DEF Payload
    <2>4. QED
        BY <1>1, <1>3, <2>1, <2>2, <2>3, TakeChannels
<1>4. CASE RejectInvalid \/ FailUnnamed \/ RejectUnregistered
    <2>1. TakePacket("idle") /\ UNCHANGED registryVars /\ running' \in BOOLEAN
        BY <1>4 DEF RejectInvalid, FailUnnamed, RejectUnregistered, SendWebsocketppMessage
    <2>2. known' = {v \in UUID : Listed(v)} /\ passed' = passed
        BY <1>3, <2>1 DEF known, Listed, registryVars
    <2>3. CASE ~Judged(p, u)
        BY <1>2, <1>3, <2>1, <2>2, <2>3
    <2>4. CASE Judged(p, u)
        <3>1. p.command \notin {"MALFORMED", "UNNAMED", "REGISTRATION"} /\ ~IsDeviceRegistered(u)
            BY <1>4, <2>4 DEF RejectInvalid, FailUnnamed, RejectUnregistered, Judged
        <3>2. u \notin known
            BY <1>1, <1>3, <2>1, <3>1, LookupExact
        <3>3. Channels!Refuse(u)
            BY <1>3, <2>1, <2>2, <2>4, <3>1, <3>2
            DEF Channels!Refuse, Channels!Registers, Channels!Judged
        <3>4. QED
            BY <1>3, <2>1, <2>4, <3>3 DEF Channels!Next, Channels!Judge
    <2>5. QED
        BY <2>3, <2>4
<1>5. CASE RegisterNew
    <2>1. TakePacket("passOn") /\ p.command = "REGISTRATION" /\ ~IsDeviceRegistered(u)
          /\ RegisterDevice(p) /\ UNCHANGED running
        BY <1>5 DEF RegisterNew
    <2>2. u \notin known /\ ~Listed(u)
        BY <1>1, <1>3, <2>1, LookupExact
    <2>3. Judged(p, u)
        BY <2>1 DEF Judged
    <2>4. \A v \in UUID : Listed(v)' <=> Listed(v) \/ v = u
        BY <1>1, <1>3, <2>1, <2>2, RegisterOnce
    <2>5. known' = known \cup {u}
        <3>1. known' = {v \in UUID : Listed(v)'}
            BY <1>3, <2>1 DEF known
        <3>2. QED
            BY <1>3, <2>1, <2>4, <3>1
    <2>6. passed' = [passed EXCEPT ![u] = Append(@, Payload(p))]
        BY <1>3, <2>1 DEF passed
    <2>7. Channels!Admit(u)
        BY <1>3, <2>1, <2>2, <2>3, <2>5, <2>6
        DEF Channels!Admit, Channels!Registers, Channels!Judged, Channels!Passed
    <2>8. QED
        BY <1>3, <2>1, <2>3, <2>7 DEF Channels!Next, Channels!Judge
<1>6. CASE EraseOld
    <2>1. TakePacket("reregister") /\ p.command = "REGISTRATION" /\ IsDeviceRegistered(u)
          /\ EraseRegistration(u) /\ UNCHANGED running
        BY <1>6 DEF EraseOld
    <2>2. u \in known /\ Listed(u)
        BY <1>1, <1>3, <2>1, LookupExact
    <2>3. Judged(p, u)
        BY <2>1 DEF Judged
    <2>4. \A v \in UUID : Listed(v)' <=> Listed(v) /\ v # u
        BY <1>1, <1>3, <2>1, EraseType
    <2>5. known' = known
        <3>1. known' = {v \in UUID : Listed(v)' \/ v = u}
            BY <1>3, <2>1 DEF known
        <3>2. QED
            BY <1>3, <2>1, <2>2, <2>4, <3>1
    <2>6. passed' = passed
        BY <1>3, <2>1
    <2>7. Channels!KeepBack(u)
        BY <1>3, <2>1, <2>2, <2>3, <2>5, <2>6
        DEF Channels!KeepBack, Channels!Registers, Channels!Judged
    <2>8. QED
        BY <1>3, <2>1, <2>3, <2>7 DEF Channels!Next, Channels!Judge
<1>7. CASE TakeHeartbeatPacket
    <2>1. TakePacket("heartbeat") /\ p.command = "HEARTBEAT" /\ UNCHANGED <<registryVars, running>>
        BY <1>7 DEF TakeHeartbeatPacket
    <2>2. ~Judged(p, u) /\ known' = {v \in UUID : Listed(v)} /\ passed' = passed
        BY <1>3, <2>1 DEF Judged, known, Listed, registryVars
    <2>3. QED
        BY <1>2, <1>3, <2>1, <2>2
<1>8. CASE TakeOther
    <2>1. TakePacket("passOn") /\ IsDeviceRegistered(u) /\ UNCHANGED <<registryVars, running>>
          /\ p.command \notin {"MALFORMED", "UNNAMED", "REGISTRATION", "HEARTBEAT"}
        BY <1>8 DEF TakeOther
    <2>2. u \in known /\ known' = known
        <3>1. known' = {v \in UUID : Listed(v)}
            BY <1>3, <2>1 DEF known, Listed, registryVars
        <3>2. QED
            BY <1>1, <1>3, <2>1, <3>1, LookupExact
    <2>3. Judged(p, u)
        BY <2>1 DEF Judged
    <2>4. passed' = [passed EXCEPT ![u] = Append(@, Payload(p))]
        BY <1>3, <2>1 DEF passed
    <2>5. Channels!Pass(u)
        BY <1>3, <2>1, <2>2, <2>3, <2>4
        DEF Channels!Pass, Channels!Registers, Channels!Judged, Channels!Passed
    <2>6. QED
        BY <1>3, <2>1, <2>3, <2>5 DEF Channels!Next, Channels!Judge
<1>9. CASE ReRegister
    <2> DEFINE w == websocketppMessage
    <2>1. /\ parsing = "reregister" /\ parsing' = "idle" /\ RegisterDevice(w)
          /\ RxQueue' = RxQueue /\ messageQueue' = messageQueue /\ running' = running /\ running
        BY <1>9 DEF ReRegister, backendVars, queueVars
    <2>2. w \in Packet /\ w.uuid \in UUID
        BY <1>1, <2>1 DEF ParseTypeOK, Packet
    <2>3. ~Listed(w.uuid)
        BY <1>1, <2>1 DEF ListedOnce
    <2>4. \A v \in UUID : Listed(v)' <=> Listed(v) \/ v = w.uuid
        BY <1>1, <2>1, <2>2, <2>3, RegisterOnce
    <2>5. known' = known
        <3>1. known' = {v \in UUID : Listed(v)'} /\ known = {v \in UUID : Listed(v) \/ v = w.uuid}
            BY <2>1 DEF known
        <3>2. QED
            BY <2>4, <3>1
    <2>6. passed' = passed /\ sent' = sent
        BY <2>1, SentSame, QueuedIs DEF passed
    <2>7. QED
        BY <1>2, <2>1, <2>5, <2>6
<1>10. CASE QueueHeartbeat
    <2>1. /\ parsing = "heartbeat" /\ parsing' = "idle" /\ running /\ running' = running
          /\ RxQueue' = RxQueue /\ messageQueue' = messageQueue /\ UNCHANGED registryVars
        BY <1>10 DEF QueueHeartbeat, backendVars
    <2>2. passed' = passed /\ sent' = sent /\ known' = known
        BY <2>1, SentSame, QueuedIs DEF passed, known, Listed, registryVars
    <2>3. QED
        BY <1>2, <2>1, <2>2
<1>11. CASE PassOn
    <2> DEFINE m == Payload(websocketppMessage)
    <2>1. /\ parsing = "passOn" /\ parsing' = "idle" /\ running /\ running' = running
          /\ RxQueue' = RxQueue /\ messageQueue' = Append(messageQueue, m)
          /\ UNCHANGED registryVars
        BY <1>11 DEF PassOn, backendVars
    <2>2. m \in Message /\ m.uuid = websocketppMessage.uuid /\ m.command # "HEARTBEAT"
        BY <1>1, <2>1, PayloadType DEF ParseTypeOK, Reports, Payload
    <2> HIDE DEF m
    <2>3. \A v \in UUID : queued'[v] = IF websocketppMessage.uuid = v THEN Append(queued[v], m)
                                       ELSE queued[v]
        <3>1. messageQueue \in Seq(Message)
            BY <1>1 DEF TypeOK, QueuesTypeOK
        <3>2. QED
            BY <2>1, <2>2, <3>1, QueuedAppend, QueuedIs DEF Genuine
    <2>4. passed' = passed
        <3>1. \A v \in UUID : passed'[v] = passed[v]
            BY <2>1, <2>3 DEF passed, m
        <3>2. passed' = [v \in UUID |-> passed'[v]] /\ passed = [v \in UUID |-> passed[v]]
            BY DEF passed
        <3>3. QED
            BY <3>1, <3>2
    <2>5. sent' = sent /\ known' = known
        BY <2>1, SentSame DEF known, Listed, registryVars
    <2>6. QED
        BY <1>2, <2>1, <2>4, <2>5
<1>12. QED
    BY <1>1, <1>4, <1>5, <1>6, <1>7, <1>8, <1>9, <1>10, <1>11 DEF ParseStep

(* Reports are none of a client's messages: a scan leaves the channels.    *)
LEMMA HeartbeatChannels ==
    ASSUME Typed, Heartbeat
    PROVE  [Channels!Next]_(Channels!vars)
<1>1. /\ HeartbeatStep /\ messageQueue \in Seq(Message)
      /\ UNCHANGED <<parsing, websocketppMessage, registeredDevices, RxQueue>>
    BY DEF Heartbeat, Typed, TypeOK, QueuesTypeOK, parseVars, registryVars, backendVars
<1>2. sent' = sent /\ known' = known
    BY <1>1, SentSame, KnownSame
<1>3. running' = running
    BY <1>1 DEF HeartbeatStep, WakeUp, TakeHeartbeat, HeartbeatFails, StartScan, KeepStatus,
        PublishStatus, EndScan, queueVars
<1>4. queued' = queued
    <2>1. CASE messageQueue' = messageQueue
        BY <2>1, QueuedIs
    <2>2. ASSUME NEW v \in UUID, PublishStatus(v) PROVE queued' = queued
        <3> DEFINE m == Report(v, StatusAt(age[v]))
        <3>1. m \in Message /\ m.command = "HEARTBEAT"
            BY StatusType, ReportType DEF Report
        <3>2. messageQueue' = Append(messageQueue, m)
            BY <2>2 DEF PublishStatus
        <3> HIDE DEF m
        <3>3. \A u \in UUID : QueuedOf(messageQueue', u) = QueuedOf(messageQueue, u)
            BY <1>1, <3>1, <3>2, QueuedAppend DEF Genuine
        <3>4. QED
            BY <3>3, QueuedIs
    <2>3. QED
        BY <1>1, <2>1, <2>2 DEF HeartbeatStep, WakeUp, TakeHeartbeat, HeartbeatFails,
            StartScan, KeepStatus, EndScan, queueVars
<1>5. passed' = passed
    BY <1>1, <1>4 DEF passed
<1>6. QED
    BY <1>2, <1>3, <1>5 DEF Channels!vars

(* Main takes the next message of a client, or a report.                   *)
LEMMA MainChannels ==
    ASSUME Typed, Main
    PROVE  [Channels!Next]_(Channels!vars)
<1>1. /\ MainStep /\ messageQueue \in Seq(Message) /\ running \in BOOLEAN
      /\ UNCHANGED <<parsing, websocketppMessage>>
      /\ Typed'
    BY MainTyped DEF Main, Typed, TypeOK, QueuesTypeOK, parseVars
<1>2. running /\ running' \in BOOLEAN
    <2>1. running
        BY <1>1 DEF MainStep, FailIlltyped, CreateDevice, IgnoreUnknownType, HandleReport,
            HandleNothing, HandleDeviceCommand, ForwardToWebsite, ForwardToNobody,
            HandleWebsiteUpdate, ReplyNotCreated, GetMessage, InsertDevice, DropMessage,
            LookUp, Transmit, TransmitDangling
    <2>2. QED
        BY <1>1, <2>1 DEF Typed, TypeOK, QueuesTypeOK
<1>3. CASE GetMessage
    <2> DEFINE m == Head(messageQueue)
               u == m.uuid
    <2>1. /\ messageQueue # <<>> /\ messageQueue' = Tail(messageQueue)
          /\ UNCHANGED <<registeredDevices, RxQueue>>
        BY <1>3 DEF GetMessage, registryVars, backendVars
    <2>2. m \in Message /\ u \in UUID
        <3>1. m \in Message
            BY <1>1, <2>1, HeadTailProperties
        <3>2. QED
            BY <3>1 DEF Message
    <2>3. sent' = sent /\ known' = known
        BY <1>1, <2>1, SentSame, KnownSame
    <2>4. ASSUME NEW v \in UUID
          PROVE  /\ ~Genuine(m, v) => queued'[v] = queued[v]
                 /\ Genuine(m, v) => queued[v] # <<>> /\ queued'[v] = Tail(queued[v])
                 /\ queued[v] \in Seq(Message)
        BY <1>1, <2>1, QueuedTail, QueuedIs
    <2>5. \A v \in UUID : Genuine(m, v) <=> v = u /\ m.command # "HEARTBEAT"
        BY DEF Genuine
    <2> HIDE DEF m, u
    <2>6. CASE m.command = "HEARTBEAT"
        <3>1. \A v \in UUID : passed'[v] = passed[v]
            BY <1>1, <2>4, <2>5, <2>6 DEF passed
        <3>2. passed' = passed
            <4>1. passed' = [v \in UUID |-> passed'[v]] /\ passed = [v \in UUID |-> passed[v]]
                BY DEF passed
            <4>2. QED
                BY <3>1, <4>1
        <3>3. QED
            BY <1>2, <2>3, <3>2 DEF Channels!Next, Channels!End, Channels!vars
    <2>7. CASE m.command # "HEARTBEAT"
        <3>1. ASSUME NEW v \in UUID
              PROVE  /\ v # u => passed'[v] = passed[v]
                     /\ v = u => passed[v] # <<>> /\ passed'[v] = Tail(passed[v])
            <4>1. CASE v # u
                BY <1>1, <2>4, <2>5, <4>1 DEF passed
            <4>2. CASE v = u
                <5> DEFINE q == queued[v]
                           w == Payload(websocketppMessage)
                <5>1. q # <<>> /\ q \in Seq(Message) /\ queued'[v] = Tail(q)
                    BY <2>4, <2>5, <2>7, <4>2
                <5>2. CASE parsing = "passOn" /\ websocketppMessage.uuid = v
                    <6>1. passed[v] = Append(q, w) /\ passed'[v] = Append(Tail(q), w)
                        BY <1>1, <5>1, <5>2 DEF passed
                    <6>2. w \in Message
                        BY <5>2, PayloadType, NoPacketAssumption DEF Typed, TypeOK, ParseTypeOK
                    <6> HIDE DEF q, w
                    <6>3. Append(q, w) # <<>> /\ Tail(Append(q, w)) = Append(Tail(q), w)
                        BY <5>1, <6>2
                    <6>4. QED
                        BY <4>2, <6>1, <6>3
                <5>3. CASE ~(parsing = "passOn" /\ websocketppMessage.uuid = v)
                    BY <1>1, <4>2, <5>1, <5>3 DEF passed
                <5>4. QED
                    BY <5>2, <5>3
            <4>3. QED
                BY <4>1, <4>2
        <3>2. passed' = [passed EXCEPT ![u] = Tail(@)]
            <4>1. passed' = [v \in UUID |-> passed'[v]] /\ passed = [v \in UUID |-> passed[v]]
                BY DEF passed
            <4>2. QED
                BY <3>1, <4>1
        <3>3. Channels!Deliver(u)
            BY <1>2, <2>2, <2>3, <3>1, <3>2 DEF Channels!Deliver, u
        <3>4. QED
            BY <2>2, <3>3 DEF Channels!Next, u
    <2>8. QED
        BY <2>6, <2>7
<1>4. CASE ~GetMessage
    <2>1. UNCHANGED <<messageQueue, registeredDevices, RxQueue>>
        BY <1>1, <1>4 DEF MainStep, FailIlltyped, CreateDevice, IgnoreUnknownType, HandleReport,
            HandleNothing, HandleDeviceCommand, ForwardToWebsite, ForwardToNobody,
            HandleWebsiteUpdate, ReplyNotCreated, InsertDevice, DropMessage,
            LookUp, Transmit, TransmitDangling, queueVars, backendVars, registryVars
    <2>2. UNCHANGED <<sent, passed, known>>
        BY <1>1, <2>1, SentSame, PassedSame, KnownSame
    <2>3. QED
        BY <1>2, <2>2 DEF Channels!Next, Channels!End, Channels!vars
<1>5. QED
    BY <1>3, <1>4

LEMMA ReceiveChannels ==
    ASSUME Typed, NEW packet \in Incoming, Receive(packet)
    PROVE  [Channels!Next]_(Channels!vars)
<1>1. /\ packet \in Packet /\ packet.uuid \in UUID
      /\ RxQueue \in Seq(Packet) /\ RxQueue' = Append(RxQueue, packet) /\ running
      /\ UNCHANGED <<messageQueue, running, parsing, websocketppMessage, registeredDevices>>
    BY IncomingAssumption
    DEF Packet, Receive, MessageReceived, queueVars, parseVars, registryVars, Typed, TypeOK,
        BackendTypeOK
<1>2. passed' = passed /\ known' = known
    BY <1>1, PassedSame, KnownSame
<1>3. \A u \in UUID : sent'[u] = IF Judged(packet, u) THEN Append(sent[u], Payload(packet))
                                 ELSE sent[u]
    BY <1>1, SentAppend, SentIs
<1>4. sent = [u \in UUID |-> sent[u]] /\ sent' = [u \in UUID |-> sent'[u]]
    BY SentIs
<1>5. CASE ~Judged(packet, packet.uuid)
    <2>1. \A u \in UUID : ~Judged(packet, u)
        BY <1>5 DEF Judged
    <2>2. sent' = sent
        BY <1>3, <1>4, <2>1
    <2>3. QED
        BY <1>1, <1>2, <2>2 DEF Channels!vars
<1>6. CASE Judged(packet, packet.uuid)
    <2> DEFINE m == Payload(packet)
    <2>1. m.uuid = packet.uuid /\ m \in {Payload(p) : p \in Incoming}
        BY DEF Payload
    <2>2. \A u \in UUID : Judged(packet, u) <=> u = m.uuid
        BY <1>6, <2>1 DEF Judged
    <2>3. sent' = [sent EXCEPT ![m.uuid] = Append(@, m)]
        BY <1>1, <1>3, <1>4, <2>1, <2>2
    <2>4. Channels!Send(m)
        BY <1>1, <1>2, <2>3 DEF Channels!Send
    <2>5. QED
        BY <2>1, <2>4 DEF Channels!Next
<1>7. QED
    BY <1>5, <1>6

LEMMA ChannelStep ==
    ASSUME ExactMatch, Typed, [Next]_vars
    PROVE  [Channels!Next]_(Channels!vars)
<1>1. CASE (\E c \in Connection : Disconnect(c)) \/ StopListening \/ Polling \/ Ended
            \/ UNCHANGED vars
    <2>1. UNCHANGED <<messageQueue, RxQueue, running, parsing, websocketppMessage,
                      registeredDevices>>
        BY <1>1 DEF Disconnect, ConnectionClosed, StopListening, StartSocketEnds, Polling,
            Ended, vars, queueVars, backendVars, connectionVars, parseVars, registryVars
    <2>2. QED
        BY <2>1, SentSame, PassedSame, KnownSame DEF Channels!vars
<1>2. QED
    BY <1>1, ReceiveChannels, ParseChannels, HeartbeatChannels, MainChannels DEF Next

LEMMA SelectNone == ASSUME NEW I PROVE Select(<<>>, I) = <<>>
<1>1. Len(<<>>) \in Nat /\ Len(<<>>) = 0
    OBVIOUS
<1>2. QED
    BY <1>1, SelectionsStep DEF Select

LEMMA ChannelInit == Init => Channels!Init
<1> SUFFICES ASSUME Init PROVE Channels!Init
    OBVIOUS
<1>1. /\ RxQueue = <<>> /\ messageQueue = <<>> /\ parsing = "idle" /\ running = TRUE
      /\ registeredDevices = <<>>
    BY DEF Init, QueuesInit, BackendInit, ParseInit, RegistryInit
<1>2. Payloads(<<>>) = <<>>
    BY DEF Payloads
<1>3. \A u \in UUID : SentOf(RxQueue, u) = <<>> /\ queued[u] = <<>>
    BY <1>1, <1>2, SelectNone, QueuedIs DEF SentOf, QueuedOf
<1>4. sent = [u \in UUID |-> <<>>] /\ passed = [u \in UUID |-> <<>>]
    BY <1>1, <1>3, SentIs DEF passed
<1>5. known = {}
    BY <1>1 DEF known, Listed
<1>6. QED
    BY <1>1, <1>4, <1>5 DEF Channels!Init

(* SocketServer.cpp:101-186, main.cpp:47-115: where no UUID's text occurs  *)
(* in another's, the server implements a channel from each client to main: *)
(* main gets its first registration and what it sent after that in order   *)
(* and once, for any number of clients, packets and reports.               *)
THEOREM ServerKeepsChannels == ExactMatch => (Spec => KeepsChannels)
<1> SUFFICES ASSUME ExactMatch PROVE Spec => Channels!SafeSpec
    BY DEF KeepsChannels
<1>1. Typed /\ [Next]_vars => [Channels!Next]_(Channels!vars)
    BY ChannelStep
<1>2. QED
    BY <1>1, ChannelInit, InitTyped, TypedInductive, PTL DEF Spec, Channels!SafeSpec

=============================================================================
