------------------------------- MODULE Server -------------------------------
(***************************************************************************)
(* The server: the clients and the websocket library, the parse thread,    *)
(* the heartbeat thread and the main thread, interleaved at the steps at   *)
(* which one can see what another did.                                     *)
(***************************************************************************)
EXTENDS ParseThread, HeartbeatThread, MainThread, Selection

VARIABLE latest     \* history: the connection of the last registration a
                    \* client sent and the server received

vars == <<queueVars, backendVars, registryVars, parseVars, heartbeatVars,
          mainVars, latest>>

NoConnection == "none"

Init ==
    /\ QueuesInit
    /\ BackendInit
    /\ RegistryInit
    /\ ParseInit
    /\ HeartbeatInit
    /\ MainInit
    /\ latest = [u \in UUID |-> NoConnection]

Receive(packet) ==
    /\ MessageReceived(packet)
    /\ latest' = IF packet.command = "REGISTRATION"
                 THEN [latest EXCEPT ![packet.uuid] = packet.conn] ELSE latest
    /\ UNCHANGED <<registryVars, parseVars, heartbeatVars, mainVars>>

Disconnect(c) ==
    /\ ConnectionClosed(c)
    /\ UNCHANGED <<registryVars, parseVars, heartbeatVars, mainVars, latest>>

(* The library's thread ends; the process does not.                        *)
StopListening ==
    /\ StartSocketEnds
    /\ UNCHANGED <<registryVars, parseVars, heartbeatVars, mainVars, latest>>

Parse == ParseStep /\ UNCHANGED <<heartbeatVars, mainVars, latest>>

Heartbeat ==
    HeartbeatStep /\ UNCHANGED <<backendVars, registryVars, parseVars, mainVars, latest>>

Main == MainStep /\ UNCHANGED <<parseVars, heartbeatVars, latest>>

(* Nothing happens once the process has ended.                             *)
Ended == ~running /\ UNCHANGED vars

(* Without the heartbeat thread, what is left may be polling empty queues. *)
Polling ==
    /\ running /\ ~beating
    /\ RxQueue = <<>> /\ parsing = "idle"
    /\ messageQueue = <<>> /\ outbox = <<>> /\ newDevice = NoDevice
    /\ UNCHANGED vars

Next ==
    \/ \E packet \in Incoming : Receive(packet)
    \/ \E c \in Connection : Disconnect(c)
    \/ StopListening
    \/ Parse
    \/ Heartbeat
    \/ Main
    \/ Polling
    \/ Ended

(* Each thread loops for ever.  The mutexes the heartbeat thread takes are *)
(* not fair, but it sleeps 50 ms between two rounds: a thread that waits   *)
(* for one finds it free again and again, and gets it.                     *)
Fairness == SF_vars(Parse) /\ WF_vars(Heartbeat) /\ SF_vars(Main)

Spec == Init /\ [][Next]_vars /\ Fairness

-----------------------------------------------------------------------------
TypeOK ==
    /\ QueuesTypeOK
    /\ BackendTypeOK
    /\ RegistryTypeOK
    /\ ParseTypeOK
    /\ HeartbeatTypeOK
    /\ MainTypeOK
    /\ latest \in [UUID -> Connection \cup {NoConnection}]

-----------------------------------------------------------------------------
(* The places in which a registration of u can be on its way to main.      *)

InWork(u) == parsing = "passOn" /\ websocketppMessage.command = "REGISTRATION"
                                /\ websocketppMessage.uuid = u

RegistrationAt(u, i) ==
    messageQueue[i].command = "REGISTRATION" /\ messageQueue[i].uuid = u

Created(u) == u \in Present \/ newDevice = u

Listed(u) == \E i \in 1..Len(registeredDevices) : registeredDevices[i].uuid = u

(* SocketServer.cpp:155 deletes the old registration when a new one comes  *)
(* in: through any sequence of registrations and re-registrations a UUID   *)
(* is listed at most once, and while one is being replaced it is not       *)
(* listed at all.                                                          *)
ListedOnce ==
    /\ \A i, j \in 1..Len(registeredDevices) :
        registeredDevices[i].uuid = registeredDevices[j].uuid => i = j
    /\ parsing = "reregister" => ~Listed(websocketppMessage.uuid)

(* main.cpp:113: when main takes a message of a device whose type it has a *)
(* class for, the object is there or the device's registration comes       *)
(* first: "Device object was not yet created!" is never the answer to a    *)
(* registered device.                                                      *)
ObjectBeforeMessages ==
    running =>
        \A i \in 1..Len(messageQueue) :
            LET u == messageQueue[i].uuid
            IN  Known(u) => Created(u) \/ \E j \in 1..i : RegistrationAt(u, j)

(* One registration of a device at most is on its way to main, and none    *)
(* once the object is made: no second object is constructed for a UUID     *)
(* (it would send to the device, fail to enter the map and leak).          *)
OneObjectEach ==
    \A u \in UUID :
        /\ \A i, j \in 1..Len(messageQueue) :
            RegistrationAt(u, i) /\ RegistrationAt(u, j) => i = j
        /\ \A i \in 1..Len(messageQueue) :
            RegistrationAt(u, i) => ~InWork(u) /\ ~Created(u)
        /\ InWork(u) => ~Created(u)

(* Between two scans, what main knows of a device's status, or will know   *)
(* once it has handled the reports in its queue, is what the heartbeat     *)
(* thread has on record: no report is lost, doubled or handled late (until *)
(* the thread ends, perhaps with new records not yet reported).            *)
StatusOnTheWay(u) ==
    LET reports == {i \in 1..Len(messageQueue) :
                        messageQueue[i].command = "HEARTBEAT" /\ messageQueue[i].uuid = u}
    IN  IF reports = {} THEN devices[u] ELSE messageQueue[Max(reports)].arg

StatusAgreement ==
    \A u \in Recorded \ todo :
        Known(u) /\ ~IsWebsite(u) /\ beating /\ holding # "heartbeatLock" =>
            StatusOnTheWay(u) = hbStatus[u]

(* A device that registered again is reached where it registered last,     *)
(* once the packets received before are parsed.                            *)
LatestConnection ==
    \A i \in 1..Len(registeredDevices) :
        LET u == registeredDevices[i].uuid
        IN  (\A j \in 1..Len(RxQueue) :
                ~(RxQueue[j].command = "REGISTRATION" /\ RxQueue[j].uuid = u))
            => registeredDevices[i].conn = latest[u]

(* main looks up devices that are registered: a message of the server is   *)
(* dropped for want of a registration only while the receiver's is being   *)
(* replaced.                                                               *)
DroppedOnlyWhileReplacing ==
    \A i \in 1..Len(outbox) :
        ~IsDeviceRegistered(outbox[i]) =>
            parsing = "reregister" /\ websocketppMessage.uuid = outbox[i]

(* SocketServer.cpp:71,183: the list keeps the message a device registered *)
(* with, and SendMessage writes what main sends into it.  Until the parse  *)
(* thread has passed a registration on, main sends nothing through it: the *)
(* registration reaches main as the client sent it.                        *)
RegistrationUntouched ==
    parsing = "passOn" /\ websocketppMessage.command = "REGISTRATION" =>
        /\ \A i \in 1..Len(outbox) : outbox[i] # websocketppMessage.uuid
        /\ pointer # NoPointer /\ ~Dangling =>
                Destination.uuid # websocketppMessage.uuid

(* The channels between the clients and main.  Heartbeats and refused      *)
(* texts take other ways; the packet the parse thread passes on is ahead   *)
(* of what is still to be judged and behind the queue.                     *)
sent ==
    [u \in UUID |->
        Select([i \in 1..Len(RxQueue) |-> Payload(RxQueue[i])],
               {i \in 1..Len(RxQueue) :
                    RxQueue[i].uuid = u /\ RxQueue[i].command
                        \notin {"HEARTBEAT", "MALFORMED", "UNNAMED"}})]

queued ==
    [u \in UUID |->
        Select(messageQueue,
               {i \in 1..Len(messageQueue) :
                    messageQueue[i].uuid = u /\ messageQueue[i].command # "HEARTBEAT"})]

passed ==
    [u \in UUID |->
        IF parsing = "passOn" /\ websocketppMessage.uuid = u
        THEN Append(queued[u], Payload(websocketppMessage)) ELSE queued[u]]

known ==
    {u \in UUID : Listed(u) \/ (parsing = "reregister" /\ websocketppMessage.uuid = u)}

Channels == INSTANCE ClientChannel WITH
    Client <- UUID, Text <- {Payload(packet) : packet \in Incoming},
    sent <- sent, passed <- passed, known <- known, up <- running

(* SocketServer.cpp:101-186, main.cpp:47-115: main gets every client's     *)
(* first registration and what the client sent after it, in order and      *)
(* once, while the threads, the other clients and repeated registrations   *)
(* interleave (no UUID occurring in another's).                            *)
KeepsChannels == Channels!SafeSpec

(* The same, and as long as the process runs every message is judged and   *)
(* every message passed on reaches main.                                   *)
ImplementsChannels == Channels!Spec

(* A registration of a type main has a class for leads to an object, as    *)
(* long as the process runs.                                               *)
RegistrationHandled ==
    \A u \in UUID :
        Known(u) /\ Listed(u) ~> u \in Present \/ ~running

(* Everything received is parsed and every message is handled, as long as  *)
(* the process runs: no thread is starved of a mutex.                      *)
Drained ==
    \/ RxQueue = <<>> /\ parsing = "idle" /\ messageQueue = <<>> /\ outbox = <<>>
    \/ ~running

AllHandled == []<>Drained

-----------------------------------------------------------------------------
(* What the comments promise and the code does not keep.                   *)

(* SocketServer.cpp:101: parseIncomingMessages never returns.  An error    *)
(* reply to a connection that has closed throws and ends the process.      *)
NeverEnds == running

(* SocketServer.cpp:58: SendMessage sends the message to the given device. *)
(* While the parse thread replaces or adds registrations, the pointer that *)
(* SendMessage holds denotes another device's or none.                     *)
SentToGivenDevice ==
    pointer # NoPointer => ~Dangling /\ Destination.uuid = Head(outbox)

=============================================================================
