---------------------------- MODULE ParseThread ----------------------------
(***************************************************************************)
(* parseIncomingMessages: takes one packet at a time, keeps the registry,  *)
(* answers what it refuses and passes the rest to the heartbeat or the     *)
(* main thread.  A packet is taken and judged in one step (only this       *)
(* thread changes the registry); what follows the first change that        *)
(* another thread can see is a step of its own.                            *)
(***************************************************************************)
EXTENDS Registry

CONSTANT NoPacket   \* no packet in work (the code keeps the last one, unread)

ASSUME NoPacketAssumption == NoPacket \notin Packet

VARIABLES
    parsing,        \* "idle", or what the thread still has to do with its packet
    websocketppMessage      \* the packet in work, or NoPacket

parseVars == <<parsing, websocketppMessage>>

ParseInit ==
    /\ parsing = "idle"
    /\ websocketppMessage = NoPacket

(* The packet at the head of the queue is taken; next is what is left to   *)
(* do with it.                                                             *)
TakePacket(next) ==
    /\ running
    /\ parsing = "idle"
    /\ RxQueue # <<>>
    /\ RxQueue' = Tail(RxQueue)
    /\ websocketppMessage' = IF next = "idle" THEN NoPacket ELSE Head(RxQueue)
    /\ parsing' = next
    /\ UNCHANGED <<heartbeatQueue, messageQueue, holding, connectionVars>>

RejectInvalid ==
    /\ TakePacket("idle")
    /\ Head(RxQueue).command = "MALFORMED"
    /\ SendWebsocketppMessage(Head(RxQueue).conn)
    /\ UNCHANGED registryVars

RejectUnregistered ==
    /\ TakePacket("idle")
    /\ Head(RxQueue).command \notin {"MALFORMED", "UNNAMED", "REGISTRATION"}
    /\ ~IsDeviceRegistered(Head(RxQueue).uuid)
    /\ SendWebsocketppMessage(Head(RxQueue).conn)
    /\ UNCHANGED registryVars

(* The conversion of the UUID to a string throws and nothing catches it.   *)
FailUnnamed ==
    /\ TakePacket("idle")
    /\ Head(RxQueue).command = "UNNAMED"
    /\ running' = FALSE
    /\ UNCHANGED registryVars

(* Variant: a new device is registered and main is not told.               *)
RegisterSilently ==
    /\ TakePacket("idle")
    /\ Head(RxQueue).command = "REGISTRATION"
    /\ ~IsDeviceRegistered(Head(RxQueue).uuid)
    /\ RegisterDevice(Head(RxQueue))
    /\ UNCHANGED running

(* A new device is registered before its message is passed on.             *)
RegisterNew ==
    /\ TakePacket("passOn")
    /\ Head(RxQueue).command = "REGISTRATION"
    /\ ~IsDeviceRegistered(Head(RxQueue).uuid)
    /\ RegisterDevice(Head(RxQueue))
    /\ UNCHANGED running

(* A registration for a listed UUID: the old entry goes first ...          *)
EraseOld ==
    /\ TakePacket("reregister")
    /\ Head(RxQueue).command = "REGISTRATION"
    /\ IsDeviceRegistered(Head(RxQueue).uuid)
    /\ EraseRegistration(Head(RxQueue).uuid)
    /\ UNCHANGED running

(* Variant: the replaced registration is passed on as well.                *)
ReRegisterPassingOn ==
    /\ running
    /\ parsing = "reregister"
    /\ RegisterDevice(websocketppMessage)
    /\ parsing' = "passOn"
    /\ UNCHANGED <<queueVars, backendVars, websocketppMessage>>

(* ... then the new one is added; main does not hear of it.                *)
ReRegister ==
    /\ running
    /\ parsing = "reregister"
    /\ RegisterDevice(websocketppMessage)
    /\ parsing' = "idle"
    /\ websocketppMessage' = NoPacket
    /\ UNCHANGED <<queueVars, backendVars>>

TakeHeartbeatPacket ==
    /\ TakePacket("heartbeat")
    /\ Head(RxQueue).command = "HEARTBEAT"
    /\ IsDeviceRegistered(Head(RxQueue).uuid)
    /\ UNCHANGED <<registryVars, running>>

(* Variant: the sender need not be registered.                             *)
TakeUnchecked ==
    /\ TakePacket("passOn")
    /\ Head(RxQueue).command
        \notin {"MALFORMED", "UNNAMED", "REGISTRATION", "HEARTBEAT"}
    /\ UNCHANGED <<registryVars, running>>

TakeOther ==
    /\ TakePacket("passOn")
    /\ Head(RxQueue).command
        \notin {"MALFORMED", "UNNAMED", "REGISTRATION", "HEARTBEAT"}
    /\ IsDeviceRegistered(Head(RxQueue).uuid)
    /\ UNCHANGED <<registryVars, running>>

QueueHeartbeat ==
    /\ running
    /\ parsing = "heartbeat"
    /\ CanLock("heartbeatLock")
    /\ heartbeatQueue' = Append(heartbeatQueue, Payload(websocketppMessage))
    /\ parsing' = "idle"
    /\ websocketppMessage' = NoPacket
    /\ UNCHANGED <<messageQueue, holding, running, backendVars, registryVars>>

PassOn ==
    /\ running
    /\ parsing = "passOn"
    /\ CanLock("messageLock")
    /\ messageQueue' = Append(messageQueue, Payload(websocketppMessage))
    /\ parsing' = "idle"
    /\ websocketppMessage' = NoPacket
    /\ UNCHANGED <<heartbeatQueue, holding, running, backendVars, registryVars>>

ParseStep ==
    \/ RejectInvalid \/ FailUnnamed \/ RejectUnregistered
    \/ RegisterNew \/ EraseOld \/ ReRegister
    \/ TakeHeartbeatPacket \/ TakeOther
    \/ QueueHeartbeat \/ PassOn

ParseTypeOK ==
    /\ parsing \in {"idle", "reregister", "heartbeat", "passOn"}
    /\ websocketppMessage \in Packet \cup {NoPacket}
    /\ parsing = "idle" <=> websocketppMessage = NoPacket

=============================================================================
