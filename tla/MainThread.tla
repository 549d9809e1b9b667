----------------------------- MODULE MainThread -----------------------------
(***************************************************************************)
(* main and the part of the device classes it drives through the server:   *)
(* objects are made for registrations, keep a status, and send messages by *)
(* UUID.  Which messages a device's own command makes it send is left open *)
(* here (any up to MaxSends, to devices that have an object); the statuses *)
(* and what a new object, a status report and the website send are exact.  *)
(***************************************************************************)
EXTENDS Registry

CONSTANTS
    MaxSends,       \* bound: messages one device command makes main send
    NoDevice        \* no object under construction

VARIABLES
    devices,        \* the status of each device's object, "absent" if there is none
    newDevice,      \* the device whose object is being constructed
    outbox,         \* the devices main still has to send to, in order
    pointer         \* the registration SendMessage found: its index (0 if it
                    \* has not looked yet) and the allocation it points into

mainVars == <<devices, newDevice, outbox, pointer>>

ASSUME MainAssumption == MaxSends \in Nat /\ NoDevice \notin UUID

NoPointer == [index |-> 0, allocation |-> 0]

MainInit ==
    /\ devices = [u \in UUID |-> "absent"]
    /\ newDevice = NoDevice
    /\ outbox = <<>>
    /\ pointer = NoPointer

Present == {u \in UUID : devices[u] # "absent"}

IsWebsite(u) == TypeOf[u] = "Website"

(* The objects of a type, and the first of them in the map's order.        *)
OfType(type) == {u \in Present : TypeOf[u] = type}

GetDeviceByType(type) == {u \in OfType(type) : \A v \in OfType(type) : u <= v}

(* updateWebsite sends to the first website, if there is one.              *)
UpdateWebsite ==
    IF OfType("Website") = {} THEN outbox' = <<>>
    ELSE \E website \in GetDeviceByType("Website") : outbox' = <<website>>

-----------------------------------------------------------------------------
(* GetMessage returned the message at the head of the queue.               *)
GetMessage ==
    /\ running
    /\ outbox = <<>>
    /\ newDevice = NoDevice
    /\ CanLock("messageLock")
    /\ messageQueue # <<>>
    /\ messageQueue' = Tail(messageQueue)
    /\ UNCHANGED <<heartbeatQueue, holding, backendVars, registryVars, pointer>>

Convertible(message) == message.arg # "illtyped"

(* The Type of a registration, what a device object needs of its message   *)
(* or the Type a website forwards to does not convert: the exception       *)
(* leaves main and the process ends.                                       *)
FailIlltyped ==
    LET u == Head(messageQueue).uuid
    IN  /\ GetMessage
        /\ ~Convertible(Head(messageQueue))
        /\ \/ Head(messageQueue).command = "REGISTRATION"
           \/ Head(messageQueue).command = "DEVICE" /\ u \in Present /\ ~IsWebsite(u)
           \/ Head(messageQueue).command = "WEBSITE_FORWARD" /\ u \in OfType("Website")
        /\ running' = FALSE
        /\ UNCHANGED <<devices, newDevice, outbox>>

(* A registration of a type main has a class for: the constructor of the   *)
(* object sends to the device (DEVICE_INFO, or a website's first update).  *)
CreateDevice ==
    /\ GetMessage
    /\ Head(messageQueue).command = "REGISTRATION"
    /\ Convertible(Head(messageQueue))
    /\ Known(Head(messageQueue).uuid)
    /\ newDevice' = Head(messageQueue).uuid
    /\ outbox' = <<Head(messageQueue).uuid>>
    /\ UNCHANGED <<devices, running>>

IgnoreUnknownType ==
    /\ GetMessage
    /\ Head(messageQueue).command = "REGISTRATION"
    /\ Convertible(Head(messageQueue))
    /\ ~Known(Head(messageQueue).uuid)
    /\ UNCHANGED <<devices, newDevice, outbox, running>>

(* The constructed object enters the map unless its UUID is there already. *)
InsertDevice ==
    /\ running
    /\ newDevice # NoDevice
    /\ outbox = <<>>
    /\ devices' = IF newDevice \in Present THEN devices
                  ELSE [devices EXCEPT ![newDevice] = "CONNECTED"]
    /\ newDevice' = NoDevice
    /\ UNCHANGED <<queueVars, backendVars, registryVars, outbox, pointer>>

(* A status report of the heartbeat thread.                                *)
HandleReport ==
    LET u == Head(messageQueue).uuid
    IN  /\ GetMessage
        /\ Head(messageQueue).command = "HEARTBEAT"
        /\ u \in Present /\ ~IsWebsite(u)
        /\ devices' = [devices EXCEPT ![u] = Head(messageQueue).arg]
        /\ UpdateWebsite
        /\ UNCHANGED <<newDevice, running>>

(* A website object does nothing with anything but its two commands, the   *)
(* other objects nothing with the website's.                               *)
HandleNothing ==
    LET u == Head(messageQueue).uuid
    IN  /\ GetMessage
        /\ u \in Present
        /\ \/ Head(messageQueue).command \in {"HEARTBEAT", "DEVICE"} /\ IsWebsite(u)
           \/ Head(messageQueue).command \in {"WEBSITE_UPDATE", "WEBSITE_FORWARD"}
              /\ ~IsWebsite(u)
        /\ UNCHANGED <<devices, newDevice, outbox, running>>

(* A command of the device itself, or one the website forwards to the      *)
(* first device of a type: the object may send to itself, to the website   *)
(* and to a device it drives.                                              *)
HandleDeviceCommand ==
    /\ GetMessage
    /\ Convertible(Head(messageQueue))
    /\ \/ /\ Head(messageQueue).command = "DEVICE"
          /\ Head(messageQueue).uuid \in Present
          /\ ~IsWebsite(Head(messageQueue).uuid)
       \/ /\ Head(messageQueue).command = "WEBSITE_FORWARD"
          /\ Head(messageQueue).uuid \in OfType("Website")
          /\ OfType(Head(messageQueue).arg) # {}
          /\ Head(messageQueue).arg # "Website"
    /\ outbox' \in SeqOf(Present, MaxSends)
    /\ UNCHANGED <<devices, newDevice, running>>

(* Forwarded to a website (itself or an older one): it ignores the device  *)
(* command.                                                                *)
ForwardToWebsite ==
    /\ GetMessage
    /\ Head(messageQueue).command = "WEBSITE_FORWARD"
    /\ Head(messageQueue).uuid \in OfType("Website")
    /\ Head(messageQueue).arg = "Website"
    /\ UNCHANGED <<devices, newDevice, outbox, running>>

(* getDeviceByType returned nullptr and the website calls through it.      *)
ForwardToNobody ==
    /\ GetMessage
    /\ Head(messageQueue).command = "WEBSITE_FORWARD"
    /\ Head(messageQueue).uuid \in OfType("Website")
    /\ Convertible(Head(messageQueue))
    /\ OfType(Head(messageQueue).arg) = {}
    /\ running' = FALSE
    /\ UNCHANGED <<devices, newDevice, outbox>>

HandleWebsiteUpdate ==
    /\ GetMessage
    /\ Head(messageQueue).command = "WEBSITE_UPDATE"
    /\ Head(messageQueue).uuid \in OfType("Website")
    /\ outbox' = <<Head(messageQueue).uuid>>
    /\ UNCHANGED <<devices, newDevice, running>>

(* "Device object was not yet created!"                                    *)
ReplyNotCreated ==
    /\ GetMessage
    /\ Head(messageQueue).command # "REGISTRATION"
    /\ Head(messageQueue).uuid \notin Present
    /\ outbox' = <<Head(messageQueue).uuid>>
    /\ UNCHANGED <<devices, newDevice, running>>

-----------------------------------------------------------------------------
(* SendMessage to the head of the outbox.                                  *)

(* No registration is found: it returns false and the message is dropped.  *)
DropMessage ==
    /\ running
    /\ outbox # <<>>
    /\ pointer = NoPointer
    /\ ~IsDeviceRegistered(Head(outbox))
    /\ outbox' = Tail(outbox)
    /\ UNCHANGED <<queueVars, backendVars, registryVars, devices, newDevice, pointer>>

LookUp ==
    /\ running
    /\ outbox # <<>>
    /\ pointer = NoPointer
    /\ \E i \in GetRegisteredDevice(Head(outbox)) :
        pointer' = [index |-> i, allocation |-> capacity]
    /\ UNCHANGED <<queueVars, backendVars, registryVars, devices, newDevice, outbox>>

(* The pointer still points at an element of the vector.                   *)
Dangling ==
    \/ pointer.allocation # capacity
    \/ pointer.index > Len(registeredDevices)

(* Where the message really goes.                                          *)
Destination == registeredDevices[pointer.index]

Transmit ==
    /\ running
    /\ pointer # NoPointer
    /\ ~Dangling
    /\ SendWebsocketppMessage(Destination.conn)
    /\ outbox' = Tail(outbox)
    /\ pointer' = NoPointer
    /\ UNCHANGED <<heartbeatQueue, messageQueue, holding, backendVars, registryVars,
                   devices, newDevice>>

(* Undefined: the element was moved to a new allocation or destroyed.  The *)
(* process may end, or the freed bytes still name the old connection,      *)
(* whatever becomes of the message.                                        *)
TransmitDangling ==
    /\ running
    /\ pointer # NoPointer
    /\ Dangling
    /\ running' \in BOOLEAN
    /\ outbox' = Tail(outbox)
    /\ pointer' = NoPointer
    /\ UNCHANGED <<heartbeatQueue, messageQueue, holding, backendVars, registryVars,
                   devices, newDevice>>

MainStep ==
    \/ FailIlltyped
    \/ CreateDevice \/ IgnoreUnknownType \/ InsertDevice
    \/ HandleReport \/ HandleNothing \/ HandleDeviceCommand
    \/ ForwardToWebsite \/ ForwardToNobody \/ HandleWebsiteUpdate
    \/ ReplyNotCreated
    \/ DropMessage \/ LookUp \/ Transmit \/ TransmitDangling

MainTypeOK ==
    /\ devices \in [UUID -> Status \cup {"absent"}]
    /\ newDevice \in UUID \cup {NoDevice}
    /\ outbox \in Seq(UUID)
    /\ pointer \in [index : Nat, allocation : Nat]
    /\ pointer # NoPointer => outbox # <<>>

=============================================================================
