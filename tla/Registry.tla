------------------------------ MODULE Registry ------------------------------
(***************************************************************************)
(* registeredDevices: a vector of (UUID, connection) that the parse thread *)
(* changes and the main thread reads, without a lock.  The vector lives in *)
(* one allocation until a push_back finds it full; its capacity then       *)
(* doubles, so the capacity identifies the allocation.                     *)
(***************************************************************************)
EXTENDS WebsocketBackend, SequencesExt

VARIABLES registeredDevices, capacity

registryVars == <<registeredDevices, capacity>>

RegistryInit ==
    /\ registeredDevices = <<>>
    /\ capacity = 0

(* The registrations whose UUID contains the text of u, and the first.     *)
RegistrationsOf(u) ==
    {i \in 1..Len(registeredDevices) : <<u, registeredDevices[i].uuid>> \in Substring}

IsDeviceRegistered(u) == RegistrationsOf(u) # {}

GetRegisteredDevice(u) ==
    {i \in RegistrationsOf(u) : \A j \in RegistrationsOf(u) : i <= j}

(* Variant: the vector never asks for a larger allocation.                 *)
RegisterInPlace(packet) ==
    /\ registeredDevices' =
        Append(registeredDevices, [uuid |-> packet.uuid, conn |-> packet.conn])
    /\ UNCHANGED capacity

(* push_back of the registration a packet asks for.                        *)
RegisterDevice(packet) ==
    /\ registeredDevices' =
        Append(registeredDevices, [uuid |-> packet.uuid, conn |-> packet.conn])
    /\ capacity' = IF Len(registeredDevices) < capacity THEN capacity
                   ELSE IF capacity = 0 THEN 1 ELSE 2 * capacity

(* Variant: the old registration stays in the list.                        *)
KeepRegistration(u) == UNCHANGED registryVars

(* Variant: the youngest registration is erased, whoever's it is.          *)
EraseLast(u) ==
    /\ registeredDevices' = Front(registeredDevices)
    /\ UNCHANGED capacity

(* The first registration with exactly this UUID is erased, if there is    *)
(* one; the ones behind it move up.                                        *)
EraseRegistration(u) ==
    LET exact == {i \in 1..Len(registeredDevices) : registeredDevices[i].uuid = u}
    IN  /\ registeredDevices' =
            IF exact = {} THEN registeredDevices
            ELSE RemoveAt(registeredDevices, Min(exact))
        /\ UNCHANGED capacity

RegistryTypeOK ==
    /\ registeredDevices \in Seq([uuid : UUID, conn : Connection])
    /\ capacity \in Nat
    /\ Len(registeredDevices) <= capacity

=============================================================================
