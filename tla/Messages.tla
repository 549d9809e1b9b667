------------------------------ MODULE Messages ------------------------------
(***************************************************************************)
(* What travels through the server: the packets the websocket library      *)
(* delivers and the messages derived from them.  A packet keeps the        *)
(* connection it came on, the UUID it names, its command and one argument; *)
(* the JSON text around them is left out.                                  *)
(***************************************************************************)
EXTENDS Integers, Sequences, FiniteSets

CONSTANTS
    UUID,           \* the UUIDs of the clients; their order is the map's
    TypeOf,         \* the Type a client states in its messages
    Connection,     \* the websocket connections
    Substring       \* <<u, v>> : the text of u occurs in the text of v

(* The types main creates an object for; any other text is "Other".        *)
DeviceType ==
    {"Bed", "Chair", "Column", "Door", "Fridge", "Lamp", "SimulatedDevice",
     "Wall", "Website", "WIB"}

Status == {"CONNECTED", "UNSTABLE", "DISCONNECTED"}

(* "MALFORMED" is a text that is not JSON or lacks a required field,       *)
(* "UNNAMED" one that has them and whose UUID is not a string (its uuid    *)
(* here means nothing); "DEVICE" stands for DEVICE_INFO and the commands   *)
(* of the device types.                                                    *)
Command ==
    {"MALFORMED", "UNNAMED", "REGISTRATION", "HEARTBEAT", "DEVICE",
     "WEBSITE_UPDATE", "WEBSITE_FORWARD"}

(* The argument that matters: the type a WEBSITE_FORWARD is meant for, the *)
(* status the server's heartbeat thread reports.  "illtyped": a field that *)
(* whoever handles the command converts is missing or of another type.     *)
Argument == DeviceType \cup Status \cup {"none", "illtyped"}

Message == [uuid : UUID, command : Command, arg : Argument]

Packet == [conn : Connection, uuid : UUID, command : Command, arg : Argument]

Payload(packet) ==
    [uuid |-> packet.uuid, command |-> packet.command, arg |-> packet.arg]

Report(u, s) == [uuid |-> u, command |-> "HEARTBEAT", arg |-> s]

(* Has main a class for the type of u?                                     *)
Known(u) == TypeOf[u] \in DeviceType

(* No UUID's text occurs in another's: lookups by substring are exact.     *)
ExactMatch == \A u, v \in UUID : <<u, v>> \in Substring => u = v

ASSUME UUIDAssumption == UUID \subseteq Nat /\ IsFiniteSet(UUID)

ASSUME TypeAssumption == TypeOf \in [UUID -> DeviceType \cup {"Other"}]

ASSUME SubstringAssumption ==
    /\ Substring \subseteq UUID \X UUID
    /\ \A u \in UUID : <<u, u>> \in Substring

=============================================================================
