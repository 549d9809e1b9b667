------------------------------ MODULE MCServer ------------------------------
(***************************************************************************)
(* Instances of Server for TLC.  Device 1 is a website, the others are     *)
(* devices; connection names start with the device that uses them.         *)
(***************************************************************************)
EXTENDS Server

P(c, u, command, arg) == [conn |-> c, uuid |-> u, command |-> command, arg |-> arg]

\* A website and a chair that register, register again and send.
TwoDevices == {1, 2}
TwoTypes == [u \in TwoDevices |-> IF u = 1 THEN "Website" ELSE "Chair"]
TwoConnections == {"1a", "2a", "2b"}
TwoClients ==
    {P("1a", 1, "REGISTRATION", "none"), P("2a", 2, "REGISTRATION", "none"),
     P("2b", 2, "REGISTRATION", "none"), P("2a", 2, "HEARTBEAT", "none"),
     P("2a", 2, "DEVICE", "none"), P("1a", 1, "WEBSITE_FORWARD", "Chair"),
     P("1a", 1, "WEBSITE_FORWARD", "Website"), P("1a", 1, "WEBSITE_UPDATE", "none"),
     P("1a", 1, "DEVICE", "none")}

\* A chair, and a client of a type the server has no class for.
OddDevices == {2, 3}
OddTypes == [u \in OddDevices |-> IF u = 2 THEN "Chair" ELSE "Other"]
OddConnections == {"2a", "3a"}
OddClients ==
    {P("2a", 2, "REGISTRATION", "none"), P("2a", 2, "HEARTBEAT", "none"),
     P("3a", 3, "REGISTRATION", "none"), P("3a", 3, "HEARTBEAT", "none"),
     P("3a", 3, "MALFORMED", "none")}

\* The same two, and fields of the wrong type.
IllTypedClients ==
    OddClients \cup
    {P("2a", 2, "HEARTBEAT", "illtyped"), P("2a", 2, "DEVICE", "illtyped"),
     P("3a", 3, "UNNAMED", "none")}

Exact == {<<u, u>> : u \in UUID}

\* The text of UUID 2 occurs in the text of UUID 1 ("column_1" in "column_10").
Inside == Exact \cup {<<2, 1>>}

BothLocks == MutexName
Ticks == {1, 2}
Tick == {1}

=============================================================================
