----------------------------- MODULE StatusFeed -----------------------------
(***************************************************************************)
(* What the heartbeat thread promises, without records, ages or locks: a   *)
(* feed of status changes.  Every device starts out DISCONNECTED; a change *)
(* is reported once; a device comes back only as CONNECTED and only after  *)
(* a heartbeat; it becomes UNSTABLE only from CONNECTED.                   *)
(***************************************************************************)
EXTENDS Sequences

CONSTANT Device

VARIABLES
    beats,      \* heartbeats not yet noticed, oldest first
    alive,      \* a heartbeat was noticed and not yet reported
    status,     \* the status last reported
    feed        \* the reports nobody has taken yet

vars == <<beats, alive, status, feed>>

Entry(u, s) == [uuid |-> u, command |-> "HEARTBEAT", arg |-> s]

Init ==
    /\ beats = <<>>
    /\ alive = [u \in Device |-> FALSE]
    /\ status = [u \in Device |-> "DISCONNECTED"]
    /\ feed = <<>>

Beat(u) ==
    /\ beats' = Append(beats, u)
    /\ UNCHANGED <<alive, status, feed>>

(* A heartbeat matters to a device that is not CONNECTED.                  *)
Notice ==
    /\ beats # <<>>
    /\ beats' = Tail(beats)
    /\ alive' = [alive EXCEPT ![Head(beats)] = status[Head(beats)] # "CONNECTED"]
    /\ UNCHANGED <<status, feed>>

Publish(u, s) ==
    /\ status' = [status EXCEPT ![u] = s]
    /\ alive' = [alive EXCEPT ![u] = FALSE]
    /\ feed' = Append(feed, Entry(u, s))
    /\ UNCHANGED beats

Connect(u) == alive[u] /\ Publish(u, "CONNECTED")

Degrade(u) == status[u] = "CONNECTED" /\ Publish(u, "UNSTABLE")

Lose(u) == status[u] # "DISCONNECTED" /\ ~alive[u] /\ Publish(u, "DISCONNECTED")

Take ==
    /\ feed # <<>>
    /\ feed' = Tail(feed)
    /\ UNCHANGED <<beats, alive, status>>

Next ==
    \/ \E u \in Device : Beat(u) \/ Connect(u) \/ Degrade(u) \/ Lose(u)
    \/ Notice
    \/ Take

SafeSpec == Init /\ [][Next]_vars

Spec == SafeSpec /\ WF_vars(Notice) /\ \A u \in Device : WF_vars(Connect(u))

=============================================================================
