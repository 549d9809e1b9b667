-------------------------- MODULE HeartbeatMonitor --------------------------
(***************************************************************************)
(* The heartbeat thread alone, between its two queues: heartbeats of       *)
(* registered devices come in, main takes the reports.  It implements the  *)
(* status feed.                                                            *)
(***************************************************************************)
EXTENDS HeartbeatThread

CONSTANTS
    MaxBeats,   \* bound: heartbeats that wait at a time
    MaxLate     \* heartbeats that can come in while the queue is drained

VARIABLE
    late        \* heartbeats that came in since the draining began

vars == <<queueVars, heartbeatVars, late>>

ASSUME BeatsAssumption == MaxBeats \in Nat /\ MaxLate \in Nat

Init == QueuesInit /\ HeartbeatInit /\ late = 0

Beat(u) == [uuid |-> u, command |-> "HEARTBEAT", arg |-> "none"]

(* The parse thread queues a heartbeat of u.  With a stray heartbeatLock   *)
(* it can do so while the queue is drained, but it sleeps 10 ms before     *)
(* each packet and a turn of the draining loop takes far less: it adds a   *)
(* few before the loop catches up.                                         *)
QueueHeartbeat(u) ==
    /\ Len(heartbeatQueue) < MaxBeats
    /\ CanLock("heartbeatLock")
    /\ holding = "heartbeatLock" => late < MaxLate
    /\ late' = IF holding = "heartbeatLock" THEN late + 1 ELSE 0
    /\ heartbeatQueue' = Append(heartbeatQueue, Beat(u))
    /\ UNCHANGED <<messageQueue, holding, running, heartbeatVars>>

(* main takes a report.                                                    *)
GetMessage ==
    /\ messageQueue # <<>>
    /\ CanLock("messageLock")
    /\ messageQueue' = Tail(messageQueue)
    /\ UNCHANGED <<heartbeatQueue, holding, running, heartbeatVars, late>>

(* The next draining starts counting anew.                                 *)
Monitor ==
    /\ HeartbeatStep
    /\ late' = IF holding' = "heartbeatLock" THEN late ELSE 0

Next ==
    \/ \E u \in UUID : QueueHeartbeat(u)
    \/ GetMessage
    \/ Monitor

Spec == Init /\ [][Next]_vars /\ WF_vars(Monitor) /\ SF_vars(GetMessage)

-----------------------------------------------------------------------------
TypeOK == QueuesTypeOK /\ HeartbeatTypeOK /\ running /\ beating

(* A device that has no record has never been reported: DISCONNECTED.  It  *)
(* has a heartbeat to report from the step that refreshes its record to    *)
(* the step that reports it, within one round.                             *)
reported == [u \in UUID |-> IF u \in Recorded THEN hbStatus[u] ELSE "DISCONNECTED"]

noticed ==
    [u \in UUID |-> /\ u \in Recorded
                    /\ hbStatus[u] # "CONNECTED"
                    /\ StatusAt(age[u]) = "CONNECTED"]

beats == [i \in 1..Len(heartbeatQueue) |-> heartbeatQueue[i].uuid]

Feed == INSTANCE StatusFeed WITH
    Device <- UUID, beats <- beats, alive <- noticed,
    status <- reported, feed <- messageQueue

(* The thread implements the feed: no change goes unreported or is         *)
(* reported twice, no device comes back without a heartbeat or skips from  *)
(* DISCONNECTED to UNSTABLE, every heartbeat of a silent device leads to a *)
(* CONNECTED report.                                                       *)
ImplementsFeed == Feed!Spec

(* Whenever the thread sleeps, each record's status is the one its age     *)
(* stands for.                                                             *)
StatusFollowsAge ==
    /\ holding = "none" => \A u \in Recorded : hbStatus[u] = StatusAt(age[u])
    /\ holding = "messageLock" =>
        \A u \in Recorded \ todo : hbStatus[u] = StatusAt(age[u])

(* SocketServer.cpp:332: a device that stays silent is reported            *)
(* DISCONNECTED, unless it is heard again.                                 *)
SilentReported ==
    \A u \in UUID :
        u \in Recorded ~>
            \/ hbStatus[u] = "DISCONNECTED"
            \/ \E i \in 1..Len(heartbeatQueue) : heartbeatQueue[i].uuid = u

(* SocketServer.cpp:332: only a record that is out of time gets the status *)
(* DISCONNECTED.  The unsigned difference makes a clock that went back     *)
(* look like a silence of ages.                                            *)
OutOfTimeOnly ==
    [][ \A u \in Recorded :
            hbStatus'[u] = "DISCONNECTED" /\ hbStatus[u] # "DISCONNECTED"
                => age[u] > DisconnectedAfter ]_vars

=============================================================================
