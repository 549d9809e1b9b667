------------------------------- MODULE Queues -------------------------------
(***************************************************************************)
(* The state several threads of the server share: the two queues that lead *)
(* to the heartbeat and the main thread, the mutex the heartbeat thread is *)
(* holding (the only thread that holds one across several steps of this    *)
(* model), and whether the process still runs.                             *)
(***************************************************************************)
EXTENDS Messages

CONSTANT
    StrayLocks  \* the mutexes that second unlocks may have freed while the
                \* heartbeat thread is inside (SocketLocks)

VARIABLES
    heartbeatQueue,     \* heartbeats for the heartbeat thread, oldest first
    messageQueue,       \* messages for main, oldest first
    holding,            \* the mutex the heartbeat thread holds, or "none"
    running             \* FALSE once an exception or a bad pointer ended the process

queueVars == <<heartbeatQueue, messageQueue, holding, running>>

MutexName == {"heartbeatLock", "messageLock"}

ASSUME StrayAssumption == StrayLocks \subseteq MutexName

CanLock(mutex) == holding # mutex \/ mutex \in StrayLocks

QueuesInit ==
    /\ heartbeatQueue = <<>>
    /\ messageQueue = <<>>
    /\ holding = "none"
    /\ running = TRUE

QueuesTypeOK ==
    /\ heartbeatQueue \in Seq(Message)
    /\ messageQueue \in Seq(Message)
    /\ holding \in MutexName \cup {"none"}
    /\ running \in BOOLEAN

=============================================================================
