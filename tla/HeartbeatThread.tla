--------------------------- MODULE HeartbeatThread ---------------------------
(***************************************************************************)
(* heartbeat: one record per device that ever sent a heartbeat, with the   *)
(* status last reported and the time of the last heartbeat.  The code      *)
(* compares that time with the current time only, so the record keeps the  *)
(* difference, the record's age; ages advance when the thread wakes up and *)
(* reads the clock.                                                        *)
(***************************************************************************)
EXTENDS Queues

CONSTANTS
    UnstableAfter,      \* 1000 ms in the code
    DisconnectedAfter,  \* 10000 ms in the code
    Wrap,               \* 2^64: ages are differences of uint64_t
    MaxAge,             \* bound: older records (or later ones) keep this age
    ClockSteps,         \* how far the system clock moves between two wake-ups
    MaxQueue            \* bound: the thread waits for main beyond this length

VARIABLES
    hbStatus,   \* the status in each record, "none" where there is no record
    age,        \* the age of each record, negative when the clock went back
    todo,       \* the records this scan has not looked at yet
    beating     \* FALSE once an exception has ended the thread

heartbeatVars == <<hbStatus, age, todo, beating>>

ASSUME ClockAssumption ==
    /\ UnstableAfter \in Nat /\ DisconnectedAfter \in Nat /\ MaxAge \in Nat
    /\ UnstableAfter < DisconnectedAfter /\ DisconnectedAfter < MaxAge
    /\ Wrap \in Nat /\ DisconnectedAfter + MaxAge < Wrap
    /\ ClockSteps \subseteq Int
    /\ MaxQueue \in Nat

HeartbeatInit ==
    /\ hbStatus = [u \in UUID |-> "none"]
    /\ age = [u \in UUID |-> 0]
    /\ todo = {}
    /\ beating = TRUE

Clamp(a) == IF a > MaxAge THEN MaxAge ELSE IF a < -MaxAge THEN -MaxAge ELSE a

(* The unsigned difference of the current time and a record's time.        *)
Elapsed(a) == a % Wrap

(* Variant: the limits are tested in the other order.                      *)
StatusAtSwapped(a) ==
    IF Elapsed(a) > UnstableAfter THEN "UNSTABLE"
    ELSE IF Elapsed(a) > DisconnectedAfter THEN "DISCONNECTED"
    ELSE "CONNECTED"

(* Variant: a limit that is reached counts as exceeded.                    *)
StatusAtReached(a) ==
    IF Elapsed(a) >= DisconnectedAfter THEN "DISCONNECTED"
    ELSE IF Elapsed(a) >= UnstableAfter THEN "UNSTABLE"
    ELSE "CONNECTED"

StatusAt(a) ==
    IF Elapsed(a) > DisconnectedAfter THEN "DISCONNECTED"
    ELSE IF Elapsed(a) > UnstableAfter THEN "UNSTABLE"
    ELSE "CONNECTED"

Recorded == {u \in UUID : hbStatus[u] # "none"}

(* The clock is read, then the lock of the heartbeat queue is taken.       *)
WakeUp(d) ==
    /\ running
    /\ beating
    /\ holding = "none"
    /\ Len(messageQueue) + Cardinality(UUID) <= MaxQueue
    /\ holding' = "heartbeatLock"
    /\ age' = [u \in UUID |-> IF u \in Recorded THEN Clamp(age[u] + d) ELSE 0]
    /\ UNCHANGED <<heartbeatQueue, messageQueue, running, hbStatus, todo, beating>>

(* A first heartbeat whose field "heartbeat" is not an object: the status  *)
(* cannot be stored in it.                                                 *)
Unstorable(message) ==
    message.arg = "illtyped" /\ message.uuid \notin Recorded

(* Variant: a heartbeat only makes a record, it does not refresh one.      *)
RecordFirst ==
    LET u == Head(heartbeatQueue).uuid
    IN  /\ running
        /\ holding = "heartbeatLock"
        /\ heartbeatQueue # <<>>
        /\ ~Unstorable(Head(heartbeatQueue))
        /\ heartbeatQueue' = Tail(heartbeatQueue)
        /\ age' = [age EXCEPT ![u] = IF u \in Recorded THEN age[u] ELSE 0]
        /\ hbStatus' = [hbStatus EXCEPT
                           ![u] = IF u \in Recorded THEN @ ELSE "DISCONNECTED"]
        /\ UNCHANGED <<messageQueue, holding, running, todo, beating>>

(* One heartbeat refreshes its record, or makes one whose first report is  *)
(* due: a new record starts out DISCONNECTED.                              *)
TakeHeartbeat ==
    LET u == Head(heartbeatQueue).uuid
    IN  /\ running
        /\ holding = "heartbeatLock"
        /\ heartbeatQueue # <<>>
        /\ ~Unstorable(Head(heartbeatQueue))
        /\ heartbeatQueue' = Tail(heartbeatQueue)
        /\ age' = [age EXCEPT ![u] = 0]
        /\ hbStatus' = [hbStatus EXCEPT
                           ![u] = IF u \in Recorded THEN @ ELSE "DISCONNECTED"]
        /\ UNCHANGED <<messageQueue, holding, running, todo, beating>>

(* The exception unwinds the guard, which releases the mutex, and the      *)
(* thread catches it outside its loop: it ends.                            *)
HeartbeatFails ==
    /\ running
    /\ holding = "heartbeatLock"
    /\ heartbeatQueue # <<>>
    /\ Unstorable(Head(heartbeatQueue))
    /\ heartbeatQueue' = Tail(heartbeatQueue)
    /\ holding' = "none"
    /\ beating' = FALSE
    /\ UNCHANGED <<messageQueue, running, hbStatus, age, todo>>

(* The queue is empty: its lock is released, the message queue's taken.    *)
StartScan ==
    /\ running
    /\ holding = "heartbeatLock"
    /\ heartbeatQueue = <<>>
    /\ holding' = "messageLock"
    /\ todo' = Recorded
    /\ UNCHANGED <<heartbeatQueue, messageQueue, running, hbStatus, age, beating>>

(* Variant: a record that needs no report ends the scan.                   *)
BreakAtKept(u) ==
    /\ running
    /\ holding = "messageLock"
    /\ u \in todo
    /\ hbStatus[u] = StatusAt(age[u])
    /\ todo' = {}
    /\ UNCHANGED <<queueVars, hbStatus, age, beating>>

(* The record of u is in the status its age stands for.                    *)
KeepStatus(u) ==
    /\ running
    /\ holding = "messageLock"
    /\ u \in todo
    /\ hbStatus[u] = StatusAt(age[u])
    /\ todo' = todo \ {u}
    /\ UNCHANGED <<queueVars, hbStatus, age, beating>>

(* Variant: the message is queued, the new status not stored.              *)
PublishUnstored(u) ==
    /\ running
    /\ holding = "messageLock"
    /\ u \in todo
    /\ hbStatus[u] # StatusAt(age[u])
    /\ messageQueue' = Append(messageQueue, Report(u, StatusAt(age[u])))
    /\ todo' = todo \ {u}
    /\ UNCHANGED <<heartbeatQueue, holding, running, hbStatus, age, beating>>

(* It is not: the new status is stored and reported.                       *)
PublishStatus(u) ==
    /\ running
    /\ holding = "messageLock"
    /\ u \in todo
    /\ hbStatus[u] # StatusAt(age[u])
    /\ hbStatus' = [hbStatus EXCEPT ![u] = StatusAt(age[u])]
    /\ messageQueue' = Append(messageQueue, Report(u, StatusAt(age[u])))
    /\ todo' = todo \ {u}
    /\ UNCHANGED <<heartbeatQueue, holding, running, age, beating>>

(* Variant: the scan ends after its first record.                          *)
EndScanEarly ==
    /\ running
    /\ holding = "messageLock"
    /\ holding' = "none"
    /\ UNCHANGED <<heartbeatQueue, messageQueue, running, heartbeatVars>>

(* Variant: the unlock moved into the loop, a scan of no records keeps the *)
(* mutex.                                                                  *)
EndScanLocked ==
    /\ running
    /\ holding = "messageLock"
    /\ todo = {}
    /\ holding' = IF Recorded = {} THEN holding ELSE "none"
    /\ UNCHANGED <<heartbeatQueue, messageQueue, running, heartbeatVars>>

(* The mutex of the message queue is released and the round is over.       *)
EndScan ==
    /\ running
    /\ holding = "messageLock"
    /\ todo = {}
    /\ holding' = "none"
    /\ UNCHANGED <<heartbeatQueue, messageQueue, running, heartbeatVars>>

HeartbeatStep ==
    \/ \E d \in ClockSteps : WakeUp(d)
    \/ TakeHeartbeat
    \/ HeartbeatFails
    \/ StartScan
    \/ \E u \in UUID : KeepStatus(u) \/ PublishStatus(u)
    \/ EndScan

HeartbeatTypeOK ==
    /\ hbStatus \in [UUID -> Status \cup {"none"}]
    /\ age \in [UUID -> -MaxAge .. MaxAge]
    /\ todo \subseteq Recorded
    /\ holding # "messageLock" => todo = {}
    /\ beating \in BOOLEAN
    /\ ~beating => holding = "none"

=============================================================================
