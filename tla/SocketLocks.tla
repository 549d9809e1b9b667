---------------------------- MODULE SocketLocks ----------------------------
(***************************************************************************)
(* The three mutexes of the socket server and the four threads that use    *)
(* them.  parseIncomingMessages and heartbeat take their locks with a      *)
(* lock_guard, release each one early by calling its destructor, and       *)
(* release it again when the guard leaves its scope.  A guard is therefore *)
(* unlocked twice, and the second unlock may hit a mutex that another      *)
(* thread has taken in between.  std::mutex is a pthread mutex of the      *)
(* default kind: unlocking one that another thread holds is undefined, and *)
(* in this build (no error checking, Makefile line 2) it frees the mutex.  *)
(*                                                                         *)
(* The module keeps where each thread is between its lock operations; what *)
(* the queues hold is abstracted to the branches it can select.            *)
(***************************************************************************)
Thread == {"websocketpp", "parse", "heartbeat", "main"}

Lock == {"websocketppRxLock", "heartbeatLock", "messageLock"}

Free == "nobody"        \* the holder of a mutex no thread holds

VARIABLES
    holder,     \* the thread each mutex was last taken by, or Free
    pc,         \* where each thread is between two lock operations
    stray       \* history: an unlock has released another thread's mutex

vars == <<holder, pc, stray>>

-----------------------------------------------------------------------------
(* The program points at which a thread is between its lock and its first  *)
(* unlock of a mutex: the accesses to the queue that the mutex protects.   *)

Critical ==
    [websocketppRxLock |-> {<<"websocketpp", "push">>, <<"parse", "pop">>},
     heartbeatLock     |-> {<<"parse", "pushHeartbeat">>, <<"heartbeat", "drain">>},
     messageLock       |-> {<<"parse", "pushMessage">>, <<"heartbeat", "scan">>,
                            <<"main", "pop">>}]

(* Where the guards that were already unlocked leave their scope.          *)
ScopeEnd ==
    {<<"parse", "endHeartbeatGuard">>, <<"parse", "endMessageGuard">>,
     <<"parse", "endRxGuard">>, <<"heartbeat", "endMessageGuard">>,
     <<"heartbeat", "endHeartbeatGuard">>}

Point ==
    {"idle", "push", "pop", "handle", "wantHeartbeatLock", "pushHeartbeat",
     "endHeartbeatGuard", "wantMessageLock", "pushMessage", "endMessageGuard",
     "endRxGuard", "drain", "scan", "ended"}

In(t, l) == <<t, pc[t]>> \in Critical[l]

-----------------------------------------------------------------------------
(* The two operations of a mutex, as part of thread t's step from one      *)
(* program point to the next.                                              *)

GoTo(t, p) == pc' = [pc EXCEPT ![t] = p]

Acquire(t, l) ==
    /\ holder[l] = Free
    /\ holder' = [holder EXCEPT ![l] = t]
    /\ UNCHANGED stray

Release(t, l) ==
    /\ holder' = [holder EXCEPT ![l] = Free]
    /\ stray' = (stray \/ holder[l] \notin {t, Free})

-----------------------------------------------------------------------------
(* MessageReceived: the guard covers the push and is unlocked once.        *)

(* Variant: the push does not wait for the mutex.                          *)
PushUnguarded ==
    /\ pc["websocketpp"] = "idle"
    /\ GoTo("websocketpp", "push")
    /\ UNCHANGED <<holder, stray>>

LockReceive ==
    /\ pc["websocketpp"] = "idle"
    /\ Acquire("websocketpp", "websocketppRxLock")
    /\ GoTo("websocketpp", "push")

UnlockReceive ==
    /\ pc["websocketpp"] = "push"
    /\ Release("websocketpp", "websocketppRxLock")
    /\ GoTo("websocketpp", "idle")

(* GetMessage: the guard covers the pop and is unlocked once.              *)

(* Variant: the pop does not wait for the mutex.                           *)
PopUnguarded ==
    /\ pc["main"] = "idle"
    /\ GoTo("main", "pop")
    /\ UNCHANGED <<holder, stray>>

LockGet ==
    /\ pc["main"] = "idle"
    /\ Acquire("main", "messageLock")
    /\ GoTo("main", "pop")

(* Variant: the empty-queue return leaves the mutex locked.                *)
ReturnLocked ==
    /\ pc["main"] = "pop"
    /\ \/ Release("main", "messageLock")
       \/ UNCHANGED <<holder, stray>>
    /\ GoTo("main", "idle")

UnlockGet ==
    /\ pc["main"] = "pop"
    /\ Release("main", "messageLock")
    /\ GoTo("main", "idle")

(* parseIncomingMessages, one iteration.                                   *)

LockRx ==
    /\ pc["parse"] = "idle"
    /\ Acquire("parse", "websocketppRxLock")
    /\ GoTo("parse", "pop")

(* The early unlock: the queue was empty, or a packet was taken.           *)
UnlockRx ==
    /\ pc["parse"] = "pop"
    /\ Release("parse", "websocketppRxLock")
    /\ \/ GoTo("parse", "endRxGuard")
       \/ GoTo("parse", "handle")

(* Validity and registration are settled without a lock: the iteration     *)
(* ends (error reply, re-registration) or one more queue is needed.        *)
Handle ==
    /\ pc["parse"] = "handle"
    /\ \/ GoTo("parse", "endRxGuard")
       \/ GoTo("parse", "wantHeartbeatLock")
       \/ GoTo("parse", "wantMessageLock")
    /\ UNCHANGED <<holder, stray>>

LockPushHeartbeat ==
    /\ pc["parse"] = "wantHeartbeatLock"
    /\ Acquire("parse", "heartbeatLock")
    /\ GoTo("parse", "pushHeartbeat")

UnlockPushHeartbeat ==
    /\ pc["parse"] = "pushHeartbeat"
    /\ Release("parse", "heartbeatLock")
    /\ GoTo("parse", "endHeartbeatGuard")

EndPushHeartbeat ==
    /\ pc["parse"] = "endHeartbeatGuard"
    /\ Release("parse", "heartbeatLock")
    /\ GoTo("parse", "endRxGuard")

LockPushMessage ==
    /\ pc["parse"] = "wantMessageLock"
    /\ Acquire("parse", "messageLock")
    /\ GoTo("parse", "pushMessage")

UnlockPushMessage ==
    /\ pc["parse"] = "pushMessage"
    /\ Release("parse", "messageLock")
    /\ GoTo("parse", "endMessageGuard")

EndPushMessage ==
    /\ pc["parse"] = "endMessageGuard"
    /\ Release("parse", "messageLock")
    /\ GoTo("parse", "endRxGuard")

(* Variant: the thread ends with the iteration instead of looping.         *)
ReturnFromParse ==
    /\ pc["parse"] = "endRxGuard"
    /\ Release("parse", "websocketppRxLock")
    /\ GoTo("parse", "returned")

(* The scope of the iteration ends: websocketppRxLock is unlocked again.   *)
EndParse ==
    /\ pc["parse"] = "endRxGuard"
    /\ Release("parse", "websocketppRxLock")
    /\ GoTo("parse", "idle")

(* heartbeat, one iteration.                                               *)

LockDrain ==
    /\ pc["heartbeat"] = "idle"
    /\ Acquire("heartbeat", "heartbeatLock")
    /\ GoTo("heartbeat", "drain")

UnlockDrain ==
    /\ pc["heartbeat"] = "drain"
    /\ Release("heartbeat", "heartbeatLock")
    /\ GoTo("heartbeat", "wantMessageLock")

(* A heartbeat whose status cannot be stored throws: the guard unlocks the *)
(* mutex on the way out and the thread ends.                               *)
FailDrain ==
    /\ pc["heartbeat"] = "drain"
    /\ Release("heartbeat", "heartbeatLock")
    /\ GoTo("heartbeat", "ended")

LockScan ==
    /\ pc["heartbeat"] = "wantMessageLock"
    /\ Acquire("heartbeat", "messageLock")
    /\ GoTo("heartbeat", "scan")

UnlockScan ==
    /\ pc["heartbeat"] = "scan"
    /\ Release("heartbeat", "messageLock")
    /\ GoTo("heartbeat", "endMessageGuard")

(* Both guards die with the loop body, the younger first.                  *)
EndScan ==
    /\ pc["heartbeat"] = "endMessageGuard"
    /\ Release("heartbeat", "messageLock")
    /\ GoTo("heartbeat", "endHeartbeatGuard")

EndDrain ==
    /\ pc["heartbeat"] = "endHeartbeatGuard"
    /\ Release("heartbeat", "heartbeatLock")
    /\ GoTo("heartbeat", "idle")

-----------------------------------------------------------------------------
Init ==
    /\ holder = [l \in Lock |-> Free]
    /\ pc = [t \in Thread |-> "idle"]
    /\ stray = FALSE

Websocketpp == LockReceive \/ UnlockReceive

Main == LockGet \/ UnlockGet

ParseAcquire == LockRx \/ LockPushHeartbeat \/ LockPushMessage

ParseStep ==
    \/ UnlockRx \/ Handle \/ UnlockPushHeartbeat \/ EndPushHeartbeat
    \/ UnlockPushMessage \/ EndPushMessage \/ EndParse

HeartbeatAcquire == LockDrain \/ LockScan

HeartbeatStep == UnlockDrain \/ FailDrain \/ UnlockScan \/ EndScan \/ EndDrain

Next ==
    \/ Websocketpp \/ Main
    \/ ParseAcquire \/ ParseStep
    \/ HeartbeatAcquire \/ HeartbeatStep

(* A thread that holds a mutex or only has to unlock keeps going.  The     *)
(* mutexes are not fair, so a thread that wants one gets it only because   *)
(* the other threads sleep between their turns (10 or 50 ms, and the       *)
(* network for the receiving thread): strong fairness of the acquisitions. *)
Fairness ==
    /\ WF_vars(UnlockReceive) /\ WF_vars(UnlockGet)
    /\ WF_vars(ParseStep) /\ WF_vars(HeartbeatStep)
    /\ SF_vars(ParseAcquire) /\ SF_vars(HeartbeatAcquire) /\ SF_vars(LockGet)

Spec == Init /\ [][Next]_vars /\ Fairness

-----------------------------------------------------------------------------
TypeOK ==
    /\ holder \in [Lock -> Thread \cup {Free}]
    /\ pc \in [Thread -> Point]
    /\ stray \in BOOLEAN

(* SocketServer.cpp:112 and 294 say of both guards that the thread aquires *)
(* the lock to get the messages: no two threads are ever inside the        *)
(* accesses that one mutex protects.  The second unlocks break this.       *)
Exclusion ==
    \A l \in Lock : \A t, u \in Thread : In(t, l) /\ In(u, l) => t = u

(* As long as no unlock has released another thread's mutex, the program   *)
(* excludes as intended: early unlocks and both guards of one thread at a  *)
(* time never break it by themselves.                                      *)
ExclusionUntilStray == ~stray => Exclusion

(* A thread inside a protected access holds that mutex, until the first    *)
(* stray unlock.                                                           *)
HoldsInside ==
    ~stray => \A l \in Lock : \A t \in Thread : In(t, l) => holder[l] = t

(* The first stray unlock is a second unlock: a scope end of               *)
(* parseIncomingMessages or heartbeat, never an early unlock and never the *)
(* receiving or the main thread.                                           *)
FirstStrayAtScopeEnd ==
    [][ (~stray /\ stray') =>
        \E t \in {"parse", "heartbeat"} :
            <<t, pc[t]>> \in ScopeEnd /\ pc'[t] # pc[t] ]_vars

(* Nobody waits for a mutex for ever: whatever the second unlocks did, and *)
(* even if the heartbeat thread ends inside its guard, main and both       *)
(* server threads keep getting to the queues they serve.                   *)
NobodyStuck ==
    /\ \A t \in {"parse", "main"} : []<>(pc[t] = "pop")
    /\ \A p \in {"drain", "scan"} : []<>(pc["heartbeat"] \in {p, "ended"})

=============================================================================
