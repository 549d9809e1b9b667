------------------------- MODULE SocketLocksProofs -------------------------
(***************************************************************************)
(* Proofs about SocketLocks: type correctness, and exclusion until the     *)
(* first stray unlock, from the inductive invariant HoldsInside.           *)
(***************************************************************************)
EXTENDS SocketLocks, TLAPS


(***************************************************************************)
(* Type correctness (every step of the four threads).                      *)
(***************************************************************************)
LEMMA AcquireTyped ==
    ASSUME TypeOK, NEW t \in Thread, NEW l \in Lock, NEW p \in Point,
           Acquire(t, l), GoTo(t, p)
    PROVE  TypeOK'
BY DEF TypeOK, Acquire, GoTo

LEMMA ReleaseTyped ==
    ASSUME TypeOK, NEW t \in Thread, NEW l \in Lock, NEW p \in Point,
           Release(t, l), GoTo(t, p)
    PROVE  TypeOK'
<1>1. holder' \in [Lock -> Thread \cup {Free}] /\ pc' \in [Thread -> Point]
    BY DEF TypeOK, Release, GoTo
<1>2. stray' \in BOOLEAN
    BY Zenon DEF Release
<1>3. QED
    BY <1>1, <1>2 DEF TypeOK

LEMMA TypeInductive == TypeOK /\ [Next]_vars => TypeOK'
<1> SUFFICES ASSUME TypeOK, [Next]_vars PROVE TypeOK'
    OBVIOUS
<1> USE DEF Point, Thread, Lock
<1>1. CASE Websocketpp
    BY <1>1, AcquireTyped, ReleaseTyped DEF Websocketpp, LockReceive, UnlockReceive
<1>2. CASE Main
    BY <1>2, AcquireTyped, ReleaseTyped DEF Main, LockGet, UnlockGet
<1>3. CASE ParseAcquire
    BY <1>3, AcquireTyped DEF ParseAcquire, LockRx, LockPushHeartbeat, LockPushMessage
<1>4. CASE ParseStep
    <2>1. CASE Handle
        BY <2>1 DEF Handle, TypeOK, GoTo
    <2>2. CASE UnlockRx \/ UnlockPushHeartbeat \/ EndPushHeartbeat
        BY <2>2, ReleaseTyped DEF UnlockRx, UnlockPushHeartbeat, EndPushHeartbeat
    <2>3. CASE UnlockPushMessage \/ EndPushMessage \/ EndParse
        BY <2>3, ReleaseTyped DEF UnlockPushMessage, EndPushMessage, EndParse
    <2>4. QED
        BY <1>4, <2>1, <2>2, <2>3 DEF ParseStep
<1>5. CASE HeartbeatAcquire
    BY <1>5, AcquireTyped DEF HeartbeatAcquire, LockDrain, LockScan
<1>6. CASE HeartbeatStep
    BY <1>6, ReleaseTyped DEF HeartbeatStep, UnlockDrain, FailDrain, UnlockScan, EndScan,
        EndDrain
<1>7. CASE UNCHANGED vars
    BY <1>7 DEF vars, TypeOK
<1>8. QED
    BY <1>1, <1>2, <1>3, <1>4, <1>5, <1>6, <1>7 DEF Next

LEMMA InitTyped == Init => TypeOK
BY DEF Init, TypeOK, Thread, Lock, Point

(* Every mutex is held by one of the four threads or by nobody, and every  *)
(* thread is at a point of its loop.                                       *)
THEOREM LocksTyped == Spec => []TypeOK
BY InitTyped, TypeInductive, PTL DEF Spec

(***************************************************************************)
(* HoldsInside is preserved: a thread enters a protected access only by    *)
(* acquiring the free mutex, and the only step that frees a mutex another  *)
(* thread is inside of is the one that sets stray.                         *)
(***************************************************************************)
LEMMA AcquireKeeps ==
    ASSUME TypeOK, HoldsInside, NEW t \in Thread, NEW l \in Lock, NEW p \in Point,
           Acquire(t, l), GoTo(t, p),
           \A k \in Lock : <<t, p>> \in Critical[k] => k = l,
           \A k \in Lock : ~In(t, k)
    PROVE  HoldsInside'
<1> SUFFICES ASSUME ~stray, NEW k \in Lock, NEW u \in Thread, In(u, k)'
             PROVE  holder'[k] = u
    BY DEF HoldsInside, Acquire
<1>1. CASE u = t
    <2>1. k = l
        BY <1>1 DEF In, GoTo, TypeOK
    <2>2. QED
        BY <1>1, <2>1 DEF Acquire, TypeOK
<1>2. CASE u # t
    <2>1. In(u, k)
        BY <1>2 DEF In, GoTo, TypeOK
    <2>2. holder[k] = u /\ holder[l] = Free
        BY <2>1 DEF HoldsInside, Acquire
    <2>3. Free \notin Thread
        BY DEF Free, Thread
    <2>4. k # l
        BY <2>2, <2>3
    <2>5. QED
        BY <2>2, <2>4 DEF Acquire, TypeOK
<1>3. QED
    BY <1>1, <1>2

LEMMA ReleaseKeeps ==
    ASSUME TypeOK, HoldsInside, NEW t \in Thread, NEW l \in Lock, NEW p \in Point,
           Release(t, l), GoTo(t, p),
           \A k \in Lock : <<t, p>> \notin Critical[k]
    PROVE  HoldsInside'
<1> SUFFICES ASSUME ~stray', NEW k \in Lock, NEW u \in Thread, In(u, k)'
             PROVE  holder'[k] = u
    BY DEF HoldsInside
<1>1. ~stray /\ holder[l] \in {t, Free}
    BY DEF Release, TypeOK
<1>2. u # t
    BY DEF In, GoTo, TypeOK
<1>3. In(u, k)
    BY <1>2 DEF In, GoTo, TypeOK
<1>4. holder[k] = u
    BY <1>1, <1>3 DEF HoldsInside
<1>5. k # l
    BY <1>1, <1>2, <1>4 DEF Free, Thread
<1>6. QED
    BY <1>4, <1>5 DEF Release, TypeOK

LEMMA HoldsInductive == TypeOK /\ HoldsInside /\ [Next]_vars => HoldsInside'
<1> SUFFICES ASSUME TypeOK, HoldsInside, [Next]_vars PROVE HoldsInside'
    OBVIOUS
<1> USE DEF Thread, Lock, Point, Critical
<1>1. CASE Websocketpp
    <2>1. CASE LockReceive
        BY <2>1, AcquireKeeps DEF LockReceive, In
    <2>2. CASE UnlockReceive
        BY <2>2, ReleaseKeeps DEF UnlockReceive
    <2>3. QED
        BY <1>1, <2>1, <2>2 DEF Websocketpp
<1>2. CASE Main
    <2>1. CASE LockGet
        BY <2>1, AcquireKeeps DEF LockGet, In
    <2>2. CASE UnlockGet
        BY <2>2, ReleaseKeeps DEF UnlockGet
    <2>3. QED
        BY <1>2, <2>1, <2>2 DEF Main
<1>3. CASE ParseAcquire
    <2>1. CASE LockRx
        BY <2>1, AcquireKeeps DEF LockRx, In
    <2>2. CASE LockPushHeartbeat
        BY <2>2, AcquireKeeps DEF LockPushHeartbeat, In
    <2>3. CASE LockPushMessage
        BY <2>3, AcquireKeeps DEF LockPushMessage, In
    <2>4. QED
        BY <1>3, <2>1, <2>2, <2>3 DEF ParseAcquire
<1>4. CASE ParseStep
    <2>1. CASE UnlockRx
        BY <2>1, ReleaseKeeps DEF UnlockRx
    <2>2. CASE Handle
        BY <2>2 DEF Handle, HoldsInside, In, GoTo, TypeOK
    <2>3. CASE UnlockPushHeartbeat
        BY <2>3, ReleaseKeeps DEF UnlockPushHeartbeat
    <2>4. CASE EndPushHeartbeat
        BY <2>4, ReleaseKeeps DEF EndPushHeartbeat
    <2>5. CASE UnlockPushMessage
        BY <2>5, ReleaseKeeps DEF UnlockPushMessage
    <2>6. CASE EndPushMessage
        BY <2>6, ReleaseKeeps DEF EndPushMessage
    <2>7. CASE EndParse
        BY <2>7, ReleaseKeeps DEF EndParse
    <2>8. QED
        BY <1>4, <2>1, <2>2, <2>3, <2>4, <2>5, <2>6, <2>7 DEF ParseStep
<1>5. CASE HeartbeatAcquire
    <2>1. CASE LockDrain
        BY <2>1, AcquireKeeps DEF LockDrain, In
    <2>2. CASE LockScan
        BY <2>2, AcquireKeeps DEF LockScan, In
    <2>3. QED
        BY <1>5, <2>1, <2>2 DEF HeartbeatAcquire
<1>6. CASE HeartbeatStep
    <2>1. CASE UnlockDrain
        BY <2>1, ReleaseKeeps DEF UnlockDrain
    <2>2. CASE FailDrain
        BY <2>2, ReleaseKeeps DEF FailDrain
    <2>3. CASE UnlockScan
        BY <2>3, ReleaseKeeps DEF UnlockScan
    <2>4. CASE EndScan
        BY <2>4, ReleaseKeeps DEF EndScan
    <2>5. CASE EndDrain
        BY <2>5, ReleaseKeeps DEF EndDrain
    <2>6. QED
        BY <1>6, <2>1, <2>2, <2>3, <2>4, <2>5 DEF HeartbeatStep
<1>7. CASE UNCHANGED vars
    BY <1>7 DEF vars, HoldsInside, In
<1>8. QED
    BY <1>1, <1>2, <1>3, <1>4, <1>5, <1>6, <1>7 DEF Next

LEMMA InitHolds == Init => HoldsInside
<1> SUFFICES ASSUME Init, NEW l \in Lock, NEW t \in Thread PROVE ~In(t, l)
    BY DEF HoldsInside
<1>1. pc[t] = "idle"
    BY DEF Init
<1>2. QED
    BY <1>1 DEF In, Critical, Lock, Thread

(* Until a second unlock frees another thread's mutex, no two threads are  *)
(* inside the accesses one mutex protects.                                 *)
THEOREM LocksExcludeUntilStray == Spec => []ExclusionUntilStray
<1>1. HoldsInside => ExclusionUntilStray
    BY DEF HoldsInside, ExclusionUntilStray, Exclusion
<1>2. QED
    BY <1>1, InitTyped, InitHolds, TypeInductive, HoldsInductive, PTL DEF Spec

(* The step that first frees another thread's mutex is a second unlock by  *)
(* parseIncomingMessages or heartbeat.                                     *)
THEOREM LocksFirstStray == Spec => FirstStrayAtScopeEnd
<1>1. TypeOK /\ HoldsInside /\ [Next]_vars =>
        [ (~stray /\ stray') =>
            \E t \in {"parse", "heartbeat"} :
                <<t, pc[t]>> \in ScopeEnd /\ pc'[t] # pc[t] ]_vars
    <2> SUFFICES ASSUME TypeOK, HoldsInside, Next, ~stray, stray'
                 PROVE  \E t \in {"parse", "heartbeat"} :
                            <<t, pc[t]>> \in ScopeEnd /\ pc'[t] # pc[t]
        BY DEF vars
    <2>1. Next <=> \/ Websocketpp \/ Main \/ ParseAcquire \/ ParseStep
                   \/ HeartbeatAcquire \/ HeartbeatStep
        BY DEF Next
    <2> USE DEF Thread, Lock, Point, Critical, GoTo, Acquire, Release, In,
                TypeOK, HoldsInside, ScopeEnd
    <2>2. ~Websocketpp
        BY DEF Websocketpp, LockReceive, UnlockReceive
    <2>3. ~Main
        BY DEF Main, LockGet, UnlockGet
    <2>4. ~ParseAcquire /\ ~HeartbeatAcquire
        BY DEF ParseAcquire, LockRx, LockPushHeartbeat, LockPushMessage,
               HeartbeatAcquire, LockDrain, LockScan
    <2>5. ~UnlockRx /\ ~UnlockPushHeartbeat /\ ~UnlockPushMessage /\ ~Handle
        BY DEF UnlockRx, UnlockPushHeartbeat, UnlockPushMessage, Handle
    <2>6. ~UnlockDrain /\ ~FailDrain /\ ~UnlockScan
        BY DEF UnlockDrain, FailDrain, UnlockScan
    <2>7. CASE ParseStep
        BY <2>5, <2>7 DEF ParseStep, EndPushHeartbeat, EndPushMessage, EndParse
    <2>8. CASE HeartbeatStep
        BY <2>6, <2>8 DEF HeartbeatStep, EndScan, EndDrain
    <2>9. QED
        BY <2>1, <2>2, <2>3, <2>4, <2>7, <2>8
<1>2. QED
    BY <1>1, InitTyped, InitHolds, TypeInductive, HoldsInductive, PTL
    DEF Spec, FirstStrayAtScopeEnd

=============================================================================
