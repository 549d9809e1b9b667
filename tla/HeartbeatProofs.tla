-------------------------- MODULE HeartbeatProofs --------------------------
(***************************************************************************)
(* Proofs about HeartbeatMonitor, for every set of devices, all limits and *)
(* every traffic: the records' types and statuses, then, for a clock that  *)
(* is never set back, that the thread implements the status feed.          *)
(***************************************************************************)
EXTENDS HeartbeatMonitor, SequenceTheorems, TLAPS

(* Heartbeats of registered devices are all the queue holds: none of them  *)
(* ends the thread.                                                        *)
Typed ==
    /\ TypeOK
    /\ \A i \in 1..Len(heartbeatQueue) : heartbeatQueue[i].arg = "none"

-----------------------------------------------------------------------------
LEMMA StatusType == \A a : StatusAt(a) \in Status
BY DEF StatusAt, Status

LEMMA ClampType == ASSUME NEW a \in Int PROVE Clamp(a) \in -MaxAge .. MaxAge
BY ClockAssumption DEF Clamp

LEMMA HeadBeat ==
    ASSUME Typed, heartbeatQueue # <<>>
    PROVE  /\ Head(heartbeatQueue) \in Message /\ Head(heartbeatQueue).uuid \in UUID
           /\ Tail(heartbeatQueue) \in Seq(Message)
           /\ Head(heartbeatQueue).arg = "none"
           /\ \A i \in 1..Len(Tail(heartbeatQueue)) :
                Tail(heartbeatQueue)[i].arg = "none"
           /\ ~HeartbeatFails
<1>1. heartbeatQueue \in Seq(Message)
    BY DEF Typed, TypeOK, QueuesTypeOK
<1>2. /\ Head(heartbeatQueue) \in Message /\ Tail(heartbeatQueue) \in Seq(Message)
      /\ Head(heartbeatQueue) = heartbeatQueue[1] /\ 1 \in 1..Len(heartbeatQueue)
      /\ \A i \in 1..Len(Tail(heartbeatQueue)) :
            i+1 \in 1..Len(heartbeatQueue) /\ Tail(heartbeatQueue)[i] = heartbeatQueue[i+1]
    BY <1>1, HeadTailProperties
<1>3. QED
    BY <1>2 DEF Typed, Message, HeartbeatFails, Unstorable

LEMMA TypedInductive == Typed /\ [Next]_vars => Typed'
<1> SUFFICES ASSUME Typed, [Next]_vars PROVE Typed'
    OBVIOUS
<1> USE DEF Typed, TypeOK, QueuesTypeOK, HeartbeatTypeOK, Recorded, MutexName
<1>1. ASSUME NEW u \in UUID, QueueHeartbeat(u) PROVE Typed'
    <2>1. Beat(u) \in Message /\ Beat(u).arg = "none"
        BY DEF Beat, Message, Command, Argument
    <2>2. heartbeatQueue' = Append(heartbeatQueue, Beat(u))
        BY <1>1 DEF QueueHeartbeat
    <2>3. /\ heartbeatQueue' \in Seq(Message)
          /\ \A i \in 1..Len(heartbeatQueue') : heartbeatQueue'[i].arg = "none"
        BY <2>1, <2>2
    <2>4. QED
        BY <1>1, <2>3 DEF QueueHeartbeat, heartbeatVars
<1>2. CASE GetMessage
    <2>1. messageQueue' \in Seq(Message)
        BY <1>2, HeadTailProperties DEF GetMessage
    <2>2. QED
        BY <1>2, <2>1 DEF GetMessage, heartbeatVars
<1>3. ASSUME NEW d \in ClockSteps, WakeUp(d) PROVE Typed'
    <2>1. ASSUME NEW u \in UUID PROVE Clamp(age[u] + d) \in -MaxAge .. MaxAge
        <3>1. age[u] + d \in Int
            BY ClockAssumption
        <3>2. QED
            BY <3>1, ClampType
    <2>2. age' \in [UUID -> -MaxAge .. MaxAge]
        BY <1>3, <2>1, ClockAssumption DEF WakeUp
    <2>3. QED
        BY <1>3, <2>2 DEF WakeUp
<1>4. CASE TakeHeartbeat
    <2> DEFINE u == Head(heartbeatQueue).uuid
    <2>1. /\ heartbeatQueue # <<>> /\ heartbeatQueue' = Tail(heartbeatQueue)
          /\ age' = [age EXCEPT ![u] = 0]
          /\ hbStatus' = [hbStatus EXCEPT ![u] = IF u \in Recorded THEN @ ELSE "DISCONNECTED"]
          /\ UNCHANGED <<messageQueue, holding, running, todo, beating>>
        BY <1>4 DEF TakeHeartbeat
    <2>2. u \in UUID /\ heartbeatQueue' \in Seq(Message)
          /\ \A i \in 1..Len(heartbeatQueue') : heartbeatQueue'[i].arg = "none"
        BY <2>1, HeadBeat
    <2> HIDE DEF u
    <2>3. age' \in [UUID -> -MaxAge .. MaxAge]
        BY <2>1, <2>2, ClockAssumption
    <2>4. hbStatus' \in [UUID -> Status \cup {"none"}] /\ Recorded \subseteq Recorded'
        BY <2>1, <2>2 DEF Status
    <2>5. QED
        BY <2>1, <2>2, <2>3, <2>4
<1>5. ~HeartbeatFails
    BY HeadBeat DEF HeartbeatFails
<1>6. CASE StartScan
    BY <1>6 DEF StartScan
<1>7. ASSUME NEW u \in UUID, KeepStatus(u) PROVE Typed'
    BY <1>7 DEF KeepStatus, queueVars
<1>8. ASSUME NEW u \in UUID, PublishStatus(u) PROVE Typed'
    <2> DEFINE s == StatusAt(age[u])
               m == Report(u, s)
    <2>1. s \in Status /\ m \in Message
        BY StatusType DEF Report, Message, Command, Argument
    <2>2. /\ messageQueue' = Append(messageQueue, m)
          /\ hbStatus' = [hbStatus EXCEPT ![u] = s]
        BY <1>8 DEF PublishStatus
    <2> HIDE DEF s, m
    <2>3. hbStatus' \in [UUID -> Status \cup {"none"}] /\ Recorded \subseteq Recorded'
        BY <2>1, <2>2 DEF Status
    <2>4. messageQueue' \in Seq(Message)
        BY <2>1, <2>2
    <2>5. QED
        BY <1>8, <2>3, <2>4 DEF PublishStatus
<1>9. CASE EndScan
    BY <1>9 DEF EndScan, heartbeatVars
<1>10. CASE UNCHANGED vars
    BY <1>10 DEF vars, queueVars, heartbeatVars
<1>11. QED
    BY <1>1, <1>2, <1>3, <1>4, <1>5, <1>6, <1>7, <1>8, <1>9, <1>10
    DEF Next, Monitor, HeartbeatStep

LEMMA InitTyped == Init => Typed
BY ClockAssumption
DEF Init, QueuesInit, HeartbeatInit, Typed, TypeOK, QueuesTypeOK, HeartbeatTypeOK, Recorded,
    MutexName

(* The records, their ages and the two queues keep to their types, and no  *)
(* heartbeat of a registered device ends the thread.                       *)
THEOREM MonitorTyped == Spec => []TypeOK
BY InitTyped, TypedInductive, PTL DEF Spec, Typed

-----------------------------------------------------------------------------
(* A scan leaves every record it has looked at in the status its age       *)
(* stands for, and nothing else touches records while the mutexes say so.  *)
LEMMA FollowsInductive ==
    Typed /\ StatusFollowsAge /\ [Next]_vars => StatusFollowsAge'
<1> SUFFICES ASSUME Typed, StatusFollowsAge, [Next]_vars PROVE StatusFollowsAge'
    OBVIOUS
<1> USE DEF StatusFollowsAge, Recorded
<1>1. CASE GetMessage \/ \E u \in UUID : QueueHeartbeat(u)
    BY <1>1 DEF GetMessage, QueueHeartbeat, heartbeatVars
<1>2. CASE TakeHeartbeat \/ \E d \in ClockSteps : WakeUp(d)
    BY <1>2 DEF TakeHeartbeat, WakeUp
<1>3. ~HeartbeatFails
    BY HeadBeat DEF HeartbeatFails
<1>4. CASE StartScan
    BY <1>4 DEF StartScan
<1>5. ASSUME NEW u \in UUID, KeepStatus(u) PROVE StatusFollowsAge'
    BY <1>5 DEF KeepStatus, queueVars
<1>6. ASSUME NEW u \in UUID, PublishStatus(u) PROVE StatusFollowsAge'
    <2>1. /\ holding' = "messageLock" /\ UNCHANGED age /\ todo' = todo \ {u}
          /\ hbStatus' = [hbStatus EXCEPT ![u] = StatusAt(age[u])]
          /\ holding = "messageLock"
        BY <1>6 DEF PublishStatus
    <2>2. hbStatus \in [UUID -> Status \cup {"none"}]
        BY DEF Typed, TypeOK, HeartbeatTypeOK
    <2>3. ASSUME NEW v \in Recorded' \ todo' PROVE hbStatus'[v] = StatusAt(age[v])
        BY <2>1, <2>2, <2>3
    <2>4. \A v \in Recorded' \ todo' : StatusAt(age[v]) = StatusAt(age'[v])
        BY <2>1
    <2>5. QED
        BY <2>1, <2>3, <2>4
<1>7. CASE EndScan
    BY <1>7 DEF EndScan, heartbeatVars
<1>8. CASE UNCHANGED vars
    BY <1>8 DEF vars, queueVars, heartbeatVars
<1>9. QED
    BY <1>1, <1>2, <1>3, <1>4, <1>5, <1>6, <1>7, <1>8 DEF Next, Monitor, HeartbeatStep

LEMMA InitFollows == Init => StatusFollowsAge
BY DEF Init, QueuesInit, HeartbeatInit, StatusFollowsAge, Recorded

(* SocketServer.cpp:333-361: between two rounds no record is in a status   *)
(* its age does not stand for, wherever the clock goes.                    *)
THEOREM MonitorFollowsAge == Spec => []StatusFollowsAge
BY InitTyped, TypedInductive, InitFollows, FollowsInductive, PTL DEF Spec

-----------------------------------------------------------------------------
(* A clock that is never set back.                                         *)
ForwardClock == ClockSteps \subseteq Nat

(* Records only get older between two heartbeats, so the status reported   *)
(* last is never worse than the one the age stands for now; only a record  *)
(* that was refreshed in this round may have been reported worse.          *)
NoWorse(s, t) == s = "CONNECTED" \/ t = "DISCONNECTED" \/ s = t

Older ==
    \A u \in UUID :
        /\ age[u] >= 0
        /\ u \in Recorded => age[u] = 0 \/ NoWorse(hbStatus[u], StatusAt(age[u]))

LEMMA ElapsedForward == ASSUME NEW a \in 0..MaxAge PROVE Elapsed(a) = a
<1>1. a \in Nat /\ Wrap \in Nat /\ a < Wrap
    BY ClockAssumption
<1>2. QED
    BY <1>1, SMT DEF Elapsed

LEMMA StatusForward ==
    ASSUME NEW a \in 0..MaxAge
    PROVE  /\ StatusAt(a) = "DISCONNECTED" <=> a > DisconnectedAfter
           /\ StatusAt(a) = "UNSTABLE" <=> a > UnstableAfter /\ a <= DisconnectedAfter
           /\ StatusAt(a) = "CONNECTED" <=> a <= UnstableAfter
<1>1. Elapsed(a) = a
    BY ElapsedForward
<1>2. QED
    BY <1>1, ClockAssumption DEF StatusAt

LEMMA StatusGrows ==
    ASSUME NEW a \in 0..MaxAge, NEW d \in Nat
    PROVE  /\ Clamp(a + d) \in 0..MaxAge
           /\ NoWorse(StatusAt(a), StatusAt(Clamp(a + d)))
<1>1. Clamp(a + d) \in 0..MaxAge /\ a <= Clamp(a + d)
    BY ClockAssumption DEF Clamp
<1> DEFINE b == Clamp(a + d)
<1>2. b \in 0..MaxAge /\ a <= b
    BY <1>1
<1> HIDE DEF b
<1>3. NoWorse(StatusAt(a), StatusAt(b))
    BY <1>2, ClockAssumption, StatusForward, StatusType DEF NoWorse, Status
<1>4. QED
    BY <1>1, <1>3 DEF b

LEMMA OlderInductive ==
    ForwardClock /\ Typed /\ StatusFollowsAge /\ Older /\ [Next]_vars => Older'
<1> SUFFICES ASSUME ForwardClock, Typed, StatusFollowsAge, Older, [Next]_vars PROVE Older'
    OBVIOUS
<1>1. /\ hbStatus \in [UUID -> Status \cup {"none"}]
      /\ \A u \in UUID : age[u] \in 0..MaxAge
      /\ age \in [UUID -> -MaxAge .. MaxAge]
    BY DEF Typed, TypeOK, HeartbeatTypeOK, Older
<1>2. ASSUME UNCHANGED <<age, hbStatus>> PROVE Older'
    BY <1>2 DEF Older, Recorded
<1>3. CASE \/ GetMessage
           \/ \E u \in UUID : QueueHeartbeat(u)
           \/ StartScan
           \/ EndScan
           \/ \E u \in UUID : KeepStatus(u)
           \/ UNCHANGED vars
    BY <1>2, <1>3
    DEF GetMessage, QueueHeartbeat, StartScan, EndScan, KeepStatus, heartbeatVars, vars
<1>4. ASSUME NEW d \in ClockSteps, WakeUp(d) PROVE Older'
    <2>1. /\ d \in Nat /\ holding = "none" /\ UNCHANGED hbStatus
          /\ age' = [u \in UUID |-> IF u \in Recorded THEN Clamp(age[u] + d) ELSE 0]
        BY <1>4 DEF WakeUp, ForwardClock
    <2>2. ASSUME NEW u \in Recorded
          PROVE  age'[u] >= 0 /\ NoWorse(hbStatus[u], StatusAt(age'[u]))
        <3>1. age[u] \in 0..MaxAge /\ age'[u] = Clamp(age[u] + d)
            BY <1>1, <2>1, <2>2 DEF Recorded
        <3>2. hbStatus[u] = StatusAt(age[u])
            BY <2>1 DEF StatusFollowsAge
        <3>3. QED
            BY <2>1, <3>1, <3>2, StatusGrows
    <2>3. Recorded' = Recorded
        BY <2>1 DEF Recorded
    <2>4. QED
        BY <2>1, <2>2, <2>3 DEF Older
<1>5. CASE TakeHeartbeat
    <2> DEFINE u == Head(heartbeatQueue).uuid
    <2>1. /\ age' = [age EXCEPT ![u] = 0]
          /\ hbStatus' = [hbStatus EXCEPT ![u] = IF u \in Recorded THEN @ ELSE "DISCONNECTED"]
        BY <1>5 DEF TakeHeartbeat
    <2> HIDE DEF u
    <2>2. ASSUME NEW v \in UUID
          PROVE  /\ age'[v] = 0 \/ (age'[v] = age[v] /\ hbStatus'[v] = hbStatus[v])
                 /\ age'[v] >= 0
        BY <1>1, <2>1
    <2>3. QED
        BY <2>2 DEF Older, Recorded
<1>6. ASSUME NEW u \in UUID, PublishStatus(u) PROVE Older'
    <2>1. UNCHANGED age /\ hbStatus' = [hbStatus EXCEPT ![u] = StatusAt(age[u])]
        BY <1>6 DEF PublishStatus
    <2>2. ASSUME NEW v \in UUID
          PROVE  hbStatus'[v] = hbStatus[v] \/ NoWorse(hbStatus'[v], StatusAt(age[v]))
        BY <1>1, <2>1 DEF NoWorse
    <2>3. QED
        BY <2>1, <2>2 DEF Older, Recorded
<1>7. ~HeartbeatFails
    BY HeadBeat DEF HeartbeatFails
<1>8. QED
    BY <1>3, <1>4, <1>5, <1>6, <1>7 DEF Next, Monitor, HeartbeatStep

LEMMA InitOlder == Init => Older
BY DEF Init, HeartbeatInit, Older, Recorded

(* SocketServer.cpp:338: while the clock is never set back, a device is    *)
(* reported DISCONNECTED only once its record is out of time.              *)
THEOREM MonitorTimesOut == ForwardClock => (Spec => OutOfTimeOnly)
<1> SUFFICES ASSUME ForwardClock PROVE Spec => OutOfTimeOnly
    OBVIOUS
<1> DEFINE IInv == Typed /\ StatusFollowsAge /\ Older
           Step == \A u \in Recorded :
                    hbStatus'[u] = "DISCONNECTED" /\ hbStatus[u] # "DISCONNECTED"
                        => age[u] > DisconnectedAfter
<1>1. Init => IInv
    BY InitTyped, InitFollows, InitOlder
<1>2. IInv /\ [Next]_vars => IInv'
    BY TypedInductive, FollowsInductive, OlderInductive
<1>3. IInv /\ [Next]_vars => [Step]_vars
    <2> SUFFICES ASSUME IInv, [Next]_vars, NEW u \in Recorded,
                        hbStatus'[u] = "DISCONNECTED", hbStatus[u] # "DISCONNECTED"
                 PROVE  age[u] > DisconnectedAfter
        OBVIOUS
    <2>1. hbStatus \in [UUID -> Status \cup {"none"}] /\ u \in UUID /\ age[u] \in 0..MaxAge
        BY DEF Typed, TypeOK, HeartbeatTypeOK, Older, Recorded
    <2>2. ~TakeHeartbeat
        BY <2>1 DEF TakeHeartbeat
    <2>3. ~HeartbeatFails
        BY HeadBeat DEF HeartbeatFails
    <2>4. PICK v \in UUID : PublishStatus(v)
        BY <2>2, <2>3 DEF Next, Monitor, HeartbeatStep, GetMessage, QueueHeartbeat, WakeUp,
            StartScan, EndScan, KeepStatus, heartbeatVars, vars
    <2>5. v = u /\ StatusAt(age[u]) = "DISCONNECTED"
        BY <2>1, <2>4 DEF PublishStatus
    <2>6. QED
        BY <2>1, <2>5, StatusForward
<1> HIDE DEF IInv
<1>4. QED
    BY <1>1, <1>2, <1>3, PTL DEF Spec, OutOfTimeOnly

-----------------------------------------------------------------------------
(* The thread implements the status feed: what its steps do to the feed's  *)
(* variables.                                                              *)

Senders(q) == [i \in 1..Len(q) |-> q[i].uuid]

LEMMA SendersType ==
    ASSUME NEW q \in Seq(Message)
    PROVE  Senders(q) \in Seq(UUID) /\ Len(Senders(q)) = Len(q)
<1>1. Len(q) \in Nat /\ \A i \in 1..Len(q) : q[i] \in Message
    OBVIOUS
<1>2. \A i \in 1..Len(q) : q[i].uuid \in UUID
    BY <1>1 DEF Message
<1>3. QED
    BY <1>1, <1>2 DEF Senders

LEMMA SendersAppend ==
    ASSUME NEW q \in Seq(Message), NEW m \in Message
    PROVE  Senders(Append(q, m)) = Append(Senders(q), m.uuid)
<1> DEFINE n == Len(q)
           r == Append(q, m)
<1>1. /\ n \in Nat /\ r \in Seq(Message) /\ Len(r) = n + 1
      /\ \A i \in 1..n : r[i] = q[i]
      /\ r[n+1] = m
    OBVIOUS
<1> HIDE DEF r
<1>2. /\ Senders(q) \in Seq(UUID) /\ Len(Senders(q)) = n
      /\ Senders(r) \in Seq(UUID) /\ Len(Senders(r)) = n + 1
      /\ m.uuid \in UUID
    BY <1>1, SendersType DEF Message
<1>3. /\ \A i \in 1..n : Senders(r)[i] = Senders(q)[i]
      /\ Senders(r)[n+1] = m.uuid
    BY <1>1 DEF Senders
<1> HIDE DEF n
<1>4. /\ Append(Senders(q), m.uuid) \in Seq(UUID)
      /\ Len(Append(Senders(q), m.uuid)) = n + 1
      /\ \A i \in 1..n : Append(Senders(q), m.uuid)[i] = Senders(q)[i]
      /\ Append(Senders(q), m.uuid)[n+1] = m.uuid
    BY <1>1, <1>2
<1>5. \A i \in 1..n+1 : Senders(r)[i] = Append(Senders(q), m.uuid)[i]
    BY <1>1, <1>3, <1>4
<1>6. Senders(r) = Append(Senders(q), m.uuid)
    BY <1>2, <1>4, <1>5, SeqEqual
<1>7. QED
    BY <1>6 DEF r

LEMMA SendersTail ==
    ASSUME NEW q \in Seq(Message), q # <<>>
    PROVE  /\ Senders(q) # <<>>
           /\ Senders(Tail(q)) = Tail(Senders(q))
           /\ Head(Senders(q)) = Head(q).uuid
<1> DEFINE n == Len(q)
           r == Tail(q)
<1>1. /\ n \in Nat /\ n > 0 /\ r \in Seq(Message) /\ Len(r) = n - 1
      /\ \A i \in 1..n-1 : r[i] = q[i+1]
      /\ Head(q) = q[1]
    BY HeadTailProperties
<1> HIDE DEF r
<1>2. /\ Senders(q) \in Seq(UUID) /\ Len(Senders(q)) = n
      /\ Senders(r) \in Seq(UUID) /\ Len(Senders(r)) = n - 1
    BY <1>1, SendersType
<1>3. Senders(q) # <<>>
    BY <1>1, <1>2
<1>4. /\ Tail(Senders(q)) \in Seq(UUID) /\ Len(Tail(Senders(q))) = n - 1
      /\ \A i \in 1..n-1 : Tail(Senders(q))[i] = Senders(q)[i+1]
      /\ Head(Senders(q)) = Senders(q)[1]
    BY <1>2, <1>3, HeadTailProperties
<1>5. ASSUME NEW i \in 1..n-1 PROVE Senders(r)[i] = Senders(q)[i+1]
    <2>1. i \in 1..Len(r) /\ i+1 \in 1..Len(q)
        BY <1>1
    <2>2. QED
        BY <1>1, <2>1 DEF Senders
<1>6. Head(Senders(q)) = Head(q).uuid
    BY <1>1, <1>4 DEF Senders
<1> HIDE DEF n
<1>7. Senders(r) = Tail(Senders(q))
    BY <1>2, <1>4, <1>5, SeqEqual
<1>8. QED
    BY <1>3, <1>6, <1>7 DEF r

LEMMA FeedStep ==
    ForwardClock /\ Typed /\ StatusFollowsAge /\ Older /\ [Next]_vars
        => [Feed!Next]_(Feed!vars)
<1> SUFFICES ASSUME ForwardClock, Typed, StatusFollowsAge, Older, [Next]_vars
             PROVE  Feed!Next \/ UNCHANGED <<beats, noticed, reported, messageQueue>>
    BY DEF Feed!vars
<1>1. /\ hbStatus \in [UUID -> Status \cup {"none"}]
      /\ age \in [UUID -> -MaxAge .. MaxAge]
      /\ \A u \in UUID : age[u] \in 0..MaxAge
    BY DEF Typed, TypeOK, HeartbeatTypeOK, Older
<1>2. ASSUME UNCHANGED <<hbStatus, age>> PROVE UNCHANGED <<noticed, reported>>
    BY <1>2 DEF noticed, reported, Recorded
<1>3. ASSUME UNCHANGED heartbeatQueue PROVE UNCHANGED beats
    BY <1>3 DEF beats
<1>4. ASSUME NEW u \in UUID, QueueHeartbeat(u) PROVE Feed!Next
    <2>a. /\ heartbeatQueue \in Seq(Message) /\ Beat(u) \in Message /\ Beat(u).uuid = u
          /\ heartbeatQueue' = Append(heartbeatQueue, Beat(u))
        BY <1>4 DEF QueueHeartbeat, Typed, TypeOK, QueuesTypeOK, Beat, Message, Command, Argument
    <2>1. beats' = Append(beats, u)
        BY <2>a, SendersAppend DEF beats, Senders
    <2>2. UNCHANGED <<noticed, reported, messageQueue>>
        BY <1>2, <1>4 DEF QueueHeartbeat, heartbeatVars
    <2>3. QED
        BY <2>1, <2>2 DEF Feed!Next, Feed!Beat
<1>5. CASE GetMessage
    <2>1. UNCHANGED <<beats, noticed, reported>> /\ messageQueue # <<>>
          /\ messageQueue' = Tail(messageQueue)
        BY <1>2, <1>3, <1>5 DEF GetMessage, heartbeatVars
    <2>2. QED
        BY <2>1 DEF Feed!Next, Feed!Take
<1>6. CASE StartScan \/ EndScan \/ (\E u \in UUID : KeepStatus(u)) \/ UNCHANGED vars
    BY <1>2, <1>3, <1>6 DEF StartScan, EndScan, KeepStatus, heartbeatVars, queueVars, vars
<1>7. ASSUME NEW d \in ClockSteps, WakeUp(d)
      PROVE  UNCHANGED <<beats, noticed, reported, messageQueue>>
    <2>1. /\ d \in Nat /\ holding = "none" /\ UNCHANGED <<hbStatus, heartbeatQueue, messageQueue>>
          /\ age' = [u \in UUID |-> IF u \in Recorded THEN Clamp(age[u] + d) ELSE 0]
        BY <1>7 DEF WakeUp, ForwardClock
    <2>2. Recorded' = Recorded
        BY <2>1 DEF Recorded
    <2>3. UNCHANGED reported
        BY <2>1, <2>2 DEF reported
    <2>4. ASSUME NEW u \in Recorded
          PROVE  hbStatus[u] # "CONNECTED" =>
                    StatusAt(age[u]) # "CONNECTED" /\ StatusAt(age'[u]) # "CONNECTED"
        <3>1. age[u] \in 0..MaxAge /\ age'[u] = Clamp(age[u] + d)
            BY <1>1, <2>1, <2>4 DEF Recorded
        <3>2. hbStatus[u] = StatusAt(age[u])
            BY <2>1 DEF StatusFollowsAge
        <3>3. NoWorse(StatusAt(age[u]), StatusAt(age'[u]))
            BY <2>1, <3>1, StatusGrows
        <3>4. QED
            BY <3>2, <3>3 DEF NoWorse
    <2>5. UNCHANGED noticed
        BY <2>1, <2>2, <2>4 DEF noticed
    <2>6. QED
        BY <1>3, <2>1, <2>3, <2>5
<1>8. CASE TakeHeartbeat
    <2> DEFINE u == Head(heartbeatQueue).uuid
    <2>1. /\ heartbeatQueue # <<>> /\ heartbeatQueue' = Tail(heartbeatQueue)
          /\ age' = [age EXCEPT ![u] = 0]
          /\ hbStatus' = [hbStatus EXCEPT ![u] = IF u \in Recorded THEN @ ELSE "DISCONNECTED"]
          /\ UNCHANGED messageQueue
        BY <1>8 DEF TakeHeartbeat
    <2>a. heartbeatQueue \in Seq(Message)
        BY DEF Typed, TypeOK, QueuesTypeOK
    <2>2. u \in UUID /\ beats # <<>> /\ beats' = Tail(beats) /\ Head(beats) = u
        BY <2>1, <2>a, HeadBeat, SendersTail DEF beats, Senders
    <2> HIDE DEF u
    <2>3. StatusAt(0) = "CONNECTED"
        BY ClockAssumption, StatusForward
    <2>4. /\ Recorded' = Recorded \cup {u}
          /\ age'[u] = 0
          /\ \A v \in UUID : v # u => hbStatus'[v] = hbStatus[v] /\ age'[v] = age[v]
          /\ hbStatus'[u] = IF u \in Recorded THEN hbStatus[u] ELSE "DISCONNECTED"
        BY <1>1, <2>1, <2>2 DEF Recorded
    <2>5. UNCHANGED reported
        BY <2>2, <2>4 DEF reported
    <2>6. noticed' = [noticed EXCEPT ![u] = reported[u] # "CONNECTED"]
        <3>1. noticed'[u] = (reported[u] # "CONNECTED")
            BY <2>2, <2>3, <2>4 DEF noticed, reported
        <3>2. \A v \in UUID : v # u => noticed'[v] = noticed[v]
            BY <2>4 DEF noticed
        <3>3. noticed = [v \in UUID |-> noticed[v]] /\ noticed' = [v \in UUID |-> noticed'[v]]
            BY DEF noticed
        <3>4. QED
            BY <2>2, <3>1, <3>2, <3>3
    <2>7. QED
        BY <2>1, <2>2, <2>5, <2>6 DEF Feed!Next, Feed!Notice
<1>9. ASSUME NEW u \in UUID, PublishStatus(u) PROVE Feed!Next
    <2> DEFINE s == StatusAt(age[u])
    <2>1. /\ u \in Recorded /\ hbStatus[u] # s
          /\ hbStatus' = [hbStatus EXCEPT ![u] = s]
          /\ messageQueue' = Append(messageQueue, Report(u, s))
          /\ UNCHANGED <<heartbeatQueue, age>>
        BY <1>9 DEF PublishStatus, Typed, TypeOK, HeartbeatTypeOK
    <2>2. s \in Status
        BY StatusType
    <2>3. /\ Recorded' = Recorded
          /\ hbStatus'[u] = s
          /\ \A v \in UUID : v # u => hbStatus'[v] = hbStatus[v]
        BY <1>1, <2>1, <2>2 DEF Recorded, Status
    <2>4. reported' = [reported EXCEPT ![u] = s]
        BY <2>1, <2>3 DEF reported
    <2>5. noticed' = [noticed EXCEPT ![u] = FALSE]
        <3>1. noticed'[u] = FALSE
            BY <2>1, <2>3 DEF noticed
        <3>2. \A v \in UUID : v # u => noticed'[v] = noticed[v]
            BY <2>1, <2>3 DEF noticed
        <3>3. noticed = [v \in UUID |-> noticed[v]] /\ noticed' = [v \in UUID |-> noticed'[v]]
            BY DEF noticed
        <3>4. QED
            BY <3>1, <3>2, <3>3
    <2>6. Feed!Publish(u, s)
        BY <1>3, <2>1, <2>4, <2>5 DEF Feed!Publish, Feed!Entry, Report
    <2>7. reported[u] = hbStatus[u] /\ (noticed[u] <=> s = "CONNECTED" /\ hbStatus[u] # "CONNECTED")
        BY <2>1 DEF reported, noticed
    <2>8. age[u] = 0 => s = "CONNECTED"
        BY <1>1, ClockAssumption, StatusForward
    <2>9. age[u] = 0 \/ NoWorse(hbStatus[u], s)
        BY <2>1 DEF Older
    <2> HIDE DEF s
    <2>10. CASE s = "CONNECTED"
        BY <2>1, <2>6, <2>7, <2>10 DEF Feed!Next, Feed!Connect
    <2>11. CASE s = "UNSTABLE"
        <3>1. reported[u] = "CONNECTED"
            BY <2>1, <2>7, <2>8, <2>9, <2>11 DEF NoWorse
        <3>2. QED
            BY <2>6, <2>11, <3>1 DEF Feed!Next, Feed!Degrade
    <2>12. CASE s = "DISCONNECTED"
        <3>1. reported[u] # "DISCONNECTED" /\ ~noticed[u]
            BY <2>1, <2>7, <2>12
        <3>2. QED
            BY <2>6, <2>12, <3>1 DEF Feed!Next, Feed!Lose
    <2>13. QED
        BY <2>2, <2>10, <2>11, <2>12 DEF Status
<1>10. ~HeartbeatFails
    BY HeadBeat DEF HeartbeatFails
<1>11. QED
    BY <1>4, <1>5, <1>6, <1>7, <1>8, <1>9, <1>10 DEF Next, Monitor, HeartbeatStep

(* SocketServer.cpp:278-361: while the clock is never set back, what main  *)
(* gets is a status feed: no change is lost or doubled, no device comes    *)
(* back without a heartbeat or is UNSTABLE before it was CONNECTED.        *)
THEOREM MonitorImplementsFeed == ForwardClock => (Spec => Feed!SafeSpec)
<1> SUFFICES ASSUME ForwardClock PROVE Spec => Feed!SafeSpec
    OBVIOUS
<1> DEFINE IInv == Typed /\ StatusFollowsAge /\ Older
<1>1. Init => IInv
    BY InitTyped, InitFollows, InitOlder
<1>2. IInv /\ [Next]_vars => IInv'
    BY TypedInductive, FollowsInductive, OlderInductive
<1>3. Init => Feed!Init
    BY DEF Init, QueuesInit, HeartbeatInit, Feed!Init, beats, noticed, reported, Recorded
<1>4. IInv /\ [Next]_vars => [Feed!Next]_(Feed!vars)
    BY FeedStep
<1> HIDE DEF IInv
<1>5. QED
    BY <1>1, <1>2, <1>3, <1>4, PTL DEF Spec, Feed!SafeSpec

=============================================================================
