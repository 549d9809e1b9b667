-------------------------- MODULE AgreementProofs --------------------------
(***************************************************************************)
(* That objects and devices, the fridge, and objects and page agree once   *)
(* nothing is under way between them.  Before that, what is under way      *)
(* makes up the difference (Ends): each action that changes one side also  *)
(* sends what changes the other.  The invariants are per device.           *)
(***************************************************************************)
EXTENDS HouseholdProofs

(* A device and its object follow each other.                              *)

(* Main's question for the device's state is on its way to the device;     *)
Questioned(d) ==
    Len(outbox[d]) = 1 /\ outbox[d][1].command = "DEVICE_INFO" /\ NoInfo(inbox[d])

(* its answer is on its way to main;                                       *)
Answering(d) ==
    /\ outbox[d] = <<>>
    /\ \E i \in 1..Len(inbox[d]) :
        /\ inbox[d][i].command = "DEVICE_INFO"
        /\ \A j \in 1..Len(inbox[d]) : inbox[d][j].command = "DEVICE_INFO" => j = i
        /\ \A f \in Commanded(d) \ lost[d] : inbox[d][i].value[f] = actual[d][f]

(* or the device has, once it has obeyed, what main takes it to have.      *)
Agreed(d) ==
    /\ NoInfo(outbox[d]) /\ NoInfo(inbox[d])
    /\ \A f \in Commanded(d) \ lost[d] :
        Ends(outbox[d], "Device", f, actual[d][f], Believed(object, d, f))

CommandsFollow(d) ==
    d \in DOMAIN object /\ d \notin crossed => Questioned(d) \/ Answering(d) \/ Agreed(d)

(* Once main has heard it all, its object has what the device senses.      *)
SensesFollow(d) ==
    d \in DOMAIN object /\ NoInfo(outbox[d]) =>
        \A f \in Sensed(d) \ lost[d] :
            Ends(inbox[d], "Device", f, object[d][f], actual[d][f])

(* A fridge whose answer main has cools, once it has obeyed, if too warm.  *)
CoolingFollows(d) ==
    d = "Fridge" /\ d \in DOMAIN object /\ NoInfo(outbox[d]) /\ NoInfo(inbox[d])
            /\ Over(object[d]) # 0 =>
        \A f \in {"FRIDGE_COOLER_ON", "FRIDGE_FAN_ON"} \ lost[d] :
            Ends(outbox[d], "Device", f, actual[d][f], Over(object[d]) >= 1)

(* Nobody answers before the question, and a broken connection puts all of *)
(* a device's values in doubt.                                             *)
Doubted(d) ==
    /\ d \notin DOMAIN object => NoInfo(inbox[d])
    /\ connection[d] = "broken" => Sensed(d) \cup Commanded(d) \subseteq lost[d]

Following(d) == CommandsFollow(d) /\ SensesFollow(d) /\ CoolingFollows(d) /\ Doubted(d)

(* Cooler and fan are among what main commands.                            *)
LEMMA CoolingCommands == {"FRIDGE_COOLER_ON", "FRIDGE_FAN_ON"} \subseteq Commanded("Fridge")
BY DEF Commanded

LEMMA FollowingKept ==
    ASSUME NEW d \in Home, Following(d),
           actual'[d] = actual[d], inbox'[d] = inbox[d], outbox'[d] = outbox[d],
           lost'[d] = lost[d], d \in crossed => d \in crossed',
           d \in DOMAIN object' <=> d \in DOMAIN object,
           d \in DOMAIN object => object'[d] = object[d],
           connection'[d] = "broken" => connection[d] = "broken"
    PROVE  Following(d)'
<1>1. CommandsFollow(d)'
    <2> SUFFICES ASSUME d \in DOMAIN object, d \notin crossed
                 PROVE  (Questioned(d) \/ Answering(d) \/ Agreed(d))'
        BY DEF CommandsFollow
    <2>1. \A f : Believed(object', d, f) = Believed(object, d, f)
        BY DEF Believed
    <2>2. Questioned(d) \/ Answering(d) \/ Agreed(d)
        BY DEF Following, CommandsFollow
    <2>3. QED
        BY <2>1, <2>2 DEF Questioned, Answering, Agreed
<1>2. SensesFollow(d)'
    BY DEF Following, SensesFollow
<1>3. CoolingFollows(d)'
    BY DEF Following, CoolingFollows
<1>4. Doubted(d)'
    BY DEF Following, Doubted
<1>5. QED
    BY <1>1, <1>2, <1>3, <1>4 DEF Following

(* What a device tells main is what it senses.                             *)
LEMMA FollowingTold ==
    ASSUME IInv, NEW d \in Home, Following(d), NEW m,
           m.command \notin Commanded(d) \cup {"DEVICE_INFO"},
           inbox'[d] = Append(inbox[d], m), outbox'[d] = outbox[d],
           object' = object, crossed' = crossed, connection'[d] = connection[d],
           \A f \in Sensed(d) \cup Commanded(d) : f # m.command =>
                actual'[d][f] = actual[d][f] /\ (f \in lost'[d] <=> f \in lost[d]),
           m.command \in Sensed(d) => actual'[d][m.command] = m.value,
           lost'[d] = lost[d] \/ connection[d] # "broken"
    PROVE  Following(d)'
<1> DEFINE s == inbox[d]
           u == Append(s, m)
<1>1. Sequence(s)
    BY DEF IInv, Traffic, InboxOK, Client
<1>2. /\ Sequence(u)
      /\ Len(s) \in Nat /\ Len(u) = Len(s) + 1
      /\ \A i \in 1..Len(s) : u[i] = s[i]
      /\ u[Len(s)+1] = m
    BY <1>1, SequenceAppend
<1>3. inbox'[d] = u /\ inbox[d] = s
    OBVIOUS
<1>4. \A f \in Sensed(d) \ lost[d] : \A x, y : f # m.command =>
        (Ends(s, "Device", f, x, y) => Ends(u, "Device", f, x, y))
    <2>1. \A f \in Sensed(d) : f # m.command => Said(m, "Device", f) = {}
        BY DEF Said
    <2>2. QED
        BY <1>1, <2>1, EndsAppend
<1>5. m.command \in Sensed(d) => \A x : Ends(u, "Device", m.command, x, m.value)
    <2>1. Said(m, "Device", m.command) = {m.value}
        BY DEF Said
    <2>2. QED
        BY <1>1, <2>1, EndsAppend
<1> HIDE DEF s, u
<1>6. NoInfo(s) <=> NoInfo(u)
    <2>1. \A i \in 1..Len(u) : i \in 1..Len(s) \/ i = Len(s) + 1
        BY <1>2
    <2>2. \A i \in 1..Len(s) : i \in 1..Len(u)
        BY <1>2
    <2>3. QED
        BY <1>2, <2>1, <2>2 DEF NoInfo
<1>7. CommandsFollow(d)'
    <2> SUFFICES ASSUME d \in DOMAIN object, d \notin crossed
                 PROVE  (Questioned(d) \/ Answering(d) \/ Agreed(d))'
        BY DEF CommandsFollow
    <2>1. CASE Questioned(d)
        BY <1>3, <1>6, <2>1 DEF Questioned
    <2>2. CASE Answering(d)
        <3>1. PICK i \in 1..Len(s) :
                /\ s[i].command = "DEVICE_INFO"
                /\ \A j \in 1..Len(s) : s[j].command = "DEVICE_INFO" => j = i
                /\ \A f \in Commanded(d) \ lost[d] : s[i].value[f] = actual[d][f]
            BY <1>3, <2>2 DEF Answering
        <3>2. i \in 1..Len(u) /\ u[i] = s[i]
            BY <1>2
        <3>3. \A j \in 1..Len(u) : u[j].command = "DEVICE_INFO" => j = i
            <4>1. \A j \in 1..Len(u) : j \in 1..Len(s) \/ j = Len(s) + 1
                BY <1>2
            <4>2. QED
                BY <1>2, <3>1, <4>1
        <3>4. \A f \in Commanded(d) \ lost'[d] : u[i].value[f] = actual'[d][f]
            BY <3>1, <3>2
        <3>5. outbox[d] = <<>>
            BY <2>2 DEF Answering
        <3>6. Answering(d)'
            BY <1>3, <3>1, <3>2, <3>3, <3>4, <3>5 DEF Answering
        <3>7. QED
            BY <3>6
    <2>3. CASE Agreed(d)
        BY <1>3, <1>6, <2>3 DEF Agreed
    <2>4. QED
        BY <2>1, <2>2, <2>3 DEF Following, CommandsFollow
<1>8. SensesFollow(d)'
    <2> SUFFICES ASSUME d \in DOMAIN object, NoInfo(outbox[d]),
                        NEW f \in Sensed(d), f \notin lost'[d]
                 PROVE  Ends(u, "Device", f, object[d][f], actual'[d][f])
        BY <1>3 DEF SensesFollow
    <2>1. CASE f = m.command
        BY <1>5, <2>1
    <2>2. CASE f # m.command
        <3>1. f \notin lost[d] /\ actual'[d][f] = actual[d][f]
            BY <2>2
        <3>2. Ends(s, "Device", f, object[d][f], actual[d][f])
            BY <1>3, <3>1 DEF Following, SensesFollow
        <3>3. QED
            BY <1>4, <2>2, <3>1, <3>2
    <2>3. QED
        BY <2>1, <2>2
<1>9. CoolingFollows(d)'
    BY <1>3, <1>6, CoolingCommands DEF Following, CoolingFollows
<1>10. Doubted(d)'
    BY <1>3, <1>6 DEF Following, Doubted
<1>11. QED
    BY <1>7, <1>8, <1>9, <1>10 DEF Following

LEMMA SenseFollows ==
    ASSUME IInv, NEW d \in Home, Following(d), NEW e \in Home, Sense(e)
    PROVE  Following(d)'
<1>1. PICK f \in DOMAIN Reading[e] : \E v \in Reading[e][f] :
        /\ inbox' = [inbox EXCEPT ![e] = Append(@, Message(f, v))]
        /\ actual' = IF f \in DOMAIN actual[e] THEN [actual EXCEPT ![e][f] = v] ELSE actual
        /\ lost' = [lost EXCEPT ![e] = @ \ {f}]
    BY DEF Sense
<1>2. PICK v \in Reading[e][f] :
        /\ inbox' = [inbox EXCEPT ![e] = Append(@, Message(f, v))]
        /\ actual' = IF f \in DOMAIN actual[e] THEN [actual EXCEPT ![e][f] = v] ELSE actual
        /\ lost' = [lost EXCEPT ![e] = @ \ {f}]
    BY <1>1
<1>3. Connected(e) /\ UNCHANGED <<page, object, outbox, connection, crossed>>
    BY DEF Sense
<1>4. /\ inbox = [c \in Client |-> inbox[c]] /\ lost = [c \in Home |-> lost[c]]
      /\ d \in Client /\ e \in Client /\ e \in Device
      /\ Sensed(d) \cup Commanded(d) \subseteq DOMAIN actual[d]
    BY InputAssumption DEF IInv, Shape, Client
<1> DEFINE m == Message(f, v)
<1>5. m.command = f /\ m.value = v
    BY DEF Message
<1>6. inbox' = [inbox EXCEPT ![e] = Append(inbox[e], m)]
    BY <1>2
<1> HIDE DEF m
<1>7. CASE e = d
    <2>1. m.command \notin Commanded(d) \cup {"DEVICE_INFO"}
        BY <1>4, <1>5, <1>7, InputAssumption
    <2>2. inbox'[d] = Append(inbox[d], m)
        BY <1>4, <1>6, <1>7
    <2>3. \A g \in DOMAIN actual[d] : actual'[d][g] = IF g = f THEN v ELSE actual[d][g]
        BY <1>2, <1>7 DEF Home
    <2>4. lost'[d] = lost[d] \ {f}
        BY <1>2, <1>4, <1>7
    <2>5. connection[d] # "broken"
        BY <1>3, <1>7 DEF Connected
    <2>6. QED
        BY <1>3, <1>4, <1>5, <2>1, <2>2, <2>3, <2>4, <2>5, FollowingTold
<1>8. CASE e # d
    <2>1. inbox'[d] = inbox[d] /\ lost'[d] = lost[d]
        BY <1>2, <1>4, <1>6, <1>8
    <2>2. actual'[d] = actual[d]
        BY <1>2, <1>8 DEF Home
    <2>3. QED
        BY <1>3, <2>1, <2>2, FollowingKept
<1>9. QED
    BY <1>7, <1>8

LEMMA ReportFollows ==
    ASSUME IInv, NEW d \in Home, Following(d), NEW e \in Home, Report(e)
    PROVE  Following(d)'
<1>1. PICK s \in ReportedStatus :
        inbox' = [inbox EXCEPT ![e] = Append(@, Message("HEARTBEAT", s))]
    BY DEF Report
<1>2. UNCHANGED <<actual, page, object, outbox, connection, crossed, lost>>
    BY DEF Report
<1>3. inbox = [c \in Client |-> inbox[c]] /\ d \in Client /\ e \in Client /\ d \in Device
    BY DEF IInv, Shape, Client
<1> DEFINE m == Message("HEARTBEAT", s)
<1>4. m.command = "HEARTBEAT"
    BY DEF Message
<1>5. inbox' = [inbox EXCEPT ![e] = Append(inbox[e], m)]
    BY <1>1
<1> HIDE DEF m
<1>6. CASE e = d
    <2>1. m.command \notin Commanded(d) \cup Sensed(d) \cup {"DEVICE_INFO"}
        BY <1>3, <1>4, TrackedFields DEF Tracked
    <2>2. inbox'[d] = Append(inbox[d], m)
        BY <1>3, <1>5, <1>6
    <2>3. QED
        BY <1>2, <2>1, <2>2, FollowingTold
<1>7. CASE e # d
    <2>1. inbox'[d] = inbox[d]
        BY <1>3, <1>5, <1>7
    <2>2. QED
        BY <1>2, <2>1, FollowingKept
<1>8. QED
    BY <1>6, <1>7

LEMMA MoveFollows ==
    ASSUME IInv, NEW d \in Home, Following(d), NEW e \in Home, Move(e)
    PROVE  Following(d)'
<1>1. UNCHANGED <<actual, object, outbox, connection, crossed, lost>>
    BY DEF Move
<1>2. d # "Website" /\ d \in Client /\ inbox = [c \in Client |-> inbox[c]]
    BY DEF IInv, Shape, Client, Device
<1>3. inbox'[d] = inbox[d]
    BY <1>2 DEF Move
<1>4. QED
    BY <1>1, <1>3, FollowingKept

LEMMA ShowFollows ==
    ASSUME IInv, NEW d \in Home, Following(d), Show
    PROVE  Following(d)'
<1>1. UNCHANGED <<actual, object, inbox, connection, crossed, lost, left>>
    BY DEF Show
<1>2. d # "Website" /\ d \in Client /\ outbox = [c \in Client |-> outbox[c]]
    BY DEF IInv, Shape, Client, Device
<1>3. outbox'[d] = outbox[d]
    BY <1>2 DEF Show
<1>4. QED
    BY <1>1, <1>3, FollowingKept

(* A device connects, for the first time or again.                         *)
LEMMA ConnectFollows ==
    ASSUME IInv, NEW d \in Home, Following(d), NEW c \in Client, Connect(c)
    PROVE  Following(d)'
<1> DEFINE registration == IF connection[c] = "none" THEN <<Message("REGISTRATION", "")>>
                           ELSE <<>>
           question     == IF c = "Website" THEN <<Message("WEBSITE_UPDATE", "")>> ELSE <<>>
<1>1. /\ connection' = [connection EXCEPT ![c] = IF @ = "none" THEN "first" ELSE "again"]
      /\ inbox' = [inbox EXCEPT ![c] = @ \o registration \o question]
      /\ UNCHANGED <<actual, page, object, outbox, crossed, lost, left>>
    BY DEF Connect
<1>2. /\ inbox = [e \in Client |-> inbox[e]] /\ d \in Client /\ d # "Website"
      /\ connection = [e \in Client |-> connection[e]]
      /\ InboxOK(d, inbox[d]) /\ Announced(d)
    BY DEF IInv, Shape, TypeOK, Traffic, Client, Device
<1>3. \A e \in Client : e # c => inbox'[e] = inbox[e] /\ connection'[e] = connection[e]
    BY <1>1, <1>2
<1>4. CASE c # d
    BY <1>1, <1>2, <1>3, <1>4, FollowingKept
<1>5. CASE c = d
    <2>1. connection'[d] # "broken"
        BY <1>1, <1>2, <1>5
    <2>2. \A s : Sequence(s) => s \o <<>> = s
        BY DEF Sequence
    <2>3. CASE connection[d] # "none"
        <3>1. inbox'[d] = inbox[d] \o <<>> \o <<>>
            BY <1>1, <1>2, <1>5, <2>3
        <3>2. inbox'[d] = inbox[d]
            BY <1>2, <2>2, <3>1 DEF InboxOK
        <3>3. QED
            BY <1>1, <2>1, <3>2, FollowingKept
    <2>4. CASE connection[d] = "none"
        <3> DEFINE m == Message("REGISTRATION", "")
        <3>1. m.command = "REGISTRATION"
            BY DEF Message
        <3>2. d \notin DOMAIN object /\ inbox[d] = <<>>
            BY <1>2, <2>4 DEF Announced
        <3>3. inbox'[d] = <<>> \o <<m>> \o <<>>
            BY <1>1, <1>2, <1>5, <2>4, <3>2
        <3> HIDE DEF m
        <3>4. <<>> \o <<m>> \o <<>> = <<m>>
            OBVIOUS
        <3>5. Len(<<m>>) = 1 /\ <<m>>[1] = m
            BY SequenceSmall
        <3>6. NoInfo(inbox'[d])
            <4>1. \A i \in 1..Len(<<m>>) : i = 1
                BY <3>5
            <4>2. QED
                BY <3>1, <3>3, <3>4, <3>5, <4>1 DEF NoInfo
        <3>7. d \notin DOMAIN object'
            BY <1>1, <3>2
        <3>8. Doubted(d)'
            BY <2>1, <3>6 DEF Doubted
        <3>9. QED
            BY <3>7, <3>8 DEF Following, CommandsFollow, SensesFollow, CoolingFollows
    <2>5. QED
        BY <2>3, <2>4
<1>6. QED
    BY <1>4, <1>5

(* A device without a connection may have anything, until it is told.      *)
LEMMA BreakFollows ==
    ASSUME IInv, NEW d \in Home, Following(d), NEW c \in Client, Break(c)
    PROVE  Following(d)'
<1>1. /\ connection' = [connection EXCEPT ![c] = "broken"]
      /\ outbox' = [outbox EXCEPT ![c] = <<>>]
      /\ UNCHANGED <<object, inbox, crossed>>
    BY DEF Break
<1>2. /\ d \in Client /\ d # "Website"
      /\ outbox = [e \in Client |-> outbox[e]]
      /\ connection = [e \in Client |-> connection[e]]
      /\ lost = [e \in Home |-> lost[e]]
      /\ Sensed(d) \cup Commanded(d) \subseteq DOMAIN actual[d]
    BY InputAssumption DEF IInv, Shape, TypeOK, Client, Device
<1>3. CASE c # d
    <2>1. outbox'[d] = outbox[d] /\ connection'[d] = connection[d]
        BY <1>1, <1>2, <1>3
    <2>2. actual'[d] = actual[d] /\ lost'[d] = lost[d]
        BY <1>2, <1>3 DEF Break, Home
    <2>3. QED
        BY <1>1, <2>1, <2>2, FollowingKept
<1>4. CASE c = d
    <2>1. outbox'[d] = <<>> /\ NoInfo(outbox'[d])
        BY <1>1, <1>2, <1>4, SequenceSmall DEF NoInfo
    <2>2. lost'[d] = DOMAIN actual[d]
        BY <1>2, <1>4 DEF Break
    <2>3. Sensed(d) \cup Commanded(d) \subseteq lost'[d]
        BY <1>2, <2>2
    <2>4. CommandsFollow(d)'
        <3> SUFFICES ASSUME d \in DOMAIN object, d \notin crossed
                     PROVE  (Answering(d) \/ Agreed(d))'
            BY <1>1 DEF CommandsFollow
        <3>1. CASE NoInfo(inbox[d])
            BY <1>1, <2>1, <2>3, <3>1 DEF Agreed
        <3>2. CASE Answering(d)
            BY <1>1, <2>1, <2>3, <3>2 DEF Answering
        <3>3. QED
            BY <3>1, <3>2 DEF Following, CommandsFollow, Questioned, Agreed
    <2>5. SensesFollow(d)'
        BY <2>3 DEF SensesFollow
    <2>6. CoolingFollows(d)'
        BY <2>3, CoolingCommands DEF CoolingFollows
    <2>7. Doubted(d)'
        BY <1>1, <2>3 DEF Following, Doubted
    <2>8. QED
        BY <2>4, <2>5, <2>6, <2>7 DEF Following
<1>5. QED
    BY <1>3, <1>4

(* A device obeys, or answers with all it has.                             *)
LEMMA ObeyFollows ==
    ASSUME IInv, NEW d \in Home, Following(d), NEW e \in Home, Obey(e)
    PROVE  Following(d)'
<1> DEFINE q == outbox[e]
           h == Head(q)
           r == Tail(q)
<1>1. /\ q # <<>> /\ outbox' = [outbox EXCEPT ![e] = r]
      /\ UNCHANGED <<page, object, connection, crossed, left>>
    BY DEF Obey
<1>2. /\ d \in Client /\ e \in Client /\ d # "Website" /\ d \in Device
      /\ outbox = [c \in Client |-> outbox[c]]
      /\ inbox = [c \in Client |-> inbox[c]]
      /\ lost = [c \in Home |-> lost[c]]
      /\ Sequence(outbox[d]) /\ OutboxOK(d, outbox[d]) /\ Sequence(inbox[d])
      /\ Announced(d)
      /\ Sensed(d) \cup Commanded(d) \subseteq DOMAIN actual[d]
      /\ ~Connected(e) => outbox[e] = <<>>
    <2>1. /\ d \in Client /\ e \in Client /\ d # "Website" /\ d \in Device
          /\ outbox = [c \in Client |-> outbox[c]]
          /\ inbox = [c \in Client |-> inbox[c]]
          /\ lost = [c \in Home |-> lost[c]]
          /\ DOMAIN actual[d] = DOMAIN PowerOn[d]
        BY DEF IInv, Shape, Client, Device
    <2>2. OutboxOK(d, outbox[d]) /\ InboxOK(d, inbox[d]) /\ Announced(d)
        BY <2>1 DEF IInv, Traffic
    <2>3. ~Connected(e) => outbox[e] = <<>>
        BY <2>1 DEF IInv, TypeOK
    <2>4. Sensed(d) \cup Commanded(d) \subseteq DOMAIN PowerOn[d]
        BY <2>1, InputAssumption
    <2>5. QED
        BY <2>1, <2>2, <2>3, <2>4 DEF InboxOK, OutboxOK
<1>3. CASE e # d
    <2>1. outbox'[d] = outbox[d]
        BY <1>1, <1>2, <1>3
    <2>2. actual'[d] = actual[d] /\ lost'[d] = lost[d] /\ inbox'[d] = inbox[d]
        BY <1>2, <1>3 DEF Obey, Home
    <2>3. QED
        BY <1>1, <2>1, <2>2, FollowingKept
<1>4. CASE e = d
    <2>1. /\ outbox'[d] = r /\ outbox[d] = q
          /\ d \in DOMAIN object /\ connection[d] # "broken"
        BY <1>1, <1>2, <1>4 DEF Announced, Connected
    <2>2. /\ Sequence(q) /\ Len(q) \in Nat /\ Len(q) # 0 /\ h = q[1] /\ 1 \in 1..Len(q)
          /\ Sequence(r) /\ Len(r) = Len(q) - 1
          /\ \A i \in 1..Len(r) : i + 1 \in 1..Len(q) /\ r[i] = q[i+1]
        BY <1>1, <1>2, <2>1, SequenceHead
    <2>3. OutOK(d, h)
        BY <1>2, <2>1, <2>2 DEF OutboxOK
    <2>4. ~Answering(d)
        BY <1>1, <2>1 DEF Answering
    <2>5. CASE h.command = "DEVICE_INFO"
        <3> DEFINE s == inbox[d]
                   m == Message("DEVICE_INFO", actual[d])
                   u == Append(s, m)
        <3>1. inbox'[d] = u /\ lost'[d] = {} /\ actual' = actual
            BY <1>2, <1>4, <2>5 DEF Obey
        <3>2. m.command = "DEVICE_INFO" /\ m.value = actual[d]
            BY DEF Message
        <3> HIDE DEF m
        <3>3. /\ Sequence(u)
              /\ Len(s) \in Nat /\ Len(u) = Len(s) + 1
              /\ \A i \in 1..Len(s) : u[i] = s[i]
              /\ u[Len(s)+1] = m
            BY <1>2, SequenceAppend
        <3>4. \A f \in Sensed(d) : \A x : Ends(u, "Device", f, x, actual[d][f])
            <4>1. \A f \in Sensed(d) : f # "DEVICE_INFO"
                BY <1>2, TrackedFields DEF Tracked
            <4>2. \A f \in Sensed(d) : Said(m, "Device", f) = {actual[d][f]}
                BY <3>2, <4>1 DEF Said
            <4>3. QED
                BY <1>2, <4>2, EndsAppend
        <3>5. s = inbox[d]
            OBVIOUS
        <3> HIDE DEF s, u, h, r, q
        <3>6. CommandsFollow(d)'
            <4> SUFFICES ASSUME d \notin crossed
                         PROVE  Answering(d)'
                BY <1>1 DEF CommandsFollow
            <4>1. ~NoInfo(q)
                BY <2>2, <2>5 DEF NoInfo
            <4>2. Len(q) = 1 /\ NoInfo(s)
                BY <2>1, <2>4, <3>5, <4>1
                DEF Following, CommandsFollow, Questioned, Agreed
            <4>3. r = <<>>
                BY <2>2, <4>2, SequenceHead
            <4>4. Len(s) + 1 \in 1..Len(u)
                BY <3>3
            <4>5. \A j \in 1..Len(u) : u[j].command = "DEVICE_INFO" => j = Len(s) + 1
                <5>1. \A j \in 1..Len(u) : j \in 1..Len(s) \/ j = Len(s) + 1
                    BY <3>3
                <5>2. QED
                    BY <3>3, <4>2, <5>1 DEF NoInfo
            <4>6. QED
                BY <2>1, <3>1, <3>2, <3>3, <4>3, <4>4, <4>5 DEF Answering
        <3>7. SensesFollow(d)'
            BY <3>1, <3>4 DEF SensesFollow
        <3>8. CoolingFollows(d)'
            <4>1. ~NoInfo(u)
                <5>1. Len(s) + 1 \in 1..Len(u)
                    BY <3>3
                <5>2. QED
                    BY <3>2, <3>3, <5>1 DEF NoInfo
            <4>2. QED
                BY <3>1, <4>1 DEF CoolingFollows
        <3>9. Doubted(d)'
            BY <1>1, <2>1 DEF Doubted
        <3>10. QED
            BY <3>6, <3>7, <3>8, <3>9 DEF Following
    <2>6. CASE h.command # "DEVICE_INFO"
        <3>1. /\ actual' = [actual EXCEPT ![d][h.command] = h.value]
              /\ inbox' = inbox /\ lost' = lost
            BY <1>4, <2>6 DEF Obey
        <3>2. \A f \in DOMAIN actual[d] :
                actual'[d][f] = IF f = h.command THEN h.value ELSE actual[d][f]
            BY <3>1 DEF Home
        <3>3. ~Questioned(d)
            BY <2>1, <2>2, <2>6 DEF Questioned
        <3> HIDE DEF h, r
        <3>4. \A f \in Commanded(d) : \A v :
                Ends(q, "Device", f, actual[d][f], v) => Ends(r, "Device", f, actual'[d][f], v)
            <4> SUFFICES ASSUME NEW f \in Commanded(d), NEW v,
                                Ends(q, "Device", f, actual[d][f], v)
                         PROVE  Ends(r, "Device", f, actual'[d][f], v)
                OBVIOUS
            <4>1. CASE f = h.command
                <5>1. Said(h, "Device", f) = {h.value}
                    BY <2>6, <4>1 DEF Said
                <5>2. actual'[d][f] = h.value
                    BY <1>2, <3>2, <4>1
                <5>3. QED
                    BY <1>1, <2>2, <5>1, <5>2, EndsTail DEF h, r
            <4>2. CASE f # h.command
                <5>1. Said(h, "Device", f) = {}
                    BY <2>6, <4>2 DEF Said
                <5>2. actual'[d][f] = actual[d][f]
                    BY <1>2, <3>2, <4>2
                <5>3. QED
                    BY <1>1, <2>2, <5>1, <5>2, EndsTail DEF h, r
            <4>3. QED
                BY <4>1, <4>2
        <3>5. NoInfo(q) <=> NoInfo(r)
            <4>1. ASSUME NoInfo(r), NEW i \in 1..Len(q) PROVE q[i].command # "DEVICE_INFO"
                <5>1. CASE i = 1
                    BY <2>2, <2>6, <5>1
                <5>2. CASE i # 1
                    <6>1. i - 1 \in 1..Len(r) /\ (i - 1) + 1 = i
                        BY <2>2, <5>2
                    <6>2. QED
                        BY <2>2, <4>1, <6>1 DEF NoInfo
                <5>3. QED
                    BY <5>1, <5>2
            <4>2. NoInfo(q) => NoInfo(r)
                BY <2>2 DEF NoInfo
            <4>3. QED
                BY <4>1, <4>2 DEF NoInfo
        <3> HIDE DEF q
        <3>6. CommandsFollow(d)'
            <4> SUFFICES ASSUME d \notin crossed
                         PROVE  Agreed(d)'
                BY <1>1 DEF CommandsFollow
            <4>1. Agreed(d)
                BY <2>1, <2>4, <3>3 DEF Following, CommandsFollow
            <4>2. \A f \in Commanded(d) \ lost[d] :
                    Ends(r, "Device", f, actual'[d][f], Believed(object, d, f))
                BY <2>1, <3>4, <4>1 DEF Agreed
            <4>3. NoInfo(r) /\ NoInfo(inbox[d])
                BY <2>1, <3>5, <4>1 DEF Agreed
            <4>4. QED
                BY <1>1, <2>1, <3>1, <4>2, <4>3 DEF Agreed
        <3>7. SensesFollow(d)'
            <4>1. \A f \in Sensed(d) : actual'[d][f] = actual[d][f]
                BY <1>2, <2>3, <3>2 DEF OutOK
            <4>2. QED
                BY <1>1, <2>1, <3>1, <3>5, <4>1 DEF Following, SensesFollow
        <3>8. CoolingFollows(d)'
            <4> SUFFICES ASSUME d = "Fridge", NoInfo(r), NoInfo(inbox[d]), Over(object[d]) # 0,
                                NEW f \in {"FRIDGE_COOLER_ON", "FRIDGE_FAN_ON"}, f \notin lost[d]
                         PROVE  Ends(r, "Device", f, actual'[d][f], Over(object[d]) >= 1)
                BY <1>1, <2>1, <3>1 DEF CoolingFollows
            <4>1. Ends(q, "Device", f, actual[d][f], Over(object[d]) >= 1)
                BY <2>1, <3>5 DEF Following, CoolingFollows
            <4>2. f \in Commanded(d)
                BY CoolingCommands
            <4>3. QED
                BY <3>4, <4>1, <4>2
        <3>9. Doubted(d)'
            BY <1>1, <2>1 DEF Doubted
        <3>10. QED
            BY <3>6, <3>7, <3>8, <3>9 DEF Following
    <2>7. QED
        BY <2>5, <2>6
<1>5. QED
    BY <1>3, <1>4

(* Main registers a device and asks it for its state.                      *)
LEMMA RegisterFollows ==
    ASSUME IInv, NEW d \in Home, Following(d), Handle(d), d \notin DOMAIN object
    PROVE  Following(d)'
<1> DEFINE new == SentTo(d, After(d).sent)
           s == inbox[d]
<1>1. d \in Client /\ d # "Website" /\ Announced(d)
    BY DEF IInv, Shape, Traffic, Client, Device
<1>2. s # <<>> /\ connection[d] # "none" /\ inbox'[d] = Tail(s) /\ connection' = connection
    BY <1>1, HandleFrame
<1>3. outbox'[d] = IF Connected(d) THEN outbox[d] \o new ELSE outbox[d]
    BY <1>1, HandleFrame
<1>4. outbox[d] = <<>>
    BY <1>1 DEF Announced
<1>5. lost'[d] = IF Connected(d) THEN lost[d] \ Commands(new) ELSE lost[d]
    BY <1>1, HandleFrame
<1>6. Len(new) = 1 /\ Sequence(new) /\ new[1].command = "DEVICE_INFO"
    BY <1>1, HandleRegisters
<1> HIDE DEF new
<1>7. NoInfo(Tail(s))
    <2>1. NoInfo(s) /\ Sequence(s)
        BY <1>1 DEF Following, Doubted, IInv, Traffic, InboxOK
    <2>2. \A i \in 1..Len(Tail(s)) : i + 1 \in 1..Len(s) /\ Tail(s)[i] = s[i+1]
        BY <1>2, <2>1, SequenceHead
    <2>3. QED
        BY <2>1, <2>2 DEF NoInfo
<1> HIDE DEF s
<1>8. CASE Connected(d)
    <2>1. outbox'[d] = new
        <3>1. <<>> \o new = new
            BY <1>6 DEF Sequence
        <3>2. QED
            BY <1>3, <1>4, <1>8, <3>1
    <2>2. Questioned(d)'
        BY <1>2, <1>6, <1>7, <2>1 DEF Questioned
    <2>3. ~NoInfo(new)
        <3>1. 1 \in 1..Len(new)
            BY <1>6
        <3>2. QED
            BY <1>6, <3>1 DEF NoInfo
    <2>4. d \in DOMAIN object'
        BY <1>1, HandleSends
    <2>5. connection'[d] # "broken"
        BY <1>2, <1>8 DEF Connected
    <2>6. QED
        BY <2>1, <2>2, <2>3, <2>4, <2>5
        DEF Following, CommandsFollow, SensesFollow, CoolingFollows, Doubted
<1>9. CASE ~Connected(d)
    <2>1. connection[d] = "broken"
        BY <1>1, <1>2, <1>9 DEF IInv, TypeOK, Connected
    <2>2. Sensed(d) \cup Commanded(d) \subseteq lost'[d]
        BY <1>5, <1>9, <2>1 DEF Following, Doubted
    <2>3. outbox'[d] = <<>> /\ NoInfo(outbox'[d])
        BY <1>3, <1>4, <1>9, SequenceSmall DEF NoInfo
    <2>4. Agreed(d)'
        BY <1>2, <1>7, <2>2, <2>3 DEF Agreed
    <2>5. SensesFollow(d)'
        BY <2>2 DEF SensesFollow
    <2>6. CoolingFollows(d)'
        BY <2>2, CoolingCommands DEF CoolingFollows
    <2>7. Doubted(d)'
        BY <1>2, <1>7, <2>2 DEF Doubted
    <2>8. QED
        BY <2>4, <2>5, <2>6, <2>7 DEF Following, CommandsFollow
<1>10. QED
    BY <1>8, <1>9

(* What a turn with a message of c, main having objects for both, does to  *)
(* what is under way to and from d.                                        *)
LEMMA TurnFrame ==
    ASSUME IInv, NEW d \in Home, Following(d), NEW c \in Client, Handle(c),
           c \in DOMAIN object, d \in DOMAIN object
    PROVE  LET new == SentTo(d, After(c).sent)
           IN  /\ Turned(After(c), c, Head(inbox[c])) /\ object' = After(c).object
               /\ d \in DOMAIN object' /\ d \in Device /\ d \in Client
               /\ Sequence(inbox[d]) /\ inbox[c] # <<>>
               /\ inbox'[d] = IF c = d THEN Tail(inbox[d]) ELSE inbox[d]
               /\ Sequence(outbox[d]) /\ Sequence(new)
               /\ Connected(d) => outbox'[d] = outbox[d] \o new
               /\ ~Connected(d) => /\ outbox[d] = <<>> /\ outbox'[d] = <<>>
                                   /\ lost'[d] = lost[d]
                                   /\ Sensed(d) \cup Commanded(d) \subseteq lost[d]
               /\ lost'[d] \subseteq lost[d] /\ lost[d] \subseteq lost'[d] \cup Commands(new)
               /\ actual' = actual /\ connection' = connection
               /\ NoInfo(new)
               /\ \A i \in 1..Len(new) : new[i].command \notin Sensed(d)
               /\ d \notin crossed' =>
                    d \notin crossed /\ (new = <<>> \/ (NoInfo(outbox[d]) /\ NoInfo(inbox'[d])))
<1> DEFINE new == SentTo(d, After(c).sent)
<1>1. /\ d \in Client /\ d \in Device /\ d # "Website" /\ Announced(d)
      /\ Sequence(inbox[d]) /\ Sequence(outbox[d])
      /\ ~Connected(d) => outbox[d] = <<>>
      /\ connection[d] \in {"none", "first", "broken", "again"}
    BY DEF IInv, Shape, TypeOK, Traffic, InboxOK, OutboxOK, Client, Device
<1>2. Turned(After(c), c, Head(inbox[c]))
    BY HandleTurns
<1>3. object' = After(c).object /\ inbox[c] # <<>> /\ actual' = actual /\ connection' = connection
    BY HandleFrame
<1>4. inbox'[d] = IF c = d THEN Tail(inbox[d]) ELSE inbox[d]
    BY <1>1, HandleFrame
<1>5. outbox'[d] = IF Connected(d) THEN outbox[d] \o new ELSE outbox[d]
    BY <1>1, HandleFrame
<1>6. lost'[d] = IF Connected(d) THEN lost[d] \ Commands(new) ELSE lost[d]
    BY <1>1, HandleFrame
<1>7. /\ d \in DOMAIN object' /\ Sequence(new)
      /\ \A i \in 1..Len(new) : new[i].to = d /\ SentOK(new[i], object)
    BY <1>1, HandleSends
<1>8. /\ crossed \subseteq crossed'
      /\ new # <<>> /\ AnswerAwaited(d, inbox') => d \in crossed'
    BY HandleFrame
<1> HIDE DEF new
<1>9. ~Connected(d) => Sensed(d) \cup Commanded(d) \subseteq lost[d]
    <2>1. connection[d] # "none"
        BY <1>1 DEF Announced
    <2>2. QED
        BY <1>1, <2>1 DEF Connected, Following, Doubted
<1>10. \A i \in 1..Len(new) : new[i].command # "DEVICE_INFO" /\ new[i].command \notin Sensed(d)
    BY <1>1, <1>7 DEF SentOK
<1>11. ~AnswerAwaited(d, inbox') => NoInfo(outbox[d]) /\ NoInfo(inbox'[d])
    BY DEF AnswerAwaited, NoInfo
<1>12. NoInfo(new)
    BY <1>10 DEF NoInfo
<1>13. lost'[d] \subseteq lost[d] /\ lost[d] \subseteq lost'[d] \cup Commands(new)
    BY <1>6
<1>14. d \notin crossed' =>
            d \notin crossed /\ (new = <<>> \/ (NoInfo(outbox[d]) /\ NoInfo(inbox'[d])))
    BY <1>8, <1>11
<1>15. /\ Connected(d) => outbox'[d] = outbox[d] \o new
       /\ ~Connected(d) => /\ outbox[d] = <<>> /\ outbox'[d] = <<>>
                           /\ lost'[d] = lost[d]
    BY <1>1, <1>5, <1>6
<1> HIDE DEF IInv
<1>16. QED
    BY <1>1, <1>2, <1>3, <1>4, <1>7, <1>9, <1>10, <1>12, <1>13, <1>14, <1>15 DEF new

(* Taking a message from a queue with one answer in it.                    *)
LEMMA AnswerTaken ==
    ASSUME NEW s, Sequence(s), s # <<>>, NEW i \in 1..Len(s), s[i].command = "DEVICE_INFO",
           \A j \in 1..Len(s) : s[j].command = "DEVICE_INFO" => j = i
    PROVE  /\ i = 1 => NoInfo(Tail(s)) /\ Head(s) = s[i]
           /\ i # 1 => /\ i - 1 \in 1..Len(Tail(s)) /\ Tail(s)[i-1] = s[i]
                       /\ \A j \in 1..Len(Tail(s)) :
                            Tail(s)[j].command = "DEVICE_INFO" => j = i - 1
<1> DEFINE t == Tail(s)
<1>1. /\ Len(s) \in Nat /\ Len(t) = Len(s) - 1 /\ Head(s) = s[1]
      /\ \A j \in 1..Len(t) : j + 1 \in 1..Len(s) /\ t[j] = s[j+1]
    BY SequenceHead
<1> HIDE DEF t
<1>2. \A j \in 1..Len(t) : t[j].command = "DEVICE_INFO" => j + 1 = i
    BY <1>1
<1>3. CASE i = 1
    <2>1. \A j \in 1..Len(t) : j + 1 # 1
        BY <1>1
    <2>2. QED
        BY <1>1, <1>2, <1>3, <2>1 DEF NoInfo, t
<1>4. CASE i # 1
    <2>1. i - 1 \in 1..Len(t) /\ (i - 1) + 1 = i
        BY <1>1, <1>4
    <2>2. t[i-1] = s[i]
        BY <1>1, <2>1
    <2>3. \A j \in 1..Len(t) : t[j].command = "DEVICE_INFO" => j = i - 1
        BY <1>1, <1>2
    <2>4. QED
        BY <1>4, <2>1, <2>2, <2>3 DEF t
<1>5. QED
    BY <1>3, <1>4

LEMMA NoInfoQueues ==
    ASSUME NEW a, Sequence(a), NEW b, Sequence(b)
    PROVE  /\ NoInfo(a) /\ NoInfo(b) => NoInfo(a \o b)
           /\ NoInfo(a \o b) => NoInfo(a)
           /\ a # <<>> /\ NoInfo(a) => NoInfo(Tail(a)) /\ Head(a).command # "DEVICE_INFO"
           /\ a # <<>> /\ NoInfo(Tail(a)) /\ Head(a).command # "DEVICE_INFO" => NoInfo(a)
           /\ a \o <<>> = a /\ <<>> \o b = b
           /\ NoInfo(<<>>)
<1> DEFINE u == a \o b
           t == Tail(a)
<1>1. /\ Len(a) \in Nat /\ Len(b) \in Nat /\ Len(u) = Len(a) + Len(b)
      /\ \A i \in 1..Len(a) : u[i] = a[i]
      /\ \A i \in Len(a)+1..Len(u) : i - Len(a) \in 1..Len(b) /\ u[i] = b[i - Len(a)]
    BY SequenceConcat
<1>2. a # <<>> => /\ Len(a) # 0 /\ Head(a) = a[1] /\ Len(t) = Len(a) - 1
                  /\ \A i \in 1..Len(t) : i + 1 \in 1..Len(a) /\ t[i] = a[i+1]
    BY SequenceHead
<1>3. a \o <<>> = a /\ <<>> \o b = b
    BY DEF Sequence
<1> HIDE DEF u, t
<1>4. \A i \in 1..Len(u) : i \in 1..Len(a) \/ i \in Len(a)+1..Len(u)
    BY <1>1
<1>5. NoInfo(a) /\ NoInfo(b) => NoInfo(u)
    BY <1>1, <1>4 DEF NoInfo
<1>6. NoInfo(u) => NoInfo(a)
    <2>1. \A i \in 1..Len(a) : i \in 1..Len(u)
        BY <1>1
    <2>2. QED
        BY <1>1, <2>1 DEF NoInfo
<1>7. ASSUME a # <<>>
      PROVE  NoInfo(a) <=> NoInfo(t) /\ Head(a).command # "DEVICE_INFO"
    <2>1. \A i \in 1..Len(a) : i = 1 \/ (i - 1 \in 1..Len(t) /\ (i - 1) + 1 = i)
        BY <1>1, <1>2, <1>7
    <2>2. 1 \in 1..Len(a)
        BY <1>1, <1>2, <1>7
    <2>3. \A i \in 1..Len(a) : i = 1 \/ (i - 1 \in 1..Len(t) /\ a[i] = t[i-1])
        BY <1>2, <1>7, <2>1
    <2>4. QED
        BY <1>2, <1>7, <2>2, <2>3 DEF NoInfo
<1>8. QED
    BY <1>3, <1>5, <1>6, <1>7, SequenceSmall DEF NoInfo, u, t

(* Main's turn, with a message of d or of another client.                  *)
LEMMA TurnFollows ==
    ASSUME IInv, NEW d \in Home, Following(d), NEW c \in Client, Handle(c),
           c \in DOMAIN object, d \in DOMAIN object
    PROVE  Following(d)'
<1> DEFINE t == After(c)
           m == Head(inbox[c])
           new == SentTo(d, t.sent)
           s == inbox[d]
           q == outbox[d]
<1>1. /\ Turned(t, c, m) /\ object' = t.object
      /\ d \in DOMAIN object' /\ d \in Device /\ d \in Client
      /\ Sequence(s) /\ inbox[c] # <<>>
      /\ inbox'[d] = IF c = d THEN Tail(s) ELSE s
      /\ Sequence(q) /\ Sequence(new)
      /\ Connected(d) => outbox'[d] = q \o new
      /\ ~Connected(d) => /\ q = <<>> /\ outbox'[d] = <<>>
                          /\ lost'[d] = lost[d]
                          /\ Sensed(d) \cup Commanded(d) \subseteq lost[d]
      /\ lost'[d] \subseteq lost[d] /\ lost[d] \subseteq lost'[d] \cup Commands(new)
      /\ actual' = actual /\ connection' = connection
      /\ NoInfo(new)
      /\ \A i \in 1..Len(new) : new[i].command \notin Sensed(d)
      /\ d \notin crossed' =>
            d \notin crossed /\ (new = <<>> \/ (NoInfo(q) /\ NoInfo(inbox'[d])))
    BY TurnFrame
<1>2. \A f \in Commanded(d) : Ends(new, "Device", f, Heard(c, m, d, f), Believed(object', d, f))
    BY <1>1 DEF Turned
<1>3. \A f \in Sensed(d) :
        /\ c # d \/ Said(m, "Device", f) = {} => object'[d][f] = object[d][f]
        /\ c = d => \A x : Said(m, "Device", f) = {x} => object'[d][f] = x
    <2> HIDE DEF t, m
    <2>1. \A f \in Sensed(d) :
            /\ c # d \/ Said(m, "Device", f) = {} => t.object[d][f] = object[d][f]
            /\ c = d => \A x : Said(m, "Device", f) = {x} => t.object[d][f] = x
        BY <1>1 DEF Turned
    <2>2. QED
        BY <1>1, <2>1
<1>4. d = "Fridge" => /\ Cooling(t, object)
                      /\ c = d /\ m.command = "DEVICE_INFO" => Cooled(t)
    BY <1>1 DEF Turned
<1>5. inbox[c] = s \/ c # d
    OBVIOUS
<1>6. c = d => s # <<>> /\ m = Head(s)
    BY <1>1
<1>7. d = "Fridge" => new = SentTo("Fridge", t.sent)
    OBVIOUS
<1>8. inbox[d] = s /\ outbox[d] = q
    OBVIOUS
<1> HIDE DEF t, m, new, s, q
<1>9. /\ NoInfo(q) /\ NoInfo(new) => NoInfo(q \o new)
      /\ NoInfo(q \o new) => NoInfo(q)
      /\ s # <<>> /\ NoInfo(s) => NoInfo(Tail(s)) /\ Head(s).command # "DEVICE_INFO"
      /\ s # <<>> /\ NoInfo(Tail(s)) /\ Head(s).command # "DEVICE_INFO" => NoInfo(s)
      /\ q \o <<>> = q /\ <<>> \o new = new
      /\ NoInfo(<<>>)
    BY <1>1, NoInfoQueues
<1>10. new = <<>> => lost'[d] = lost[d]
    <2>1. Commands(<<>>) = {}
        <3>1. Len(<<>>) = 0
            OBVIOUS
        <3>2. 1..0 = {}
            OBVIOUS
        <3>3. QED
            BY <3>1, <3>2 DEF Commands
    <2>2. QED
        BY <1>1, <2>1
<1>11. \A f \in Commanded(d) : f \in Commands(new) =>
            \E i \in 1..Len(new) : Said(new[i], "Device", f) # {}
    <2>1. \A i \in 1..Len(new) : Said(new[i], "Device", new[i].command) = {new[i].value}
        BY <1>1 DEF Said, NoInfo
    <2>2. QED
        BY <2>1 DEF Commands
<1>12. ASSUME NEW f \in Commanded(d), f \notin lost'[d], NEW x,
              f \notin lost[d] => Ends(q, "Device", f, x, Heard(c, m, d, f))
       PROVE  Ends(q \o new, "Device", f, x, Believed(object', d, f))
    <2>1. CASE f \notin lost[d]
        BY <1>1, <1>2, <1>12, <2>1, EndsConcat
    <2>2. CASE f \in lost[d]
        <3>1. \E i \in 1..Len(new) : Said(new[i], "Device", f) # {}
            BY <1>1, <1>11, <1>12, <2>2
        <3>2. Ends(new, "Device", f, Heard(c, m, d, f), Believed(object', d, f))
            BY <1>2
        <3>3. QED
            BY <1>1, <3>1, <3>2, EndsConcat
    <2>3. QED
        BY <2>1, <2>2
<1>13. CommandsFollow(d)'
    <2> SUFFICES ASSUME d \notin crossed'
                 PROVE  (Questioned(d) \/ Answering(d) \/ Agreed(d))'
        BY DEF CommandsFollow
    <2>1. /\ Questioned(d) \/ Answering(d) \/ Agreed(d)
          /\ new = <<>> \/ (NoInfo(q) /\ NoInfo(inbox'[d]))
        BY <1>1 DEF Following, CommandsFollow
    <2>2. NoInfo(s) => NoInfo(inbox'[d])
        BY <1>1, <1>6, <1>9
    <2>3. ASSUME ~Connected(d), NoInfo(inbox'[d]) PROVE Agreed(d)'
        BY <1>1, <1>9, <2>3 DEF Agreed
    <2>4. CASE Questioned(d)
        <3>1. Len(q) = 1 /\ q[1].command = "DEVICE_INFO" /\ NoInfo(s)
            BY <1>8, <2>4 DEF Questioned
        <3>2. ~NoInfo(q)
            <4>1. 1 \in 1..Len(q)
                BY <3>1
            <4>2. QED
                BY <3>1, <4>1 DEF NoInfo
        <3>3. q # <<>>
            BY <3>2, <1>9
        <3>4. outbox'[d] = q
            BY <1>1, <1>9, <2>1, <3>2, <3>3
        <3>5. QED
            BY <2>2, <3>1, <3>4 DEF Questioned
    <2>5. CASE Answering(d)
        <3>1. PICK i \in 1..Len(s) :
                /\ s[i].command = "DEVICE_INFO"
                /\ \A j \in 1..Len(s) : s[j].command = "DEVICE_INFO" => j = i
                /\ \A f \in Commanded(d) \ lost[d] : s[i].value[f] = actual[d][f]
            BY <1>8, <2>5 DEF Answering
        <3>2. q = <<>>
            BY <1>8, <2>5 DEF Answering
        <3>3. CASE c = d /\ i = 1
            <4>1. NoInfo(inbox'[d]) /\ m = s[i]
                BY <1>1, <1>6, <3>1, <3>3, AnswerTaken
            <4>2. CASE ~Connected(d)
                BY <2>3, <4>1, <4>2
            <4>3. CASE Connected(d)
                <5>1. outbox'[d] = q \o new /\ NoInfo(outbox'[d])
                    BY <1>1, <1>9, <3>2, <4>3
                <5>2. ASSUME NEW f \in Commanded(d), f \notin lost'[d]
                      PROVE  Ends(q \o new, "Device", f, actual[d][f], Believed(object', d, f))
                    <6>1. Heard(c, m, d, f) = m.value[f]
                        BY <3>1, <3>3, <4>1 DEF Heard
                    <6>2. f \notin lost[d] => Ends(q, "Device", f, actual[d][f], Heard(c, m, d, f))
                        BY <3>1, <3>2, <4>1, <6>1, EndsNone
                    <6>3. QED
                        BY <1>12, <5>2, <6>2
                <5>3. QED
                    BY <1>1, <4>1, <5>1, <5>2 DEF Agreed
            <4>4. QED
                BY <4>2, <4>3
        <3>4. CASE ~(c = d /\ i = 1)
            <4>1. \E k \in 1..Len(inbox'[d]) :
                    /\ inbox'[d][k] = s[i]
                    /\ \A j \in 1..Len(inbox'[d]) :
                        inbox'[d][j].command = "DEVICE_INFO" => j = k
                <5>1. CASE c = d
                    <6>1. s # <<>> /\ i # 1
                        BY <1>6, <3>4, <5>1
                    <6>2. /\ i - 1 \in 1..Len(Tail(s)) /\ Tail(s)[i-1] = s[i]
                          /\ \A j \in 1..Len(Tail(s)) :
                                Tail(s)[j].command = "DEVICE_INFO" => j = i - 1
                        BY <1>1, <3>1, <6>1, AnswerTaken
                    <6>3. QED
                        BY <1>1, <5>1, <6>2
                <5>2. CASE c # d
                    BY <1>1, <3>1, <5>2
                <5>3. QED
                    BY <5>1, <5>2
            <4>2. PICK k \in 1..Len(inbox'[d]) :
                    /\ inbox'[d][k] = s[i]
                    /\ \A j \in 1..Len(inbox'[d]) :
                        inbox'[d][j].command = "DEVICE_INFO" => j = k
                BY <4>1
            <4>3. ~NoInfo(inbox'[d])
                BY <3>1, <4>2 DEF NoInfo
            <4>4. new = <<>>
                BY <2>1, <4>3
            <4>5. outbox'[d] = <<>> /\ lost'[d] = lost[d]
                BY <1>1, <1>9, <1>10, <3>2, <4>4
            <4>6. Answering(d)'
                BY <1>1, <3>1, <4>2, <4>5 DEF Answering
            <4>7. QED
                BY <4>6
        <3>5. QED
            BY <3>3, <3>4
    <2>6. CASE Agreed(d)
        <3>1. /\ NoInfo(q) /\ NoInfo(s) /\ NoInfo(inbox'[d])
              /\ \A f \in Commanded(d) \ lost[d] :
                    Ends(q, "Device", f, actual[d][f], Believed(object, d, f))
            BY <1>8, <2>2, <2>6 DEF Agreed
        <3>2. \A f : Heard(c, m, d, f) = Believed(object, d, f)
            <4>1. c = d => m.command # "DEVICE_INFO"
                BY <1>6, <1>9, <3>1
            <4>2. QED
                BY <4>1 DEF Heard
        <3>3. CASE ~Connected(d)
            BY <2>3, <3>1, <3>3
        <3>4. CASE Connected(d)
            <4>1. outbox'[d] = q \o new /\ NoInfo(outbox'[d])
                BY <1>1, <1>9, <3>1, <3>4
            <4>2. \A f \in Commanded(d) \ lost'[d] :
                    Ends(q \o new, "Device", f, actual[d][f], Believed(object', d, f))
                BY <1>12, <3>1, <3>2
            <4>3. QED
                BY <1>1, <3>1, <4>1, <4>2 DEF Agreed
        <3>5. QED
            BY <3>3, <3>4
    <2>7. QED
        BY <2>1, <2>4, <2>5, <2>6
<1>14. SensesFollow(d)'
    <2> SUFFICES ASSUME NoInfo(outbox'[d]), NEW f \in Sensed(d), f \notin lost'[d]
                 PROVE  Ends(inbox'[d], "Device", f, object'[d][f], actual'[d][f])
        BY DEF SensesFollow
    <2>1. NoInfo(q)
        BY <1>1, <1>9
    <2>2. f \notin lost[d]
        BY <1>1 DEF Commands
    <2>3. Ends(s, "Device", f, object[d][f], actual[d][f])
        BY <1>8, <2>1, <2>2 DEF Following, SensesFollow
    <2>4. CASE c # d
        BY <1>1, <1>3, <2>3, <2>4
    <2>5. CASE c = d
        <3>1. Said(m, "Device", f) = {} \/ \E x : Said(m, "Device", f) = {x}
            BY DEF Said
        <3>2. CASE Said(m, "Device", f) = {}
            BY <1>1, <1>3, <1>6, <2>3, <2>5, <3>2, EndsTail
        <3>3. ASSUME NEW x, Said(m, "Device", f) = {x}
              PROVE  Ends(inbox'[d], "Device", f, object'[d][f], actual'[d][f])
            <4>1. Ends(Tail(s), "Device", f, x, actual[d][f])
                BY <1>1, <1>6, <2>3, <2>5, <3>3, EndsTail
            <4>2. object'[d][f] = x
                BY <1>3, <2>5, <3>3
            <4>3. QED
                BY <1>1, <2>5, <4>1, <4>2
        <3>4. QED
            BY <3>1, <3>2, <3>3
    <2>6. QED
        BY <2>4, <2>5
<1>15. CoolingFollows(d)'
    <2> SUFFICES ASSUME d = "Fridge", NoInfo(outbox'[d]), NoInfo(inbox'[d]), Over(object'[d]) # 0,
                        NEW f \in {"FRIDGE_COOLER_ON", "FRIDGE_FAN_ON"}, f \notin lost'[d]
                 PROVE  Ends(outbox'[d], "Device", f, actual'[d][f], Over(object'[d]) >= 1)
        BY DEF CoolingFollows
    <2>1. f \in Commanded(d)
        BY CoolingCommands
    <2>2. Connected(d) /\ outbox'[d] = q \o new
        BY <1>1, <2>1
    <2>3. CASE Cooled(t)
        <3>1. /\ object'[d][f] = (Over(object'[d]) >= 1)
              /\ \E i \in 1..Len(new) : new[i].command = f
            BY <1>1, <1>7, <2>3 DEF Cooled
        <3>2. Believed(object', d, f) = object'[d][f]
            BY DEF Believed
        <3>3. \E i \in 1..Len(new) : Said(new[i], "Device", f) # {}
            BY <1>11, <2>1, <3>1 DEF Commands
        <3>4. Ends(new, "Device", f, Heard(c, m, d, f), Believed(object', d, f))
            BY <1>2, <2>1
        <3>5. Ends(q \o new, "Device", f, actual[d][f], Believed(object', d, f))
            BY <1>1, <3>3, <3>4, EndsConcat
        <3>6. QED
            BY <1>1, <2>2, <3>1, <3>2, <3>5
    <2>4. CASE ~Cooled(t)
        <3>1. Over(object'[d]) = Over(object[d]) /\ new = <<>>
            BY <1>1, <1>4, <1>7, <2>4 DEF Cooling
        <3>2. NoInfo(s)
            BY <1>1, <1>4, <1>6, <1>9, <2>4
        <3>3. NoInfo(q) /\ q \o new = q /\ lost'[d] = lost[d]
            BY <1>9, <1>10, <2>2, <3>1
        <3>4. Ends(q, "Device", f, actual[d][f], Over(object[d]) >= 1)
            BY <1>8, <3>1, <3>2, <3>3 DEF Following, CoolingFollows
        <3>5. QED
            BY <1>1, <2>2, <3>1, <3>3, <3>4
    <2>5. QED
        BY <2>3, <2>4
<1>16. Doubted(d)'
    <2>1. connection[d] = "broken" => ~Connected(d)
        BY DEF Connected
    <2>2. QED
        BY <1>1, <2>1 DEF Doubted
<1>17. QED
    BY <1>13, <1>14, <1>15, <1>16 DEF Following

LEMMA HandleFollows ==
    ASSUME IInv, NEW d \in Home, Following(d), NEW c \in Client, Handle(c)
    PROVE  Following(d)'
<1>1. d \in Client /\ d # "Website" /\ Announced(d) /\ Sequence(outbox[d])
    BY DEF IInv, Shape, Traffic, OutboxOK, Client, Device
<1>2. CASE c \in DOMAIN object /\ d \in DOMAIN object
    BY <1>2, TurnFollows
<1>3. CASE d \notin DOMAIN object /\ c = d
    BY <1>3, RegisterFollows
<1>4. CASE c # d /\ (c \notin DOMAIN object \/ d \notin DOMAIN object)
    <2> DEFINE new == SentTo(d, After(c).sent)
    <2>1. new = <<>>
        <3>1. CASE c \notin DOMAIN object
            BY <1>4, <3>1, HandleRegisters
        <3>2. CASE d \notin DOMAIN object
            BY <1>1, <1>4, <3>2, HandleSends
        <3>3. QED
            BY <1>4, <3>1, <3>2
    <2>2. outbox'[d] = IF Connected(d) THEN outbox[d] \o new ELSE outbox[d]
        BY <1>1, HandleFrame
    <2>3. lost'[d] = IF Connected(d) THEN lost[d] \ Commands(new) ELSE lost[d]
        BY <1>1, HandleFrame
    <2> HIDE DEF new
    <2>4. outbox'[d] = outbox[d]
        <3>1. outbox[d] \o <<>> = outbox[d]
            BY <1>1 DEF Sequence
        <3>2. QED
            BY <2>1, <2>2, <3>1
    <2>5. lost'[d] = lost[d]
        <3>1. Len(<<>>) = 0 /\ 1..0 = {}
            OBVIOUS
        <3>2. Commands(<<>>) = {}
            BY <3>1 DEF Commands
        <3>3. QED
            BY <2>1, <2>3, <3>2
    <2>6. inbox'[d] = inbox[d] /\ actual' = actual /\ connection' = connection
        BY <1>1, <1>4, HandleFrame
    <2>7. d \in crossed => d \in crossed'
        BY HandleFrame
    <2>8. DOMAIN object' = DOMAIN object \cup {c}
        BY HandleSends
    <2>9. d \in DOMAIN object => object'[d] = object[d]
        <3>1. object' = After(c).object
            BY HandleFrame
        <3>2. c \notin DOMAIN object => \A e \in DOMAIN object : After(c).object[e] = object[e]
            BY HandleRegisters
        <3>3. QED
            BY <1>4, <3>1, <3>2
    <2>10. QED
        BY <1>4, <2>4, <2>5, <2>6, <2>7, <2>8, <2>9, FollowingKept
<1>5. QED
    BY <1>2, <1>3, <1>4

LEMMA InitFollows ==
    ASSUME Init, NEW d \in Home
    PROVE  Following(d)
<1>1. object = << >>
    BY DEF Init
<1>2. d \notin DOMAIN object
    BY <1>1
<1>3. inbox[d] = <<>> /\ connection[d] = "none"
    BY DEF Init, Home
<1>4. NoInfo(inbox[d])
    <2>1. Len(<<>>) = 0
        OBVIOUS
    <2>2. QED
        BY <1>3, <2>1 DEF NoInfo
<1>5. QED
    BY <1>2, <1>3, <1>4 DEF Following, CommandsFollow, SensesFollow, CoolingFollows, Doubted

AllFollow == \A d \in Home : Following(d)

LEMMA HomeKept ==
    ASSUME IInv, Next
    PROVE  Home' = Home
<1>1. ASSUME NEW d \in Home, Sense(d) \/ Obey(d) PROVE Home' = Home
    <2>1. CASE Sense(d)
        <3>1. PICK f : \E v : actual' = IF f \in DOMAIN actual[d]
                                        THEN [actual EXCEPT ![d][f] = v] ELSE actual
            BY <2>1 DEF Sense
        <3>2. QED
            BY <3>1 DEF Home
    <2>2. CASE Obey(d)
        BY <2>2 DEF Obey, Home
    <2>3. QED
        BY <1>1, <2>1, <2>2
<1>2. ASSUME NEW c \in Client, Break(c) PROVE Home' = Home
    BY <1>2 DEF Break, Home
<1>3. ASSUME NEW c \in Client, Connect(c) \/ Handle(c) PROVE Home' = Home
    BY <1>3 DEF Connect, Handle, Home
<1>4. ASSUME NEW d \in Home, Report(d) \/ Move(d) PROVE Home' = Home
    BY <1>4 DEF Report, Move, Home
<1>5. Show => Home' = Home
    BY DEF Show, Home
<1>6. QED
    BY <1>1, <1>2, <1>3, <1>4, <1>5 DEF Next

LEMMA NextFollows == IInv /\ AllFollow /\ [Next]_vars => AllFollow'
<1>1. ASSUME IInv, AllFollow, UNCHANGED vars PROVE AllFollow'
    <2>1. /\ Home' = Home
          /\ \A d \in Home : Following(d)
          /\ actual' = actual /\ inbox' = inbox /\ outbox' = outbox /\ lost' = lost
          /\ object' = object /\ crossed' = crossed /\ connection' = connection
        BY <1>1 DEF vars, Home, AllFollow
    <2>2. \A d \in Home : Following(d)'
        BY <2>1, FollowingKept
    <2>3. QED
        BY <2>1, <2>2 DEF AllFollow
<1>2. ASSUME IInv, AllFollow, Next PROVE AllFollow'
    <2>1. Home' = Home
        BY <1>2, HomeKept
    <2>2. ASSUME NEW d \in Home PROVE Following(d)'
        <3>1. Following(d)
            BY <1>2 DEF AllFollow
        <3>2. ASSUME NEW c \in Client, Connect(c) PROVE Following(d)'
            BY <1>2, <3>1, <3>2, ConnectFollows
        <3>3. ASSUME NEW c \in Client, Break(c) PROVE Following(d)'
            BY <1>2, <3>1, <3>3, BreakFollows
        <3>4. ASSUME NEW c \in Client, Handle(c) PROVE Following(d)'
            BY <1>2, <3>1, <3>4, HandleFollows
        <3>5. ASSUME NEW e \in Home, Sense(e) PROVE Following(d)'
            BY <1>2, <3>1, <3>5, SenseFollows
        <3>6. ASSUME NEW e \in Home, Obey(e) PROVE Following(d)'
            BY <1>2, <3>1, <3>6, ObeyFollows
        <3>7. ASSUME NEW e \in Home, Report(e) PROVE Following(d)'
            BY <1>2, <3>1, <3>7, ReportFollows
        <3>8. ASSUME NEW e \in Home, Move(e) PROVE Following(d)'
            BY <1>2, <3>1, <3>8, MoveFollows
        <3>9. CASE Show
            BY <1>2, <3>1, <3>9, ShowFollows
        <3>10. QED
            BY <1>2, <3>2, <3>3, <3>4, <3>5, <3>6, <3>7, <3>8, <3>9 DEF Next
    <2>3. QED
        BY <2>1, <2>2 DEF AllFollow
<1>3. QED
    BY <1>1, <1>2

(* What is under way between a device and its object makes up for what     *)
(* they differ in, at every moment and whatever happens.                   *)
THEOREM Follows == Spec => []AllFollow
<1>1. Init => AllFollow
    BY InitFollows DEF AllFollow
<1>2. QED
    BY <1>1, NextFollows, Invariance, PTL DEF Spec

(* Every device, and every field it shares with its object: once nothing   *)
(* is under way between them they agree, unless a command crossed the      *)
(* device's answer or a broken connection has put the field in doubt.      *)
(* Device::handleMessage's callbacks and the answers that overwrite what   *)
(* they do agree with what has been sent in whatever order they come.      *)
THEOREM DevicesFollowed == Spec => []ObjectsFollowDevices
<1>1. AllFollow => ObjectsFollowDevices
    <2> SUFFICES ASSUME AllFollow, NEW d \in Home, Quiet(d), d \notin crossed,
                        NEW f \in Sensed(d) \cup Commanded(d), f \notin lost[d]
                 PROVE  Believed(object, d, f) = actual[d][f]
        BY DEF ObjectsFollowDevices
    <2>1. d \in DOMAIN object /\ inbox[d] = <<>> /\ outbox[d] = <<>> /\ Following(d)
        BY DEF Quiet, AllFollow
    <2>2. Len(<<>>) = 0 /\ NoInfo(<<>>)
        BY SequenceSmall DEF NoInfo
    <2>3. ~Questioned(d) /\ ~Answering(d)
        <3>1. \A i \in 1..Len(<<>>) : FALSE
            BY <2>2
        <3>2. QED
            BY <2>1, <2>2, <3>1 DEF Questioned, Answering
    <2>4. CASE f \in Commanded(d)
        <3>1. Ends(<<>>, "Device", f, actual[d][f], Believed(object, d, f))
            BY <2>1, <2>3, <2>4 DEF Following, CommandsFollow, Agreed
        <3>2. QED
            BY <3>1, EndsNone
    <2>5. CASE f \in Sensed(d)
        <3>1. Ends(<<>>, "Device", f, object[d][f], actual[d][f])
            BY <2>1, <2>2, <2>5 DEF Following, SensesFollow
        <3>2. Believed(object, d, f) = object[d][f]
            BY <2>5 DEF Believed, Sensed
        <3>3. QED
            BY <3>1, <3>2, EndsNone
    <2>6. QED
        BY <2>4, <2>5
<1>2. QED
    BY <1>1, Follows, PTL

(* Fridge::updateCoolingState: once nothing is under way, the fridge cools *)
(* when it is a degree too warm and does not when it is a degree too cold, *)
(* crossed or not; a fridge that was away does so from its first command.  *)
THEOREM FridgeCools == Spec => []CoolsWhenTooWarm
<1>1. IInv /\ AllFollow => CoolsWhenTooWarm
    <2> DEFINE over == object["Fridge"].FRIDGE_TEMPERATURE_INSIDE_VALUE
                        - object["Fridge"].FRIDGE_REQUESTED_FRIDGE_TEMPERATURE
    <2> SUFFICES ASSUME IInv, AllFollow, "Fridge" \in Home, Quiet("Fridge"),
                        lost["Fridge"] \cap {"FRIDGE_COOLER_ON", "FRIDGE_FAN_ON"} = {}
                 PROVE  /\ over >= 1 => actual["Fridge"].FRIDGE_COOLER_ON
                                        /\ actual["Fridge"].FRIDGE_FAN_ON
                        /\ over <= -1 => ~actual["Fridge"].FRIDGE_COOLER_ON
                                         /\ ~actual["Fridge"].FRIDGE_FAN_ON
        BY DEF CoolsWhenTooWarm
    <2>1. /\ "Fridge" \in DOMAIN object /\ inbox["Fridge"] = <<>> /\ outbox["Fridge"] = <<>>
          /\ Following("Fridge")
        BY DEF Quiet, AllFollow
    <2>2. NoInfo(<<>>)
        BY SequenceSmall DEF NoInfo
    <2>3. over = Over(object["Fridge"])
        BY DEF Over
    <2>4. over \in Int
        <3>1. {"FRIDGE_TEMPERATURE_INSIDE_VALUE", "FRIDGE_REQUESTED_FRIDGE_TEMPERATURE"}
                    \subseteq DOMAIN NewObject["Fridge"]
            BY DEF NewObject, NewFridge
        <3>2. QED
            BY <2>1, <3>1 DEF IInv, ObjectsOK, FieldOK
    <2> HIDE DEF over
    <2>5. ASSUME over # 0, NEW f \in {"FRIDGE_COOLER_ON", "FRIDGE_FAN_ON"}
          PROVE  actual["Fridge"][f] = (over >= 1)
        <3>1. Ends(<<>>, "Device", f, actual["Fridge"][f], over >= 1)
            BY <2>1, <2>2, <2>3, <2>5 DEF Following, CoolingFollows
        <3>2. QED
            BY <3>1, EndsNone
    <2>6. CASE over >= 1
        <3>1. over # 0 /\ ~(over <= -1) /\ (over >= 1) = TRUE
            BY <2>4, <2>6
        <3>2. actual["Fridge"].FRIDGE_COOLER_ON = TRUE /\ actual["Fridge"].FRIDGE_FAN_ON = TRUE
            BY <2>5, <3>1
        <3>3. QED
            BY <3>1, <3>2
    <2>7. CASE over <= -1
        <3>1. over # 0 /\ ~(over >= 1) /\ (over >= 1) = FALSE
            BY <2>4, <2>7
        <3>2. actual["Fridge"].FRIDGE_COOLER_ON = FALSE /\ actual["Fridge"].FRIDGE_FAN_ON = FALSE
            BY <2>5, <3>1
        <3>3. QED
            BY <3>1, <3>2
    <2>8. QED
        BY <2>6, <2>7
<1>2. QED
    BY <1>1, Invariance, Follows, PTL

-----------------------------------------------------------------------------
(* The page follows the objects.                                           *)

(* A value of the page that has yet to reach its object.                   *)
Pending(d, f) ==
    \E i \in 1..Len(inbox["Website"]) :
        /\ inbox["Website"][i].command = "WEBSITE_FORWARD"
        /\ inbox["Website"][i].value.type = d
        /\ inbox["Website"][i].value.command = f

(* Once the page has got what is under way to it, it takes the device for  *)
(* disconnected,                                                           *)
Unshown(d) ==
    Ends(outbox["Website"], d, "Status", page[d].Status, "DISCONNECTED")

(* or shows the object's values where the user has not just set another.   *)
ShownToo(d) ==
    /\ d \in DOMAIN object
    /\ \A f \in Pushed(d) :
        \/ Pending(d, f)
        \/ Ends(outbox["Website"], d, f, page[d][f], object[d][f])

PageFollows(d) == Unshown(d) \/ ShownToo(d)

AllShown == \A d \in Device : PageFollows(d)

(* Where something is said, it does not matter what was before.            *)
LEMMA EndsAnew ==
    ASSUME NEW s, NEW place, NEW f, NEW x, NEW v, Ends(s, place, f, x, v),
           \E i \in 1..Len(s) : Said(s[i], place, f) # {}
    PROVE  \A y : Ends(s, place, f, y, v)
BY DEF Ends

(* An update is the only message with a status, and has all values.        *)
LEMMA StatusSaid ==
    ASSUME NEW d \in Device, NEW m, m.command # "Status", Said(m, d, "Status") # {}
    PROVE  /\ m.command = "WEBSITE_UPDATE" /\ d \in DOMAIN m.value
           /\ \A f : Said(m, d, f) = {m.value[d][f]}
<1>1. m.command = "WEBSITE_UPDATE"
    BY SaidToPage
<1>2. d # "Device"
    BY DEF Device
<1>3. d \in DOMAIN m.value
    BY <1>1, <1>2 DEF Said
<1>4. QED
    BY <1>1, <1>3, SaidToPage

LEMMA PendingKept ==
    ASSUME NEW d, NEW f, Pending(d, f),
           \/ inbox'["Website"] = inbox["Website"]
           \/ \E b : /\ inbox'["Website"] = inbox["Website"] \o b
                     /\ Sequence(inbox["Website"]) /\ Sequence(b)
    PROVE  Pending(d, f)'
<1>1. CASE inbox'["Website"] = inbox["Website"]
    BY <1>1 DEF Pending
<1>2. ASSUME NEW b, inbox'["Website"] = inbox["Website"] \o b,
             Sequence(inbox["Website"]), Sequence(b)
      PROVE  Pending(d, f)'
    <2> DEFINE s == inbox["Website"]
               u == s \o b
    <2>1. /\ Len(s) \in Nat /\ Len(b) \in Nat /\ Len(u) = Len(s) + Len(b)
          /\ \A i \in 1..Len(s) : u[i] = s[i]
        BY <1>2, SequenceConcat
    <2>2. inbox'["Website"] = u
        BY <1>2
    <2>3. PICK i \in 1..Len(s) : /\ s[i].command = "WEBSITE_FORWARD"
                                 /\ s[i].value.type = d /\ s[i].value.command = f
        BY DEF Pending
    <2> HIDE DEF s, u
    <2>4. i \in 1..Len(u) /\ u[i] = s[i]
        BY <2>1
    <2>5. QED
        BY <2>2, <2>3, <2>4 DEF Pending
<1>3. QED
    BY <1>1, <1>2

(* What does not concern the page.                                         *)
LEMMA PageFollowsKept ==
    ASSUME NEW d \in Device, PageFollows(d), page'[d] = page[d],
           outbox'["Website"] = outbox["Website"],
           d \in DOMAIN object => d \in DOMAIN object' /\ object'[d] = object[d],
           \/ inbox'["Website"] = inbox["Website"]
           \/ \E b : /\ inbox'["Website"] = inbox["Website"] \o b
                     /\ Sequence(inbox["Website"]) /\ Sequence(b)
    PROVE  PageFollows(d)'
<1>1. \A f : Pending(d, f) => Pending(d, f)'
    BY PendingKept
<1>2. Unshown(d) => Unshown(d)'
    BY DEF Unshown
<1>3. ShownToo(d) => ShownToo(d)'
    BY <1>1 DEF ShownToo
<1>4. QED
    BY <1>2, <1>3 DEF PageFollows

(* A user moves a control, and main will get the value, or the device was  *)
(* taken for disconnected.                                                 *)
LEMMA MoveShown ==
    ASSUME IInv, NEW d \in Device, PageFollows(d), NEW e \in Home, Move(e)
    PROVE  PageFollows(d)'
<1> DEFINE s == inbox["Website"]
           q == outbox["Website"]
<1>1. UNCHANGED <<actual, object, outbox, connection, crossed, lost>>
    BY DEF Move
<1>2. /\ "Website" \in Client /\ inbox = [c \in Client |-> inbox[c]]
      /\ InboxOK("Website", s) /\ OutboxOK("Website", q)
    BY DEF IInv, Shape, Traffic, Client
<1>3. Sequence(s) /\ Sequence(q)
    BY <1>2 DEF InboxOK, OutboxOK
<1>4. Pushed(d) \cup {"Status"} \subseteq DOMAIN page[d]
    BY BlankFields DEF IInv, Shape
<1>5. PICK f \in DOMAIN Setting[e] :
        /\ f # "Status"
        /\ \A c \in Device : \A g \in DOMAIN page[c] :
            c # e \/ g # f => page'[c][g] = page[c][g]
        /\ ~IsConnected(page, e) => inbox' = inbox
        /\ IsConnected(page, e) =>
            \E b : /\ inbox' = [inbox EXCEPT !["Website"] = @ \o b]
                   /\ Sequence(b)
                   /\ \A i \in 1..Len(b) :
                        InOK("Website", b[i]) /\ b[i].command = "WEBSITE_FORWARD"
                   /\ 1 \in 1..Len(b) /\ b[1].value.type = e /\ b[1].value.command = f
    BY Moved
<1>6. /\ page'[d].Status = page[d].Status
      /\ \A g \in Pushed(d) : d # e \/ g # f => page'[d][g] = page[d][g]
    BY <1>4, <1>5
<1>7. CASE ~IsConnected(page, e)
    <2>1. inbox' = inbox
        BY <1>5, <1>7
    <2>2. CASE Unshown(d)
        BY <1>1, <1>6, <2>2 DEF Unshown, PageFollows
    <2>3. CASE d # e /\ ShownToo(d)
        BY <1>1, <1>6, <2>1, <2>3 DEF ShownToo, Pending, PageFollows
    <2>4. CASE d = e /\ ShownToo(d) /\ ~Unshown(d)
        <3>1. page[d].Status = "DISCONNECTED"
            BY <1>7, <2>4 DEF IsConnected
        <3>2. PICK i \in 1..Len(q) : Said(q[i], d, "Status") # {}
            BY <2>4, <3>1 DEF Unshown, Ends
        <3>3. q[i].command # "Status"
            BY <1>2 DEF OutboxOK, OutOK
        <3>4. \A g : Said(q[i], d, g) # {}
            <4> DEFINE m == q[i]
            <4>1. m.command # "Status" /\ Said(m, d, "Status") # {}
                BY <3>2, <3>3
            <4> HIDE DEF m
            <4>2. \A g : Said(m, d, g) = {m.value[d][g]}
                BY <4>1, StatusSaid
            <4>3. QED
                BY <4>2 DEF m
        <3>5. \A g \in Pushed(d) :
                Ends(q, d, g, page[d][g], object[d][g]) => Ends(q, d, g, page'[d][g], object[d][g])
            BY <3>4, EndsAnew
        <3>6. QED
            BY <1>1, <2>1, <2>4, <3>5 DEF ShownToo, Pending, PageFollows
    <2>5. QED
        BY <2>2, <2>3, <2>4 DEF PageFollows
<1>8. CASE IsConnected(page, e)
    <2>1. PICK b : /\ inbox' = [inbox EXCEPT !["Website"] = @ \o b]
                   /\ Sequence(b)
                   /\ \A i \in 1..Len(b) : b[i].command = "WEBSITE_FORWARD"
                   /\ 1 \in 1..Len(b) /\ b[1].value.type = e /\ b[1].value.command = f
        BY <1>5, <1>8
    <2> DEFINE u == s \o b
    <2>2. inbox'["Website"] = u
        BY <1>2, <2>1
    <2>3. \A g : Pending(d, g) => Pending(d, g)'
        BY <1>3, <2>1, <2>2, PendingKept
    <2>4. Pending(e, f)'
        <3>1. /\ Len(s) \in Nat /\ Len(b) \in Nat /\ Len(u) = Len(s) + Len(b)
              /\ \A i \in Len(s)+1..Len(u) : i - Len(s) \in 1..Len(b) /\ u[i] = b[i - Len(s)]
            BY <1>3, <2>1, SequenceConcat
        <3> HIDE DEF u, s
        <3>2. Len(s) + 1 \in 1..Len(u) /\ u[Len(s)+1] = b[1]
            BY <2>1, <3>1
        <3>3. QED
            BY <2>1, <2>2, <3>2 DEF Pending
    <2> HIDE DEF u
    <2>5. CASE Unshown(d)
        BY <1>1, <1>6, <2>5 DEF Unshown, PageFollows
    <2>6. CASE ShownToo(d)
        <3>1. ASSUME NEW g \in Pushed(d)
              PROVE  Pending(d, g)' \/ Ends(q, d, g, page'[d][g], object[d][g])
            BY <1>6, <2>3, <2>4, <2>6 DEF ShownToo
        <3>2. QED
            BY <1>1, <2>6, <3>1 DEF ShownToo, PageFollows
    <2>7. QED
        BY <2>5, <2>6 DEF PageFollows
<1>9. QED
    BY <1>7, <1>8

LEMMA ShowShown ==
    ASSUME IInv, NEW d \in Device, PageFollows(d), Show
    PROVE  PageFollows(d)'
<1> DEFINE q == outbox["Website"]
           h == Head(q)
           r == Tail(q)
<1>1. q # <<>> /\ UNCHANGED <<object, inbox>> /\ outbox' = [outbox EXCEPT !["Website"] = r]
    BY DEF Show
<1>2. outbox'["Website"] = r /\ Sequence(q)
    BY <1>1 DEF IInv, Shape, Traffic, OutboxOK, Client
<1>3. \A f \in Pushed(d) \cup {"Status"} :
        /\ Said(h, d, f) = {} => page'[d][f] = page[d][f]
        /\ Said(h, d, f) # {} => Said(h, d, f) = {page'[d][f]}
    BY Shown
<1>4. \A f \in Pushed(d) \cup {"Status"} : \A v :
        Ends(q, d, f, page[d][f], v) => Ends(r, d, f, page'[d][f], v)
    <2> SUFFICES ASSUME NEW f \in Pushed(d) \cup {"Status"}, NEW v,
                        Ends(q, d, f, page[d][f], v)
                 PROVE  Ends(r, d, f, page'[d][f], v)
        OBVIOUS
    <2>1. CASE Said(h, d, f) = {}
        BY <1>1, <1>2, <1>3, <2>1, EndsTail
    <2>2. CASE Said(h, d, f) # {}
        BY <1>1, <1>2, <1>3, <2>2, EndsTail
    <2>3. QED
        BY <2>1, <2>2
<1> HIDE DEF r, h
<1>5. Unshown(d) => Unshown(d)'
    BY <1>2, <1>4 DEF Unshown
<1>6. ShownToo(d) => ShownToo(d)'
    BY <1>1, <1>2, <1>4 DEF ShownToo, Pending
<1>7. QED
    BY <1>5, <1>6 DEF PageFollows

(* Main's turns: it tells the page, or the page has nothing of the device. *)
LEMMA HandleShown ==
    ASSUME IInv, NEW d \in Device, PageFollows(d), NEW c \in Client, Handle(c)
    PROVE  PageFollows(d)'
<1> DEFINE t == After(c)
           m == Head(inbox[c])
           new == SentTo("Website", t.sent)
           q == outbox["Website"]
           s == inbox["Website"]
<1>1. /\ "Website" \in Client /\ d # "Website" /\ Announced("Website")
      /\ Sequence(s) /\ Sequence(q) /\ OutboxOK("Website", q)
      /\ ~Connected("Website") => q = <<>>
    BY DEF IInv, TypeOK, Traffic, InboxOK, OutboxOK, Client, Device
<1>2. /\ object' = t.object /\ page' = page /\ inbox[c] # <<>>
      /\ outbox'["Website"] = IF Connected("Website") THEN q \o new ELSE q
      /\ inbox'["Website"] = IF c = "Website" THEN Tail(s) ELSE s
    BY <1>1, HandleFrame
<1>3. /\ DOMAIN object' = DOMAIN object \cup {c}
      /\ Sequence(new)
      /\ \A i \in 1..Len(new) : new[i].to = "Website" /\ SentOK(new[i], object)
      /\ "Website" \notin DOMAIN object /\ c # "Website" => new = <<>>
    BY <1>1, HandleSends
<1>4. \A i \in 1..Len(new) :
        /\ new[i].command # "Status"
        /\ new[i].command = "WEBSITE_UPDATE" => DOMAIN new[i].value \subseteq DOMAIN object
    BY <1>3 DEF SentOK
<1>5. c \notin DOMAIN object =>
        /\ \A e \in DOMAIN object : object'[e] = object[e]
        /\ c # "Website" => new = <<>>
        /\ c = "Website" => /\ Len(new) = 1 /\ new[1].command = "WEBSITE_UPDATE"
                            /\ new[1].value = object
    BY <1>2, HandleRegisters
<1>6. c \in DOMAIN object => Turned(t, c, m)
    BY HandleTurns
<1>7. c = "Website" => inbox[c] = s /\ m = Head(s)
    OBVIOUS
<1> HIDE DEF new, t, m, q, s
<1>8. \A a : Sequence(a) => a \o <<>> = a /\ <<>> \o a = a
    BY DEF Sequence
<1>9. CASE "Website" \notin DOMAIN object' \/ ~Connected("Website")
    <2>1. outbox'["Website"] = q /\ q = <<>>
        BY <1>1, <1>2, <1>3, <1>8, <1>9 DEF Announced, q
    <2>2. page[d].Status = "DISCONNECTED"
        BY <1>3, <1>9 DEF IInv, PageOK, IsConnected
    <2>3. QED
        BY <1>2, <2>1, <2>2, EndsNone DEF PageFollows, Unshown
<1>10. CASE c \notin DOMAIN object /\ c # "Website" /\ Connected("Website")
    <2>1. outbox'["Website"] = q /\ inbox'["Website"] = s
        BY <1>1, <1>2, <1>5, <1>8, <1>10
    <2>2. QED
        BY <1>2, <1>3, <1>5, <1>10, <2>1, PageFollowsKept DEF q, s
<1>11. CASE c \notin DOMAIN object /\ c = "Website" /\ Connected("Website")
    <2>1. outbox'["Website"] = new
        BY <1>1, <1>2, <1>3, <1>8, <1>11 DEF Announced, q
    <2>2. page[d].Status = "DISCONNECTED"
        BY <1>11 DEF IInv, PageOK, IsConnected
    <2>3. Len(new) = 1 /\ \A i \in 1..Len(new) : i = 1
        <3>1. Len(new) = 1
            BY <1>5, <1>11
        <3>2. QED
            BY <3>1
    <2>4. CASE d \notin DOMAIN object
        <3>1. \A i \in 1..Len(new) : Said(new[i], d, "Status") = {}
            BY <1>5, <1>11, <2>3, <2>4 DEF Said, Device
        <3>2. Unshown(d)'
            BY <1>2, <2>1, <2>2, <3>1 DEF Unshown, Ends
        <3>3. QED
            BY <3>2 DEF PageFollows
    <2>5. CASE d \in DOMAIN object
        <3> DEFINE u == new[1]
        <3>1. u.command = "WEBSITE_UPDATE" /\ d \in DOMAIN u.value /\ u.value[d] = object'[d]
            BY <1>5, <1>11, <2>5
        <3> HIDE DEF u
        <3>2. \A f : Said(u, d, f) = {object'[d][f]}
            BY <3>1, SaidToPage
        <3>3. /\ 1 \in 1..Len(new)
              /\ \A j \in 1+1..Len(new) : FALSE
            BY <2>3
        <3>4. \A f, x : Ends(new, d, f, x, object'[d][f])
            BY <3>2, <3>3 DEF Ends, u
        <3>5. ShownToo(d)'
            BY <1>3, <2>1, <2>5, <3>4 DEF ShownToo
        <3>6. QED
            BY <3>5 DEF PageFollows
    <2>6. QED
        BY <2>4, <2>5
<1>12. CASE c \in DOMAIN object /\ "Website" \in DOMAIN object /\ Connected("Website")
    <2>1. outbox'["Website"] = q \o new
        BY <1>2, <1>12
    <2>2. d \in DOMAIN object => \A f \in Pushed(d) :
            /\ Ends(new, d, f, object[d][f], object'[d][f])
            /\ c = "Website" /\ m.command = "WEBSITE_FORWARD"
                    /\ m.value.type = d /\ m.value.command = f =>
                \E i \in 1..Len(new) : Said(new[i], d, f) # {}
        BY <1>2, <1>6, <1>12 DEF Turned, new
    <2>3. CASE d \in DOMAIN object /\ \E i \in 1..Len(new) : Said(new[i], d, "Status") # {}
        <3>1. PICK i \in 1..Len(new) : Said(new[i], d, "Status") # {}
            BY <2>3
        <3> DEFINE u == new[i]
        <3>2. u.command # "Status" /\ Said(u, d, "Status") # {}
            BY <1>4, <3>1
        <3> HIDE DEF u
        <3>3. \A f : Said(u, d, f) = {u.value[d][f]}
            BY <3>2, StatusSaid
        <3>4. \A f : \E j \in 1..Len(new) : Said(new[j], d, f) # {}
            BY <3>3 DEF u
        <3>5. \A f \in Pushed(d) : \A x : Ends(q \o new, d, f, x, object'[d][f])
            BY <1>1, <1>3, <2>2, <2>3, <3>4, EndsConcat
        <3>6. ShownToo(d)'
            BY <1>3, <2>1, <2>3, <3>5 DEF ShownToo
        <3>7. QED
            BY <3>6 DEF PageFollows
    <2>4. CASE \A i \in 1..Len(new) : Said(new[i], d, "Status") = {}
        <3>1. CASE Unshown(d)
            <4>1. Ends(q, d, "Status", page[d].Status, "DISCONNECTED")
                BY <3>1 DEF Unshown, q
            <4>2. Ends(new, d, "Status", "DISCONNECTED", "DISCONNECTED")
                BY <2>4 DEF Ends
            <4>3. Ends(q \o new, d, "Status", page[d].Status, "DISCONNECTED")
                BY <1>1, <1>3, <4>1, <4>2, EndsConcat
            <4>4. QED
                BY <1>2, <2>1, <4>3 DEF PageFollows, Unshown
        <3>2. CASE ShownToo(d)
            <4>1. d \in DOMAIN object /\ d \in DOMAIN object'
                BY <1>3, <3>2 DEF ShownToo
            <4>2. ASSUME NEW f \in Pushed(d)
                  PROVE  Pending(d, f)' \/ Ends(q \o new, d, f, page[d][f], object'[d][f])
                <5>1. Ends(new, d, f, object[d][f], object'[d][f])
                    BY <2>2, <4>1
                <5>2. CASE Ends(q, d, f, page[d][f], object[d][f])
                    BY <1>1, <1>3, <5>1, <5>2, EndsConcat
                <5>3. CASE \E i \in 1..Len(new) : Said(new[i], d, f) # {}
                    BY <1>1, <1>3, <5>1, <5>3, EndsConcat
                <5>4. CASE Pending(d, f) /\ ~\E i \in 1..Len(new) : Said(new[i], d, f) # {}
                    <6>1. PICK i \in 1..Len(s) :
                            /\ s[i].command = "WEBSITE_FORWARD"
                            /\ s[i].value.type = d /\ s[i].value.command = f
                        BY <5>4 DEF Pending, s
                    <6>2. CASE c # "Website"
                        BY <1>2, <6>1, <6>2 DEF Pending
                    <6>3. CASE c = "Website"
                        <7> DEFINE r == Tail(s)
                        <7>1. /\ Len(s) \in Nat /\ Len(r) = Len(s) - 1 /\ m = s[1]
                              /\ \A j \in 1..Len(r) : r[j] = s[j+1]
                            BY <1>1, <1>2, <1>7, <6>3, SequenceHead
                        <7>2. i # 1
                            BY <2>2, <4>1, <5>4, <6>1, <6>3, <7>1
                        <7>3. inbox'["Website"] = r
                            BY <1>2, <6>3
                        <7> HIDE DEF r
                        <7>4. i - 1 \in 1..Len(r) /\ (i - 1) + 1 = i
                            BY <7>1, <7>2
                        <7>5. r[i-1] = s[i]
                            BY <7>1, <7>4
                        <7>6. Pending(d, f)'
                            BY <6>1, <7>3, <7>4, <7>5 DEF Pending
                        <7>7. QED
                            BY <7>6
                    <6>4. QED
                        BY <6>2, <6>3
                <5>5. QED
                    BY <3>2, <5>2, <5>3, <5>4 DEF ShownToo, q
            <4>3. QED
                BY <1>2, <2>1, <4>1, <4>2 DEF PageFollows, ShownToo
        <3>3. QED
            BY <3>1, <3>2 DEF PageFollows
    <2>5. CASE d \notin DOMAIN object
        <3>1. ASSUME NEW i \in 1..Len(new) PROVE Said(new[i], d, "Status") = {}
            <4> DEFINE u == new[i]
            <4>1. /\ u.command # "Status"
                  /\ u.command = "WEBSITE_UPDATE" => d \notin DOMAIN u.value
                BY <1>4, <2>5
            <4> HIDE DEF u
            <4>2. ~(Said(u, d, "Status") # {})
                BY <4>1, StatusSaid
            <4>3. QED
                BY <4>2 DEF u
        <3>2. QED
            BY <2>4, <3>1
    <2>6. QED
        BY <2>3, <2>4, <2>5
<1>13. QED
    BY <1>3, <1>9, <1>10, <1>11, <1>12

(* A page that is loaded again shows nothing.                              *)
LEMMA BreakShown ==
    ASSUME IInv, NEW d \in Device, PageFollows(d), NEW c \in Client, Break(c)
    PROVE  PageFollows(d)'
<1>1. outbox' = [outbox EXCEPT ![c] = <<>>] /\ UNCHANGED <<object, inbox>>
    BY DEF Break
<1>2. "Website" \in Client /\ outbox = [e \in Client |-> outbox[e]]
    BY DEF IInv, Shape, Client
<1>3. CASE c = "Website"
    <2>1. outbox'["Website"] = <<>> /\ page' = BlankPage
        BY <1>1, <1>2, <1>3 DEF Break
    <2> DEFINE blank == BlankPage
    <2>2. page' = blank /\ blank[d].Status = "DISCONNECTED"
        BY <2>1, BlankFields
    <2> HIDE DEF blank
    <2>3. QED
        BY <2>1, <2>2, EndsNone DEF PageFollows, Unshown
<1>4. CASE c # "Website"
    <2>1. page' = page /\ outbox'["Website"] = outbox["Website"]
        BY <1>1, <1>2, <1>4 DEF Break
    <2>2. QED
        BY <1>1, <2>1, PageFollowsKept
<1>5. QED
    BY <1>3, <1>4

LEMMA ConnectShown ==
    ASSUME IInv, NEW d \in Device, PageFollows(d), NEW c \in Client, Connect(c)
    PROVE  PageFollows(d)'
<1> DEFINE registration == IF connection[c] = "none" THEN <<Message("REGISTRATION", "")>>
                           ELSE <<>>
           question     == IF c = "Website" THEN <<Message("WEBSITE_UPDATE", "")>> ELSE <<>>
<1>1. /\ inbox' = [inbox EXCEPT ![c] = @ \o registration \o question]
      /\ UNCHANGED <<actual, page, object, outbox, crossed, lost, left>>
    BY DEF Connect
<1>2. /\ "Website" \in Client /\ inbox = [e \in Client |-> inbox[e]]
      /\ Sequence(inbox["Website"])
    BY DEF IInv, Shape, Traffic, InboxOK, Client
<1>3. Sequence(registration) /\ Sequence(question)
    BY SequenceSmall
<1> HIDE DEF registration, question
<1>4. CASE c = "Website"
    <2> DEFINE u == inbox["Website"] \o registration
    <2>1. Sequence(u)
        BY <1>2, <1>3, SequenceConcat
    <2>2. inbox'["Website"] = u \o question
        BY <1>1, <1>2, <1>4
    <2>3. \A f : Pending(d, f) => Pending(d, f)'
        <3> SUFFICES ASSUME NEW f, Pending(d, f) PROVE Pending(d, f)'
            OBVIOUS
        <3> DEFINE s == inbox["Website"]
                   v == u \o question
        <3>1. /\ Len(s) \in Nat /\ Len(registration) \in Nat
              /\ Len(u) = Len(s) + Len(registration)
              /\ \A i \in 1..Len(s) : u[i] = s[i]
            BY <1>2, <1>3, SequenceConcat
        <3>2. PICK i \in 1..Len(s) : /\ s[i].command = "WEBSITE_FORWARD"
                                     /\ s[i].value.type = d /\ s[i].value.command = f
            BY DEF Pending
        <3> HIDE DEF s, u
        <3>3. /\ Len(u) \in Nat /\ Len(question) \in Nat /\ Len(v) = Len(u) + Len(question)
              /\ \A j \in 1..Len(u) : v[j] = u[j]
            BY <1>3, <2>1, SequenceConcat
        <3>4. inbox'["Website"] = v
            BY <2>2
        <3> HIDE DEF v
        <3>5. i \in 1..Len(u) /\ i \in 1..Len(v) /\ v[i] = s[i]
            BY <3>1, <3>3
        <3>6. QED
            BY <3>2, <3>4, <3>5 DEF Pending
    <2>4. Unshown(d) => Unshown(d)'
        BY <1>1 DEF Unshown
    <2>5. ShownToo(d) => ShownToo(d)'
        BY <1>1, <2>3 DEF ShownToo
    <2>6. QED
        BY <2>4, <2>5 DEF PageFollows
<1>5. CASE c # "Website"
    <2>1. inbox'["Website"] = inbox["Website"]
        BY <1>1, <1>2, <1>5
    <2>2. QED
        BY <1>1, <2>1, PageFollowsKept
<1>6. QED
    BY <1>4, <1>5

(* A device's own steps are not the page's.                                *)
LEMMA DeviceShown ==
    ASSUME IInv, NEW d \in Device, PageFollows(d), NEW e \in Home,
           Sense(e) \/ Obey(e) \/ Report(e)
    PROVE  PageFollows(d)'
<1>1. /\ e # "Website" /\ "Website" \in Client
      /\ inbox = [c \in Client |-> inbox[c]] /\ outbox = [c \in Client |-> outbox[c]]
    BY DEF IInv, Shape, Client, Device
<1>2. page' = page /\ object' = object
    BY DEF Sense, Obey, Report
<1>3. outbox'["Website"] = outbox["Website"]
    BY <1>1 DEF Sense, Obey, Report
<1>4. inbox'["Website"] = inbox["Website"]
    <2>1. CASE Sense(e)
        <3>1. PICK u : inbox' = [inbox EXCEPT ![e] = u]
            BY <2>1 DEF Sense
        <3>2. QED
            BY <1>1, <3>1
    <2>2. CASE Obey(e)
        BY <1>1, <2>2 DEF Obey
    <2>3. CASE Report(e)
        <3>1. PICK u : inbox' = [inbox EXCEPT ![e] = u]
            BY <2>3 DEF Report
        <3>2. QED
            BY <1>1, <3>1
    <2>4. QED
        BY <2>1, <2>2, <2>3
<1>5. QED
    BY <1>2, <1>3, <1>4, PageFollowsKept

LEMMA InitShown ==
    ASSUME Init, NEW d \in Device
    PROVE  PageFollows(d)
<1>1. outbox["Website"] = <<>>
    BY DEF Init
<1> DEFINE blank == BlankPage
<1>2. page = blank /\ blank[d].Status = "DISCONNECTED"
    BY BlankFields DEF Init
<1> HIDE DEF blank
<1>3. QED
    BY <1>1, <1>2, EndsNone DEF PageFollows, Unshown

LEMMA NextShown == IInv /\ AllShown /\ [Next]_vars => AllShown'
<1> SUFFICES ASSUME IInv, AllShown, [Next]_vars, NEW d \in Device
             PROVE  PageFollows(d)'
    BY DEF AllShown
<1>1. PageFollows(d)
    BY DEF AllShown
<1>2. ASSUME NEW c \in Client, Connect(c) PROVE PageFollows(d)'
    BY <1>1, <1>2, ConnectShown
<1>3. ASSUME NEW c \in Client, Break(c) PROVE PageFollows(d)'
    BY <1>1, <1>3, BreakShown
<1>4. ASSUME NEW c \in Client, Handle(c) PROVE PageFollows(d)'
    BY <1>1, <1>4, HandleShown
<1>5. ASSUME NEW e \in Home, Sense(e) \/ Obey(e) \/ Report(e) PROVE PageFollows(d)'
    BY <1>1, <1>5, DeviceShown
<1>6. ASSUME NEW e \in Home, Move(e) PROVE PageFollows(d)'
    BY <1>1, <1>6, MoveShown
<1>7. CASE Show
    BY <1>1, <1>7, ShowShown
<1>8. CASE UNCHANGED vars
    BY <1>1, <1>8, PageFollowsKept DEF vars
<1>9. QED
    BY <1>2, <1>3, <1>4, <1>5, <1>6, <1>7, <1>8 DEF Next

(* Website::update and the objects' updateWebsite: once nothing is under   *)
(* way to or from the page, a device that it takes for connected has its   *)
(* object's values there, after whatever its user moved, main refused and  *)
(* the devices reported, in any order.                                     *)
THEOREM PageFollowed == Spec => []PageFollowsObjects
<1>1. Init => AllShown
    BY InitShown DEF AllShown
<1>2. IInv /\ AllShown => PageFollowsObjects
    <2> SUFFICES ASSUME IInv, AllShown, Quiet("Website"), NEW d \in Home, IsConnected(page, d)
                 PROVE  /\ d \in DOMAIN object
                        /\ \A f \in Pushed(d) : page[d][f] = object[d][f]
        BY DEF PageFollowsObjects
    <2>1. inbox["Website"] = <<>> /\ outbox["Website"] = <<>> /\ PageFollows(d)
        BY DEF Quiet, AllShown, IInv, Shape
    <2>2. ~Unshown(d)
        BY <2>1, EndsNone DEF Unshown, IsConnected
    <2>3. \A f : ~Pending(d, f)
        <3>1. Len(<<>>) = 0 /\ \A i \in 1..0 : FALSE
            OBVIOUS
        <3>2. QED
            BY <2>1, <3>1 DEF Pending
    <2>4. QED
        BY <2>1, <2>2, <2>3, EndsNone DEF PageFollows, ShownToo
<1>3. QED
    BY <1>1, <1>2, NextShown, Invariance, PTL DEF Spec

=============================================================================
