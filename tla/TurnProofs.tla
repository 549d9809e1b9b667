----------------------------- MODULE TurnProofs -----------------------------
(***************************************************************************)
(* What a turn of main does, for Household's proofs: main takes a message, *)
(* its objects change, and messages are sent.  A turn is a composition of  *)
(* a few operators; what each of them preserves (TurnOK) the handlers of   *)
(* all devices preserve.                                                   *)
(***************************************************************************)
EXTENDS Household, ListLemmas, TLAPS

Sequence(s) == \E S : s \in Seq(S)

LEMMA SequenceAppend ==
    ASSUME NEW s, Sequence(s), NEW e
    PROVE  /\ Sequence(Append(s, e))
           /\ Len(s) \in Nat /\ Len(Append(s, e)) = Len(s) + 1
           /\ \A i \in 1..Len(s) : Append(s, e)[i] = s[i]
           /\ Append(s, e)[Len(s)+1] = e
<1>1. PICK S : s \in Seq(S)
    BY DEF Sequence
<1> DEFINE T == S \cup {e}
<1>2. s \in Seq(T) /\ e \in T
    BY <1>1
<1> HIDE DEF T
<1>3. Append(s, e) \in Seq(T)
    BY <1>2
<1>4. QED
    BY <1>2, <1>3 DEF Sequence

LEMMA SequenceConcat ==
    ASSUME NEW a, Sequence(a), NEW b, Sequence(b)
    PROVE  /\ Sequence(a \o b)
           /\ Len(a) \in Nat /\ Len(b) \in Nat /\ Len(a \o b) = Len(a) + Len(b)
           /\ \A i \in 1..Len(a) : (a \o b)[i] = a[i]
           /\ \A i \in Len(a)+1..Len(a \o b) :
                i - Len(a) \in 1..Len(b) /\ (a \o b)[i] = b[i - Len(a)]
<1>1. PICK S : a \in Seq(S)
    BY DEF Sequence
<1>2. PICK T : b \in Seq(T)
    BY DEF Sequence
<1> DEFINE U == S \cup T
<1>3. a \in Seq(U) /\ b \in Seq(U)
    BY <1>1, <1>2
<1> HIDE DEF U
<1>4. a \o b \in Seq(U)
    BY <1>3
<1>5. QED
    BY <1>3, <1>4 DEF Sequence

LEMMA SequenceHead ==
    ASSUME NEW s, Sequence(s)
    PROVE  /\ Len(s) \in Nat
           /\ s # <<>> <=> Len(s) # 0
           /\ s # <<>> => /\ Head(s) = s[1] /\ 1 \in 1..Len(s)
                          /\ Sequence(Tail(s)) /\ Len(Tail(s)) = Len(s) - 1
                          /\ \A i \in 1..Len(Tail(s)) :
                                i + 1 \in 1..Len(s) /\ Tail(s)[i] = s[i+1]
<1>1. PICK S : s \in Seq(S)
    BY DEF Sequence
<1>2. s # <<>> => Tail(s) \in Seq(S)
    BY <1>1
<1>3. QED
    BY <1>1, <1>2 DEF Sequence

LEMMA SequenceSmall ==
    /\ Sequence(<<>>) /\ Len(<<>>) = 0
    /\ \A m : Sequence(<<m>>) /\ Len(<<m>>) = 1 /\ <<m>>[1] = m
    /\ \A m, n : /\ Sequence(<<m, n>>) /\ Len(<<m, n>>) = 2
                 /\ <<m, n>>[1] = m /\ <<m, n>>[2] = n
<1>1. <<>> \in Seq({})
    OBVIOUS
<1>2. \A m : <<m>> \in Seq({m}) /\ Len(<<m>>) = 1 /\ <<m>>[1] = m
    OBVIOUS
<1>3. \A m, n : <<m, n>> \in Seq({m, n})
    OBVIOUS
<1>4. QED
    BY <1>1, <1>2, <1>3 DEF Sequence

-----------------------------------------------------------------------------
(* What a client is sent of a turn.                                        *)

LEMMA SentToNone == \A c : SentTo(c, <<>>) = <<>>
<1>1. \A I : Select(<<>>, I) = <<>>
    <2>1. Len(<<>>) = 0 /\ 0 \in Nat
        OBVIOUS
    <2>2. QED
        BY <2>1, SelectionsStep DEF Select
<1>2. QED
    BY <1>1 DEF SentTo

LEMMA SentToAppend ==
    ASSUME NEW s, Sequence(s), NEW m, NEW c
    PROVE  SentTo(c, Append(s, m)) =
            IF m.to = c THEN Append(SentTo(c, s), m) ELSE SentTo(c, s)
<1> DEFINE t == Append(s, m)
           I == {i \in 1..Len(s) : s[i].to = c}
           J == {i \in 1..Len(t) : t[i].to = c}
<1>1. PICK S : s \in Seq(S)
    BY DEF Sequence
<1> DEFINE U == S \cup {m}
<1>2. s \in Seq(U) /\ m \in U
    BY <1>1
<1> HIDE DEF U
<1>3. /\ Len(s) \in Nat /\ Len(t) = Len(s) + 1 /\ t[Len(s)+1] = m
      /\ \A i \in 1..Len(s) : t[i] = s[i]
    BY <1>2
<1> HIDE DEF t
<1>4. /\ \A i \in 1..Len(s) : i \in I <=> i \in J
      /\ Len(s) + 1 \in J <=> m.to = c
    BY <1>3
<1> HIDE DEF I, J
<1>5. Select(Append(s, m), J) =
            IF Len(s) + 1 \in J THEN Append(Select(s, I), m) ELSE Select(s, I)
    BY <1>2, <1>4, SelectAppend
<1>6. SentTo(c, s) = Select(s, I) /\ SentTo(c, Append(s, m)) = Select(Append(s, m), J)
    BY DEF SentTo, I, J, t
<1>7. QED
    BY <1>4, <1>5, <1>6

LEMMA SentToOK ==
    ASSUME NEW s, Sequence(s), NEW c
    PROVE  /\ Sequence(SentTo(c, s))
           /\ \A i \in 1..Len(SentTo(c, s)) :
                \E j \in 1..Len(s) : s[j].to = c /\ SentTo(c, s)[i] = s[j]
<1> DEFINE I == {i \in 1..Len(s) : s[i].to = c}
<1>1. PICK S : s \in Seq(S)
    BY DEF Sequence
<1>2. SentTo(c, s) = Select(s, I) /\ \A j \in I : s[j].to = c
    BY DEF SentTo
<1> HIDE DEF I
<1>3. Select(s, I) \in Seq(S)
    BY <1>1, SelectType
<1>4. \A i \in 1..Len(Select(s, I)) : \E j \in 1..Len(s) : j \in I /\ Select(s, I)[i] = s[j]
    BY <1>1, SelectElement
<1>5. QED
    BY <1>2, <1>3, <1>4 DEF Sequence

-----------------------------------------------------------------------------
(* What messages say of a value.  Between main and a device a command or a *)
(* reading is about the field it is named like, an answer about all of the *)
(* device's; to the page, where the device they are about has its place, a *)
(* value is about the field it is named like and an update about all of    *)
(* the devices it has information of.                                      *)
Said(m, place, f) ==
    IF place = "Device"
    THEN CASE m.command = f             -> {m.value}
           [] m.command = "DEVICE_INFO" -> {m.value[f]}
           [] OTHER                     -> {}
    ELSE CASE m.command = "WEBSITE_UPDATE" ->
                    IF place \in DOMAIN m.value THEN {m.value[place][f]} ELSE {}
           [] m.command # "WEBSITE_UPDATE" ->
                    IF m.type = place /\ m.command = f THEN {m.value} ELSE {}

(* Whoever takes the messages of s in their order, and holds base before,  *)
(* holds v after them.                                                     *)
Ends(s, place, f, base, v) ==
    \/ (\A i \in 1..Len(s) : Said(s[i], place, f) = {}) /\ v = base
    \/ \E i \in 1..Len(s) : /\ Said(s[i], place, f) = {v}
                            /\ \A j \in i+1..Len(s) : Said(s[j], place, f) = {}

LEMMA EndsNone == \A place, f, base, v : Ends(<<>>, place, f, base, v) <=> v = base
BY SequenceSmall DEF Ends

LEMMA EndsAppend ==
    ASSUME NEW s, Sequence(s), NEW m, NEW place, NEW f, NEW base
    PROVE  /\ \A v : Said(m, place, f) = {} /\ Ends(s, place, f, base, v)
                        => Ends(Append(s, m), place, f, base, v)
           /\ \A v : Said(m, place, f) = {v} => Ends(Append(s, m), place, f, base, v)
<1> DEFINE t == Append(s, m)
<1>1. /\ Len(s) \in Nat /\ Len(t) = Len(s) + 1 /\ t[Len(s)+1] = m
      /\ \A i \in 1..Len(s) : t[i] = s[i]
    BY SequenceAppend
<1> HIDE DEF t
<1>2. ASSUME NEW v, Said(m, place, f) = {}, Ends(s, place, f, base, v)
      PROVE  Ends(t, place, f, base, v)
    <2>1. CASE (\A i \in 1..Len(s) : Said(s[i], place, f) = {}) /\ v = base
        <3>1. ASSUME NEW i \in 1..Len(t) PROVE Said(t[i], place, f) = {}
            <4>1. i \in 1..Len(s) \/ i = Len(s) + 1
                BY <1>1
            <4>2. t[i] = s[i] \/ t[i] = m
                BY <1>1, <4>1
            <4>3. QED
                BY <1>1, <1>2, <2>1, <4>1
        <3>2. QED
            BY <2>1, <3>1 DEF Ends
    <2>2. CASE \E i \in 1..Len(s) : /\ Said(s[i], place, f) = {v}
                                    /\ \A j \in i+1..Len(s) : Said(s[j], place, f) = {}
        <3>1. PICK i \in 1..Len(s) : /\ Said(s[i], place, f) = {v}
                                     /\ \A j \in i+1..Len(s) : Said(s[j], place, f) = {}
            BY <2>2
        <3>2. i \in 1..Len(t) /\ Said(t[i], place, f) = {v}
            BY <1>1, <3>1
        <3>3. ASSUME NEW j \in i+1..Len(t) PROVE Said(t[j], place, f) = {}
            <4>1. j \in i+1..Len(s) \/ j = Len(s) + 1
                BY <1>1, <3>1
            <4>2. j \in 1..Len(s) \/ j = Len(s) + 1
                BY <1>1, <3>1, <4>1
            <4>3. QED
                BY <1>1, <1>2, <3>1, <4>1, <4>2
        <3>4. QED
            BY <3>2, <3>3 DEF Ends
    <2>3. QED
        BY <1>2, <2>1, <2>2 DEF Ends
<1>3. ASSUME NEW v, Said(m, place, f) = {v} PROVE Ends(t, place, f, base, v)
    BY <1>1, <1>3 DEF Ends
<1>4. QED
    BY <1>2, <1>3 DEF t

LEMMA EndsConcat ==
    ASSUME NEW a, Sequence(a), NEW b, Sequence(b), NEW place, NEW f
    PROVE  /\ \A x, y, z : Ends(a, place, f, x, y) /\ Ends(b, place, f, y, z)
                            => Ends(a \o b, place, f, x, z)
           /\ \A x, y, z : Ends(b, place, f, y, z)
                            /\ (\E i \in 1..Len(b) : Said(b[i], place, f) # {})
                            => Ends(a \o b, place, f, x, z)
<1> DEFINE t == a \o b
<1>1. /\ Len(a) \in Nat /\ Len(b) \in Nat /\ Len(t) = Len(a) + Len(b)
      /\ \A i \in 1..Len(a) : t[i] = a[i]
      /\ \A i \in Len(a)+1..Len(t) : i - Len(a) \in 1..Len(b) /\ t[i] = b[i - Len(a)]
    BY SequenceConcat
<1> HIDE DEF t
<1>2. ASSUME NEW z, NEW x, NEW i \in 1..Len(b), Said(b[i], place, f) = {z},
             \A j \in i+1..Len(b) : Said(b[j], place, f) = {}
      PROVE  Ends(t, place, f, x, z)
    <2>1. Len(a) + i \in 1..Len(t) /\ Said(t[Len(a)+i], place, f) = {z}
        BY <1>1, <1>2
    <2>2. ASSUME NEW j \in Len(a)+i+1..Len(t) PROVE Said(t[j], place, f) = {}
        <3>1. j - Len(a) \in i+1..Len(b) /\ t[j] = b[j - Len(a)]
            BY <1>1
        <3>2. QED
            BY <1>2, <3>1
    <2>3. QED
        BY <2>1, <2>2 DEF Ends
<1>3. ASSUME NEW x, NEW y, NEW z, Ends(b, place, f, y, z),
             \E i \in 1..Len(b) : Said(b[i], place, f) # {}
      PROVE  Ends(t, place, f, x, z)
    BY <1>2, <1>3 DEF Ends
<1>4. ASSUME NEW x, NEW y, \A i \in 1..Len(b) : Said(b[i], place, f) = {},
             Ends(a, place, f, x, y)
      PROVE  Ends(t, place, f, x, y)
    <2>1. CASE (\A i \in 1..Len(a) : Said(a[i], place, f) = {}) /\ y = x
        <3>1. ASSUME NEW i \in 1..Len(t) PROVE Said(t[i], place, f) = {}
            <4>1. i \in 1..Len(a) \/ i \in Len(a)+1..Len(t)
                BY <1>1
            <4>2. QED
                BY <1>1, <1>4, <2>1, <4>1
        <3>2. QED
            BY <2>1, <3>1 DEF Ends
    <2>2. CASE \E i \in 1..Len(a) : /\ Said(a[i], place, f) = {y}
                                    /\ \A j \in i+1..Len(a) : Said(a[j], place, f) = {}
        <3>1. PICK i \in 1..Len(a) : /\ Said(a[i], place, f) = {y}
                                     /\ \A j \in i+1..Len(a) : Said(a[j], place, f) = {}
            BY <2>2
        <3>2. i \in 1..Len(t) /\ Said(t[i], place, f) = {y}
            BY <1>1, <3>1
        <3>3. ASSUME NEW j \in i+1..Len(t) PROVE Said(t[j], place, f) = {}
            <4>1. CASE j \in i+1..Len(a)
                <5>1. j \in 1..Len(a)
                    BY <1>1, <3>1, <4>1
                <5>2. QED
                    BY <1>1, <3>1, <4>1, <5>1
            <4>2. CASE j \in Len(a)+1..Len(t)
                BY <1>1, <1>4, <4>2
            <4>3. QED
                BY <1>1, <4>1, <4>2
        <3>4. QED
            BY <3>2, <3>3 DEF Ends
    <2>3. QED
        BY <1>4, <2>1, <2>2 DEF Ends
<1>5. ASSUME NEW x, NEW y, NEW z, Ends(a, place, f, x, y), Ends(b, place, f, y, z)
      PROVE  Ends(t, place, f, x, z)
    <2>1. CASE \E i \in 1..Len(b) : Said(b[i], place, f) # {}
        BY <1>3, <1>5, <2>1
    <2>2. CASE \A i \in 1..Len(b) : Said(b[i], place, f) = {}
        <3>1. z = y
            BY <1>5, <2>2 DEF Ends
        <3>2. QED
            BY <1>4, <1>5, <2>2, <3>1
    <2>3. QED
        BY <2>1, <2>2
<1>6. QED
    BY <1>3, <1>5 DEF t

LEMMA EndsTail ==
    ASSUME NEW s, Sequence(s), s # <<>>, NEW place, NEW f, NEW base, NEW v,
           Ends(s, place, f, base, v)
    PROVE  /\ Said(Head(s), place, f) = {} => Ends(Tail(s), place, f, base, v)
           /\ \A x : Said(Head(s), place, f) = {x} => Ends(Tail(s), place, f, x, v)
<1> DEFINE t == Tail(s)
<1>1. /\ Len(s) \in Nat /\ Len(s) # 0 /\ Len(t) = Len(s) - 1 /\ Head(s) = s[1]
      /\ \A i \in 1..Len(t) : i + 1 \in 1..Len(s) /\ t[i] = s[i+1]
    BY SequenceHead
<1> HIDE DEF t
<1>2. ASSUME \A i \in 1..Len(s) : Said(s[i], place, f) = {}, v = base
      PROVE  Ends(t, place, f, base, v) /\ Said(Head(s), place, f) = {}
    <2>1. ASSUME NEW i \in 1..Len(t) PROVE Said(t[i], place, f) = {}
        <3>1. i + 1 \in 1..Len(s) /\ t[i] = s[i+1]
            BY <1>1
        <3>2. QED
            BY <1>2, <3>1
    <2>2. 1 \in 1..Len(s)
        BY <1>1
    <2>3. Said(Head(s), place, f) = {}
        BY <1>1, <1>2, <2>2
    <2>4. QED
        BY <1>2, <2>1, <2>3 DEF Ends
<1>3. ASSUME NEW i \in 1..Len(s), Said(s[i], place, f) = {v},
             \A j \in i+1..Len(s) : Said(s[j], place, f) = {}
      PROVE  /\ i = 1 => Said(Head(s), place, f) = {v} /\ Ends(t, place, f, v, v)
             /\ i # 1 => \A x : Ends(t, place, f, x, v)
    <2>1. CASE i = 1
        <3>1. ASSUME NEW j \in 1..Len(t) PROVE Said(t[j], place, f) = {}
            <4>1. j + 1 \in i+1..Len(s) /\ t[j] = s[j+1]
                BY <1>1, <2>1
            <4>2. QED
                BY <1>3, <4>1
        <3>2. QED
            BY <1>1, <1>3, <2>1, <3>1 DEF Ends
    <2>2. CASE i # 1
        <3>1. i - 1 \in 1..Len(t) /\ (i - 1) + 1 = i
            BY <1>1, <2>2
        <3>2. Said(t[i-1], place, f) = {v}
            BY <1>1, <1>3, <3>1
        <3>3. ASSUME NEW j \in (i-1)+1..Len(t) PROVE Said(t[j], place, f) = {}
            <4>1. j \in 1..Len(t) /\ j + 1 \in i+1..Len(s)
                BY <1>1, <3>1
            <4>2. QED
                BY <1>1, <1>3, <4>1
        <3>4. QED
            BY <2>2, <3>1, <3>2, <3>3 DEF Ends
    <2>3. QED
        BY <2>1, <2>2
<1>4. QED
    BY <1>2, <1>3 DEF Ends, t

-----------------------------------------------------------------------------
(* What a turn keeps.                                                      *)

Locked(o) == "Door" \in DOMAIN o /\ o["Door"].DOOR_DOOR_LOCKED

(* What may be stored in a field.                                          *)
FieldOK(d, field, value) ==
    /\ d = "Chair" /\ field = "CHAIR_PRESSURE_SENSOR_VALUE" => value \in 0..255
    /\ d = "SimulatedDevice" /\ field = "activeLed" => value \in 1..3
    /\ d = "Fridge" /\ field \in {"FRIDGE_TEMPERATURE_INSIDE_VALUE",
                                 "FRIDGE_REQUESTED_FRIDGE_TEMPERATURE"} => value \in Int
    /\ d = "Lamp" /\ field = "LAMP_LED_VALUE" => value \in Nat
    /\ d = "Wall" /\ field = "WALL_DIMMER_VALUE" => value \in Nat

ObjectsOK(o) ==
    /\ DOMAIN o \subseteq Device \cup {"Website"}
    /\ \A c \in DOMAIN o : DOMAIN o[c] = DOMAIN NewObject[c]
    /\ \A c \in DOMAIN o : \A f \in DOMAIN o[c] : FieldOK(c, f, o[c][f])

(* What main may send in a turn that starts with the objects o.            *)
SentOK(m, o) ==
    /\ m.to = "Website" =>
        /\ m.command # "Status"
        /\ m.command = "WEBSITE_UPDATE" => DOMAIN m.value \subseteq DOMAIN o
    /\ m.to # "Website" =>
        /\ m.command = "DEVICE_INFO" => m.to \notin DOMAIN o
        /\ m.command \notin Sensed(m.to)
        /\ m.command \in DOMAIN Possible => m.value \in Possible[m.command]
    /\ m.to = "Door" /\ m.command = "DOOR_DOOR_OPEN" /\ Locked(o) => ~m.value

(* In a turn that starts with the objects k.objects, and is about the      *)
(* devices of k.about: nothing else changes, and nothing else is sent.     *)
OthersAside(t, k) ==
    \A d \in Device \ k.about :
        /\ d \in DOMAIN k.objects => t.object[d] = k.objects[d]
        /\ SentTo(d, t.sent) = <<>>

(* Devices that have the values k.base before have those of their objects  *)
(* after the turn: what they notice main has stored, what main commands it *)
(* has told them.  Not so, so far, for the fields in S.                    *)
DevicesTold(t, k, S) ==
    \A d \in Device \cap DOMAIN k.objects :
        /\ \A f \in Commanded(d) \ S :
            Ends(SentTo(d, t.sent), "Device", f, k.base[d][f], Believed(t.object, d, f))
        /\ \A f \in Sensed(d) \ S : t.object[d][f] = k.base[d][f]

(* And a page that shows the values k.shown before shows those of the      *)
(* objects, but for the fields in P.                                       *)
PageTold(t, k, P) ==
    "Website" \in DOMAIN k.objects =>
        \A d \in Device \cap DOMAIN k.objects : \A f \in Pushed(d) \ P :
            Ends(SentTo("Website", t.sent), d, f, k.shown[d][f], t.object[d][f])

(* A turn in which main handles a message about a device.                  *)
TurnOK(t, k, S, P) ==
    /\ t = [object |-> t.object, sent |-> t.sent]
    /\ DOMAIN t.object = DOMAIN k.objects
    /\ ObjectsOK(t.object)
    /\ Sequence(t.sent)
    /\ \A i \in 1..Len(t.sent) :
        SentOK(t.sent[i], k.objects) /\ t.sent[i].to \in DOMAIN k.objects
    /\ OthersAside(t, k)
    /\ DevicesTold(t, k, S)
    /\ PageTold(t, k, P)

LEMMA PossibleValues ==
    /\ DOMAIN Possible =
        {"CHAIR_PRESSURE_SENSOR_VALUE", "FRIDGE_REQUESTED_FRIDGE_TEMPERATURE",
         "FRIDGE_RAW_TEMPERATURE_SENSOR_INSIDE_VALUE", "LAMP_LED_VALUE", "WALL_DIMMER_VALUE"}
    /\ Possible["CHAIR_PRESSURE_SENSOR_VALUE"] = Int
    /\ Possible["FRIDGE_REQUESTED_FRIDGE_TEMPERATURE"] = Int
    /\ Possible["FRIDGE_RAW_TEMPERATURE_SENSOR_INSIDE_VALUE"] = DOMAIN Celsius
    /\ Possible["LAMP_LED_VALUE"] = Nat
    /\ Possible["WALL_DIMMER_VALUE"] = Nat
BY DEF Possible

LEMMA CelsiusValues == \A raw \in DOMAIN Celsius : Celsius[raw] \in Int
BY NaNAssumption DEF Celsius

LEMMA LedNames == /\ Led[1] = "SIMULATED_LED1_VALUE"
                  /\ Led[2] = "SIMULATED_LED2_VALUE"
                  /\ Led[3] = "SIMULATED_LED3_VALUE"
                  /\ \A i \in 1..3 : i = 1 \/ i = 2 \/ i = 3
                  /\ {Led[i] : i \in 1..3} =
                        {"SIMULATED_LED1_VALUE", "SIMULATED_LED2_VALUE", "SIMULATED_LED3_VALUE"}
BY DEF Led

(* The fields of a device that it and the page are told, and tell.         *)
Tracked(d) == Sensed(d) \cup Commanded(d) \cup Pushed(d)

LEMMA TrackedFields ==
    ASSUME NEW d \in Device
    PROVE  /\ Tracked(d) \subseteq DOMAIN NewObject[d]
           /\ Sensed(d) \cap Commanded(d) = {}
           /\ Tracked(d) \cap {"Status", "DEVICE_INFO", "WEBSITE_UPDATE", "WEBSITE_FORWARD",
                               "HEARTBEAT", "REGISTRATION"} = {}
<1>1. {Led[i] : i \in 1..3} =
            {"SIMULATED_LED1_VALUE", "SIMULATED_LED2_VALUE", "SIMULATED_LED3_VALUE"}
    BY LedNames
<1>2. CASE d = "Bed"
    BY <1>1, <1>2 DEF Tracked, Sensed, Commanded, Pushed, NewObject, NewBed
<1>3. CASE d = "Chair"
    BY <1>1, <1>3 DEF Tracked, Sensed, Commanded, Pushed, NewObject, NewChair
<1>4. CASE d = "Column"
    BY <1>1, <1>4 DEF Tracked, Sensed, Commanded, Pushed, NewObject, NewColumn
<1>5. CASE d = "Door"
    BY <1>1, <1>5 DEF Tracked, Sensed, Commanded, Pushed, NewObject, NewDoor
<1>6. CASE d = "Fridge"
    BY <1>1, <1>6 DEF Tracked, Sensed, Commanded, Pushed, NewObject, NewFridge
<1>7. CASE d = "Lamp"
    BY <1>1, <1>7 DEF Tracked, Sensed, Commanded, Pushed, NewObject, NewLamp
<1>8. CASE d = "SimulatedDevice"
    BY <1>1, <1>8 DEF Tracked, Sensed, Commanded, Pushed, NewObject, NewSimulatedDevice
<1>9. CASE d = "Wall"
    BY <1>1, <1>9 DEF Tracked, Sensed, Commanded, Pushed, NewObject, NewWall
<1>10. CASE d = "WIB"
    BY <1>1, <1>10 DEF Tracked, Sensed, Commanded, Pushed, NewObject, NewWIB
<1>11. QED
    BY <1>2, <1>3, <1>4, <1>5, <1>6, <1>7, <1>8, <1>9, <1>10 DEF Device

(* A field belongs to one device.                                          *)
LEMMA OneOwner ==
    ASSUME NEW d \in Device, NEW e \in Device, NEW f \in Tracked(d), f \in Tracked(e)
    PROVE  d = e
<1> DEFINE owner ==
        [BED_LED_ON |-> "Bed", CHAIR_LED_ON |-> "Chair", CHAIR_VIBRATOR_ON |-> "Chair",
         COLUMN_SMOKE_SENSOR_VALUE |-> "Column", COLUMN_BUZZER_ON |-> "Column",
         COLUMN_LED_ON |-> "Column", COLUMN_SMOKE_TRESHOLD_VALUE |-> "Column",
         DOOR_LED_INSIDE_ON |-> "Door", DOOR_LED_OUTSIDE_ON |-> "Door",
         DOOR_DOOR_OPEN |-> "Door", DOOR_DOOR_LOCKED |-> "Door",
         FRIDGE_DOOR_CLOSED |-> "Fridge", FRIDGE_FAN_ON |-> "Fridge",
         FRIDGE_COOLER_ON |-> "Fridge", FRIDGE_TEMPERATURE_INSIDE_VALUE |-> "Fridge",
         FRIDGE_DOOR_OPEN_COUNTER |-> "Fridge",
         LAMP_MOVEMENT_DETECTED |-> "Lamp", LAMP_LED_VALUE |-> "Lamp", LAMP_LED_ON |-> "Lamp",
         SIMULATED_LED1_VALUE |-> "SimulatedDevice", SIMULATED_LED2_VALUE |-> "SimulatedDevice",
         SIMULATED_LED3_VALUE |-> "SimulatedDevice",
         WALL_DIMMER_VALUE |-> "Wall", WALL_LDR_VALUE |-> "Wall", WALL_CURTAIN_OPEN |-> "Wall",
         WALL_LEDSTRIP_VALUE |-> "Wall"]
<1>1. \A c \in Device : \A g \in Tracked(c) : owner[g] = c
    BY LedNames DEF Tracked, Device, Sensed, Commanded, Pushed
<1>2. QED
    BY <1>1

-----------------------------------------------------------------------------
(* The operators a turn is made of.                                        *)

LEMMA TurnWeaken ==
    ASSUME NEW t, NEW k, NEW S, NEW P, TurnOK(t, k, S, P), NEW S2, NEW P2,
           \A d \in Device : /\ S \cap (Sensed(d) \cup Commanded(d)) \subseteq S2
                             /\ P \cap Pushed(d) \subseteq P2
    PROVE  TurnOK(t, k, S2, P2)
<1>1. DevicesTold(t, k, S2)
    BY DEF TurnOK, DevicesTold
<1>2. PageTold(t, k, P2)
    BY DEF TurnOK, PageTold
<1>3. QED
    BY <1>1, <1>2 DEF TurnOK

(* The field that is affected in what a device is taken to have.           *)
StoredAs(field) == IF field = "LAMP_LED_ON" THEN "LAMP_LED_VALUE" ELSE field

LEMMA PutOK ==
    ASSUME NEW t, NEW k, NEW S, NEW P, TurnOK(t, k, S, P),
           NEW d \in Device, d \in k.about, NEW field, NEW value,
           d \in DOMAIN t.object => FieldOK(d, field, value),
           NEW S2, NEW P2, S \subseteq S2, P \subseteq P2,
           StoredAs(field) \in Sensed(d) \cup Commanded(d) => StoredAs(field) \in S2,
           field \in Pushed(d) /\ "Website" \in DOMAIN k.objects => field \in P2
    PROVE  TurnOK(Put(t, d, field, value), k, S2, P2)
<1> DEFINE x == t.object
           y == [x EXCEPT ![d] = [x[d] EXCEPT ![field] = value]]
           u == Put(t, d, field, value)
<1>1. u = [object |-> y, sent |-> t.sent]
    BY DEF Put, TurnOK
<1>2. u.object = y /\ u.sent = t.sent
    BY <1>1
<1>3. ObjectsOK(x) /\ DOMAIN x = DOMAIN k.objects
    BY DEF TurnOK
<1> HIDE DEF x
<1>4. DOMAIN y = DOMAIN x
    OBVIOUS
<1>5. \A c \in DOMAIN x : DOMAIN y[c] = DOMAIN x[c]
    OBVIOUS
<1>6. /\ \A c \in DOMAIN x : \A f \in DOMAIN x[c] :
            y[c][f] = IF c = d /\ f = field THEN value ELSE x[c][f]
      /\ \A c \in DOMAIN x : c # d => y[c] = x[c]
    OBVIOUS
<1> HIDE DEF y
<1>7. ObjectsOK(y)
    BY <1>3, <1>4, <1>5, <1>6 DEF ObjectsOK, x
<1>8. \A c \in Device \cap DOMAIN x : Tracked(c) \subseteq DOMAIN x[c]
    BY <1>3, TrackedFields DEF ObjectsOK
<1>9. ASSUME NEW c \in Device \cap DOMAIN x, NEW f \in Sensed(c) \cup Commanded(c), f \notin S2
      PROVE  y[c][f] = x[c][f] /\ Believed(y, c, f) = Believed(x, c, f)
    <2>1. f \in DOMAIN x[c]
        BY <1>8 DEF Tracked
    <2>2. c = d => f # StoredAs(field)
        BY <1>9
    <2>3. CASE c # d
        BY <1>6, <2>3 DEF Believed
    <2>4. CASE c = d
        <3>1. f # field
            <4>1. field = "LAMP_LED_ON" => field \notin Sensed(d) \cup Commanded(d)
                BY LedNames DEF Sensed, Commanded, Device
            <4>2. QED
                BY <2>2, <2>4, <4>1 DEF StoredAs
        <3>2. y[c][f] = x[c][f]
            BY <1>6, <2>1, <3>1
        <3>3. CASE c = "Lamp" /\ f = "LAMP_LED_VALUE"
            <4>1. field # "LAMP_LED_ON"
                BY <2>2, <2>4, <3>3 DEF StoredAs
            <4>2. "LAMP_LED_ON" \in DOMAIN x["Lamp"]
                BY <1>8, <3>3 DEF Tracked, Pushed
            <4>3. y["Lamp"].LAMP_LED_ON = x["Lamp"].LAMP_LED_ON
                BY <1>6, <3>3, <4>1, <4>2
            <4>4. QED
                BY <3>2, <3>3, <4>3 DEF Believed
        <3>4. CASE ~(c = "Lamp" /\ f = "LAMP_LED_VALUE")
            BY <3>2, <3>4 DEF Believed
        <3>5. QED
            BY <3>2, <3>3, <3>4
    <2>5. QED
        BY <2>3, <2>4
<1>10. DevicesTold(u, k, S2)
    BY <1>2, <1>3, <1>9 DEF DevicesTold, TurnOK, x
<1>11. ASSUME "Website" \in DOMAIN k.objects, NEW c \in Device \cap DOMAIN x,
              NEW f \in Pushed(c), f \notin P2
       PROVE  y[c][f] = x[c][f]
    BY <1>6, <1>8, <1>11 DEF Tracked
<1>12. PageTold(u, k, P2)
    BY <1>2, <1>3, <1>11 DEF PageTold, TurnOK, x
<1>13. OthersAside(u, k)
    BY <1>2, <1>3, <1>6 DEF OthersAside, TurnOK, x
<1> HIDE DEF u
<1>14. QED
    BY <1>1, <1>2, <1>3, <1>4, <1>7, <1>10, <1>12, <1>13 DEF TurnOK, u

(* The messages of a turn, and what they say.                              *)
LEMMA SaidToDevice ==
    ASSUME NEW m, NEW f, f # "DEVICE_INFO", m.command # "DEVICE_INFO"
    PROVE  Said(m, "Device", f) = IF m.command = f THEN {m.value} ELSE {}
BY DEF Said

LEMMA SaidToPage ==
    ASSUME NEW m, NEW d \in Device, NEW f
    PROVE  /\ m.command = "WEBSITE_UPDATE" /\ d \in DOMAIN m.value
                => Said(m, d, f) = {m.value[d][f]}
           /\ m.command # "WEBSITE_UPDATE"
                => Said(m, d, f) = IF m.type = d /\ m.command = f THEN {m.value} ELSE {}
<1>1. d # "Device"
    BY DEF Device
<1>2. QED
    BY <1>1 DEF Said

LEMMA SendOK ==
    ASSUME NEW t, NEW k, NEW S, NEW P, TurnOK(t, k, S, P),
           NEW to, NEW type, NEW command, NEW value, to \in DOMAIN k.objects,
           SentOK([to |-> to, type |-> type, command |-> command, value |-> value], k.objects)
    PROVE  /\ to \in Device /\ to \in k.about
                /\ (command \in Commanded(to) => value = Believed(t.object, to, command))
              => TurnOK(Send(t, to, type, command, value), k, S \ (Commanded(to) \cap {command}), P)
           /\ to = "Website" /\ command # "WEBSITE_UPDATE" /\ type \in Device
                /\ (command \in Pushed(type) /\ type \in DOMAIN k.objects
                        => value = t.object[type][command])
              => TurnOK(Send(t, to, type, command, value), k, S, P \ (Pushed(type) \cap {command}))
           /\ to = "Website" /\ command = "WEBSITE_UPDATE" /\ value = t.object
              => TurnOK(Send(t, to, type, command, value), k, S, {})
<1> DEFINE m == [to |-> to, type |-> type, command |-> command, value |-> value]
           s == t.sent
           u == Send(t, to, type, command, value)
<1>1. u = [object |-> t.object, sent |-> Append(s, m)] /\ SentOK(m, k.objects)
    BY DEF Send, TurnOK
<1>2. /\ u.object = t.object /\ u.sent = Append(s, m)
      /\ m.to = to /\ m.type = type /\ m.command = command /\ m.value = value
    BY <1>1
<1> HIDE DEF m, u
<1>3. /\ Sequence(s)
      /\ \A i \in 1..Len(s) : SentOK(s[i], k.objects) /\ s[i].to \in DOMAIN k.objects
      /\ OthersAside(t, k) /\ DevicesTold(t, k, S) /\ PageTold(t, k, P)
      /\ DOMAIN t.object = DOMAIN k.objects
    BY DEF TurnOK
<1>4. \A c : SentTo(c, u.sent) = IF to = c THEN Append(SentTo(c, s), m) ELSE SentTo(c, s)
    <2> HIDE DEF s
    <2>1. \A c : SentTo(c, Append(s, m)) =
                IF m.to = c THEN Append(SentTo(c, s), m) ELSE SentTo(c, s)
        BY <1>3, SentToAppend
    <2>2. QED
        BY <1>2, <2>1
<1>5. \A c : Sequence(SentTo(c, s))
    BY <1>3, SentToOK
<1> HIDE DEF s
<1>6. /\ Sequence(Append(s, m))
      /\ \A i \in 1..Len(Append(s, m)) :
            SentOK(Append(s, m)[i], k.objects) /\ Append(s, m)[i].to \in DOMAIN k.objects
    <2> DEFINE r == Append(s, m)
    <2>1. /\ Sequence(r)
          /\ Len(s) \in Nat /\ Len(r) = Len(s) + 1
          /\ \A i \in 1..Len(s) : r[i] = s[i]
          /\ r[Len(s)+1] = m
        BY <1>3, SequenceAppend
    <2> HIDE DEF r
    <2>2. \A i \in 1..Len(r) : SentOK(r[i], k.objects) /\ r[i].to \in DOMAIN k.objects
        BY <1>1, <1>2, <1>3, <2>1
    <2>3. QED
        BY <2>1, <2>2 DEF r
<1>7. ASSUME NEW S2, NEW P2, OthersAside(u, k), DevicesTold(u, k, S2), PageTold(u, k, P2)
      PROVE  TurnOK(u, k, S2, P2)
    BY <1>1, <1>2, <1>6, <1>7 DEF TurnOK
<1>8. ASSUME to \in Device, to \in k.about,
             command \in Commanded(to) => value = Believed(t.object, to, command)
      PROVE  TurnOK(u, k, S \ (Commanded(to) \cap {command}), P)
    <2> DEFINE T == S \ (Commanded(to) \cap {command})
    <2>1. to # "Website"
        BY <1>8 DEF Device
    <2>2. OthersAside(u, k)
        BY <1>2, <1>3, <1>4, <1>8 DEF OthersAside, s
    <2>3. PageTold(u, k, P)
        BY <1>2, <1>3, <1>4, <2>1 DEF PageTold, s
    <2>4. ASSUME NEW d \in Device \cap DOMAIN k.objects, NEW f \in Commanded(d), f \notin T
          PROVE  Ends(SentTo(d, u.sent), "Device", f, k.base[d][f], Believed(u.object, d, f))
        <3> DEFINE w == SentTo(d, s)
                   b == k.base[d][f]
                   v == Believed(t.object, d, f)
        <3>1. m.command # "DEVICE_INFO" /\ f # "DEVICE_INFO"
            BY <1>1, <1>2, <2>1, TrackedFields DEF SentOK, Tracked
        <3>2. Said(m, "Device", f) = IF command = f THEN {value} ELSE {}
            BY <1>2, <3>1, SaidToDevice
        <3>3. Sequence(w) /\ Believed(u.object, d, f) = v
            BY <1>2, <1>5
        <3>4. SentTo(d, u.sent) = IF to = d THEN Append(w, m) ELSE w
            BY <1>4
        <3>5. /\ to = d /\ command = f => value = v
              /\ to # d /\ command = f => f \notin S
              /\ command # f => f \notin S
            BY <1>8, <2>4, OneOwner DEF Tracked
        <3>6. f \notin S => Ends(w, "Device", f, b, v)
            BY <1>3 DEF DevicesTold, s
        <3> HIDE DEF w, b, v
        <3>7. CASE to = d /\ command = f
            <4>1. Ends(Append(w, m), "Device", f, b, v)
                BY <3>2, <3>3, <3>5, <3>7, EndsAppend
            <4>2. QED
                BY <3>3, <3>4, <3>7, <4>1 DEF b
        <3>8. CASE to = d /\ command # f
            <4>1. Ends(Append(w, m), "Device", f, b, v)
                BY <3>2, <3>3, <3>5, <3>6, <3>8, EndsAppend
            <4>2. QED
                BY <3>3, <3>4, <3>8, <4>1 DEF b
        <3>9. CASE to # d
            BY <3>3, <3>4, <3>5, <3>6, <3>9 DEF b
        <3>10. QED
            BY <3>7, <3>8, <3>9
    <2>5. ASSUME NEW d \in Device \cap DOMAIN k.objects, NEW f \in Sensed(d), f \notin T
          PROVE  u.object[d][f] = k.base[d][f]
        <3>1. f \notin S
            BY <2>5, OneOwner, TrackedFields, <1>8 DEF Tracked
        <3>2. QED
            BY <1>2, <1>3, <3>1 DEF DevicesTold
    <2>6. DevicesTold(u, k, T)
        BY <2>4, <2>5 DEF DevicesTold
    <2>7. QED
        BY <1>7, <2>2, <2>3, <2>6
<1>9. ASSUME to = "Website"
      PROVE  OthersAside(u, k) /\ DevicesTold(u, k, S)
    <2>1. \A d \in Device : SentTo(d, u.sent) = SentTo(d, s)
        BY <1>4, <1>9 DEF Device
    <2>2. QED
        BY <1>2, <1>3, <2>1 DEF OthersAside, DevicesTold, s
<1>10. ASSUME to = "Website", NEW P2,
              \A d \in Device \cap DOMAIN k.objects : \A f \in Pushed(d) \ P2 :
                \/ Said(m, d, f) = {t.object[d][f]}
                \/ Said(m, d, f) = {} /\ f \notin P
       PROVE  PageTold(u, k, P2)
    <2>1. ASSUME "Website" \in DOMAIN k.objects, NEW d \in Device \cap DOMAIN k.objects,
                 NEW f \in Pushed(d), f \notin P2
          PROVE  Ends(SentTo("Website", u.sent), d, f, k.shown[d][f], u.object[d][f])
        <3> DEFINE w == SentTo("Website", s)
                   b == k.shown[d][f]
                   v == t.object[d][f]
        <3>1. /\ Said(m, d, f) = {v} \/ (Said(m, d, f) = {} /\ f \notin P)
              /\ f \notin P => Ends(w, d, f, b, v)
            BY <1>3, <1>10, <2>1 DEF PageTold, s
        <3>2. Sequence(w) /\ SentTo("Website", u.sent) = Append(w, m) /\ u.object[d][f] = v
            BY <1>2, <1>4, <1>5, <1>10
        <3> HIDE DEF w, b, v
        <3>3. Ends(Append(w, m), d, f, b, v)
            BY <3>1, <3>2, EndsAppend
        <3>4. QED
            BY <3>2, <3>3 DEF b
    <2>2. QED
        BY <2>1 DEF PageTold
<1>11. ASSUME to = "Website", command # "WEBSITE_UPDATE", type \in Device,
              command \in Pushed(type) /\ type \in DOMAIN k.objects
                => value = t.object[type][command]
       PROVE  TurnOK(u, k, S, P \ (Pushed(type) \cap {command}))
    <2> DEFINE P2 == P \ (Pushed(type) \cap {command})
    <2>1. ASSUME NEW d \in Device \cap DOMAIN k.objects, NEW f \in Pushed(d), f \notin P2
          PROVE  \/ Said(m, d, f) = {t.object[d][f]}
                 \/ Said(m, d, f) = {} /\ f \notin P
        <3>1. Said(m, d, f) = IF type = d /\ command = f THEN {value} ELSE {}
            BY <1>2, <1>11, SaidToPage
        <3>2. CASE type = d /\ command = f
            BY <1>11, <3>1, <3>2
        <3>3. CASE ~(type = d /\ command = f)
            <4>1. f \notin P
                BY <1>11, <2>1, <3>3, OneOwner DEF Tracked
            <4>2. QED
                BY <3>1, <3>3, <4>1
        <3>4. QED
            BY <3>2, <3>3
    <2> HIDE DEF P2
    <2>2. PageTold(u, k, P2)
        BY <1>10, <1>11, <2>1
    <2>3. TurnOK(u, k, S, P2)
        BY <1>7, <1>9, <1>11, <2>2
    <2>4. QED
        BY <2>3 DEF P2
<1>12. ASSUME to = "Website", command = "WEBSITE_UPDATE", value = t.object
       PROVE  TurnOK(u, k, S, {})
    <2>1. ASSUME NEW d \in Device \cap DOMAIN k.objects, NEW f \in Pushed(d), f \notin {}
          PROVE  Said(m, d, f) = {t.object[d][f]}
        BY <1>2, <1>3, <1>12, SaidToPage
    <2>2. PageTold(u, k, {})
        BY <1>10, <1>12, <2>1
    <2>3. QED
        BY <1>7, <1>9, <1>12, <2>2
<1>13. QED
    BY <1>8, <1>11, <1>12 DEF u

(* A field that is none of those that are calculated with.                 *)
Free(field) ==
    field \notin {"CHAIR_PRESSURE_SENSOR_VALUE", "activeLed", "LAMP_LED_VALUE",
                  "FRIDGE_TEMPERATURE_INSIDE_VALUE", "FRIDGE_REQUESTED_FRIDGE_TEMPERATURE",
                  "WALL_DIMMER_VALUE"}

(* A field a setter may set whatever the value, and tell the device of.    *)
Plain(d, field) ==
    /\ Free(field) /\ field # "LAMP_LED_ON" /\ field \notin Sensed(d)
    /\ field \notin {"Status", "WEBSITE_UPDATE", "DEVICE_INFO", "DOOR_DOOR_OPEN",
                     "FRIDGE_RAW_TEMPERATURE_SENSOR_INSIDE_VALUE"}

LEMMA PlainFields ==
    /\ Plain("Bed", "BED_LED_ON")
    /\ Plain("Chair", "CHAIR_LED_ON") /\ Plain("Chair", "CHAIR_VIBRATOR_ON")
    /\ Plain("Column", "COLUMN_LED_ON") /\ Plain("Column", "COLUMN_BUZZER_ON")
    /\ Plain("Door", "DOOR_LED_INSIDE_ON") /\ Plain("Door", "DOOR_LED_OUTSIDE_ON")
    /\ Plain("Fridge", "FRIDGE_COOLER_ON") /\ Plain("Fridge", "FRIDGE_FAN_ON")
    /\ Plain("SimulatedDevice", "SIMULATED_LED1_VALUE")
    /\ Plain("SimulatedDevice", "SIMULATED_LED2_VALUE")
    /\ Plain("SimulatedDevice", "SIMULATED_LED3_VALUE")
    /\ Plain("Wall", "WALL_CURTAIN_OPEN") /\ Plain("Wall", "WALL_LEDSTRIP_VALUE")
    /\ Plain("WIB", "WIB_LED_ON")
BY DEF Plain, Free, Sensed

LEMMA ToDeviceOK ==
    ASSUME NEW t, NEW k, NEW S, NEW P, TurnOK(t, k, S, P), NEW d \in Device, d \in k.about,
           d \in DOMAIN k.objects, NEW command, NEW value,
           command # "DEVICE_INFO", command \notin Sensed(d),
           command \in DOMAIN Possible => value \in Possible[command],
           d = "Door" /\ command = "DOOR_DOOR_OPEN" /\ Locked(k.objects) => ~value
    PROVE  /\ command \notin Commanded(d) => TurnOK(ToDevice(t, d, command, value), k, S, P)
           /\ value = Believed(t.object, d, command) =>
                TurnOK(ToDevice(t, d, command, value), k,
                       S \ (Commanded(d) \cap {command}), P)
<1>1. d # "Website"
    BY DEF Device
<1> DEFINE u == ToDevice(t, d, command, value)
<1>2. u = Send(t, d, d, command, value)
    BY DEF ToDevice
<1>3. SentOK([to |-> d, type |-> d, command |-> command, value |-> value], k.objects)
    BY <1>1 DEF SentOK
<1> HIDE DEF u
<1>4. ASSUME command \in Commanded(d) => value = Believed(t.object, d, command)
      PROVE  TurnOK(u, k, S \ (Commanded(d) \cap {command}), P)
    BY <1>2, <1>3, <1>4, SendOK
<1>5. command \notin Commanded(d) => S \ (Commanded(d) \cap {command}) = S
    OBVIOUS
<1>6. command \notin Commanded(d) => TurnOK(u, k, S, P)
    BY <1>4, <1>5
<1>7. QED
    BY <1>4, <1>6 DEF u

LEMMA ToWebsiteOK ==
    ASSUME NEW t, NEW k, NEW S, NEW P, TurnOK(t, k, S, P), NEW d \in Device, NEW command, NEW value,
           command \notin {"Status", "WEBSITE_UPDATE"},
           command \in Pushed(d) /\ d \in DOMAIN k.objects => value = t.object[d][command]
    PROVE  TurnOK(ToWebsite(t, d, command, value), k, S, P \ (Pushed(d) \cap {command}))
<1>1. HasObject(t, "Website") <=> "Website" \in DOMAIN k.objects
    BY DEF HasObject, TurnOK
<1>2. CASE HasObject(t, "Website")
    BY <1>1, <1>2, SendOK DEF ToWebsite, SentOK
<1>3. CASE ~HasObject(t, "Website")
    BY <1>1, <1>3 DEF ToWebsite, TurnOK, PageTold
<1>4. QED
    BY <1>2, <1>3

LEMMA UpdateOK ==
    ASSUME NEW t, NEW k, NEW S, NEW P, TurnOK(t, k, S, P)
    PROVE  /\ "Website" \in DOMAIN k.objects => TurnOK(Update(t), k, S, {})
           /\ TurnOK(UpdateWebsite(t), k, S, {})
<1>1. DOMAIN t.object = DOMAIN k.objects
    BY DEF TurnOK
<1>2. "Website" \in DOMAIN k.objects => TurnOK(Update(t), k, S, {})
    BY <1>1, SendOK DEF Update, SentOK
<1>3. "Website" \notin DOMAIN k.objects => TurnOK(t, k, S, {})
    BY DEF TurnOK, PageTold
<1>4. QED
    BY <1>1, <1>2, <1>3 DEF UpdateWebsite, HasObject

(* Setters of fields nobody is told of.                                    *)
LEMMA PutFreeOK ==
    ASSUME NEW t, NEW k, NEW S, NEW P, TurnOK(t, k, S, P), NEW d \in Device, d \in k.about,
           NEW field, NEW value, Free(field), field \notin Tracked(d), field # "LAMP_LED_ON"
    PROVE  TurnOK(Put(t, d, field, value), k, S, P)
<1>1. StoredAs(field) \notin Sensed(d) \cup Commanded(d) /\ field \notin Pushed(d)
    BY DEF StoredAs, Tracked
<1>2. FieldOK(d, field, value)
    BY DEF FieldOK, Free
<1>3. QED
    BY <1>1, <1>2, PutOK

(* What a setter leaves in a field.                                        *)
LEMMA PutValue ==
    ASSUME NEW t, NEW k, NEW S, NEW P, TurnOK(t, k, S, P), NEW d, d \in DOMAIN k.objects,
           NEW field, field \in DOMAIN NewObject[d], NEW value
    PROVE  /\ Put(t, d, field, value).object[d][field] = value
           /\ \A c \in DOMAIN k.objects : \A f \in DOMAIN NewObject[c] :
                c # d \/ f # field =>
                    Put(t, d, field, value).object[c][f] = t.object[c][f]
           /\ Put(t, d, field, value).sent = t.sent
<1> DEFINE x == t.object
           y == [x EXCEPT ![d] = [x[d] EXCEPT ![field] = value]]
<1>1. Put(t, d, field, value) = [object |-> y, sent |-> t.sent]
    BY DEF Put, TurnOK
<1>2. DOMAIN x = DOMAIN k.objects /\ \A c \in DOMAIN x : DOMAIN x[c] = DOMAIN NewObject[c]
    BY DEF TurnOK, ObjectsOK
<1>3. QED
    BY <1>1, <1>2

LEMMA PutOnWebsiteOK ==
    ASSUME NEW t, NEW k, NEW S, NEW P, TurnOK(t, k, S, P), NEW d \in Device, d \in k.about,
           d \in DOMAIN k.objects, NEW field, NEW value,
           FieldOK(d, field, value), field # "LAMP_LED_ON",
           field \notin Sensed(d) \cup Commanded(d), field \notin {"Status", "WEBSITE_UPDATE"}
    PROVE  /\ TurnOK(PutOnWebsite(t, d, field, value), k, S, P)
           /\ P \subseteq Pushed(d) \cap {field} =>
                TurnOK(PutOnWebsite(t, d, field, value), k, S, {})
<1> DEFINE u == Put(t, d, field, value)
           Q == P \cup (Pushed(d) \cap {field})
<1>1. TurnOK(u, k, S, Q)
    BY PutOK DEF StoredAs
<1>2. field \in Pushed(d) => u.object[d][field] = value
    BY PutValue, TrackedFields DEF Tracked
<1> HIDE DEF u
<1>3. TurnOK(ToWebsite(u, d, field, value), k, S, Q \ (Pushed(d) \cap {field}))
    <2> HIDE DEF Q
    <2>1. QED
        BY <1>1, <1>2, ToWebsiteOK
<1>4. /\ TurnOK(PutOnWebsite(t, d, field, value), k, S, Q \ (Pushed(d) \cap {field}))
      /\ Q \ (Pushed(d) \cap {field}) \subseteq P
      /\ P \subseteq Pushed(d) \cap {field} => Q \ (Pushed(d) \cap {field}) \subseteq {}
    BY <1>3 DEF PutOnWebsite, u
<1> HIDE DEF Q
<1>5. QED
    BY <1>4, TurnWeaken

LEMMA PutOnOK ==
    ASSUME NEW t, NEW k, NEW S, NEW P, TurnOK(t, k, S, P), NEW d \in Device, d \in k.about,
           d \in DOMAIN k.objects, NEW field, NEW value, Plain(d, field), d # "Lamp",
           field \in DOMAIN NewObject[d]
    PROVE  /\ field \notin Pushed(d) => TurnOK(PutOnDevice(t, d, field, value), k, S, P)
           /\ TurnOK(PutOnBoth(t, d, field, value), k, S, P)
           /\ P \subseteq Pushed(d) \cap {field} =>
                TurnOK(PutOnBoth(t, d, field, value), k, S, {})
<1> DEFINE u == Put(t, d, field, value)
           v == ToDevice(u, d, field, value)
           Q == P \cup (Pushed(d) \cap {field})
           T == S \cup (Commanded(d) \cap {field})
<1>1. /\ field \notin Sensed(d) /\ StoredAs(field) = field /\ FieldOK(d, field, value)
      /\ field \notin {"Status", "WEBSITE_UPDATE", "DEVICE_INFO", "DOOR_DOOR_OPEN"}
      /\ field \notin DOMAIN Possible
    BY PossibleValues DEF Plain, StoredAs, FieldOK, Free
<1>2. TurnOK(u, k, T, Q)
    BY <1>1, PutOK
<1>3. u.object[d][field] = value /\ Believed(u.object, d, field) = value
    BY PutValue DEF Believed
<1> HIDE DEF u
<1>4. TurnOK(v, k, T \ (Commanded(d) \cap {field}), Q)
    <2> HIDE DEF T, Q
    <2>1. QED
        BY <1>1, <1>2, <1>3, ToDeviceOK
<1>5. T \ (Commanded(d) \cap {field}) \subseteq S
    OBVIOUS
<1> HIDE DEF T
<1>6. TurnOK(v, k, S, Q)
    BY <1>4, <1>5, TurnWeaken
<1>7. v.object = u.object
    BY <1>2 DEF ToDevice, Send, TurnOK
<1> HIDE DEF v
<1>8. TurnOK(ToWebsite(v, d, field, value), k, S, Q \ (Pushed(d) \cap {field}))
    <2> HIDE DEF Q
    <2>1. QED
        BY <1>1, <1>3, <1>6, <1>7, ToWebsiteOK
<1>9. /\ field \notin Pushed(d) => Q \subseteq P
      /\ Q \ (Pushed(d) \cap {field}) \subseteq P
      /\ P \subseteq Pushed(d) \cap {field} => Q \ (Pushed(d) \cap {field}) \subseteq {}
      /\ S \subseteq S
    OBVIOUS
<1>10. /\ PutOnDevice(t, d, field, value) = v
       /\ PutOnBoth(t, d, field, value) = ToWebsite(v, d, field, value)
    BY DEF PutOnDevice, PutOnBoth, u, v
<1> HIDE DEF Q
<1>11. QED
    BY <1>6, <1>8, <1>9, <1>10, TurnWeaken

(* What the device has noticed, stored.                                    *)
LEMMA PutSensedOK ==
    ASSUME NEW t, NEW k, NEW S, NEW P, TurnOK(t, k, S, P), NEW d \in Device, d \in k.about,
           d \in DOMAIN k.objects, NEW field \in Sensed(d), NEW value, FieldOK(d, field, value),
           k.base[d][field] = value, S \subseteq {field}
    PROVE  /\ TurnOK(Put(t, d, field, value), k, {}, P \cup (Pushed(d) \cap {field}))
           /\ P \subseteq Pushed(d) \cap {field} =>
                TurnOK(PutOnWebsite(t, d, field, value), k, {}, {})
<1> DEFINE u == Put(t, d, field, value)
           Q == P \cup (Pushed(d) \cap {field})
<1>1. field \notin {"LAMP_LED_ON", "Status", "WEBSITE_UPDATE"} /\ field \in DOMAIN NewObject[d]
    BY TrackedFields DEF Tracked, Sensed
<1>2. TurnOK(u, k, {field}, Q)
    BY <1>1, PutOK DEF StoredAs
<1>3. u.object[d][field] = value
    BY <1>1, PutValue
<1> HIDE DEF u, Q
<1>4. DevicesTold(u, k, {})
    <2>1. ASSUME NEW e \in Device \cap DOMAIN k.objects, NEW f \in Commanded(e)
          PROVE  Ends(SentTo(e, u.sent), "Device", f, k.base[e][f], Believed(u.object, e, f))
        <3>1. f # field
            BY OneOwner, TrackedFields DEF Tracked
        <3>2. QED
            BY <1>2, <3>1 DEF TurnOK, DevicesTold
    <2>2. ASSUME NEW e \in Device \cap DOMAIN k.objects, NEW f \in Sensed(e)
          PROVE  u.object[e][f] = k.base[e][f]
        <3>1. CASE f = field
            BY <1>3, <3>1, OneOwner DEF Tracked
        <3>2. CASE f # field
            BY <1>2, <3>2 DEF TurnOK, DevicesTold
        <3>3. QED
            BY <3>1, <3>2
    <2>3. QED
        BY <2>1, <2>2 DEF DevicesTold
<1>5. TurnOK(u, k, {}, Q)
    BY <1>2, <1>4 DEF TurnOK
<1>6. TurnOK(ToWebsite(u, d, field, value), k, {}, Q \ (Pushed(d) \cap {field}))
    BY <1>1, <1>3, <1>5, ToWebsiteOK
<1>7. P \subseteq Pushed(d) \cap {field} => Q \ (Pushed(d) \cap {field}) \subseteq {}
    BY DEF Q
<1>8. PutOnWebsite(t, d, field, value) = ToWebsite(u, d, field, value)
    BY DEF PutOnWebsite, u
<1>9. QED
    BY <1>5, <1>6, <1>7, <1>8, TurnWeaken DEF u, Q

LEMMA NewStatusOK ==
    ASSUME NEW t, NEW k, NEW S, NEW P, TurnOK(t, k, S, P), NEW d \in Device, d \in k.about,
           NEW status
    PROVE  TurnOK(NewStatus(t, d, status), k, S, {})
<1>1. Free("Status") /\ "Status" \notin Tracked(d)
    BY TrackedFields DEF Free
<1>2. QED
    BY <1>1, PutFreeOK, UpdateOK DEF NewStatus

(* An answer learnt before the device is told anything.                    *)
LEMMA LearnOK ==
    ASSUME NEW t, NEW k, NEW S, NEW P, TurnOK(t, k, S, P), NEW d \in Device, d \in k.about,
           d \in DOMAIN k.objects, SentTo(d, t.sent) = <<>>, NEW fields, NEW info,
           \A f \in fields : Free(f) \/ FieldOK(d, f, info[f]),
           \A f \in fields \cap (Sensed(d) \cup Commanded(d)) : k.base[d][f] = info[f],
           S \subseteq fields \cap (Sensed(d) \cup Commanded(d))
    PROVE  TurnOK(Learn(t, d, fields, info), k,
                  IF d = "Lamp" THEN {"LAMP_LED_VALUE"} ELSE {}, P \cup fields)
<1> DEFINE x == t.object
           z == [f \in DOMAIN x[d] |-> IF f \in fields THEN info[f] ELSE x[d][f]]
           y == [x EXCEPT ![d] = z]
           u == Learn(t, d, fields, info)
           T == IF d = "Lamp" THEN {"LAMP_LED_VALUE"} ELSE {}
<1>1. u = [object |-> y, sent |-> t.sent]
    BY DEF Learn, TurnOK
<1>2. u.object = y /\ u.sent = t.sent
    BY <1>1
<1>3. ObjectsOK(x) /\ DOMAIN x = DOMAIN k.objects
    BY DEF TurnOK
<1>4. /\ DOMAIN z = DOMAIN x[d]
      /\ \A f \in DOMAIN x[d] : z[f] = IF f \in fields THEN info[f] ELSE x[d][f]
    OBVIOUS
<1> HIDE DEF x, z
<1>5. DOMAIN y = DOMAIN x /\ \A c \in DOMAIN x : y[c] = IF c = d THEN z ELSE x[c]
    OBVIOUS
<1> HIDE DEF y, u, T
<1>6. \A f \in fields : FieldOK(d, f, info[f])
    BY DEF FieldOK, Free
<1>7. ObjectsOK(y)
    BY <1>3, <1>4, <1>5, <1>6 DEF ObjectsOK
<1>8. \A c \in Device \cap DOMAIN x : Tracked(c) \subseteq DOMAIN x[c]
    BY <1>3, TrackedFields DEF ObjectsOK
<1>9. ASSUME NEW c \in Device \cap DOMAIN x, c # d
      PROVE  /\ y[c] = x[c]
             /\ \A f : Believed(y, c, f) = Believed(x, c, f)
             /\ \A f \in Sensed(c) \cup Commanded(c) : f \notin S
    BY <1>5, <1>9, OneOwner DEF Believed, Tracked
<1>10. ASSUME NEW f \in Sensed(d) \cup Commanded(d), f \notin T
       PROVE  /\ Believed(y, d, f) = y[d][f]
              /\ f \in fields => y[d][f] = k.base[d][f]
              /\ f \notin fields => f \notin S /\ y[d][f] = x[d][f] /\ Believed(x, d, f) = x[d][f]
    <2>1. f \in DOMAIN x[d] /\ d \in DOMAIN x
        BY <1>3, <1>8 DEF Tracked
    <2>2. ~(d = "Lamp" /\ f = "LAMP_LED_VALUE")
        BY <1>10 DEF T
    <2>3. QED
        BY <1>4, <1>5, <2>1, <2>2 DEF Believed
<1>11. DevicesTold(u, k, T)
    <2>1. ASSUME NEW c \in Device \cap DOMAIN k.objects, NEW f \in Commanded(c) \ T
          PROVE  Ends(SentTo(c, u.sent), "Device", f, k.base[c][f], Believed(u.object, c, f))
        <3>1. f \notin S => Ends(SentTo(c, t.sent), "Device", f, k.base[c][f],
                                 Believed(x, c, f))
            BY DEF TurnOK, DevicesTold, x
        <3>2. CASE c # d
            BY <1>2, <1>3, <1>9, <3>1, <3>2
        <3>3. CASE c = d
            BY <1>2, <1>3, <1>10, <3>1, <3>3, EndsNone
        <3>4. QED
            BY <3>2, <3>3
    <2>2. ASSUME NEW c \in Device \cap DOMAIN k.objects, NEW f \in Sensed(c) \ T
          PROVE  u.object[c][f] = k.base[c][f]
        <3>1. f \notin S => x[c][f] = k.base[c][f]
            BY DEF TurnOK, DevicesTold, x
        <3>2. CASE c # d
            BY <1>2, <1>3, <1>9, <3>1, <3>2
        <3>3. CASE c = d
            BY <1>2, <1>3, <1>10, <3>1, <3>3
        <3>4. QED
            BY <3>2, <3>3
    <2>3. QED
        BY <2>1, <2>2 DEF DevicesTold
<1>12. PageTold(u, k, P \cup fields)
    <2>1. ASSUME NEW c \in Device \cap DOMAIN x, NEW f \in Pushed(c) \ (P \cup fields)
          PROVE  y[c][f] = x[c][f]
        <3>1. f \in DOMAIN x[c]
            BY <1>8 DEF Tracked
        <3>2. QED
            BY <1>4, <1>5, <3>1
    <2>2. QED
        BY <1>2, <1>3, <2>1 DEF PageTold, TurnOK, x
<1>13. OthersAside(u, k)
    BY <1>2, <1>3, <1>5 DEF OthersAside, TurnOK, x
<1>14. TurnOK(u, k, T, P \cup fields)
    <2>1. u = [object |-> u.object, sent |-> u.sent]
        BY <1>1, <1>2
    <2>2. DOMAIN u.object = DOMAIN k.objects /\ ObjectsOK(u.object)
        BY <1>2, <1>3, <1>5, <1>7
    <2>3. QED
        BY <1>2, <1>11, <1>12, <1>13, <2>1, <2>2 DEF TurnOK
<1>15. QED
    BY <1>14 DEF u, T

-----------------------------------------------------------------------------
(* The handlers.                                                           *)

(* A message of a device, or for one, has values its handler can convert,  *)
(* and is not about what main calculates.                                  *)
ValueOK(d, m) ==
    /\ m.command \in DOMAIN Possible => m.value \in Possible[m.command]
    /\ m.command \notin Derived
    /\ m.command = "DEVICE_INFO" =>
        /\ DOMAIN m.value = DOMAIN PowerOn[d]
        /\ \A f \in DOMAIN m.value \cap DOMAIN Possible : m.value[f] \in Possible[f]

(* What a message of a device tells main of it.                            *)
Told(d, m) ==
    IF m.command = "DEVICE_INFO" THEN Sensed(d) \cup Commanded(d)
    ELSE Sensed(d) \cap {m.command}

(* What a page that asks for it may show already.                          *)
Asked(d, m) == Pushed(d) \cap {m.command}

(* Main is about to handle message m about device d.                       *)
Ready(t, k, d, m) ==
    /\ d \in Device /\ d \in DOMAIN k.objects
    /\ {d, "Column", "Lamp"} \subseteq k.about
    /\ TurnOK(t, k, Told(d, m), Asked(d, m))
    /\ t.object = k.objects /\ t.sent = <<>>
    /\ ValueOK(d, m)
    /\ m.command = "DEVICE_INFO" =>
        \A f \in Sensed(d) \cup Commanded(d) : k.base[d][f] = m.value[f]
    /\ m.command \in Sensed(d) => k.base[d][m.command] = m.value

LEMMA ReadyOK ==
    ASSUME NEW t, NEW k, NEW d, NEW m, Ready(t, k, d, m)
    PROVE  /\ m.command = "DEVICE_INFO" => TurnOK(t, k, Sensed(d) \cup Commanded(d), {})
           /\ m.command # "DEVICE_INFO" /\ m.command \notin Sensed(d)
                => TurnOK(t, k, {}, Pushed(d) \cap {m.command})
           /\ m.command # "DEVICE_INFO" /\ m.command \notin Tracked(d) => TurnOK(t, k, {}, {})
           /\ m.command \in Sensed(d) => TurnOK(t, k, {m.command}, Pushed(d) \cap {m.command})
<1>1. TurnOK(t, k, Told(d, m), Asked(d, m)) /\ d \in Device
    BY DEF Ready
<1>2. \A f \in Tracked(d) : f # "DEVICE_INFO"
    BY <1>1, TrackedFields
<1>3. m.command = "DEVICE_INFO" => Told(d, m) = Sensed(d) \cup Commanded(d) /\ Asked(d, m) = {}
    BY <1>2 DEF Told, Asked, Tracked
<1>4. m.command # "DEVICE_INFO" =>
        /\ Asked(d, m) = Pushed(d) \cap {m.command}
        /\ m.command \notin Sensed(d) => Told(d, m) = {}
        /\ m.command \in Sensed(d) => Told(d, m) = {m.command}
        /\ m.command \notin Tracked(d) => Told(d, m) = {} /\ Asked(d, m) = {}
    BY DEF Told, Asked, Tracked
<1>5. m.command \in Sensed(d) => m.command # "DEVICE_INFO"
    BY <1>2 DEF Tracked
<1>6. QED
    BY <1>1, <1>3, <1>4, <1>5

LEMMA AnswerOK ==
    ASSUME NEW t, NEW k, NEW d, NEW m, Ready(t, k, d, m), m.command = "DEVICE_INFO",
           NEW fields, Sensed(d) \cup Commanded(d) \subseteq fields,
           \A f \in fields : Free(f) \/ FieldOK(d, f, m.value[f])
    PROVE  LET u == Learn(t, d, fields, m.value)
               S == IF d = "Lamp" THEN {"LAMP_LED_VALUE"} ELSE {}
           IN  TurnOK(u, k, S, fields) /\ TurnOK(UpdateWebsite(u), k, S, {})
<1> DEFINE u == Learn(t, d, fields, m.value)
           S == IF d = "Lamp" THEN {"LAMP_LED_VALUE"} ELSE {}
<1>1. /\ d \in Device /\ d \in DOMAIN k.objects /\ d \in k.about /\ t.sent = <<>>
      /\ \A f \in Sensed(d) \cup Commanded(d) : k.base[d][f] = m.value[f]
      /\ TurnOK(t, k, Sensed(d) \cup Commanded(d), {})
    BY ReadyOK DEF Ready
<1>2. SentTo(d, t.sent) = <<>>
    BY <1>1, SentToNone
<1>3. TurnOK(u, k, S, {} \cup fields)
    BY <1>1, <1>2, LearnOK
<1>4. {} \cup fields = fields
    OBVIOUS
<1>5. TurnOK(u, k, S, fields)
    BY <1>3, <1>4
<1> HIDE DEF u, S
<1>6. TurnOK(UpdateWebsite(u), k, S, {})
    BY <1>5, UpdateOK
<1>7. QED
    BY <1>5, <1>6 DEF u, S

(* What handlers read of the objects.                                      *)
LEMMA ObjectNumbers ==
    ASSUME NEW t, NEW k, NEW S, NEW P, TurnOK(t, k, S, P)
    PROVE  /\ "Lamp" \in DOMAIN k.objects => t.object["Lamp"].LAMP_LED_VALUE \in Nat
           /\ "Wall" \in DOMAIN k.objects => t.object["Wall"].WALL_DIMMER_VALUE \in Nat
           /\ "SimulatedDevice" \in DOMAIN k.objects =>
                t.object["SimulatedDevice"].activeLed \in 1..3
           /\ "Fridge" \in DOMAIN k.objects =>
                /\ t.object["Fridge"].FRIDGE_TEMPERATURE_INSIDE_VALUE \in Int
                /\ t.object["Fridge"].FRIDGE_REQUESTED_FRIDGE_TEMPERATURE \in Int
<1>1. /\ "LAMP_LED_VALUE" \in DOMAIN NewObject["Lamp"]
      /\ "WALL_DIMMER_VALUE" \in DOMAIN NewObject["Wall"]
      /\ "activeLed" \in DOMAIN NewObject["SimulatedDevice"]
      /\ {"FRIDGE_TEMPERATURE_INSIDE_VALUE", "FRIDGE_REQUESTED_FRIDGE_TEMPERATURE"}
            \subseteq DOMAIN NewObject["Fridge"]
    BY DEF NewObject, NewLamp, NewWall, NewSimulatedDevice, NewFridge
<1>2. QED
    BY <1>1 DEF TurnOK, ObjectsOK, FieldOK

LEMMA BedOK ==
    ASSUME NEW t, NEW k, NEW m, Ready(t, k, "Bed", m)
    PROVE  TurnOK(BedHandleMessage(t, m), k, {}, {})
<1>1. /\ "Bed" \in Device /\ "Bed" \in DOMAIN k.objects /\ "Bed" \in k.about
      /\ Tracked("Bed") = {"BED_LED_ON"} /\ Sensed("Bed") = {} /\ Pushed("Bed") = {}
      /\ Commanded("Bed") = {"BED_LED_ON"} /\ "BED_LED_ON" \in DOMAIN NewObject["Bed"]
    BY DEF Ready, Device, Tracked, Sensed, Commanded, Pushed, NewObject, NewBed
<1>2. CASE m.command = "DEVICE_INFO"
    <2>1. TurnOK(UpdateWebsite(Learn(t, "Bed", {"BED_LED_ON", "BED_PRESSURE_SENSOR_VALUE"},
                                     m.value)), k, {}, {})
        BY <1>1, <1>2, AnswerOK DEF Free
    <2>2. QED
        BY <1>2, <2>1 DEF BedHandleMessage
<1>3. CASE m.command # "DEVICE_INFO"
    <2>1. TurnOK(t, k, {}, {})
        BY <1>1, <1>3, ReadyOK
    <2>2. ASSUME NEW on PROVE TurnOK(BedTurnLedOn(t, on), k, {}, {})
        BY <1>1, <2>1, PlainFields, PutOnOK DEF BedTurnLedOn
    <2>3. ASSUME NEW value
          PROVE  TurnOK(PutOnWebsite(t, "Bed", "BED_PRESSURE_SENSOR_VALUE", value), k, {}, {})
        BY <1>1, <2>1, PutOnWebsiteOK DEF FieldOK
    <2>4. TurnOK(NewStatus(t, "Bed", m.value), k, {}, {})
        BY <1>1, <2>1, NewStatusOK
    <2>5. QED
        BY <1>3, <2>1, <2>2, <2>3, <2>4 DEF BedHandleMessage, BedButtonWasPressed
<1>4. QED
    BY <1>2, <1>3

LEMMA ChairOK ==
    ASSUME NEW t, NEW k, NEW m, Ready(t, k, "Chair", m)
    PROVE  TurnOK(ChairHandleMessage(t, m), k, {}, {})
<1>1. /\ "Chair" \in Device /\ "Chair" \in DOMAIN k.objects /\ "Chair" \in k.about
      /\ Tracked("Chair") = {"CHAIR_LED_ON", "CHAIR_VIBRATOR_ON"}
      /\ Sensed("Chair") = {} /\ Pushed("Chair") = {}
      /\ Commanded("Chair") = {"CHAIR_LED_ON", "CHAIR_VIBRATOR_ON"}
      /\ {"CHAIR_LED_ON", "CHAIR_VIBRATOR_ON"} \subseteq DOMAIN NewObject["Chair"]
    BY DEF Ready, Device, Tracked, Sensed, Commanded, Pushed, NewObject, NewChair
<1>2. /\ \A x \in Int : x % 2^8 \in 0..255
      /\ m.command = "CHAIR_PRESSURE_SENSOR_VALUE" => m.value \in Int
      /\ m.command = "DEVICE_INFO" => m.value.CHAIR_PRESSURE_SENSOR_VALUE \in Int
    <2>1. \A x \in Int : x % 2^8 \in 0..255
        OBVIOUS
    <2>2. QED
        BY <2>1, PossibleValues, InputAssumption DEF ValueOK, Ready
<1>3. CASE m.command = "DEVICE_INFO"
    <2> DEFINE y == m.value.CHAIR_PRESSURE_SENSOR_VALUE % 2^8
               learnt == Learn(t, "Chair", {"CHAIR_LED_ON", "CHAIR_VIBRATOR_ON"}, m.value)
    <2>1. TurnOK(learnt, k, {}, {"CHAIR_LED_ON", "CHAIR_VIBRATOR_ON"})
        BY <1>1, <1>3, AnswerOK DEF Free
    <2>2. FieldOK("Chair", "CHAIR_PRESSURE_SENSOR_VALUE", y)
        BY <1>2, <1>3 DEF FieldOK
    <2> HIDE DEF y, learnt
    <2>3. TurnOK(Put(learnt, "Chair", "CHAIR_PRESSURE_SENSOR_VALUE", y), k, {},
                 {"CHAIR_LED_ON", "CHAIR_VIBRATOR_ON"})
        BY <1>1, <2>1, <2>2, PutOK DEF StoredAs
    <2>4. TurnOK(UpdateWebsite(ChairLearn(t, m.value)), k, {}, {})
        BY <2>3, UpdateOK DEF ChairLearn, y, learnt
    <2>5. QED
        BY <1>3, <2>4 DEF ChairHandleMessage
<1>4. CASE m.command # "DEVICE_INFO"
    <2>1. TurnOK(t, k, {}, {})
        BY <1>1, <1>4, ReadyOK
    <2>2. ASSUME NEW on PROVE TurnOK(ChairTurnVibratorOn(t, on), k, {}, {})
        BY <1>1, <2>1, PlainFields, PutOnOK DEF ChairTurnVibratorOn
    <2>3. ASSUME m.command = "CHAIR_PRESSURE_SENSOR_VALUE"
          PROVE  TurnOK(ChairNewPressureSensorValue(t, m.value), k, {}, {})
        <3> DEFINE y == m.value % 2^8
        <3>1. FieldOK("Chair", "CHAIR_PRESSURE_SENSOR_VALUE", y)
            BY <1>2, <2>3 DEF FieldOK
        <3> HIDE DEF y
        <3>2. TurnOK(PutOnWebsite(t, "Chair", "CHAIR_PRESSURE_SENSOR_VALUE", y), k, {}, {})
            BY <1>1, <2>1, <3>1, PutOnWebsiteOK
        <3>3. QED
            BY <3>2 DEF ChairNewPressureSensorValue, y
    <2>4. TurnOK(NewStatus(t, "Chair", m.value), k, {}, {})
        BY <1>1, <2>1, NewStatusOK
    <2>5. QED
        BY <1>4, <2>1, <2>2, <2>3, <2>4 DEF ChairHandleMessage, ChairButtonWasPressed
<1>5. QED
    BY <1>3, <1>4

LEMMA WIBOK ==
    ASSUME NEW t, NEW k, NEW m, Ready(t, k, "WIB", m)
    PROVE  TurnOK(WIBHandleMessage(t, m), k, {}, {})
<1>1. /\ "WIB" \in Device /\ "WIB" \in DOMAIN k.objects /\ "WIB" \in k.about
      /\ Tracked("WIB") = {} /\ Sensed("WIB") = {} /\ Pushed("WIB") = {} /\ Commanded("WIB") = {}
    BY DEF Ready, Device, Tracked, Sensed, Commanded, Pushed
<1>2. CASE m.command = "DEVICE_INFO"
    <2>1. TurnOK(UpdateWebsite(Learn(t, "WIB",
                    {"WIB_SWITCH_ON", "WIB_LED_ON", "WIB_DIMMER_VALUE"}, m.value)), k, {}, {})
        BY <1>1, <1>2, AnswerOK DEF Free
    <2>2. QED
        BY <1>2, <2>1 DEF WIBHandleMessage
<1>3. CASE m.command # "DEVICE_INFO"
    <2>1. TurnOK(t, k, {}, {})
        BY <1>1, <1>3, ReadyOK
    <2>2. ASSUME NEW u, TurnOK(u, k, {}, {}), NEW command, NEW value,
                 command \notin {"Status", "WEBSITE_UPDATE"}
          PROVE  TurnOK(ToWebsite(u, "WIB", command, value), k, {}, {})
        <3>1. TurnOK(ToWebsite(u, "WIB", command, value), k, {}, {} \ (Pushed("WIB") \cap {command}))
            BY <1>1, <2>2, ToWebsiteOK
        <3>2. QED
            BY <3>1
    <2>3. ASSUME NEW on PROVE TurnOK(WIBTurnLedOn(t, on), k, {}, {})
        <3>1. TurnOK(ToDevice(t, "WIB", "WIB_LED_ON", on), k, {}, {})
            BY <1>1, <2>1, ToDeviceOK, PossibleValues
        <3>2. QED
            BY <2>2, <3>1 DEF WIBTurnLedOn
    <2>4. TurnOK(NewStatus(t, "WIB", m.value), k, {}, {})
        BY <1>1, <2>1, NewStatusOK
    <2>5. QED
        BY <1>3, <2>1, <2>2, <2>3, <2>4 DEF WIBHandleMessage, WIBSwitchTurnedOn
<1>4. QED
    BY <1>2, <1>3

LEMMA SimulatedOK ==
    ASSUME NEW t, NEW k, NEW m, Ready(t, k, "SimulatedDevice", m)
    PROVE  TurnOK(SimulatedHandleMessage(t, m), k, {}, {})
<1> DEFINE d == "SimulatedDevice"
           x == t.object[d].activeLed
           leds == {Led[i] : i \in 1..3}
<1>1. /\ d \in Device /\ d \in DOMAIN k.objects /\ d \in k.about
      /\ Tracked(d) = leds /\ Sensed(d) = {} /\ Pushed(d) = leds /\ Commanded(d) = leds
      /\ leds \subseteq DOMAIN NewObject[d] /\ "activeLed" \notin leds
    BY LedNames DEF Ready, Device, Tracked, Sensed, Commanded, Pushed, NewObject,
       NewSimulatedDevice
<1>2. \A i \in 1..3 : Plain(d, Led[i]) /\ Free(Led[i]) /\ Led[i] \in leds
    BY PlainFields, LedNames DEF Plain
<1>0. /\ {Led[i] : i \in 1..3} = leds
      /\ leds \cap {"DEVICE_INFO", "SIMULATED_BUTTON1_PRESSED", "SIMULATED_BUTTON2_PRESSED",
                   "SIMULATED_DIMMER_VALUE", "HEARTBEAT"} = {}
    BY LedNames
<1> HIDE DEF leds
<1>3. CASE m.command = "DEVICE_INFO"
    <2>1. \A f \in leds : Free(f)
        BY <1>2 DEF leds
    <2>2. TurnOK(UpdateWebsite(Learn(t, d, leds, m.value)), k, {}, {})
        BY <1>1, <1>3, <2>1, AnswerOK
    <2>3. QED
        BY <1>0, <1>3, <2>2 DEF SimulatedHandleMessage
<1>4. CASE m.command \in leds
    <2>1. Plain(d, m.command) /\ m.command # "DEVICE_INFO"
        BY <1>2, <1>4 DEF leds, Plain
    <2>2. TurnOK(t, k, {}, Pushed(d) \cap {m.command})
        BY <1>1, <2>1, ReadyOK
    <2>3. TurnOK(PutOnBoth(t, d, m.command, m.value), k, {}, {})
        BY <1>1, <1>4, <2>1, <2>2, PutOnOK
    <2>4. QED
        BY <1>0, <1>4, <2>3 DEF SimulatedHandleMessage
<1>5. CASE m.command # "DEVICE_INFO" /\ m.command \notin leds
    <2>1. TurnOK(t, k, {}, {})
        BY <1>1, <1>5, ReadyOK
    <2>2. x \in 1..3
        BY <1>1, <2>1, ObjectNumbers
    <2>3. (x % 3) + 1 \in 1..3 /\ ((x + 1) % 3) + 1 \in 1..3
        BY <2>2
    <2>4. ASSUME NEW y \in 1..3 PROVE TurnOK(Put(t, d, "activeLed", y), k, {}, {})
        <3>1. FieldOK(d, "activeLed", y)
            BY <2>4 DEF FieldOK
        <3>2. QED
            BY <1>1, <2>1, <3>1, PutOK DEF StoredAs
    <2>5. TurnOK(NextLed(t), k, {}, {}) /\ TurnOK(PreviousLed(t), k, {}, {})
        BY <2>3, <2>4 DEF NextLed, PreviousLed
    <2>6. TurnOK(PutOnBoth(t, d, Led[x], m.value), k, {}, {})
        BY <1>1, <1>2, <2>1, <2>2, PutOnOK
    <2>7. TurnOK(NewStatus(t, d, m.value), k, {}, {})
        BY <1>1, <2>1, NewStatusOK
    <2>8. QED
        BY <1>5, <2>1, <2>5, <2>6, <2>7 DEF SimulatedHandleMessage, leds
<1>6. QED
    BY <1>3, <1>4, <1>5

(* What a setter sends, and what it leaves alone.                          *)
LEMMA PutOnDeviceValue ==
    ASSUME NEW t, NEW k, NEW S, NEW P, TurnOK(t, k, S, P), NEW d \in Device,
           d \in DOMAIN k.objects, NEW field, field \in DOMAIN NewObject[d], NEW value
    PROVE  LET u == PutOnDevice(t, d, field, value)
               m == [to |-> d, type |-> d, command |-> field, value |-> value]
           IN  /\ u.object[d][field] = value
               /\ \A f \in DOMAIN NewObject[d] : f # field => u.object[d][f] = t.object[d][f]
               /\ SentTo(d, u.sent) = Append(SentTo(d, t.sent), m)
<1> DEFINE u == Put(t, d, field, value)
           m == [to |-> d, type |-> d, command |-> field, value |-> value]
           x == t.object
           y == [x EXCEPT ![d] = [x[d] EXCEPT ![field] = value]]
<1>1. u = [object |-> y, sent |-> t.sent]
    BY DEF Put, TurnOK
<1>2. PutOnDevice(t, d, field, value) = [u EXCEPT !.sent = Append(@, m)]
    BY DEF PutOnDevice, ToDevice, Send
<1>3. /\ u.object = y
      /\ PutOnDevice(t, d, field, value).object = y
      /\ PutOnDevice(t, d, field, value).sent = Append(t.sent, m)
    <2> HIDE DEF u, y, m
    <2>1. QED
        BY <1>1, <1>2
<1>4. /\ y[d][field] = value
      /\ \A f \in DOMAIN NewObject[d] : f # field => y[d][f] = x[d][f]
    <2> HIDE DEF y
    <2>1. QED
        BY <1>3, PutValue DEF x
<1>5. m.to = d
    OBVIOUS
<1> HIDE DEF m
<1>6. SentTo(d, Append(t.sent, m)) = Append(SentTo(d, t.sent), m)
    BY <1>5, SentToAppend DEF TurnOK
<1>7. QED
    BY <1>3, <1>4, <1>6 DEF m

(* What is sent to the website changes no object and reaches no device.    *)
LEMMA WebsiteAside ==
    ASSUME NEW t, NEW k, NEW S, NEW P, TurnOK(t, k, S, P), NEW d \in Device
    PROVE  /\ \A e, command, value :
                /\ ToWebsite(t, e, command, value).object = t.object
                /\ SentTo(d, ToWebsite(t, e, command, value).sent) = SentTo(d, t.sent)
           /\ UpdateWebsite(t).object = t.object
           /\ SentTo(d, UpdateWebsite(t).sent) = SentTo(d, t.sent)
<1>1. Sequence(t.sent) /\ t = [object |-> t.object, sent |-> t.sent] /\ d # "Website"
    BY DEF TurnOK, Device
<1>2. ASSUME NEW e, NEW command, NEW value
      PROVE  LET u == Send(t, "Website", e, command, value)
             IN  u.object = t.object /\ SentTo(d, u.sent) = SentTo(d, t.sent)
    <2> DEFINE u == Send(t, "Website", e, command, value)
               m == [to |-> "Website", type |-> e, command |-> command, value |-> value]
    <2>1. u.object = t.object /\ u.sent = Append(t.sent, m) /\ m.to = "Website"
        BY <1>1 DEF Send
    <2> HIDE DEF u, m
    <2>2. SentTo(d, u.sent) = SentTo(d, t.sent)
        BY <1>1, <2>1, SentToAppend
    <2>3. QED
        BY <2>1, <2>2 DEF u
<1>3. QED
    BY <1>2 DEF ToWebsite, UpdateWebsite, Update

(* How many degrees the fridge is too warm.                                *)
Over(fridge) ==
    fridge.FRIDGE_TEMPERATURE_INSIDE_VALUE - fridge.FRIDGE_REQUESTED_FRIDGE_TEMPERATURE

(* A fridge that is too warm or too cold has been told in this turn to do  *)
(* what its object has it doing.                                           *)
Cooled(t) ==
    Over(t.object["Fridge"]) # 0 =>
        \A f \in {"FRIDGE_COOLER_ON", "FRIDGE_FAN_ON"} :
            /\ t.object["Fridge"][f] = (Over(t.object["Fridge"]) >= 1)
            /\ \E i \in 1..Len(SentTo("Fridge", t.sent)) :
                SentTo("Fridge", t.sent)[i].command = f

(* Or nothing about its temperatures has happened.                         *)
Cooling(t, o) ==
    \/ Cooled(t)
    \/ /\ Over(t.object["Fridge"]) = Over(o["Fridge"])
       /\ SentTo("Fridge", t.sent) = <<>>

LEMMA UpdateCoolingOK ==
    ASSUME NEW t, NEW k, NEW S, NEW P, TurnOK(t, k, S, P),
           "Fridge" \in DOMAIN k.objects, "Fridge" \in k.about
    PROVE  LET u == UpdateCoolingState(t)
           IN  /\ TurnOK(u, k, S, P) /\ Cooled(u)
               /\ u.object["Fridge"].FRIDGE_TEMPERATURE_INSIDE_VALUE =
                    t.object["Fridge"].FRIDGE_TEMPERATURE_INSIDE_VALUE
<1>1. /\ "Fridge" \in Device
      /\ {"FRIDGE_COOLER_ON", "FRIDGE_FAN_ON"} \cap Pushed("Fridge") = {}
      /\ {"FRIDGE_COOLER_ON", "FRIDGE_FAN_ON", "FRIDGE_TEMPERATURE_INSIDE_VALUE",
          "FRIDGE_REQUESTED_FRIDGE_TEMPERATURE"} \subseteq DOMAIN NewObject["Fridge"]
    BY DEF Device, Pushed, NewObject, NewFridge
<1> DEFINE over == t.object["Fridge"].FRIDGE_TEMPERATURE_INSIDE_VALUE
                    - t.object["Fridge"].FRIDGE_REQUESTED_FRIDGE_TEMPERATURE
<1>2. /\ t.object["Fridge"].FRIDGE_TEMPERATURE_INSIDE_VALUE \in Int
      /\ t.object["Fridge"].FRIDGE_REQUESTED_FRIDGE_TEMPERATURE \in Int
      /\ over \in Int /\ over = Over(t.object["Fridge"])
    BY ObjectNumbers DEF Over
<1>3. ASSUME NEW on
      PROVE  LET u == TurnFanOn(TurnCoolerOn(t, on), on)
             IN  /\ TurnOK(u, k, S, P)
                 /\ \A f \in {"FRIDGE_COOLER_ON", "FRIDGE_FAN_ON"} :
                        /\ u.object["Fridge"][f] = on
                        /\ \E i \in 1..Len(SentTo("Fridge", u.sent)) :
                            SentTo("Fridge", u.sent)[i].command = f
                 /\ u.object["Fridge"].FRIDGE_TEMPERATURE_INSIDE_VALUE =
                        t.object["Fridge"].FRIDGE_TEMPERATURE_INSIDE_VALUE
                 /\ u.object["Fridge"].FRIDGE_REQUESTED_FRIDGE_TEMPERATURE =
                        t.object["Fridge"].FRIDGE_REQUESTED_FRIDGE_TEMPERATURE
    <2> DEFINE v == TurnCoolerOn(t, on)
               u == TurnFanOn(v, on)
               cooler == [to |-> "Fridge", type |-> "Fridge", command |-> "FRIDGE_COOLER_ON",
                          value |-> on]
               fan == [to |-> "Fridge", type |-> "Fridge", command |-> "FRIDGE_FAN_ON",
                       value |-> on]
               s == SentTo("Fridge", t.sent)
    <2>1. TurnOK(v, k, S, P)
        BY <1>1, PlainFields, PutOnOK DEF TurnCoolerOn
    <2>2. /\ v.object["Fridge"].FRIDGE_COOLER_ON = on
          /\ \A f \in DOMAIN NewObject["Fridge"] : f # "FRIDGE_COOLER_ON" =>
                v.object["Fridge"][f] = t.object["Fridge"][f]
          /\ SentTo("Fridge", v.sent) = Append(s, cooler)
        BY <1>1, PutOnDeviceValue DEF TurnCoolerOn
    <2> HIDE DEF v
    <2>3. TurnOK(u, k, S, P)
        BY <1>1, <2>1, PlainFields, PutOnOK DEF TurnFanOn
    <2>4. /\ u.object["Fridge"].FRIDGE_FAN_ON = on
          /\ \A f \in DOMAIN NewObject["Fridge"] : f # "FRIDGE_FAN_ON" =>
                u.object["Fridge"][f] = v.object["Fridge"][f]
          /\ SentTo("Fridge", u.sent) = Append(SentTo("Fridge", v.sent), fan)
        BY <1>1, <2>1, PutOnDeviceValue DEF TurnFanOn
    <2> HIDE DEF u
    <2>5. Sequence(s) /\ cooler.command = "FRIDGE_COOLER_ON" /\ fan.command = "FRIDGE_FAN_ON"
        BY SentToOK DEF TurnOK
    <2> HIDE DEF s, cooler, fan
    <2> DEFINE a == Append(s, cooler)
               b == Append(a, fan)
    <2>6. Sequence(a) /\ Len(s) \in Nat /\ Len(a) = Len(s) + 1 /\ a[Len(s)+1] = cooler
        BY <2>5, SequenceAppend
    <2> HIDE DEF a
    <2>7. /\ Len(b) = Len(a) + 1 /\ b[Len(a)+1] = fan
          /\ \A i \in 1..Len(a) : b[i] = a[i]
        BY <2>6, SequenceAppend
    <2>8. SentTo("Fridge", u.sent) = b
        BY <2>2, <2>4 DEF a
    <2> HIDE DEF b
    <2>9. /\ Len(a) \in 1..Len(b) /\ b[Len(a)].command = "FRIDGE_COOLER_ON"
          /\ Len(b) \in 1..Len(b) /\ b[Len(b)].command = "FRIDGE_FAN_ON"
        BY <2>5, <2>6, <2>7
    <2>10. u.object["Fridge"].FRIDGE_COOLER_ON = on
        BY <1>1, <2>2, <2>4
    <2>11. QED
        BY <1>1, <2>2, <2>3, <2>4, <2>8, <2>9, <2>10 DEF u, v
<1>4. CASE over >= 1
    <2> DEFINE u == TurnFanOn(TurnCoolerOn(t, TRUE), TRUE)
    <2>0. over >= 1 /\ ~(over <= -1)
        BY <1>2, <1>4
    <2>1. UpdateCoolingState(t) = u
        BY <2>0, Zenon DEF UpdateCoolingState
    <2>2. /\ TurnOK(u, k, S, P)
          /\ \A f \in {"FRIDGE_COOLER_ON", "FRIDGE_FAN_ON"} :
                /\ u.object["Fridge"][f] = TRUE
                /\ \E i \in 1..Len(SentTo("Fridge", u.sent)) :
                    SentTo("Fridge", u.sent)[i].command = f
          /\ u.object["Fridge"].FRIDGE_TEMPERATURE_INSIDE_VALUE =
                t.object["Fridge"].FRIDGE_TEMPERATURE_INSIDE_VALUE
          /\ u.object["Fridge"].FRIDGE_REQUESTED_FRIDGE_TEMPERATURE =
                t.object["Fridge"].FRIDGE_REQUESTED_FRIDGE_TEMPERATURE
        BY <1>3
    <2> HIDE DEF u
    <2>3. Over(u.object["Fridge"]) = over
        BY <1>2, <2>2 DEF Over
    <2> HIDE DEF over
    <2>4. (over >= 1) = TRUE
        BY <1>2, <1>4
    <2>5. Cooled(u)
        BY <2>2, <2>3, <2>4, Zenon DEF Cooled
    <2>6. QED
        BY <2>1, <2>2, <2>5
<1>5. CASE over <= -1
    <2> DEFINE u == TurnFanOn(TurnCoolerOn(t, FALSE), FALSE)
    <2>0. ~(over >= 1) /\ over <= -1
        BY <1>2, <1>5
    <2>1. UpdateCoolingState(t) = u
        BY <2>0, Zenon DEF UpdateCoolingState
    <2>2. /\ TurnOK(u, k, S, P)
          /\ \A f \in {"FRIDGE_COOLER_ON", "FRIDGE_FAN_ON"} :
                /\ u.object["Fridge"][f] = FALSE
                /\ \E i \in 1..Len(SentTo("Fridge", u.sent)) :
                    SentTo("Fridge", u.sent)[i].command = f
          /\ u.object["Fridge"].FRIDGE_TEMPERATURE_INSIDE_VALUE =
                t.object["Fridge"].FRIDGE_TEMPERATURE_INSIDE_VALUE
          /\ u.object["Fridge"].FRIDGE_REQUESTED_FRIDGE_TEMPERATURE =
                t.object["Fridge"].FRIDGE_REQUESTED_FRIDGE_TEMPERATURE
        BY <1>3
    <2> HIDE DEF u
    <2>3. Over(u.object["Fridge"]) = over
        BY <1>2, <2>2 DEF Over
    <2> HIDE DEF over
    <2>4. (over >= 1) = FALSE
        BY <1>2, <1>5
    <2>5. Cooled(u)
        BY <2>2, <2>3, <2>4, Zenon DEF Cooled
    <2>6. QED
        BY <2>1, <2>2, <2>5
<1>6. CASE over = 0
    <2>1. ~(over >= 1) /\ ~(over <= -1)
        BY <1>2, <1>6
    <2>2. UpdateCoolingState(t) = t
        BY <2>1, Zenon DEF UpdateCoolingState
    <2>3. Cooled(t)
        BY <1>2, <1>6 DEF Cooled
    <2>4. QED
        BY <2>2, <2>3
<1>7. QED
    BY <1>2, <1>4, <1>5, <1>6

LEMMA FridgeOK ==
    ASSUME NEW t, NEW k, NEW m, Ready(t, k, "Fridge", m)
    PROVE  /\ TurnOK(FridgeHandleMessage(t, m), k, {}, {})
           /\ Cooling(FridgeHandleMessage(t, m), k.objects)
           /\ m.command = "DEVICE_INFO" => Cooled(FridgeHandleMessage(t, m))
<1>1. /\ "Fridge" \in Device /\ "Fridge" \in DOMAIN k.objects /\ "Fridge" \in k.about
      /\ t.object = k.objects /\ SentTo("Fridge", t.sent) = <<>>
      /\ Sensed("Fridge") = {"FRIDGE_DOOR_CLOSED"} /\ Pushed("Fridge") = Derived
      /\ Commanded("Fridge") = {"FRIDGE_FAN_ON", "FRIDGE_COOLER_ON"}
      /\ {"FRIDGE_TEMPERATURE_INSIDE_VALUE", "FRIDGE_DOOR_OPEN_COUNTER",
          "FRIDGE_REQUESTED_FRIDGE_TEMPERATURE", "FRIDGE_DOOR_CLOSED", "Status"}
            \subseteq DOMAIN NewObject["Fridge"]
      /\ Derived = {"FRIDGE_TEMPERATURE_INSIDE_VALUE", "FRIDGE_DOOR_OPEN_COUNTER"}
      /\ m.command \notin Derived
    BY SentToNone DEF Ready, ValueOK, Device, Sensed, Commanded, Pushed, NewObject, NewFridge,
       Derived
<1>2. ASSUME NEW u, NEW P, TurnOK(u, k, {}, P), NEW raw \in DOMAIN Celsius
      PROVE  LET v == NewRawTemperatureInside(u, raw) IN TurnOK(v, k, {}, P) /\ Cooled(v)
    <2> DEFINE degrees == Celsius[raw]
               f == "FRIDGE_TEMPERATURE_INSIDE_VALUE"
               v == Put(u, "Fridge", f, degrees)
               w == UpdateCoolingState(v)
               x == ToWebsite(w, "Fridge", f, degrees)
               Q == P \cup {f}
    <2>1. FieldOK("Fridge", f, degrees)
        BY <1>2, CelsiusValues DEF FieldOK
    <2>2. TurnOK(v, k, {}, Q)
        BY <1>1, <1>2, <2>1, PutOK DEF StoredAs
    <2>3. v.object["Fridge"][f] = degrees
        BY <1>1, <1>2, PutValue
    <2> HIDE DEF v, degrees, Q
    <2>4. TurnOK(w, k, {}, Q) /\ Cooled(w) /\ w.object["Fridge"][f] = degrees
        BY <1>1, <2>2, <2>3, UpdateCoolingOK
    <2> HIDE DEF w
    <2>5. TurnOK(x, k, {}, Q \ (Pushed("Fridge") \cap {f}))
        BY <1>1, <2>4, ToWebsiteOK
    <2>6. Cooled(x)
        BY <1>1, <2>4, WebsiteAside DEF Cooled
    <2>7. Q \ (Pushed("Fridge") \cap {f}) \subseteq P
        BY <1>1 DEF Q
    <2> HIDE DEF x
    <2>8. TurnOK(x, k, {}, P)
        BY <2>5, <2>7, TurnWeaken
    <2>9. NewRawTemperatureInside(u, raw) = x
        BY DEF NewRawTemperatureInside, x, w, v, degrees
    <2>10. QED
        BY <2>6, <2>8, <2>9
<1>3. /\ m.command = "FRIDGE_RAW_TEMPERATURE_SENSOR_INSIDE_VALUE" => m.value \in DOMAIN Celsius
      /\ m.command = "FRIDGE_REQUESTED_FRIDGE_TEMPERATURE" => m.value \in Int
      /\ m.command = "DEVICE_INFO" =>
            m.value.FRIDGE_RAW_TEMPERATURE_SENSOR_INSIDE_VALUE \in DOMAIN Celsius
    BY PossibleValues, InputAssumption DEF ValueOK, Ready
<1>4. CASE m.command = "DEVICE_INFO"
    <2> DEFINE fields == {"FRIDGE_DOOR_CLOSED", "FRIDGE_FAN_ON", "FRIDGE_COOLER_ON"}
               learnt == Learn(t, "Fridge", fields, m.value)
               raw == m.value.FRIDGE_RAW_TEMPERATURE_SENSOR_INSIDE_VALUE
               u == NewRawTemperatureInside(learnt, raw)
    <2>0. /\ \A f \in fields : Free(f)
          /\ Sensed("Fridge") \cup Commanded("Fridge") \subseteq fields
        BY <1>1 DEF Free
    <2> HIDE DEF fields
    <2>1. TurnOK(learnt, k, {}, fields)
        BY <1>4, <2>0, AnswerOK
    <2> HIDE DEF learnt
    <2>2. TurnOK(u, k, {}, fields) /\ Cooled(u)
        BY <1>2, <1>3, <1>4, <2>1
    <2> HIDE DEF u
    <2>3. TurnOK(UpdateWebsite(u), k, {}, {})
        BY <2>2, UpdateOK
    <2>4. Cooled(UpdateWebsite(u))
        BY <1>1, <2>2, WebsiteAside DEF Cooled
    <2>5. FridgeHandleMessage(t, m) = UpdateWebsite(u)
        BY <1>4 DEF FridgeHandleMessage, u, learnt, fields
    <2>6. QED
        BY <2>3, <2>4, <2>5 DEF Cooling
<1>5. CASE m.command = "FRIDGE_DOOR_CLOSED"
    <2> DEFINE set == Put(t, "Fridge", "FRIDGE_DOOR_CLOSED", m.value)
               count == t.object["Fridge"].FRIDGE_DOOR_OPEN_COUNTER + 1
               u == Put(set, "Fridge", "FRIDGE_DOOR_OPEN_COUNTER", count)
    <2>0. "FRIDGE_DOOR_CLOSED" \in Sensed("Fridge")
            /\ Pushed("Fridge") \cap {"FRIDGE_DOOR_CLOSED"} = {}
        BY <1>1
    <2>1. TurnOK(t, k, {"FRIDGE_DOOR_CLOSED"}, {})
        <3>1. m.command \in Sensed("Fridge")
            BY <1>5, <2>0
        <3>2. TurnOK(t, k, {m.command}, Pushed("Fridge") \cap {m.command})
            BY <3>1, ReadyOK
        <3>3. QED
            BY <1>5, <2>0, <3>2
    <2>2. /\ k.base["Fridge"].FRIDGE_DOOR_CLOSED = m.value
          /\ FieldOK("Fridge", "FRIDGE_DOOR_CLOSED", m.value)
          /\ FieldOK("Fridge", "FRIDGE_DOOR_OPEN_COUNTER", count)
        BY <1>1, <1>5 DEF Ready, FieldOK
    <2>3. TurnOK(set, k, {}, {})
        <3>1. TurnOK(set, k, {}, {} \cup (Pushed("Fridge") \cap {"FRIDGE_DOOR_CLOSED"}))
            BY <1>1, <2>0, <2>1, <2>2, PutSensedOK
        <3>2. {} \cup (Pushed("Fridge") \cap {"FRIDGE_DOOR_CLOSED"}) = {}
            BY <2>0
        <3>3. QED
            BY <3>1, <3>2
    <2>4. /\ Over(set.object["Fridge"]) = Over(k.objects["Fridge"])
          /\ SentTo("Fridge", set.sent) = <<>>
        BY <1>1, <2>1, PutValue DEF Over
    <2> HIDE DEF set, count
    <2>5. TurnOK(PutOnWebsite(set, "Fridge", "FRIDGE_DOOR_OPEN_COUNTER", count), k, {}, {})
        BY <1>1, <2>2, <2>3, PutOnWebsiteOK
    <2>6. TurnOK(u, k, {}, {"FRIDGE_DOOR_OPEN_COUNTER"})
        BY <1>1, <2>2, <2>3, PutOK DEF StoredAs
    <2>7. /\ Over(u.object["Fridge"]) = Over(k.objects["Fridge"])
          /\ SentTo("Fridge", u.sent) = <<>>
        BY <1>1, <2>3, <2>4, PutValue DEF Over
    <2> HIDE DEF u
    <2>8. Cooling(ToWebsite(u, "Fridge", "FRIDGE_DOOR_OPEN_COUNTER", count), k.objects)
        BY <1>1, <2>6, <2>7, WebsiteAside DEF Cooling
    <2>9. FridgeHandleMessage(t, m) = DoorWasClosed(t, m.value)
        BY <1>5 DEF FridgeHandleMessage
    <2>10. CASE m.value
        BY <1>5, <2>3, <2>4, <2>9, <2>10 DEF DoorWasClosed, set, Cooling
    <2>11. CASE ~m.value
        BY <1>5, <2>5, <2>8, <2>9, <2>11 DEF DoorWasClosed, set, u, count, PutOnWebsite
    <2>12. QED
        BY <2>10, <2>11
<1>6. CASE m.command \notin {"DEVICE_INFO", "FRIDGE_DOOR_CLOSED"}
    <2>1. TurnOK(t, k, {}, {})
        <3>1. TurnOK(t, k, {}, Pushed("Fridge") \cap {m.command})
            BY <1>1, <1>6, ReadyOK
        <3>2. Pushed("Fridge") \cap {m.command} = {}
            BY <1>1
        <3>3. QED
            BY <3>1, <3>2
    <2>2. Cooling(t, k.objects)
        BY <1>1 DEF Cooling
    <2>3. CASE m.command = "FRIDGE_RAW_TEMPERATURE_SENSOR_INSIDE_VALUE"
        BY <1>2, <1>3, <2>1, <2>3 DEF FridgeHandleMessage, Cooling
    <2>4. CASE m.command = "FRIDGE_REQUESTED_FRIDGE_TEMPERATURE"
        <3> DEFINE u == Put(t, "Fridge", "FRIDGE_REQUESTED_FRIDGE_TEMPERATURE", m.value)
        <3>1. FieldOK("Fridge", "FRIDGE_REQUESTED_FRIDGE_TEMPERATURE", m.value)
            BY <1>3, <2>4 DEF FieldOK
        <3>2. TurnOK(u, k, {}, {})
            BY <1>1, <2>1, <3>1, PutOK DEF StoredAs
        <3> HIDE DEF u
        <3>3. TurnOK(UpdateCoolingState(u), k, {}, {}) /\ Cooled(UpdateCoolingState(u))
            BY <1>1, <3>2, UpdateCoolingOK
        <3>4. QED
            BY <2>4, <3>3 DEF FridgeHandleMessage, NewRequestedFridgeTemperature, Cooling, u
    <2>5. CASE m.command = "HEARTBEAT"
        <3> DEFINE u == Put(t, "Fridge", "Status", m.value)
        <3>1. TurnOK(NewStatus(t, "Fridge", m.value), k, {}, {})
            BY <1>1, <2>1, NewStatusOK
        <3>2. TurnOK(u, k, {}, {})
            BY <1>1, <2>1, PutFreeOK DEF Free, Tracked
        <3>3. /\ Over(u.object["Fridge"]) = Over(k.objects["Fridge"])
              /\ SentTo("Fridge", u.sent) = <<>>
            BY <1>1, <2>1, PutValue DEF Over
        <3> HIDE DEF u
        <3>4. Cooling(UpdateWebsite(u), k.objects)
            BY <1>1, <3>2, <3>3, WebsiteAside DEF Cooling
        <3>5. QED
            BY <2>5, <3>1, <3>4 DEF FridgeHandleMessage, NewStatus, u
    <2>6. CASE m.command \notin {"FRIDGE_RAW_TEMPERATURE_SENSOR_INSIDE_VALUE",
                                 "FRIDGE_REQUESTED_FRIDGE_TEMPERATURE", "HEARTBEAT"}
        BY <1>6, <2>1, <2>2, <2>6 DEF FridgeHandleMessage
    <2>7. QED
        BY <2>3, <2>4, <2>5, <2>6
<1>7. QED
    BY <1>4, <1>5, <1>6

LEMMA LampOnOK ==
    ASSUME NEW t, NEW k, NEW S, NEW P, TurnOK(t, k, S, P),
           "Lamp" \in DOMAIN k.objects, "Lamp" \in k.about, NEW on, NEW level
    PROVE  /\ TurnOK(LampTurnLedOn(t, on), k, S \ {"LAMP_LED_VALUE"},
                     P \ {"LAMP_LED_VALUE", "LAMP_LED_ON"})
           /\ level \in Nat =>
                TurnOK(LampDimLed(t, level), k, S \ {"LAMP_LED_VALUE"},
                       P \ {"LAMP_LED_VALUE", "LAMP_LED_ON"})
<1>1. /\ "Lamp" \in Device
      /\ Sensed("Lamp") = {"LAMP_MOVEMENT_DETECTED"} /\ Commanded("Lamp") = {"LAMP_LED_VALUE"}
      /\ Pushed("Lamp") = {"LAMP_LED_ON", "LAMP_LED_VALUE"}
      /\ {"LAMP_LED_ON", "LAMP_LED_VALUE"} \subseteq DOMAIN NewObject["Lamp"]
    BY DEF Device, Sensed, Commanded, Pushed, NewObject, NewLamp
<1>2. ASSUME NEW u, NEW Q, NEW T, TurnOK(u, k, T, Q), NEW x
      PROVE  TurnOK(LampTurnLedOn(u, x), k, T \ {"LAMP_LED_VALUE"},
                    Q \ {"LAMP_LED_VALUE", "LAMP_LED_ON"})
    <2> DEFINE stored == u.object["Lamp"].LAMP_LED_VALUE
               shine == IF x THEN stored ELSE 0
               v == Put(u, "Lamp", "LAMP_LED_ON", x)
               w == ToDevice(v, "Lamp", "LAMP_LED_VALUE", shine)
               y == ToWebsite(w, "Lamp", "LAMP_LED_VALUE", stored)
               z == ToWebsite(y, "Lamp", "LAMP_LED_ON", x)
               T2 == T \cup {"LAMP_LED_VALUE"}
               Q2 == Q \cup {"LAMP_LED_ON"}
               T3 == T2 \ (Commanded("Lamp") \cap {"LAMP_LED_VALUE"})
               Q3 == Q2 \ (Pushed("Lamp") \cap {"LAMP_LED_VALUE"})
               Q4 == Q3 \ (Pushed("Lamp") \cap {"LAMP_LED_ON"})
    <2>1. TurnOK(v, k, T2, Q2)
        <3>1. FieldOK("Lamp", "LAMP_LED_ON", x) /\ StoredAs("LAMP_LED_ON") = "LAMP_LED_VALUE"
            BY DEF FieldOK, StoredAs
        <3>2. QED
            BY <1>1, <1>2, <3>1, PutOK
    <2>2. v.object["Lamp"].LAMP_LED_ON = x /\ v.object["Lamp"].LAMP_LED_VALUE = stored
        BY <1>1, <1>2, PutValue
    <2>3. stored \in Nat
        BY <1>2, ObjectNumbers
    <2> HIDE DEF v, stored, T2, Q2
    <2>4. Believed(v.object, "Lamp", "LAMP_LED_VALUE") = shine /\ shine \in Nat
        BY <2>2, <2>3 DEF Believed
    <2> HIDE DEF shine
    <2>5. TurnOK(w, k, T3, Q2)
        BY <1>1, <2>1, <2>4, ToDeviceOK, PossibleValues
    <2>6. w.object = v.object
        BY <2>1 DEF ToDevice, Send, TurnOK
    <2> HIDE DEF w, T3
    <2>7. TurnOK(y, k, T3, Q3) /\ y.object = w.object
        BY <1>1, <2>2, <2>5, <2>6, ToWebsiteOK, WebsiteAside
    <2> HIDE DEF y, Q3
    <2>8. TurnOK(z, k, T3, Q4)
        BY <1>1, <2>2, <2>6, <2>7, ToWebsiteOK
    <2>9. /\ T3 \subseteq T \ {"LAMP_LED_VALUE"}
          /\ Q4 \subseteq Q \ {"LAMP_LED_VALUE", "LAMP_LED_ON"}
        BY <1>1 DEF T2, T3, Q2, Q3
    <2> HIDE DEF z, Q4
    <2>10. TurnOK(z, k, T \ {"LAMP_LED_VALUE"}, Q \ {"LAMP_LED_VALUE", "LAMP_LED_ON"})
        BY <2>8, <2>9, TurnWeaken
    <2>11. LampTurnLedOn(u, x) = z
        BY DEF LampTurnLedOn, z, y, w, v, shine, stored
    <2>12. QED
        BY <2>10, <2>11
<1>3. ASSUME level \in Nat
      PROVE  TurnOK(LampDimLed(t, level), k, S \ {"LAMP_LED_VALUE"},
                    P \ {"LAMP_LED_VALUE", "LAMP_LED_ON"})
    <2> DEFINE u == Put(t, "Lamp", "LAMP_LED_VALUE", level)
               T == S \cup {"LAMP_LED_VALUE"}
               Q == P \cup {"LAMP_LED_VALUE"}
    <2>1. TurnOK(u, k, T, Q)
        <3>1. FieldOK("Lamp", "LAMP_LED_VALUE", level)
                /\ StoredAs("LAMP_LED_VALUE") = "LAMP_LED_VALUE"
            BY <1>3 DEF FieldOK, StoredAs
        <3>2. QED
            BY <1>1, <3>1, PutOK
    <2>2. /\ T \ {"LAMP_LED_VALUE"} = S \ {"LAMP_LED_VALUE"}
          /\ Q \ {"LAMP_LED_VALUE", "LAMP_LED_ON"} = P \ {"LAMP_LED_VALUE", "LAMP_LED_ON"}
        OBVIOUS
    <2> HIDE DEF u, T, Q
    <2>3. TurnOK(LampTurnLedOn(u, t.object["Lamp"].LAMP_LED_ON), k, T \ {"LAMP_LED_VALUE"},
                 Q \ {"LAMP_LED_VALUE", "LAMP_LED_ON"})
        BY <1>2, <2>1
    <2>4. QED
        BY <2>2, <2>3 DEF LampDimLed, u
<1>4. QED
    BY <1>2, <1>3

LEMMA LampToldOK ==
    ASSUME NEW t, NEW k, NEW P, P \subseteq {"LAMP_LED_VALUE", "LAMP_LED_ON"},
           TurnOK(t, k, {}, P),
           "Lamp" \in DOMAIN k.objects, "Lamp" \in k.about, NEW on, NEW level
    PROVE  /\ TurnOK(LampTurnLedOn(t, on), k, {}, {})
           /\ level \in Nat => TurnOK(LampDimLed(t, level), k, {}, {})
<1> DEFINE S2 == {} \ {"LAMP_LED_VALUE"}
           P2 == P \ {"LAMP_LED_VALUE", "LAMP_LED_ON"}
<1>1. S2 = {} /\ P2 = {}
    OBVIOUS
<1>2. /\ TurnOK(LampTurnLedOn(t, on), k, S2, P2)
      /\ level \in Nat => TurnOK(LampDimLed(t, level), k, S2, P2)
    BY LampOnOK
<1> HIDE DEF S2, P2
<1>3. QED
    BY <1>1, <1>2

LEMMA LampOK ==
    ASSUME NEW t, NEW k, NEW m, Ready(t, k, "Lamp", m)
    PROVE  TurnOK(LampHandleMessage(t, m), k, {}, {})
<1>1. /\ "Lamp" \in Device /\ "Lamp" \in DOMAIN k.objects /\ "Lamp" \in k.about
      /\ t.sent = <<>> /\ SentTo("Lamp", <<>>) = <<>>
      /\ Sensed("Lamp") = {"LAMP_MOVEMENT_DETECTED"} /\ Commanded("Lamp") = {"LAMP_LED_VALUE"}
      /\ Pushed("Lamp") = {"LAMP_LED_ON", "LAMP_LED_VALUE"}
      /\ {"LAMP_LED_ON", "LAMP_LED_VALUE"} \subseteq DOMAIN NewObject["Lamp"]
    BY SentToNone DEF Ready, Device, Sensed, Commanded, Pushed, NewObject, NewLamp
<1>2. /\ m.command = "LAMP_LED_VALUE" => m.value \in Nat
      /\ m.command = "DEVICE_INFO" => m.value.LAMP_LED_VALUE \in Nat
    <2>1. "LAMP_LED_VALUE" \in DOMAIN PowerOn["Lamp"]
        BY <1>1, InputAssumption
    <2>2. QED
        BY <2>1, PossibleValues DEF Ready, ValueOK
<1>3. CASE m.command = "DEVICE_INFO"
    <2> DEFINE info == m.value
               fields == {"LAMP_MOVEMENT_DETECTED", "LAMP_LED_VALUE"}
               learnt == Learn(t, "Lamp", fields, info)
               on == info.LAMP_LED_VALUE > 0
               u == Put(learnt, "Lamp", "LAMP_LED_ON", on)
               Q == fields \cup {"LAMP_LED_ON"}
    <2>1. TurnOK(learnt, k, {"LAMP_LED_VALUE"}, fields)
        <3>1. \A f \in fields : Free(f) \/ FieldOK("Lamp", f, info[f])
            BY <1>2, <1>3 DEF Free, FieldOK
        <3>2. Sensed("Lamp") \cup Commanded("Lamp") \subseteq fields
            BY <1>1
        <3> HIDE DEF fields
        <3>3. QED
            BY <1>3, <3>1, <3>2, AnswerOK
    <2>2. /\ learnt.object["Lamp"].LAMP_LED_VALUE = info.LAMP_LED_VALUE
          /\ learnt.sent = <<>>
        <3>1. /\ TurnOK(t, k, Told("Lamp", m), Asked("Lamp", m))
              /\ "LAMP_LED_VALUE" \in DOMAIN t.object["Lamp"] /\ "Lamp" \in DOMAIN t.object
            BY <1>1 DEF Ready, TurnOK, ObjectsOK
        <3>2. t = [object |-> t.object, sent |-> t.sent]
            BY <3>1 DEF TurnOK
        <3>3. QED
            BY <1>1, <3>1, <3>2 DEF Learn
    <2> HIDE DEF learnt, on, fields
    <2>3. TurnOK(u, k, {"LAMP_LED_VALUE"}, Q)
        <3>1. FieldOK("Lamp", "LAMP_LED_ON", on) /\ StoredAs("LAMP_LED_ON") = "LAMP_LED_VALUE"
            BY DEF FieldOK, StoredAs
        <3>2. QED
            BY <1>1, <2>1, <3>1, PutOK
    <2>4. /\ u.object["Lamp"].LAMP_LED_ON = on
          /\ u.object["Lamp"].LAMP_LED_VALUE = info.LAMP_LED_VALUE
          /\ u.sent = <<>>
        BY <1>1, <2>1, <2>2, PutValue
    <2>5. k.base["Lamp"].LAMP_LED_VALUE = info.LAMP_LED_VALUE
        BY <1>1, <1>3 DEF Ready
    <2>6. Believed(u.object, "Lamp", "LAMP_LED_VALUE") = info.LAMP_LED_VALUE
        <3>1. CASE on
            BY <2>4, <3>1 DEF Believed
        <3>2. CASE ~on
            <4>1. info.LAMP_LED_VALUE = 0
                BY <1>2, <1>3, <3>2 DEF on
            <4>2. QED
                BY <2>4, <3>2, <4>1 DEF Believed
        <3>3. QED
            BY <3>1, <3>2
    <2> HIDE DEF u, Q
    <2>7. DevicesTold(u, k, {})
        <3>1. ASSUME NEW d \in Device \cap DOMAIN k.objects, NEW f \in Commanded(d)
              PROVE  Ends(SentTo(d, u.sent), "Device", f, k.base[d][f], Believed(u.object, d, f))
            <4>1. CASE f = "LAMP_LED_VALUE"
                <5>1. d = "Lamp"
                    BY <1>1, <4>1, OneOwner DEF Tracked
                <5>2. QED
                    BY <1>1, <2>4, <2>5, <2>6, <4>1, <5>1, EndsNone
            <4>2. CASE f # "LAMP_LED_VALUE"
                BY <2>3, <4>2 DEF TurnOK, DevicesTold
            <4>3. QED
                BY <4>1, <4>2
        <3>2. ASSUME NEW d \in Device \cap DOMAIN k.objects, NEW f \in Sensed(d)
              PROVE  u.object[d][f] = k.base[d][f]
            <4>1. f # "LAMP_LED_VALUE"
                <5>1. f = "LAMP_LED_VALUE" => d = "Lamp"
                    BY <1>1, OneOwner DEF Tracked
                <5>2. QED
                    BY <1>1, <5>1
            <4>2. QED
                BY <2>3, <4>1 DEF TurnOK, DevicesTold
        <3>3. QED
            BY <3>1, <3>2 DEF DevicesTold
    <2>8. TurnOK(u, k, {}, Q)
        BY <2>3, <2>7 DEF TurnOK
    <2>9. TurnOK(UpdateWebsite(u), k, {}, {})
        BY <2>8, UpdateOK
    <2>10. QED
        BY <1>3, <2>9 DEF LampHandleMessage, LampLearn, u, learnt, on, fields
<1>4. CASE m.command = "LAMP_MOVEMENT_DETECTED"
    <2>1. TurnOK(t, k, {m.command}, Pushed("Lamp") \cap {m.command})
        BY <1>1, <1>4, ReadyOK
    <2>2. FieldOK("Lamp", m.command, m.value) /\ k.base["Lamp"][m.command] = m.value
        BY <1>1, <1>4 DEF FieldOK, Ready
    <2>3. TurnOK(PutOnWebsite(t, "Lamp", m.command, m.value), k, {}, {})
        BY <1>1, <1>4, <2>1, <2>2, PutSensedOK
    <2>4. QED
        BY <1>4, <2>3 DEF LampHandleMessage, LampNewMovementDetected
<1>5. CASE m.command \in {"LAMP_LED_VALUE", "LAMP_LED_ON"}
    <2>1. TurnOK(t, k, {}, Pushed("Lamp") \cap {m.command})
        BY <1>1, <1>5, ReadyOK
    <2>2. Pushed("Lamp") \cap {m.command} \subseteq {"LAMP_LED_VALUE", "LAMP_LED_ON"}
        BY <1>1
    <2>3. TurnOK(LampTurnLedOn(t, m.value), k, {}, {})
        BY <1>1, <2>1, <2>2, LampToldOK
    <2>4. m.command = "LAMP_LED_VALUE" => TurnOK(LampDimLed(t, m.value), k, {}, {})
        BY <1>1, <1>2, <2>1, <2>2, LampToldOK
    <2>5. QED
        BY <1>5, <2>3, <2>4 DEF LampHandleMessage
<1>6. CASE m.command \notin {"DEVICE_INFO", "LAMP_MOVEMENT_DETECTED", "LAMP_LED_VALUE",
                             "LAMP_LED_ON"}
    <2>1. TurnOK(t, k, {}, {})
        BY <1>1, <1>6, ReadyOK DEF Tracked
    <2>2. TurnOK(NewStatus(t, "Lamp", m.value), k, {}, {})
        BY <1>1, <2>1, NewStatusOK
    <2>3. QED
        BY <1>6, <2>1, <2>2 DEF LampHandleMessage
<1>7. QED
    BY <1>3, <1>4, <1>5, <1>6

LEMMA WallOK ==
    ASSUME NEW t, NEW k, NEW m, Ready(t, k, "Wall", m)
    PROVE  TurnOK(WallHandleMessage(t, m), k, {}, {})
<1>1. /\ "Wall" \in Device /\ "Wall" \in DOMAIN k.objects /\ {"Wall", "Lamp"} \subseteq k.about
      /\ Sensed("Wall") = {"WALL_DIMMER_VALUE", "WALL_LDR_VALUE"}
      /\ Commanded("Wall") = {"WALL_CURTAIN_OPEN"}
      /\ Pushed("Wall") = {"WALL_LEDSTRIP_VALUE", "WALL_LDR_VALUE"}
      /\ {"WALL_DIMMER_VALUE", "WALL_LDR_VALUE", "WALL_CURTAIN_OPEN", "WALL_LEDSTRIP_VALUE"}
            \subseteq DOMAIN NewObject["Wall"]
    BY DEF Ready, Device, Sensed, Commanded, Pushed, NewObject, NewWall
<1>2. /\ m.command = "WALL_DIMMER_VALUE" => m.value \in Nat
      /\ m.command = "DEVICE_INFO" => m.value.WALL_DIMMER_VALUE \in Nat
    <2>1. "WALL_DIMMER_VALUE" \in DOMAIN PowerOn["Wall"]
        BY <1>1, InputAssumption
    <2>2. QED
        BY <2>1, PossibleValues DEF Ready, ValueOK
<1>3. ASSUME NEW u, NEW P, TurnOK(u, k, {}, P), P \subseteq Pushed("Wall") \cap {"WALL_LEDSTRIP_VALUE"},
             NEW level
      PROVE  TurnOK(DimLedstrip(u, level), k, {}, {})
    BY <1>1, <1>3, PlainFields, PutOnOK DEF DimLedstrip
<1>4. ASSUME NEW u, NEW S, S \subseteq {"WALL_DIMMER_VALUE"}, TurnOK(u, k, S, {}),
             NEW level \in Nat, k.base["Wall"].WALL_DIMMER_VALUE = level
      PROVE  TurnOK(WallNewDimmerValue(u, level), k, {}, {})
    <2> DEFINE set == Put(u, "Wall", "WALL_DIMMER_VALUE", level)
               lit == LampTurnLedOn(set, TRUE)
               dimmed == LampDimLed(lit, level)
               none == {} \cup (Pushed("Wall") \cap {"WALL_DIMMER_VALUE"})
    <2>1. FieldOK("Wall", "WALL_DIMMER_VALUE", level) /\ none = {}
        BY <1>1, <1>4 DEF FieldOK
    <2>2. TurnOK(set, k, {}, none)
        <3> HIDE DEF none, set
        <3>1. QED
            BY <1>1, <1>4, <2>1, PutSensedOK DEF none, set
    <2>3. TurnOK(set, k, {}, {})
        BY <2>1, <2>2
    <2>4. HasObject(u, "Lamp") <=> "Lamp" \in DOMAIN k.objects
        BY <1>4 DEF HasObject, TurnOK
    <2> HIDE DEF set, none
    <2>5. ASSUME HasObject(u, "Lamp") PROVE TurnOK(dimmed, k, {}, {})
        <3>1. TurnOK(lit, k, {}, {})
            BY <1>1, <2>3, <2>4, <2>5, LampToldOK
        <3> HIDE DEF lit
        <3>2. QED
            BY <1>1, <1>4, <2>4, <2>5, <3>1, LampToldOK
    <2> HIDE DEF dimmed
    <2>6. /\ TurnOK(DimLedstrip(set, level), k, {}, {})
          /\ HasObject(u, "Lamp") => TurnOK(DimLedstrip(dimmed, level), k, {}, {})
        BY <1>3, <2>3, <2>5
    <2>7. QED
        BY <2>3, <2>5, <2>6 DEF WallNewDimmerValue, set, dimmed, lit
<1>5. CASE m.command = "DEVICE_INFO"
    <2> DEFINE fields == {"WALL_CURTAIN_OPEN", "WALL_DIMMER_VALUE", "WALL_LDR_VALUE"}
    <2>1. \A f \in fields : Free(f) \/ FieldOK("Wall", f, m.value[f])
        BY <1>2, <1>5 DEF Free, FieldOK
    <2>2. Sensed("Wall") \cup Commanded("Wall") \subseteq fields
        BY <1>1
    <2> HIDE DEF fields
    <2>3. TurnOK(UpdateWebsite(Learn(t, "Wall", fields, m.value)), k, {}, {})
        BY <1>5, <2>1, <2>2, AnswerOK
    <2>4. QED
        BY <1>5, <2>3 DEF WallHandleMessage, fields
<1>6. CASE m.command = "WALL_DIMMER_VALUE"
    <2>1. TurnOK(t, k, {m.command}, Pushed("Wall") \cap {m.command})
        BY <1>1, <1>6, ReadyOK
    <2>2. Pushed("Wall") \cap {m.command} = {}
        BY <1>1, <1>6
    <2>3. k.base["Wall"].WALL_DIMMER_VALUE = m.value /\ m.value \in Nat
        BY <1>1, <1>2, <1>6 DEF Ready
    <2>4. TurnOK(WallNewDimmerValue(t, m.value), k, {}, {})
        BY <1>4, <1>6, <2>1, <2>2, <2>3
    <2>5. QED
        BY <1>6, <2>4 DEF WallHandleMessage
<1>7. CASE m.command = "WALL_LDR_VALUE"
    <2>1. TurnOK(t, k, {m.command}, Pushed("Wall") \cap {m.command})
        BY <1>1, <1>7, ReadyOK
    <2>2. FieldOK("Wall", m.command, m.value) /\ k.base["Wall"][m.command] = m.value
        BY <1>1, <1>7 DEF FieldOK, Ready
    <2>3. TurnOK(PutOnWebsite(t, "Wall", m.command, m.value), k, {}, {})
        BY <1>1, <1>7, <2>1, <2>2, PutSensedOK
    <2>4. QED
        BY <1>7, <2>3 DEF WallHandleMessage
<1>8. CASE m.command = "WALL_LEDSTRIP_VALUE"
    <2>1. TurnOK(t, k, {}, Pushed("Wall") \cap {m.command})
        BY <1>1, <1>8, ReadyOK
    <2>2. TurnOK(DimLedstrip(t, m.value), k, {}, {})
        BY <1>3, <1>8, <2>1
    <2>3. QED
        BY <1>8, <2>2 DEF WallHandleMessage
<1>9. CASE m.command \notin {"DEVICE_INFO", "WALL_DIMMER_VALUE", "WALL_LDR_VALUE",
                             "WALL_LEDSTRIP_VALUE"}
    <2>1. TurnOK(t, k, {}, {})
        <3>1. TurnOK(t, k, {}, Pushed("Wall") \cap {m.command})
            BY <1>1, <1>9, ReadyOK
        <3>2. Pushed("Wall") \cap {m.command} = {}
            BY <1>1, <1>9
        <3>3. QED
            BY <3>1, <3>2
    <2>2. \A value : TurnOK(PutOnBoth(t, "Wall", "WALL_CURTAIN_OPEN", value), k, {}, {})
        BY <1>1, <2>1, PlainFields, PutOnOK
    <2>3. ASSUME NEW field \in {"WALL_LEDSTRIP_ON", "WALL_LAMP_ON"}, NEW on
          PROVE  TurnOK(Enable(t, field, on), k, {}, {})
        <3> DEFINE u == Put(t, "Wall", field, on)
                   level == t.object["Wall"].WALL_DIMMER_VALUE
        <3>1. TurnOK(u, k, {}, {})
            BY <1>1, <2>1, PutFreeOK DEF Free, Tracked
        <3>2. level \in Nat /\ k.base["Wall"].WALL_DIMMER_VALUE = level
            BY <1>1, <2>1, ObjectNumbers DEF TurnOK, DevicesTold
        <3> HIDE DEF u, level
        <3>3. QED
            BY <1>4, <3>1, <3>2 DEF Enable, u, level
    <2>4. TurnOK(NewStatus(t, "Wall", m.value), k, {}, {})
        BY <1>1, <2>1, NewStatusOK
    <2>5. QED
        BY <1>9, <2>1, <2>2, <2>3, <2>4 DEF WallHandleMessage
<1>10. QED
    BY <1>5, <1>6, <1>7, <1>8, <1>9

(* Without a page's object nobody can be shown another value.              *)
LEMMA NoPageOK ==
    ASSUME NEW t, NEW k, NEW S, NEW P, TurnOK(t, k, S, P), "Website" \notin DOMAIN k.objects,
           NEW Q
    PROVE  TurnOK(t, k, S, Q)
BY DEF TurnOK, PageTold

LEMMA ColumnBuzzerOK ==
    ASSUME NEW t, NEW k, NEW S, NEW P, TurnOK(t, k, S, P),
           "Column" \in DOMAIN k.objects, "Column" \in k.about, NEW on
    PROVE  /\ TurnOK(ColumnTurnBuzzerOn(t, on), k, S, P)
           /\ P \subseteq {"COLUMN_LED_ON"} => TurnOK(ColumnTurnLedOn(t, on), k, S, {})
<1>1. /\ "Column" \in Device
      /\ "COLUMN_LED_ON" \notin Sensed("Column") \cup Commanded("Column")
      /\ "COLUMN_BUZZER_ON" \notin Pushed("Column") /\ "COLUMN_LED_ON" \in Pushed("Column")
      /\ {"COLUMN_LED_ON", "COLUMN_BUZZER_ON"} \subseteq DOMAIN NewObject["Column"]
    BY DEF Device, Sensed, Commanded, Pushed, NewObject, NewColumn
<1>2. TurnOK(ColumnTurnBuzzerOn(t, on), k, S, P)
    BY <1>1, PlainFields, PutOnOK DEF ColumnTurnBuzzerOn
<1>3. ASSUME P \subseteq {"COLUMN_LED_ON"}
      PROVE  TurnOK(ColumnTurnLedOn(t, on), k, S, {})
    <2>1. HasObject(t, "Website") <=> "Website" \in DOMAIN k.objects
        BY DEF HasObject, TurnOK
    <2>2. CASE HasObject(t, "Website")
        <3>1. P \subseteq Pushed("Column") \cap {"COLUMN_LED_ON"}
            BY <1>1, <1>3
        <3>2. TurnOK(PutOnBoth(t, "Column", "COLUMN_LED_ON", on), k, S, {})
            BY <1>1, <3>1, PlainFields, PutOnOK
        <3>3. QED
            BY <2>2, <3>2 DEF ColumnTurnLedOn
    <2>3. CASE ~HasObject(t, "Website")
        <3>1. FieldOK("Column", "COLUMN_LED_ON", on) /\ StoredAs("COLUMN_LED_ON") = "COLUMN_LED_ON"
            BY DEF FieldOK, StoredAs
        <3>2. TurnOK(Put(t, "Column", "COLUMN_LED_ON", on), k, S, P)
            BY <1>1, <2>1, <2>3, <3>1, PutOK
        <3>3. QED
            BY <2>1, <2>3, <3>2, NoPageOK DEF ColumnTurnLedOn
    <2>4. QED
        BY <2>2, <2>3
<1>4. QED
    BY <1>2, <1>3

LEMMA ColumnOK ==
    ASSUME NEW t, NEW k, NEW m, Ready(t, k, "Column", m)
    PROVE  TurnOK(ColumnHandleMessage(t, m), k, {}, {})
<1>1. /\ "Column" \in Device /\ "Column" \in DOMAIN k.objects /\ "Column" \in k.about
      /\ Sensed("Column") = {"COLUMN_SMOKE_SENSOR_VALUE"}
      /\ Commanded("Column") = {"COLUMN_BUZZER_ON"}
      /\ Pushed("Column") = {"COLUMN_LED_ON", "COLUMN_SMOKE_TRESHOLD_VALUE"}
      /\ {"COLUMN_LED_ON", "COLUMN_BUZZER_ON", "COLUMN_SMOKE_SENSOR_VALUE",
          "COLUMN_SMOKE_TRESHOLD_VALUE"} \subseteq DOMAIN NewObject["Column"]
    BY DEF Ready, Device, Sensed, Commanded, Pushed, NewObject, NewColumn
<1>2. CASE m.command = "DEVICE_INFO"
    <2> DEFINE fields == {"COLUMN_LED_ON", "COLUMN_BUZZER_ON", "COLUMN_SMOKE_SENSOR_VALUE"}
    <2>1. \A f \in fields : Free(f)
        BY DEF Free
    <2>2. Sensed("Column") \cup Commanded("Column") \subseteq fields
        BY <1>1
    <2> HIDE DEF fields
    <2>3. TurnOK(UpdateWebsite(Learn(t, "Column", fields, m.value)), k, {}, {})
        BY <1>2, <2>1, <2>2, AnswerOK
    <2>4. QED
        BY <1>2, <2>3 DEF ColumnHandleMessage, fields
<1>3. CASE m.command = "COLUMN_SMOKE_SENSOR_VALUE"
    <2> DEFINE alarmed == ColumnTurnLedOn(ColumnTurnBuzzerOn(t, TRUE), TRUE)
    <2>1. TurnOK(t, k, {m.command}, {})
        <3>1. TurnOK(t, k, {m.command}, Pushed("Column") \cap {m.command})
            BY <1>1, <1>3, ReadyOK
        <3>2. Pushed("Column") \cap {m.command} = {}
            BY <1>1, <1>3
        <3>3. QED
            BY <3>1, <3>2
    <2>2. TurnOK(alarmed, k, {m.command}, {})
        BY <1>1, <2>1, ColumnBuzzerOK
    <2>3. FieldOK("Column", m.command, m.value) /\ k.base["Column"][m.command] = m.value
        BY <1>1, <1>3 DEF FieldOK, Ready
    <2> HIDE DEF alarmed
    <2>4. \A u : TurnOK(u, k, {m.command}, {})
            => TurnOK(PutOnWebsite(u, "Column", m.command, m.value), k, {}, {})
        BY <1>1, <1>3, <2>3, PutSensedOK
    <2>5. TurnOK(ColumnNewSmokeSensorValue(t, m.value), k, {}, {})
        BY <1>3, <2>1, <2>2, <2>4 DEF ColumnNewSmokeSensorValue, alarmed
    <2>6. QED
        BY <1>3, <2>5 DEF ColumnHandleMessage
<1>4. CASE m.command = "COLUMN_LED_ON"
    <2>1. TurnOK(t, k, {}, Pushed("Column") \cap {m.command})
        BY <1>1, <1>4, ReadyOK
    <2>2. TurnOK(ColumnTurnLedOn(t, m.value), k, {}, {})
        BY <1>1, <1>4, <2>1, ColumnBuzzerOK
    <2>3. TurnOK(ColumnTurnBuzzerOn(ColumnTurnLedOn(t, m.value), m.value), k, {}, {})
        BY <1>1, <2>2, ColumnBuzzerOK
    <2>4. QED
        BY <1>4, <2>3 DEF ColumnHandleMessage
<1>5. CASE m.command = "COLUMN_SMOKE_TRESHOLD_VALUE"
    <2>1. TurnOK(t, k, {}, Pushed("Column") \cap {m.command})
        BY <1>1, <1>5, ReadyOK
    <2>2. FieldOK("Column", m.command, m.value)
        BY DEF FieldOK
    <2>3. TurnOK(PutOnWebsite(t, "Column", m.command, m.value), k, {}, {})
        BY <1>1, <1>5, <2>1, <2>2, PutOnWebsiteOK
    <2>4. QED
        BY <1>5, <2>3 DEF ColumnHandleMessage, ColumnNewSmokeTresholdValue
<1>6. CASE m.command \notin {"DEVICE_INFO", "COLUMN_SMOKE_SENSOR_VALUE", "COLUMN_LED_ON",
                             "COLUMN_SMOKE_TRESHOLD_VALUE"}
    <2>1. TurnOK(t, k, {}, {})
        <3>1. TurnOK(t, k, {}, Pushed("Column") \cap {m.command})
            BY <1>1, <1>6, ReadyOK
        <3>2. Pushed("Column") \cap {m.command} = {}
            BY <1>1, <1>6
        <3>3. QED
            BY <3>1, <3>2
    <2>2. /\ TurnOK(ColumnTurnBuzzerOn(t, m.value), k, {}, {})
          /\ TurnOK(ColumnTurnLedOn(t, TRUE), k, {}, {})
          /\ TurnOK(NewStatus(t, "Column", m.value), k, {}, {})
        BY <1>1, <2>1, ColumnBuzzerOK, NewStatusOK
    <2>3. QED
        BY <1>6, <2>1, <2>2 DEF ColumnHandleMessage, ColumnButtonWasPressed
<1>7. QED
    BY <1>2, <1>3, <1>4, <1>5, <1>6

(* Of all messages only OpenDoor's are about the door itself, and it looks *)
(* at the lock.                                                            *)
LEMMA OpenDoorOK ==
    ASSUME NEW t, NEW k, NEW P, TurnOK(t, k, {}, P), P \subseteq {"DOOR_DOOR_OPEN"},
           t.object = k.objects, "Door" \in DOMAIN k.objects, "Door" \in k.about, NEW open
    PROVE  TurnOK(OpenDoor(t, open), k, {}, {})
<1> DEFINE f == "DOOR_DOOR_OPEN"
<1>1. /\ "Door" \in Device
      /\ Sensed("Door") = {} /\ f \in Commanded("Door") /\ f \in Pushed("Door")
      /\ f \in DOMAIN NewObject["Door"] /\ f \notin DOMAIN Possible
    BY PossibleValues DEF Device, Sensed, Commanded, Pushed, NewObject, NewDoor
<1>2. IsLocked(t) <=> Locked(k.objects)
    BY DEF IsLocked, Locked
<1>3. CASE IsLocked(t) /\ open
    <2>1. TurnOK(ToWebsite(t, "Door", f, IsOpen(t)), k, {}, P \ (Pushed("Door") \cap {f}))
        BY <1>1, ToWebsiteOK DEF IsOpen
    <2>2. P \ (Pushed("Door") \cap {f}) = {}
        BY <1>1
    <2>3. QED
        BY <1>3, <2>1, <2>2 DEF OpenDoor
<1>4. CASE ~(IsLocked(t) /\ open)
    <2> DEFINE u == Put(t, "Door", f, open)
               v == ToDevice(u, "Door", f, open)
               w == ToWebsite(v, "Door", f, open)
               S3 == {f} \ (Commanded("Door") \cap {f})
               P3 == {f} \ (Pushed("Door") \cap {f})
    <2>1. TurnOK(u, k, {f}, {f})
        <3>1. FieldOK("Door", f, open) /\ StoredAs(f) = f
            BY DEF FieldOK, StoredAs
        <3>2. QED
            BY <1>1, <3>1, PutOK
    <2>2. u.object["Door"][f] = open
        BY <1>1, PutValue
    <2> HIDE DEF u
    <2>3. Believed(u.object, "Door", f) = open
        BY <2>2 DEF Believed
    <2>4. TurnOK(v, k, S3, {f})
        BY <1>1, <1>2, <1>4, <2>1, <2>3, ToDeviceOK
    <2>5. v.object = u.object
        BY <2>1 DEF ToDevice, Send, TurnOK
    <2>6. S3 = {} /\ P3 = {}
        BY <1>1
    <2> HIDE DEF v, S3, P3
    <2>7. TurnOK(w, k, S3, P3)
        BY <1>1, <2>2, <2>4, <2>5, ToWebsiteOK DEF P3
    <2>8. OpenDoor(t, open) = w
        BY <1>4, Zenon DEF OpenDoor, PutOnBoth, PutOnDevice, w, v, u
    <2>9. QED
        BY <2>6, <2>7, <2>8
<1>5. QED
    BY <1>3, <1>4

LEMMA DoorOK ==
    ASSUME NEW t, NEW k, NEW m, Ready(t, k, "Door", m)
    PROVE  TurnOK(DoorHandleMessage(t, m), k, {}, {})
<1>1. /\ "Door" \in Device /\ "Door" \in DOMAIN k.objects
      /\ {"Door", "Column"} \subseteq k.about /\ t.object = k.objects
      /\ Sensed("Door") = {}
      /\ Commanded("Door") = {"DOOR_LED_INSIDE_ON", "DOOR_LED_OUTSIDE_ON", "DOOR_DOOR_OPEN"}
      /\ Pushed("Door") = {"DOOR_DOOR_OPEN", "DOOR_DOOR_LOCKED"}
      /\ {"DOOR_LED_INSIDE_ON", "DOOR_LED_OUTSIDE_ON", "DOOR_DOOR_OPEN", "DOOR_DOOR_LOCKED"}
            \subseteq DOMAIN NewObject["Door"]
    BY DEF Ready, Device, Sensed, Commanded, Pushed, NewObject, NewDoor
<1>2. ASSUME NEW u, TurnOK(u, k, {}, {}), NEW on
      PROVE  /\ TurnOK(TurnLedInsideOn(u, on), k, {}, {})
             /\ TurnOK(TurnLedOutsideOn(u, on), k, {}, {})
             /\ TurnOK(Ring(u, on), k, {}, {})
    <2>1. HasObject(u, "Column") <=> "Column" \in DOMAIN k.objects
        BY <1>2 DEF HasObject, TurnOK
    <2>2. TurnOK(TurnLedInsideOn(u, on), k, {}, {}) /\ TurnOK(TurnLedOutsideOn(u, on), k, {}, {})
        BY <1>1, <1>2, PlainFields, PutOnOK DEF TurnLedInsideOn, TurnLedOutsideOn
    <2>3. TurnOK(Ring(u, on), k, {}, {})
        BY <1>1, <1>2, <2>1, ColumnBuzzerOK DEF Ring
    <2>4. QED
        BY <2>2, <2>3
<1>3. CASE m.command = "DEVICE_INFO"
    <2> DEFINE fields == {"DOOR_LED_INSIDE_ON", "DOOR_LED_OUTSIDE_ON", "DOOR_DOOR_OPEN"}
    <2>1. \A f \in fields : Free(f)
        BY DEF Free
    <2>2. Sensed("Door") \cup Commanded("Door") \subseteq fields
        BY <1>1
    <2> HIDE DEF fields
    <2>3. TurnOK(UpdateWebsite(Learn(t, "Door", fields, m.value)), k, {}, {})
        BY <1>3, <2>1, <2>2, AnswerOK
    <2>4. QED
        BY <1>3, <2>3 DEF DoorHandleMessage, fields
<1>4. CASE m.command = "DOOR_DOOR_OPEN"
    <2>1. TurnOK(t, k, {}, Pushed("Door") \cap {m.command})
        BY <1>1, <1>4, ReadyOK
    <2>2. TurnOK(OpenDoor(t, m.value), k, {}, {})
        BY <1>1, <1>4, <2>1, OpenDoorOK
    <2>3. QED
        BY <1>4, <2>2 DEF DoorHandleMessage
<1>5. CASE m.command = "DOOR_DOOR_LOCKED"
    <2>1. TurnOK(t, k, {}, Pushed("Door") \cap {m.command})
        BY <1>1, <1>5, ReadyOK
    <2>2. FieldOK("Door", m.command, m.value)
        BY DEF FieldOK
    <2>3. TurnOK(PutOnWebsite(t, "Door", m.command, m.value), k, {}, {})
        BY <1>1, <1>5, <2>1, <2>2, PutOnWebsiteOK
    <2>4. QED
        BY <1>5, <2>3 DEF DoorHandleMessage, LockDoor
<1>6. CASE m.command \notin {"DEVICE_INFO", "DOOR_DOOR_OPEN", "DOOR_DOOR_LOCKED"}
    <2>1. TurnOK(t, k, {}, {})
        <3>1. TurnOK(t, k, {}, Pushed("Door") \cap {m.command})
            BY <1>1, <1>6, ReadyOK
        <3>2. Pushed("Door") \cap {m.command} = {}
            BY <1>1, <1>6
        <3>3. QED
            BY <3>1, <3>2
    <2>2. \A open : TurnOK(OpenDoor(t, open), k, {}, {})
        BY <1>1, <2>1, OpenDoorOK
    <2>3. TurnOK(ButtonInsideWasPressed(t, m.value), k, {}, {})
        BY <1>2, <2>1, <2>2 DEF ButtonInsideWasPressed
    <2>4. TurnOK(ButtonOutsideWasPressed(t, m.value), k, {}, {})
        BY <1>2, <2>1, <2>2 DEF ButtonOutsideWasPressed
    <2>5. TurnOK(Ring(t, m.value), k, {}, {}) /\ TurnOK(NewStatus(t, "Door", m.value), k, {}, {})
        BY <1>1, <1>2, <2>1, NewStatusOK
    <2>6. QED
        BY <1>6, <2>1, <2>3, <2>4, <2>5 DEF DoorHandleMessage
<1>7. QED
    BY <1>3, <1>4, <1>5, <1>6

LEMMA DeviceHandleOK ==
    ASSUME NEW t, NEW k, NEW d, NEW m, Ready(t, k, d, m)
    PROVE  TurnOK(DeviceHandleMessage(t, d, m), k, {}, {})
<1>1. d \in Device
    BY DEF Ready
<1>2. QED
    BY <1>1, BedOK, ChairOK, WIBOK, SimulatedOK, FridgeOK, LampOK, WallOK, ColumnOK, DoorOK
    DEF DeviceHandleMessage, Device
=============================================================================
