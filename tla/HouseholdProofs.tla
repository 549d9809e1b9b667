-------------------------- MODULE HouseholdProofs --------------------------
(***************************************************************************)
(* What may be under way in a household, to and from main: the invariant   *)
(* over its queues, objects, devices and page, and that each action keeps  *)
(* it.  What a turn of main does is in TurnProofs, summarised here over    *)
(* all handlers (Turned); that objects, devices and page follow each other *)
(* is in AgreementProofs.                                                  *)
(***************************************************************************)
EXTENDS TurnProofs

LEMMA NewObjectOK ==
    /\ DOMAIN NewObject = Device \cup {"Website"}
    /\ \A c \in Device \cup {"Website"} : \A f \in DOMAIN NewObject[c] :
        FieldOK(c, f, NewObject[c][f])
BY DEF NewObject, Device, FieldOK, NewChair, NewSimulatedDevice, NewLamp, NewWall, NewFridge

-----------------------------------------------------------------------------
(* Main handles one message.                                               *)

(* A registration adds the object and asks its device, or updates the      *)
(* page; it does nothing else.                                             *)
LEMMA RegisterOK ==
    ASSUME ObjectsOK(object), NEW c \in Device \cup {"Website"}, c \notin DOMAIN object,
           NEW m, m.command = "REGISTRATION"
    PROVE  LET t == HandleMessage(Turn(object), c, m)
           IN  /\ DOMAIN t.object = DOMAIN object \cup {c}
               /\ \A d \in DOMAIN object : t.object[d] = object[d]
               /\ ObjectsOK(t.object)
               /\ Sequence(t.sent)
               /\ \A i \in 1..Len(t.sent) : SentOK(t.sent[i], object) /\ t.sent[i].to = c
               /\ \A e : e # c => SentTo(e, t.sent) = <<>>
               /\ Len(SentTo(c, t.sent)) = 1 /\ Sequence(SentTo(c, t.sent))
               /\ c # "Website" => SentTo(c, t.sent)[1].command = "DEVICE_INFO"
               /\ c = "Website" => /\ SentTo(c, t.sent)[1].command = "WEBSITE_UPDATE"
                                   /\ SentTo(c, t.sent)[1].value = object
<1> DEFINE b == Turn(object)
           t == HandleMessage(b, c, m)
           greeting == IF c = "Website"
                THEN [to |-> c, type |-> c, command |-> "WEBSITE_UPDATE", value |-> object]
                ELSE [to |-> c, type |-> c, command |-> "DEVICE_INFO", value |-> ""]
           g == [object |-> object, sent |-> Append(<<>>, greeting)]
           y == [d \in DOMAIN object \cup {c} |->
                    IF d \in DOMAIN object THEN object[d] ELSE NewObject[d]]
<1>1. t = [g EXCEPT !.object = y]
    <2>1. t = Register(b, c)
        BY DEF HandleMessage
    <2> DEFINE greeted == IF c = "Website" THEN Update(b) ELSE ToDevice(b, c, "DEVICE_INFO", "")
    <2>2. greeted = g
        BY DEF Update, ToDevice, Send, Turn
    <2>3. Register(b, c) = [greeted EXCEPT !.object =
                [d \in DOMAIN @ \cup {c} |-> IF d \in DOMAIN @ THEN @[d] ELSE NewObject[d]]]
        BY DEF Register
    <2>4. g.object = object
        OBVIOUS
    <2> HIDE DEF greeted, g, t, b
    <2>5. QED
        BY <2>1, <2>2, <2>3, <2>4
<1>2. t.object = y /\ t.sent = Append(<<>>, greeting)
    BY <1>1
<1>3. /\ greeting.to = c /\ SentOK(greeting, object)
      /\ c # "Website" => greeting.command = "DEVICE_INFO"
      /\ c = "Website" => greeting.command = "WEBSITE_UPDATE" /\ greeting.value = object
    <2>1. CASE c = "Website"
        BY <2>1 DEF SentOK
    <2>2. CASE c # "Website"
        <3>1. "DEVICE_INFO" \notin Sensed(c) /\ "DEVICE_INFO" \notin DOMAIN Possible
            BY <2>2, TrackedFields, PossibleValues DEF Tracked
        <3>2. QED
            BY <2>2, <3>1 DEF SentOK
    <2>3. QED
        BY <2>1, <2>2
<1> HIDE DEF greeting, t
<1> DEFINE s == Append(<<>>, greeting)
<1>4. /\ Sequence(s) /\ Len(s) = 1 /\ s[1] = greeting
      /\ \A e : SentTo(e, s) = IF greeting.to = e THEN s ELSE <<>>
    <2> DEFINE none == <<>>
    <2>1. /\ Sequence(none) /\ Len(none) = 0 /\ none = <<>>
          /\ \A e : SentTo(e, none) = none
        BY SequenceSmall, SentToNone
    <2> HIDE DEF none
    <2>2. /\ Sequence(Append(none, greeting)) /\ Len(Append(none, greeting)) = Len(none) + 1
          /\ Append(none, greeting)[Len(none)+1] = greeting
        BY <2>1, SequenceAppend
    <2>3. \A e : SentTo(e, Append(none, greeting)) =
                IF greeting.to = e THEN Append(SentTo(e, none), greeting) ELSE SentTo(e, none)
        BY <2>1, SentToAppend
    <2>4. QED
        BY <2>1, <2>2, <2>3
<1> HIDE DEF s
<1>5. ObjectsOK(y) /\ DOMAIN y = DOMAIN object \cup {c}
    <2>1. /\ DOMAIN y = DOMAIN object \cup {c}
          /\ \A d \in DOMAIN object : y[d] = object[d]
          /\ \A d \in DOMAIN y : d \notin DOMAIN object => d = c /\ y[d] = NewObject[c]
        OBVIOUS
    <2> HIDE DEF y
    <2>2. DOMAIN y \subseteq Device \cup {"Website"}
        BY <2>1 DEF ObjectsOK
    <2>3. ASSUME NEW d \in DOMAIN y
          PROVE  /\ DOMAIN y[d] = DOMAIN NewObject[d]
                 /\ \A f \in DOMAIN y[d] : FieldOK(d, f, y[d][f])
        <3>1. CASE d \in DOMAIN object
            BY <2>1, <3>1 DEF ObjectsOK
        <3>2. CASE d \notin DOMAIN object
            BY <2>1, <3>2, NewObjectOK
        <3>3. QED
            BY <3>1, <3>2
    <2>4. QED
        BY <2>1, <2>2, <2>3 DEF ObjectsOK
<1>6. \A d \in DOMAIN object : y[d] = object[d]
    OBVIOUS
<1> HIDE DEF y
<1>7. /\ DOMAIN t.object = DOMAIN object \cup {c}
      /\ \A d \in DOMAIN object : t.object[d] = object[d]
      /\ ObjectsOK(t.object)
      /\ t.sent = s
    BY <1>2, <1>5, <1>6 DEF s
<1>8. \A i \in 1..Len(s) : s[i] = greeting
    BY <1>4
<1>9. QED
    BY <1>3, <1>4, <1>7, <1>8 DEF t

(* What main takes a device to have when it has heard message m of client  *)
(* c, and before it acts on it.                                            *)
Heard(c, m, d, f) ==
    IF c = d /\ m.command = "DEVICE_INFO" THEN m.value[f] ELSE Believed(object, d, f)

(* Turn t, in which main has handled message m of a client c that it has   *)
(* an object for.                                                          *)
Turned(t, c, m) ==
    /\ DOMAIN t.object = DOMAIN object
    /\ ObjectsOK(t.object)
    /\ Sequence(t.sent)
    /\ \A i \in 1..Len(t.sent) : SentOK(t.sent[i], object) /\ t.sent[i].to \in DOMAIN object
    /\ \A d \in Device \cap DOMAIN object :
        /\ \A f \in Commanded(d) :
            Ends(SentTo(d, t.sent), "Device", f, Heard(c, m, d, f), Believed(t.object, d, f))
        /\ \A f \in Sensed(d) :
            /\ c # d \/ Said(m, "Device", f) = {} => t.object[d][f] = object[d][f]
            /\ c = d => \A x : Said(m, "Device", f) = {x} => t.object[d][f] = x
    /\ "Website" \in DOMAIN object =>
        \A d \in Device \cap DOMAIN object : \A f \in Pushed(d) :
            /\ Ends(SentTo("Website", t.sent), d, f, object[d][f], t.object[d][f])
            /\ c = "Website" /\ m.command = "WEBSITE_FORWARD"
                    /\ m.value.type = d /\ m.value.command = f =>
                \E i \in 1..Len(SentTo("Website", t.sent)) :
                    Said(SentTo("Website", t.sent)[i], d, f) # {}
    /\ "Fridge" \in DOMAIN object =>
        /\ Cooling(t, object)
        /\ c = "Fridge" /\ m.command = "DEVICE_INFO" => Cooled(t)

LEMMA TurnBegins ==
    ASSUME ObjectsOK(object), NEW k, k.objects = object, NEW S, NEW P,
           \A d \in Device \cap DOMAIN object :
                /\ \A f \in Commanded(d) \ S : k.base[d][f] = Believed(object, d, f)
                /\ \A f \in Sensed(d) \ S : k.base[d][f] = object[d][f]
                /\ \A f \in Pushed(d) \ P : k.shown[d][f] = object[d][f]
    PROVE  TurnOK(Turn(object), k, S, P)
<1> DEFINE t == Turn(object)
<1>1. /\ t.object = object /\ t.sent = <<>>
      /\ t = [object |-> t.object, sent |-> t.sent]
    BY DEF Turn
<1> HIDE DEF t
<1>2. /\ Sequence(t.sent) /\ Len(t.sent) = 0
      /\ \A c : SentTo(c, t.sent) = <<>>
    BY <1>1, SequenceSmall, SentToNone
<1>3. DevicesTold(t, k, S)
    BY <1>1, <1>2, EndsNone DEF DevicesTold
<1>4. PageTold(t, k, P)
    BY <1>1, <1>2, EndsNone DEF PageTold
<1>5. OthersAside(t, k)
    BY <1>1, <1>2 DEF OthersAside
<1>6. QED
    BY <1>1, <1>2, <1>3, <1>4, <1>5 DEF TurnOK, t

(* A message about a device, from itself or forwarded by the page.         *)
LEMMA DeviceTurned ==
    ASSUME ObjectsOK(object), NEW d \in Device, d \in DOMAIN object, NEW m, ValueOK(d, m)
    PROVE  LET t == DeviceHandleMessage(Turn(object), d, m)
           IN  /\ Turned(t, d, m)
               /\ m.command \notin Sensed(d) \cup {"DEVICE_INFO"} =>
                    \A n : n.command = "WEBSITE_FORWARD" /\ n.value = m /\ m.type = d
                                => Turned(t, "Website", n)
<1> DEFINE t == DeviceHandleMessage(Turn(object), d, m)
           v == t.object[d][m.command]
           x == IF v = TRUE THEN FALSE ELSE TRUE
           told(e, f) == IF e = d /\ m.command = "DEVICE_INFO" THEN m.value[f]
                         ELSE IF e = d /\ m.command = f /\ f \in Sensed(d) THEN m.value
                         ELSE IF f \in Commanded(e) THEN Believed(object, e, f)
                         ELSE object[e][f]
           shown(e, f) == IF e = d /\ f = m.command THEN x ELSE object[e][f]
           base == [e \in Device |-> [f \in DOMAIN NewObject[e] |-> told(e, f)]]
           page0 == [e \in Device |-> [f \in DOMAIN NewObject[e] |-> shown(e, f)]]
           k == [objects |-> object, base |-> base, shown |-> page0,
                 about |-> {d, "Column", "Lamp"}]
<1>1. v # x
    OBVIOUS
<1> HIDE DEF t, v, x
<1>2. /\ k.objects = object /\ k.about = {d, "Column", "Lamp"}
      /\ \A e \in Device : \A f \in Tracked(e) :
            k.base[e][f] = told(e, f) /\ k.shown[e][f] = shown(e, f)
    BY TrackedFields
<1> HIDE DEF k
<1>3. TurnOK(Turn(object), k, Told(d, m), Asked(d, m))
    <2>1. ASSUME NEW e \in Device, NEW f \in Commanded(e), f \notin Told(d, m)
          PROVE  told(e, f) = Believed(object, e, f)
        <3>1. f \notin Sensed(e) /\ f # "DEVICE_INFO"
            BY TrackedFields DEF Tracked
        <3>2. e = d => m.command # "DEVICE_INFO"
            BY <2>1 DEF Told
        <3>3. QED
            BY <3>1, <3>2
    <2>2. ASSUME NEW e \in Device, NEW f \in Sensed(e), f \notin Told(d, m)
          PROVE  told(e, f) = object[e][f]
        <3>1. f \notin Commanded(e)
            BY TrackedFields
        <3>2. e = d => m.command # "DEVICE_INFO" /\ m.command # f
            BY <2>2 DEF Told
        <3>3. QED
            BY <3>1, <3>2
    <2>3. ASSUME NEW e \in Device, NEW f \in Pushed(e), f \notin Asked(d, m)
          PROVE  shown(e, f) = object[e][f]
        BY <2>3 DEF Asked
    <2> HIDE DEF told, shown
    <2>4. \A e \in Device \cap DOMAIN object :
            /\ \A f \in Commanded(e) \ Told(d, m) : k.base[e][f] = Believed(object, e, f)
            /\ \A f \in Sensed(e) \ Told(d, m) : k.base[e][f] = object[e][f]
            /\ \A f \in Pushed(e) \ Asked(d, m) : k.shown[e][f] = object[e][f]
        BY <1>2, <2>1, <2>2, <2>3 DEF Tracked
    <2>5. QED
        BY <1>2, <2>4, TurnBegins
<1>4. Ready(Turn(object), k, d, m)
    <2>1. Turn(object).object = object /\ Turn(object).sent = <<>>
        BY DEF Turn
    <2>2. m.command = "DEVICE_INFO" =>
            \A f \in Sensed(d) \cup Commanded(d) : k.base[d][f] = m.value[f]
        BY <1>2 DEF Tracked
    <2>3. m.command \in Sensed(d) => k.base[d][m.command] = m.value
        <3>1. m.command \in Sensed(d) => m.command # "DEVICE_INFO" /\ m.command \in Tracked(d)
            BY TrackedFields DEF Tracked
        <3>2. QED
            BY <1>2, <3>1
    <2> HIDE DEF told, shown
    <2>4. QED
        BY <1>2, <1>3, <2>1, <2>2, <2>3 DEF Ready
<1>5. /\ TurnOK(t, k, {}, {})
      /\ d = "Fridge" => /\ Cooling(t, object)
                         /\ m.command = "DEVICE_INFO" => Cooled(t)
    <2>1. TurnOK(t, k, {}, {})
        BY <1>4, DeviceHandleOK DEF t
    <2>2. d = "Fridge" => t = FridgeHandleMessage(Turn(object), m)
        BY DEF DeviceHandleMessage, t
    <2>3. d = "Fridge" => Ready(Turn(object), k, "Fridge", m)
        BY <1>4
    <2> HIDE DEF told, shown
    <2>4. QED
        BY <1>2, <2>1, <2>2, <2>3, FridgeOK
<1>6. "Fridge" \in DOMAIN object => Cooling(t, object)
    <2>1. CASE d # "Fridge"
        <3>1. "Fridge" \in DOMAIN object =>
                t.object["Fridge"] = object["Fridge"] /\ SentTo("Fridge", t.sent) = <<>>
            BY <1>2, <1>5, <2>1 DEF TurnOK, OthersAside, Device
        <3>2. QED
            BY <3>1 DEF Cooling
    <2>2. QED
        BY <1>5, <2>1
<1>7. /\ DOMAIN t.object = DOMAIN object
      /\ ObjectsOK(t.object)
      /\ Sequence(t.sent)
      /\ \A i \in 1..Len(t.sent) : SentOK(t.sent[i], object) /\ t.sent[i].to \in DOMAIN object
    BY <1>2, <1>5 DEF TurnOK
<1>8. ASSUME NEW e \in Device \cap DOMAIN object, NEW f \in Commanded(e)
      PROVE  /\ Ends(SentTo(e, t.sent), "Device", f, told(e, f), Believed(t.object, e, f))
             /\ told(e, f) = Heard(d, m, e, f)
    <2>1. Ends(SentTo(e, t.sent), "Device", f, k.base[e][f], Believed(t.object, e, f))
        BY <1>2, <1>5 DEF TurnOK, DevicesTold
    <2>2. f \notin Sensed(e)
        BY TrackedFields
    <2>3. told(e, f) = Heard(d, m, e, f)
        BY <2>2 DEF Heard
    <2> HIDE DEF told, shown
    <2>4. QED
        BY <1>2, <2>1, <2>3 DEF Tracked
<1>9. ASSUME NEW e \in Device \cap DOMAIN object, NEW f \in Sensed(e)
      PROVE  t.object[e][f] =
                IF e = d /\ m.command = "DEVICE_INFO" THEN m.value[f]
                ELSE IF e = d /\ m.command = f THEN m.value
                ELSE object[e][f]
    <2>1. t.object[e][f] = k.base[e][f]
        BY <1>2, <1>5 DEF TurnOK, DevicesTold
    <2>2. f \notin Commanded(e) /\ (e = d /\ f = m.command => f \in Sensed(d))
        BY TrackedFields
    <2>3. k.base[e][f] = told(e, f)
        BY <1>2 DEF Tracked
    <2>4. QED
        BY <2>1, <2>2, <2>3
<1>10. ASSUME NEW e \in Device \cap DOMAIN object, NEW f \in Sensed(e)
       PROVE  /\ d # e \/ Said(m, "Device", f) = {} => t.object[e][f] = object[e][f]
              /\ d = e => \A y : Said(m, "Device", f) = {y} => t.object[e][f] = y
    <2>1. Said(m, "Device", f) = IF m.command = "DEVICE_INFO" THEN {m.value[f]}
                                 ELSE IF m.command = f THEN {m.value} ELSE {}
        <3>1. f # "DEVICE_INFO"
            BY TrackedFields DEF Tracked
        <3>2. QED
            BY <3>1 DEF Said
    <2>2. QED
        BY <1>9, <2>1
<1>11. ASSUME "Website" \in DOMAIN object, NEW e \in Device \cap DOMAIN object, NEW f \in Pushed(e)
       PROVE  /\ Ends(SentTo("Website", t.sent), e, f, object[e][f], t.object[e][f])
              /\ e = d /\ f = m.command => \E i \in 1..Len(SentTo("Website", t.sent)) :
                    Said(SentTo("Website", t.sent)[i], e, f) # {}
    <2>1. Ends(SentTo("Website", t.sent), e, f, shown(e, f), t.object[e][f])
        <3>1. Ends(SentTo("Website", t.sent), e, f, k.shown[e][f], t.object[e][f])
            BY <1>2, <1>5, <1>11 DEF TurnOK, PageTold
        <3> HIDE DEF told, shown
        <3>2. QED
            BY <1>2, <3>1 DEF Tracked
    <2>2. CASE e = d /\ f = m.command
        <3>1. t.object[e][f] # shown(e, f)
            BY <1>1, <2>2 DEF v
        <3> HIDE DEF shown
        <3>2. \E i \in 1..Len(SentTo("Website", t.sent)) :
                /\ Said(SentTo("Website", t.sent)[i], e, f) = {t.object[e][f]}
                /\ \A j \in i+1..Len(SentTo("Website", t.sent)) :
                        Said(SentTo("Website", t.sent)[j], e, f) = {}
            BY <2>1, <3>1 DEF Ends
        <3>3. QED
            BY <3>2 DEF Ends
    <2>3. CASE ~(e = d /\ f = m.command)
        BY <2>1, <2>3
    <2>4. QED
        BY <2>2, <2>3
<1> HIDE DEF told, shown
<1>12. d # "Website"
    BY DEF Device
<1>13. Turned(t, d, m)
    BY <1>5, <1>6, <1>7, <1>8, <1>10, <1>11, <1>12 DEF Turned
<1>14. ASSUME m.command \notin Sensed(d) \cup {"DEVICE_INFO"},
              NEW n, n.command = "WEBSITE_FORWARD", n.value = m, m.type = d
       PROVE  Turned(t, "Website", n)
    <2>1. \A e \in Device \cap DOMAIN object : \A f \in Commanded(e) :
            Heard(d, m, e, f) = Heard("Website", n, e, f)
        BY <1>12, <1>14 DEF Heard
    <2>2. \A e \in Device \cap DOMAIN object : \A f \in Sensed(e) :
            t.object[e][f] = object[e][f]
        BY <1>9, <1>14
    <2>3. "Website" \notin Device
        BY DEF Device
    <2>4. \A e \in Device \cap DOMAIN object : \A f \in Commanded(e) :
            Ends(SentTo(e, t.sent), "Device", f, Heard("Website", n, e, f), Believed(t.object, e, f))
        BY <1>8, <2>1
    <2>5. "Website" \in DOMAIN object =>
            \A e \in Device \cap DOMAIN object : \A f \in Pushed(e) :
                /\ Ends(SentTo("Website", t.sent), e, f, object[e][f], t.object[e][f])
                /\ n.value.type = e /\ n.value.command = f =>
                    \E i \in 1..Len(SentTo("Website", t.sent)) :
                        Said(SentTo("Website", t.sent)[i], e, f) # {}
        BY <1>11, <1>14
    <2>6. "Fridge" \in DOMAIN object => Cooling(t, object)
        BY <1>6
    <2> HIDE DEF t
    <2>7. \A e \in Device \cap DOMAIN object : "Website" # e
        BY <2>3
    <2>8. QED
        BY <1>7, <2>2, <2>4, <2>5, <2>6, <2>7 DEF Turned
<1>15. QED
    BY <1>13, <1>14 DEF t

LEMMA UpdateTurned ==
    ASSUME ObjectsOK(object), "Website" \in DOMAIN object,
           NEW m, m.command \notin {"REGISTRATION", "WEBSITE_FORWARD"}
    PROVE  Turned(HandleMessage(Turn(object), "Website", m), "Website", m)
<1> DEFINE b == Turn(object)
           t == HandleMessage(b, "Website", m)
           base == [e \in Device |-> [f \in DOMAIN NewObject[e] |->
                        IF f \in Commanded(e) THEN Believed(object, e, f) ELSE object[e][f]]]
           k == [objects |-> object, base |-> base, shown |-> object, about |-> {}]
<1>1. /\ k.objects = object /\ k.shown = object /\ k.about = {}
      /\ \A e \in Device : \A f \in Tracked(e) : k.base[e][f] =
            IF f \in Commanded(e) THEN Believed(object, e, f) ELSE object[e][f]
    BY TrackedFields
<1> HIDE DEF k
<1>2. \A e \in Device :
        /\ \A f \in Commanded(e) : k.base[e][f] = Believed(object, e, f)
        /\ \A f \in Sensed(e) : k.base[e][f] = object[e][f]
    BY <1>1, TrackedFields DEF Tracked
<1>3. TurnOK(b, k, {}, {})
    BY <1>1, <1>2, TurnBegins
<1>4. t = Update(b) \/ t = b
    BY DEF HandleMessage, WebsiteHandleMessage
<1>5. TurnOK(t, k, {}, {})
    BY <1>1, <1>3, <1>4, UpdateOK
<1> HIDE DEF t, b
<1>6. /\ DOMAIN t.object = DOMAIN object
      /\ ObjectsOK(t.object)
      /\ Sequence(t.sent)
      /\ \A i \in 1..Len(t.sent) : SentOK(t.sent[i], object) /\ t.sent[i].to \in DOMAIN object
      /\ \A d \in Device \cap DOMAIN object :
            t.object[d] = object[d] /\ SentTo(d, t.sent) = <<>>
    BY <1>1, <1>5 DEF TurnOK, OthersAside
<1>7. \A d \in Device \cap DOMAIN object : \A f \in Commanded(d) :
        /\ Ends(SentTo(d, t.sent), "Device", f, k.base[d][f], Believed(t.object, d, f))
        /\ k.base[d][f] = Heard("Website", m, d, f)
    BY <1>1, <1>2, <1>5 DEF TurnOK, DevicesTold, Heard, Device
<1>8. \A d \in Device \cap DOMAIN object : \A f \in Pushed(d) :
        Ends(SentTo("Website", t.sent), d, f, object[d][f], t.object[d][f])
    BY <1>1, <1>5 DEF TurnOK, PageTold
<1>9. "Fridge" \in DOMAIN object => Cooling(t, object)
    BY <1>6 DEF Cooling, Device
<1>10. "Website" \notin Device
    BY DEF Device
<1>11. Turned(t, "Website", m)
    BY <1>6, <1>7, <1>8, <1>9, <1>10 DEF Turned
<1>12. QED
    BY <1>11 DEF t, b

-----------------------------------------------------------------------------
(* The queues.                                                             *)

(* What may be under way from a client.                                    *)
InOK(c, m) ==
    /\ c # "Website" => ValueOK(c, m)
    /\ c = "Website" /\ m.command = "WEBSITE_FORWARD" =>
        /\ m.value.type \in Device \cap DOMAIN object
        /\ ValueOK(m.value.type, m.value)
        /\ m.value.command \notin Sensed(m.value.type) \cup {"DEVICE_INFO"}

(* And to one.                                                             *)
OutOK(c, m) ==
    /\ c = "Website" =>
        /\ m.command # "Status"
        /\ m.command = "WEBSITE_UPDATE" => DOMAIN m.value \subseteq DOMAIN object
    /\ c # "Website" =>
        /\ m.command \notin Sensed(c)
        /\ m.command \in DOMAIN Possible => m.value \in Possible[m.command]

LEMMA HandleOK ==
    ASSUME ObjectsOK(object), NEW c \in DOMAIN object, NEW m, m.command # "REGISTRATION", InOK(c, m)
    PROVE  Turned(HandleMessage(Turn(object), c, m), c, m)
<1> DEFINE b == Turn(object)
           t == HandleMessage(b, c, m)
<1>1. c \in Device \cup {"Website"}
    BY DEF ObjectsOK
<1>2. CASE c # "Website"
    <2>1. t = DeviceHandleMessage(b, c, m)
        BY <1>2 DEF HandleMessage
    <2>2. QED
        BY <1>1, <1>2, <2>1, DeviceTurned DEF InOK
<1>3. CASE c = "Website" /\ m.command = "WEBSITE_FORWARD"
    <2>1. t = DeviceHandleMessage(b, m.value.type, m.value)
        BY <1>3 DEF HandleMessage, WebsiteHandleMessage
    <2>2. Turned(DeviceHandleMessage(b, m.value.type, m.value), "Website", m)
        BY <1>3, DeviceTurned DEF InOK
    <2>3. QED
        BY <1>3, <2>1, <2>2
<1>4. CASE c = "Website" /\ m.command # "WEBSITE_FORWARD"
    BY <1>4, UpdateTurned
<1>5. QED
    BY <1>2, <1>3, <1>4

(* No question for a device's state is under way, and no answer.           *)
NoInfo(s) == \A i \in 1..Len(s) : s[i].command # "DEVICE_INFO"

(* A registration comes first, and only of a client that has no object.    *)
InboxOK(c, s) ==
    /\ Sequence(s)
    /\ \A i \in 1..Len(s) :
        InOK(c, s[i]) /\ (s[i].command = "REGISTRATION" => i = 1 /\ c \notin DOMAIN object)

OutboxOK(c, s) == Sequence(s) /\ \A i \in 1..Len(s) : OutOK(c, s[i])

(* The variables are functions over the clients, devices and fields there  *)
(* are.                                                                    *)
Shape ==
    /\ Home \subseteq Device
    /\ inbox = [c \in Client |-> inbox[c]] /\ outbox = [c \in Client |-> outbox[c]]
    /\ lost = [d \in Home |-> lost[d]]
    /\ page = [d \in Device |-> page[d]]
    /\ \A d \in Device : DOMAIN page[d] = DOMAIN BlankPage[d]
    /\ \A d \in Home :
        /\ DOMAIN actual[d] = DOMAIN PowerOn[d]
        /\ \A f \in DOMAIN actual[d] \cap DOMAIN Possible : actual[d][f] \in Possible[f]

(* A client that main has no object for has not connected, or its          *)
(* registration is the next main gets of it; it has been sent nothing.     *)
Announced(c) ==
    /\ connection[c] = "none" => inbox[c] = <<>> /\ c \notin DOMAIN object
    /\ connection[c] # "none" /\ c \notin DOMAIN object =>
        inbox[c] # <<>> /\ Head(inbox[c]).command = "REGISTRATION"
    /\ c \notin DOMAIN object => outbox[c] = <<>>

Traffic ==
    \A c \in Client : Announced(c) /\ InboxOK(c, inbox[c]) /\ OutboxOK(c, outbox[c])

(* What the page takes for connected has an object; without a connection   *)
(* or an object of its own it takes nothing for connected.                 *)
PageOK ==
    /\ \A d \in Device : IsConnected(page, d) => d \in DOMAIN object
    /\ "Website" \notin DOMAIN object \/ ~Connected("Website") =>
        \A d \in Device : ~IsConnected(page, d)

IInv == TypeOK /\ ObjectsOK(object) /\ Shape /\ Traffic /\ PageOK

-----------------------------------------------------------------------------
(* Every action preserves it.                                              *)

(* What the page has places for.                                           *)
LEMMA BlankFields ==
    /\ BlankPage = [d \in Device |-> BlankPage[d]]
    /\ \A d \in Device : /\ Pushed(d) \cup {"Status"} \subseteq DOMAIN BlankPage[d]
                         /\ BlankPage[d].Status = "DISCONNECTED"
<1>1. BlankPage \in [Device -> {BlankPage[d] : d \in Device}]
    BY Zenon DEF BlankPage
<1> DEFINE blank == BlankPage
<1>2. blank \in [Device -> {blank[d] : d \in Device}]
    BY <1>1
<1>3. \A d \in Device : /\ Pushed(d) \cup {"Status"} \subseteq DOMAIN blank[d]
                        /\ blank[d].Status = "DISCONNECTED"
    BY LedNames DEF BlankPage, Pushed, Device
<1> HIDE DEF blank
<1>4. blank = [d \in Device |-> blank[d]]
    BY <1>2
<1>5. QED
    BY <1>3, <1>4 DEF blank

(* More from a client.                                                     *)
LEMMA MoreIn ==
    ASSUME NEW c, NEW s, InboxOK(c, s), NEW b, Sequence(b),
           \A i \in 1..Len(b) : InOK(c, b[i]) /\ b[i].command # "REGISTRATION"
    PROVE  /\ InboxOK(c, s \o b)
           /\ s # <<>> => s \o b # <<>> /\ Head(s \o b) = Head(s)
<1> DEFINE u == s \o b
<1>1. /\ Sequence(u)
      /\ Len(s) \in Nat /\ Len(b) \in Nat /\ Len(u) = Len(s) + Len(b)
      /\ \A i \in 1..Len(s) : u[i] = s[i]
      /\ \A i \in Len(s)+1..Len(u) : i - Len(s) \in 1..Len(b) /\ u[i] = b[i - Len(s)]
    BY SequenceConcat DEF InboxOK
<1> HIDE DEF u
<1>2. ASSUME NEW i \in 1..Len(u)
      PROVE  InOK(c, u[i]) /\ (u[i].command = "REGISTRATION" => i = 1 /\ c \notin DOMAIN object)
    <2>1. i \in 1..Len(s) \/ i \in Len(s)+1..Len(u)
        BY <1>1
    <2>2. QED
        BY <1>1, <2>1 DEF InboxOK
<1>3. InboxOK(c, u)
    BY <1>1, <1>2 DEF InboxOK
<1>4. s # <<>> => u # <<>> /\ Head(u) = Head(s)
    <2>1. s # <<>> => Len(s) # 0 /\ Head(s) = s[1] /\ 1 \in 1..Len(s)
        BY SequenceHead DEF InboxOK
    <2>2. /\ u # <<>> <=> Len(u) # 0
          /\ u # <<>> => Head(u) = u[1]
        BY <1>1, SequenceHead
    <2>3. QED
        BY <1>1, <2>1, <2>2
<1>5. QED
    BY <1>3, <1>4 DEF u

LEMMA OneMoreIn ==
    ASSUME NEW c, NEW s, InboxOK(c, s), NEW m, InOK(c, m), m.command # "REGISTRATION"
    PROVE  /\ InboxOK(c, Append(s, m))
           /\ s # <<>> => Append(s, m) # <<>> /\ Head(Append(s, m)) = Head(s)
<1> DEFINE u == Append(s, m)
<1>1. /\ Sequence(u) /\ Len(s) \in Nat /\ Len(u) = Len(s) + 1
      /\ \A i \in 1..Len(s) : u[i] = s[i]
      /\ u[Len(s)+1] = m
    BY SequenceAppend DEF InboxOK
<1> HIDE DEF u
<1>2. ASSUME NEW i \in 1..Len(u)
      PROVE  InOK(c, u[i]) /\ (u[i].command = "REGISTRATION" => i = 1 /\ c \notin DOMAIN object)
    <2>1. i \in 1..Len(s) \/ i = Len(s) + 1
        BY <1>1
    <2>2. QED
        BY <1>1, <2>1 DEF InboxOK
<1>3. u # <<>> /\ Head(u) = u[1]
    BY <1>1, SequenceHead
<1>4. s # <<>> => Head(s) = s[1] /\ 1 \in 1..Len(s)
    BY SequenceHead DEF InboxOK
<1>5. QED
    BY <1>1, <1>2, <1>3, <1>4 DEF u, InboxOK

(* A message is taken.                                                     *)
LEMMA OneLess ==
    ASSUME NEW s, Sequence(s), s # <<>>, NEW c
    PROVE  /\ InboxOK(c, s) => /\ InboxOK(c, Tail(s)) /\ InOK(c, Head(s))
                               /\ \A i \in 1..Len(Tail(s)) : Tail(s)[i].command # "REGISTRATION"
                               /\ Head(s).command = "REGISTRATION" => c \notin DOMAIN object
           /\ OutboxOK(c, s) => OutboxOK(c, Tail(s)) /\ OutOK(c, Head(s))
<1> DEFINE t == Tail(s)
<1>1. /\ Len(s) \in Nat /\ Head(s) = s[1] /\ 1 \in 1..Len(s)
      /\ Sequence(t) /\ Len(t) = Len(s) - 1
      /\ \A i \in 1..Len(t) : i + 1 \in 1..Len(s) /\ t[i] = s[i+1]
    BY SequenceHead
<1> HIDE DEF t
<1>2. ASSUME InboxOK(c, s)
      PROVE  /\ InboxOK(c, t) /\ InOK(c, Head(s))
             /\ \A i \in 1..Len(t) : t[i].command # "REGISTRATION"
             /\ Head(s).command = "REGISTRATION" => c \notin DOMAIN object
    <2>1. ASSUME NEW i \in 1..Len(t) PROVE InOK(c, t[i]) /\ t[i].command # "REGISTRATION"
        <3>1. i + 1 \in 1..Len(s) /\ i + 1 # 1 /\ t[i] = s[i+1]
            BY <1>1
        <3>2. QED
            BY <1>2, <3>1 DEF InboxOK
    <2>2. QED
        BY <1>1, <1>2, <2>1 DEF InboxOK
<1>3. ASSUME OutboxOK(c, s) PROVE OutboxOK(c, t) /\ OutOK(c, Head(s))
    BY <1>1, <1>3 DEF OutboxOK
<1>4. QED
    BY <1>2, <1>3 DEF t

(* What depends on the objects only by whether there is one.               *)
LEMMA QueuesKept ==
    ASSUME DOMAIN object \subseteq DOMAIN object'
    PROVE  /\ \A c, m : InOK(c, m) => InOK(c, m)'
           /\ \A c, m : OutOK(c, m) => OutOK(c, m)'
           /\ \A c, s : OutboxOK(c, s) => OutboxOK(c, s)'
           /\ \A c, s : InboxOK(c, s) /\ (c \in DOMAIN object' => c \in DOMAIN object)
                            => InboxOK(c, s)'
<1>1. /\ \A c, m : InOK(c, m) => InOK(c, m)'
      /\ \A c, m : OutOK(c, m) => OutOK(c, m)'
    BY DEF InOK, OutOK
<1>2. QED
    BY <1>1 DEF InboxOK, OutboxOK

LEMMA TrafficStep ==
    ASSUME Traffic, object' = object, Client' = Client,
           \A c \in Client :
            /\ connection'[c] = "none" <=> connection[c] = "none"
            /\ \/ inbox'[c] = inbox[c]
               \/ /\ connection[c] # "none" /\ InboxOK(c, inbox'[c])
                  /\ inbox[c] # <<>> => inbox'[c] # <<>> /\ Head(inbox'[c]) = Head(inbox[c])
            /\ \/ outbox'[c] = outbox[c]
               \/ (outbox'[c] = <<>> \/ c \in DOMAIN object) /\ OutboxOK(c, outbox'[c])
    PROVE  Traffic'
<1>1. /\ \A c, s : OutboxOK(c, s) => OutboxOK(c, s)'
      /\ \A c, s : InboxOK(c, s) => InboxOK(c, s)'
    BY QueuesKept
<1> SUFFICES ASSUME NEW c \in Client
             PROVE  (Announced(c) /\ InboxOK(c, inbox[c]) /\ OutboxOK(c, outbox[c]))'
    BY DEF Traffic
<1>2. Announced(c) /\ InboxOK(c, inbox[c]) /\ OutboxOK(c, outbox[c])
    BY DEF Traffic
<1>3. InboxOK(c, inbox'[c]) /\ OutboxOK(c, outbox'[c])
    BY <1>2
<1>4. Announced(c)'
    BY <1>2 DEF Announced
<1>5. QED
    BY <1>1, <1>3, <1>4

LEMMA ConnectStep ==
    ASSUME IInv, NEW c \in Client, Connect(c)
    PROVE  IInv'
<1> DEFINE registration == IF connection[c] = "none" THEN <<Message("REGISTRATION", "")>>
                           ELSE <<>>
           question     == IF c = "Website" THEN <<Message("WEBSITE_UPDATE", "")>> ELSE <<>>
<1>1. /\ ~Connected(c)
      /\ connection' = [connection EXCEPT ![c] = IF @ = "none" THEN "first" ELSE "again"]
      /\ inbox' = [inbox EXCEPT ![c] = @ \o registration \o question]
      /\ UNCHANGED <<actual, page, object, outbox, crossed, lost, left>>
    BY DEF Connect
<1> USE DEF IInv
<1> DEFINE s == inbox[c]
           u == s \o registration
           v == u \o question
<1>2. InboxOK(c, s) /\ Announced(c)
    BY DEF Traffic
<1>3. /\ InboxOK(c, u)
      /\ s # <<>> => u # <<>> /\ Head(u) = Head(s)
      /\ connection[c] = "none" => u # <<>> /\ Head(u).command = "REGISTRATION"
    <2>1. CASE connection[c] = "none"
        <3> DEFINE m == Message("REGISTRATION", "")
        <3>1. s = <<>> /\ c \notin DOMAIN object
            BY <1>2, <2>1 DEF Announced
        <3>2. m.command = "REGISTRATION" /\ InOK(c, m)
            BY PossibleValues DEF InOK, ValueOK, Message, Derived
        <3>3. u = <<m>>
            BY <2>1, <3>1
        <3> HIDE DEF m, s, u
        <3>4. Sequence(<<m>>) /\ Len(<<m>>) = 1 /\ <<m>>[1] = m /\ <<m>> # <<>> /\ Head(<<m>>) = m
            BY SequenceSmall, SequenceHead
        <3>5. \A i \in 1..Len(<<m>>) : i = 1
            BY <3>4
        <3>6. InboxOK(c, u)
            BY <3>1, <3>2, <3>3, <3>4, <3>5 DEF InboxOK
        <3>7. QED
            BY <3>1, <3>2, <3>3, <3>4, <3>6
    <2>2. CASE connection[c] # "none"
        <3>1. registration = <<>>
            BY <2>2
        <3> HIDE DEF registration, s
        <3>2. Sequence(registration) /\ Len(registration) = 0
            BY <3>1, SequenceSmall
        <3>3. \A i \in 1..Len(registration) : FALSE
            BY <3>2
        <3>4. QED
            BY <1>2, <2>2, <3>2, <3>3, MoreIn
    <2>3. QED
        BY <2>1, <2>2
<1>4. /\ Sequence(question)
      /\ \A i \in 1..Len(question) :
            InOK(c, question[i]) /\ question[i].command # "REGISTRATION"
    <2>1. CASE c = "Website"
        <3> DEFINE m == Message("WEBSITE_UPDATE", "")
        <3>1. m.command # "REGISTRATION" /\ InOK(c, m)
            BY <2>1 DEF InOK, Message
        <3>2. question = <<m>>
            BY <2>1
        <3> HIDE DEF m, question
        <3>3. Sequence(<<m>>) /\ Len(<<m>>) = 1 /\ <<m>>[1] = m
            BY SequenceSmall
        <3>4. \A i \in 1..Len(<<m>>) : <<m>>[i] = m
            BY <3>3
        <3>5. QED
            BY <3>1, <3>2, <3>3, <3>4
    <2>2. CASE c # "Website"
        <3>1. question = <<>>
            BY <2>2
        <3> HIDE DEF question
        <3>2. Sequence(question) /\ Len(question) = 0
            BY <3>1, SequenceSmall
        <3>3. QED
            BY <3>2
    <2>3. QED
        BY <2>1, <2>2
<1> HIDE DEF registration, question
<1> HIDE DEF u
<1>5. /\ InboxOK(c, v)
      /\ u # <<>> => v # <<>> /\ Head(v) = Head(u)
    BY <1>3, <1>4, MoreIn
<1>6. Home' = Home /\ Client' = Client
    BY <1>1 DEF Home, Client
<1>7. /\ inbox' = [e \in Client |-> inbox'[e]]
      /\ inbox'[c] = v
      /\ \A e \in Client : e # c => inbox'[e] = inbox[e] /\ connection'[e] = connection[e]
      /\ connection'[c] = IF connection[c] = "none" THEN "first" ELSE "again"
    BY <1>1 DEF Shape, TypeOK, u
<1> HIDE DEF v
<1>8. Shape'
    BY <1>1, <1>6, <1>7 DEF Shape
<1>9. Traffic'
    <2>1. /\ \A e, b : OutboxOK(e, b) => OutboxOK(e, b)'
          /\ \A e, b : InboxOK(e, b) => InboxOK(e, b)'
        BY <1>1, QueuesKept
    <2> SUFFICES ASSUME NEW e \in Client
                 PROVE  (Announced(e) /\ InboxOK(e, inbox[e]) /\ OutboxOK(e, outbox[e]))'
        BY <1>6 DEF Traffic
    <2>2. Announced(e) /\ InboxOK(e, inbox[e]) /\ OutboxOK(e, outbox[e])
        BY DEF Traffic
    <2>3. InboxOK(e, inbox'[e]) /\ OutboxOK(e, outbox'[e])
        BY <1>1, <1>5, <1>7, <2>2
    <2>4. Announced(e)'
        <3>1. CASE e = c
            BY <1>1, <1>3, <1>5, <1>7, <2>2, <3>1 DEF Announced
        <3>2. CASE e # c
            BY <1>1, <1>7, <2>2, <3>2 DEF Announced
        <3>3. QED
            BY <3>1, <3>2
    <2>5. QED
        BY <2>1, <2>3, <2>4
<1>10. TypeOK'
    BY <1>1, <1>6, <1>7 DEF TypeOK, Connected
<1>11. PageOK'
    <2>1. "Website" \in Client
        BY DEF Client
    <2>2. Connected("Website") => Connected("Website")'
        BY <1>1, <1>7, <2>1 DEF Connected
    <2>3. CASE Connected("Website") \/ c # "Website"
        BY <1>1, <1>7, <2>1, <2>2, <2>3 DEF PageOK, IsConnected, Connected
    <2>4. CASE ~Connected("Website")
        BY <1>1, <2>4 DEF PageOK, IsConnected
    <2>5. QED
        BY <2>3, <2>4
<1>12. QED
    BY <1>1, <1>8, <1>9, <1>10, <1>11 DEF ObjectsOK

LEMMA BreakStep ==
    ASSUME IInv, NEW c \in Client, Break(c)
    PROVE  IInv'
<1> USE DEF IInv
<1>1. /\ left.faults > 0 /\ left' = [left EXCEPT !.faults = @ - 1]
      /\ connection' = [connection EXCEPT ![c] = "broken"]
      /\ outbox' = [outbox EXCEPT ![c] = <<>>]
      /\ UNCHANGED <<object, inbox, crossed>>
      /\ connection[c] \in {"first", "again"}
    BY DEF Break, Fault, Connected
<1>2. left' \in [inputs : Nat, faults : Nat]
    BY <1>1 DEF TypeOK
<1>3. /\ Home' = Home
      /\ \A d \in Home : DOMAIN actual'[d] = DOMAIN PowerOn[d]
      /\ \A d \in Home : \A f \in DOMAIN actual'[d] \cap DOMAIN Possible :
            actual'[d][f] \in Possible[f]
      /\ lost' = [d \in Home |-> lost'[d]]
      /\ \A d \in Home : lost'[d] \subseteq DOMAIN actual'[d]
      /\ page' = [d \in Device |-> page'[d]]
      /\ \A d \in Device : /\ DOMAIN page'[d] = DOMAIN BlankPage[d]
                           /\ c = "Website" => page'[d].Status = "DISCONNECTED"
                           /\ page'[d].Status \in {page[d].Status, "DISCONNECTED"}
      /\ c # "Website" => page' = page
    <2>0. /\ \A d \in Home : DOMAIN actual[d] = DOMAIN PowerOn[d]
          /\ \A d \in Home : \A f \in DOMAIN actual[d] \cap DOMAIN Possible :
                actual[d][f] \in Possible[f]
          /\ lost = [d \in Home |-> lost[d]]
          /\ \A d \in Home : lost[d] \subseteq DOMAIN actual[d]
          /\ page = [d \in Device |-> page[d]]
          /\ \A d \in Device : DOMAIN page[d] = DOMAIN BlankPage[d]
          /\ Home \subseteq Device
        BY DEF Shape, TypeOK
    <2>1. CASE c = "Website"
        <3>1. page' = BlankPage /\ UNCHANGED <<actual, lost>> /\ Home' = Home
            BY <2>1 DEF Break, Home
        <3> DEFINE blank == BlankPage
        <3>2. /\ page' = blank /\ blank = [d \in Device |-> blank[d]]
              /\ \A d \in Device : blank[d].Status = "DISCONNECTED"
              /\ \A d \in Device : DOMAIN blank[d] = DOMAIN BlankPage[d]
            BY <3>1, BlankFields
        <3> HIDE DEF blank, IInv
        <3>3. QED
            BY <2>0, <2>1, <3>1, <3>2
    <2>2. CASE c # "Website"
        <3>1. /\ page' = page
              /\ lost' = [lost EXCEPT ![c] = DOMAIN actual[c]]
              /\ \E state \in {actual, PowerOn} : actual' = [actual EXCEPT ![c] = state[c]]
            BY <2>2 DEF Break
        <3>2. PICK state \in {actual, PowerOn} : actual' = [actual EXCEPT ![c] = state[c]]
            BY <3>1
        <3>3. /\ Home' = Home /\ c \in Home
              /\ \A d \in Home : actual'[d] = IF d = c THEN state[c] ELSE actual[d]
            BY <2>2, <3>2 DEF Home, Client
        <3>4. state[c] = actual[c] \/ state[c] = PowerOn[c]
            BY <3>2
        <3> HIDE DEF IInv
        <3>5. /\ DOMAIN state[c] = DOMAIN PowerOn[c]
              /\ \A f \in DOMAIN state[c] \cap DOMAIN Possible : state[c][f] \in Possible[f]
            BY <2>0, <3>3, <3>4, InputAssumption
        <3>6. /\ \A d \in Home : DOMAIN actual'[d] = DOMAIN PowerOn[d]
              /\ \A d \in Home : \A f \in DOMAIN actual'[d] \cap DOMAIN Possible :
                    actual'[d][f] \in Possible[f]
            BY <2>0, <3>3, <3>5
        <3>7. \A d \in Home : lost'[d] = IF d = c THEN DOMAIN actual[c] ELSE lost[d]
            BY <2>0, <3>1, <3>3
        <3>8. /\ lost' = [d \in Home |-> lost'[d]]
              /\ \A d \in Home : lost'[d] \subseteq DOMAIN actual'[d]
            BY <2>0, <3>1, <3>3, <3>6, <3>7
        <3>9. QED
            BY <2>0, <2>2, <3>1, <3>3, <3>6, <3>8
    <2>3. QED
        BY <2>1, <2>2
<1>4. Client' = Client
    BY <1>3 DEF Client
<1>5. /\ \A e \in Client : outbox'[e] = IF e = c THEN <<>> ELSE outbox[e]
      /\ \A e \in Client : connection'[e] = IF e = c THEN "broken" ELSE connection[e]
      /\ outbox' = [e \in Client |-> outbox'[e]]
    BY <1>1 DEF Shape, TypeOK
<1>6. OutboxOK(c, <<>>)
    BY SequenceSmall DEF OutboxOK
<1>7. Shape'
    BY <1>1, <1>3, <1>4, <1>5 DEF Shape
<1>8. Traffic'
    BY <1>1, <1>4, <1>5, <1>6, TrafficStep
<1>9. TypeOK'
    BY <1>1, <1>2, <1>3, <1>4, <1>5 DEF TypeOK, Connected
<1>10. PageOK'
    <2>1. CASE c = "Website"
        BY <1>3, <2>1 DEF PageOK, IsConnected
    <2>2. CASE c # "Website"
        <3>1. Connected("Website")' <=> Connected("Website")
            BY <1>5, <2>2 DEF Connected, Client
        <3>2. QED
            BY <1>1, <1>3, <2>2, <3>1 DEF PageOK, IsConnected
    <2>3. QED
        BY <2>1, <2>2
<1>11. QED
    BY <1>1, <1>7, <1>8, <1>9, <1>10 DEF ObjectsOK

LEMMA SenseStep ==
    ASSUME IInv, NEW d \in Home, Sense(d)
    PROVE  IInv'
<1> USE DEF IInv
<1>1. /\ left.inputs > 0 /\ left' = [left EXCEPT !.inputs = @ - 1]
      /\ connection[d] \in {"first", "again"}
      /\ UNCHANGED <<page, object, outbox, connection, crossed>>
    BY DEF Sense, Input, Connected
<1>2. PICK f \in DOMAIN Reading[d] : \E v \in Reading[d][f] :
        /\ inbox' = [inbox EXCEPT ![d] = Append(@, Message(f, v))]
        /\ actual' = IF f \in DOMAIN actual[d] THEN [actual EXCEPT ![d][f] = v] ELSE actual
        /\ lost' = [lost EXCEPT ![d] = @ \ {f}]
    BY DEF Sense
<1>3. PICK v \in Reading[d][f] :
        /\ inbox' = [inbox EXCEPT ![d] = Append(@, Message(f, v))]
        /\ actual' = IF f \in DOMAIN actual[d] THEN [actual EXCEPT ![d][f] = v] ELSE actual
        /\ lost' = [lost EXCEPT ![d] = @ \ {f}]
    BY <1>2
<1>4. left' \in [inputs : Nat, faults : Nat]
    BY <1>1 DEF TypeOK
<1>5. d \in Device /\ d # "Website"
    BY DEF Shape, Device
<1>6. /\ f \notin Derived \cup {"DEVICE_INFO", "REGISTRATION"}
      /\ f \in DOMAIN Possible => v \in Possible[f]
    BY <1>3, <1>5, InputAssumption
<1>7. /\ Home' = Home
      /\ \A e \in Home : DOMAIN actual'[e] = DOMAIN actual[e]
      /\ \A e \in Home : \A g \in DOMAIN actual'[e] \cap DOMAIN Possible :
            actual'[e][g] \in Possible[g]
    <2>1. \A e \in Home : \A g \in DOMAIN actual[e] \cap DOMAIN Possible :
            actual[e][g] \in Possible[g]
        BY DEF Shape
    <2>2. CASE f \in DOMAIN actual[d]
        <3> DEFINE x == [actual[d] EXCEPT ![f] = v]
        <3>1. actual' = [actual EXCEPT ![d] = x]
            BY <1>3, <2>2
        <3>2. DOMAIN x = DOMAIN actual[d] /\ \A g \in DOMAIN actual[d] :
                    x[g] = IF g = f THEN v ELSE actual[d][g]
            OBVIOUS
        <3> HIDE DEF x
        <3>3. Home' = Home /\ \A e \in Home : actual'[e] = IF e = d THEN x ELSE actual[e]
            BY <3>1 DEF Home
        <3>4. QED
            BY <1>6, <2>1, <3>2, <3>3
    <2>3. CASE f \notin DOMAIN actual[d]
        BY <1>3, <2>1, <2>3 DEF Home
    <2>4. QED
        BY <2>2, <2>3
<1>8. Client' = Client /\ d \in Client
    BY <1>7 DEF Client
<1>9. lost' = [e \in Home |-> lost'[e]] /\ \A e \in Home : lost'[e] \subseteq lost[e]
    BY <1>3 DEF Shape
<1> DEFINE m == Message(f, v)
<1>10. InOK(d, m) /\ m.command # "REGISTRATION"
    BY <1>5, <1>6 DEF InOK, ValueOK, Message
<1> HIDE DEF m
<1>11. /\ \A e \in Client : inbox'[e] = IF e = d THEN Append(inbox[d], m) ELSE inbox[e]
       /\ inbox' = [e \in Client |-> inbox'[e]]
    BY <1>3, <1>8 DEF Shape, m
<1> DEFINE u == Append(inbox[d], m)
<1>12. InboxOK(d, u) /\ (inbox[d] # <<>> => u # <<>> /\ Head(u) = Head(inbox[d]))
    BY <1>8, <1>10, OneMoreIn DEF Traffic
<1> HIDE DEF u
<1>13. \A e \in Client : inbox'[e] = IF e = d THEN u ELSE inbox[e]
    BY <1>11 DEF u
<1>14. Shape'
    BY <1>1, <1>7, <1>8, <1>9, <1>11 DEF Shape
<1>15. Traffic'
    BY <1>1, <1>8, <1>12, <1>13, TrafficStep
<1>16. TypeOK'
    BY <1>1, <1>4, <1>7, <1>8, <1>9 DEF TypeOK, Connected
<1>17. QED
    BY <1>1, <1>14, <1>15, <1>16 DEF PageOK, IsConnected, Connected, ObjectsOK

LEMMA ReportStep ==
    ASSUME IInv, NEW d \in Home, Report(d)
    PROVE  IInv'
<1> USE DEF IInv
<1>1. /\ left.faults > 0 /\ left' = [left EXCEPT !.faults = @ - 1]
      /\ d \in DOMAIN object /\ d # "Website"
      /\ UNCHANGED <<actual, page, object, outbox, connection, crossed, lost>>
    BY DEF Report, Fault
<1>2. PICK s \in ReportedStatus :
        inbox' = [inbox EXCEPT ![d] = Append(@, Message("HEARTBEAT", s))]
    BY DEF Report
<1>3. left' \in [inputs : Nat, faults : Nat]
    BY <1>1 DEF TypeOK
<1>4. Home' = Home /\ Client' = Client /\ d \in Client
    BY <1>1 DEF Home, Client
<1> DEFINE m == Message("HEARTBEAT", s)
<1>5. InOK(d, m) /\ m.command # "REGISTRATION"
    BY <1>1, PossibleValues DEF InOK, ValueOK, Message, Derived
<1> HIDE DEF m
<1>6. /\ \A e \in Client : inbox'[e] = IF e = d THEN Append(inbox[d], m) ELSE inbox[e]
      /\ inbox' = [e \in Client |-> inbox'[e]]
    BY <1>2, <1>4 DEF Shape, m
<1> DEFINE u == Append(inbox[d], m)
<1>7. InboxOK(d, u) /\ (inbox[d] # <<>> => u # <<>> /\ Head(u) = Head(inbox[d]))
    BY <1>4, <1>5, OneMoreIn DEF Traffic
<1> HIDE DEF u
<1>8. \A e \in Client : inbox'[e] = IF e = d THEN u ELSE inbox[e]
    BY <1>6 DEF u
<1>9. connection[d] # "none"
    BY <1>1, <1>4 DEF Traffic, Announced
<1>10. Shape'
    BY <1>1, <1>4, <1>6 DEF Shape
<1>11. Traffic'
    BY <1>1, <1>4, <1>7, <1>8, <1>9, TrafficStep
<1>12. TypeOK'
    BY <1>1, <1>3, <1>4 DEF TypeOK, Connected
<1>13. QED
    BY <1>1, <1>10, <1>11, <1>12 DEF PageOK, IsConnected, Connected, ObjectsOK

LEMMA ObeyStep ==
    ASSUME IInv, NEW d \in Home, Obey(d)
    PROVE  IInv'
<1> USE DEF IInv
<1> DEFINE h == Head(outbox[d])
           rest == Tail(outbox[d])
<1>1. /\ outbox[d] # <<>> /\ outbox' = [outbox EXCEPT ![d] = rest]
      /\ UNCHANGED <<page, object, connection, crossed, left>>
    BY DEF Obey
<1>2. d \in Client /\ d \in Device /\ d # "Website"
    BY DEF Client, Shape, Device
<1>3. OutOK(d, h) /\ OutboxOK(d, rest)
    BY <1>1, <1>2, OneLess DEF Traffic, OutboxOK
<1>4. connection[d] \in {"first", "again"} /\ d \in DOMAIN object
    BY <1>1, <1>2 DEF TypeOK, Connected, Traffic, Announced
<1>5. /\ Home' = Home
      /\ \A e \in Home : DOMAIN actual'[e] = DOMAIN actual[e]
      /\ \A e \in Home : \A g \in DOMAIN actual'[e] \cap DOMAIN Possible :
            actual'[e][g] \in Possible[g]
      /\ lost' = [e \in Home |-> lost'[e]] /\ \A e \in Home : lost'[e] \subseteq lost[e]
      /\ inbox' = [e \in Client |-> inbox'[e]]
      /\ \A e \in Client : e # d => inbox'[e] = inbox[e]
      /\ InboxOK(d, inbox'[d])
      /\ inbox[d] # <<>> => inbox'[d] # <<>> /\ Head(inbox'[d]) = Head(inbox[d])
    <2>1. InboxOK(d, inbox[d])
        BY <1>2 DEF Traffic
    <2>2. /\ \A e \in Home : DOMAIN actual[e] = DOMAIN PowerOn[e]
          /\ \A e \in Home : \A g \in DOMAIN actual[e] \cap DOMAIN Possible :
                actual[e][g] \in Possible[g]
        BY DEF Shape
    <2>3. inbox = [e \in Client |-> inbox[e]] /\ lost = [e \in Home |-> lost[e]]
        BY DEF Shape
    <2>4. CASE h.command = "DEVICE_INFO"
        <3>1. /\ inbox' = [inbox EXCEPT ![d] = Append(@, Message("DEVICE_INFO", actual[d]))]
              /\ lost' = [lost EXCEPT ![d] = {}]
              /\ actual' = actual
            BY <2>4 DEF Obey
        <3> DEFINE m == Message("DEVICE_INFO", actual[d])
        <3>2. InOK(d, m) /\ m.command # "REGISTRATION"
            BY <1>2, <2>2, PossibleValues DEF InOK, ValueOK, Message, Derived
        <3> HIDE DEF m
        <3> DEFINE u == Append(inbox[d], m)
        <3>3. InboxOK(d, u) /\ (inbox[d] # <<>> => u # <<>> /\ Head(u) = Head(inbox[d]))
            BY <2>1, <3>2, OneMoreIn
        <3> HIDE DEF u
        <3>4. inbox' = [inbox EXCEPT ![d] = u]
            BY <3>1 DEF u, m
        <3>5. inbox' = [e \in Client |-> inbox'[e]] /\ inbox'[d] = u
              /\ \A e \in Client : e # d => inbox'[e] = inbox[e]
            BY <1>2, <2>3, <3>4
        <3>6. lost' = [e \in Home |-> lost'[e]] /\ \A e \in Home : lost'[e] \subseteq lost[e]
            BY <2>3, <3>1
        <3>7. QED
            BY <2>2, <3>1, <3>3, <3>5, <3>6 DEF Home
    <2>5. CASE h.command # "DEVICE_INFO"
        <3> DEFINE x == [actual[d] EXCEPT ![h.command] = h.value]
        <3>1. actual' = [actual EXCEPT ![d] = x] /\ UNCHANGED <<inbox, lost>>
            BY <2>5 DEF Obey
        <3>2. /\ DOMAIN x = DOMAIN actual[d]
              /\ \A g \in DOMAIN actual[d] :
                    x[g] = IF g = h.command THEN h.value ELSE actual[d][g]
            OBVIOUS
        <3> HIDE DEF x
        <3>3. Home' = Home /\ \A e \in Home : actual'[e] = IF e = d THEN x ELSE actual[e]
            BY <3>1 DEF Home
        <3>4. h.command \in DOMAIN Possible => h.value \in Possible[h.command]
            BY <1>2, <1>3 DEF OutOK
        <3> HIDE DEF h
        <3>5. /\ \A e \in Home : DOMAIN actual'[e] = DOMAIN actual[e]
              /\ \A e \in Home : \A g \in DOMAIN actual'[e] \cap DOMAIN Possible :
                    actual'[e][g] \in Possible[g]
            BY <2>2, <3>2, <3>3, <3>4
        <3>6. QED
            BY <2>1, <2>3, <3>1, <3>3, <3>5
    <2>6. QED
        BY <2>4, <2>5
<1>6. Client' = Client
    BY <1>5 DEF Client
<1> HIDE DEF h, rest
<1>7. /\ outbox' = [e \in Client |-> outbox'[e]]
      /\ \A e \in Client : outbox'[e] = IF e = d THEN rest ELSE outbox[e]
    BY <1>1, <1>2 DEF Shape
<1>8. Shape'
    BY <1>1, <1>5, <1>6, <1>7 DEF Shape
<1>9. Traffic'
    BY <1>1, <1>3, <1>4, <1>5, <1>6, <1>7, TrafficStep
<1>10. TypeOK'
    BY <1>1, <1>4, <1>5, <1>6, <1>7 DEF TypeOK, Connected
<1>11. QED
    BY <1>1, <1>8, <1>9, <1>10 DEF PageOK, IsConnected, Connected, ObjectsOK

(* What moving a control forwards.                                         *)
LEMMA ForwardsOK ==
    ASSUME NEW d \in Device \cap DOMAIN object, NEW f \in DOMAIN Setting[d],
           NEW v \in Setting[d][f]
    PROVE  LET b == Forwards(d, f, v)
           IN  /\ Sequence(b)
               /\ \A i \in 1..Len(b) : InOK("Website", b[i]) /\ b[i].command = "WEBSITE_FORWARD"
               /\ 1 \in 1..Len(b) /\ b[1].value.type = d /\ b[1].value.command = f
<1> DEFINE forward(g) == [command |-> "WEBSITE_FORWARD",
                          value |-> [type |-> d, command |-> g, value |-> v]]
           one == forward(f)
           buzz == forward("COLUMN_BUZZER_ON")
           b == Forwards(d, f, v)
<1>1. /\ f \notin Sensed(d) \cup Derived \cup {"DEVICE_INFO", "Status"}
      /\ f \in DOMAIN Possible => v \in Possible[f]
    BY InputAssumption
<1>2. InOK("Website", one)
    BY <1>1 DEF InOK, ValueOK
<1>3. InOK("Website", buzz)
    <2>1. "COLUMN_BUZZER_ON" \notin Sensed(d) \cup DOMAIN Possible \cup Derived
        BY PossibleValues DEF Derived, Sensed, Device
    <2>2. QED
        BY <2>1 DEF InOK, ValueOK
<1>4. /\ one.command = "WEBSITE_FORWARD" /\ one.value.type = d /\ one.value.command = f
      /\ buzz.command = "WEBSITE_FORWARD"
    OBVIOUS
<1>5. b = IF f = "COLUMN_LED_ON" THEN <<one, buzz>> ELSE <<one>>
    BY DEF Forwards
<1> HIDE DEF one, buzz, b
<1>6. CASE f = "COLUMN_LED_ON"
    <2>1. b = <<one, buzz>>
        BY <1>5, <1>6
    <2>2. Sequence(b) /\ Len(b) = 2 /\ b[1] = one /\ b[2] = buzz
        BY <2>1, SequenceSmall
    <2>3. \A i \in 1..Len(b) : i = 1 \/ i = 2
        BY <2>2
    <2>4. QED
        BY <1>2, <1>3, <1>4, <2>2, <2>3 DEF b
<1>7. CASE f # "COLUMN_LED_ON"
    <2>1. b = <<one>>
        BY <1>5, <1>7
    <2>2. Sequence(b) /\ Len(b) = 1 /\ b[1] = one
        BY <2>1, SequenceSmall
    <2>3. \A i \in 1..Len(b) : i = 1
        BY <2>2
    <2>4. QED
        BY <1>2, <1>4, <2>2, <2>3 DEF b
<1>8. QED
    BY <1>6, <1>7

(* What moving a control does to the page and to what main will get.       *)
LEMMA Moved ==
    ASSUME IInv, NEW d \in Home, Move(d)
    PROVE  \E f \in DOMAIN Setting[d] :
        /\ f # "Status"
        /\ page' = [e \in Device |-> page'[e]]
        /\ \A e \in Device : DOMAIN page'[e] = DOMAIN page[e]
        /\ \A e \in Device : \A g \in DOMAIN page[e] :
            e # d \/ g # f => page'[e][g] = page[e][g]
        /\ ~IsConnected(page, d) => inbox' = inbox
        /\ IsConnected(page, d) =>
            \E b : /\ inbox' = [inbox EXCEPT !["Website"] = @ \o b]
                   /\ Sequence(b)
                   /\ \A i \in 1..Len(b) :
                        InOK("Website", b[i]) /\ b[i].command = "WEBSITE_FORWARD"
                   /\ 1 \in 1..Len(b) /\ b[1].value.type = d /\ b[1].value.command = f
<1> USE DEF IInv
<1>1. PICK f \in DOMAIN Setting[d] : \E v \in Setting[d][f] :
        /\ page' = MoveControl(page, d, f, v)
        /\ inbox' = IF IsConnected(page, d)
                    THEN [inbox EXCEPT !["Website"] = @ \o Forwards(d, f, v)]
                    ELSE inbox
    BY DEF Move
<1>2. PICK v \in Setting[d][f] :
        /\ page' = MoveControl(page, d, f, v)
        /\ inbox' = IF IsConnected(page, d)
                    THEN [inbox EXCEPT !["Website"] = @ \o Forwards(d, f, v)]
                    ELSE inbox
    BY <1>1
<1>3. d \in Device
    BY DEF Shape
<1>4. f # "Status"
    BY <1>3, InputAssumption
<1>5. /\ page' = [e \in Device |-> page'[e]]
      /\ \A e \in Device : DOMAIN page'[e] = DOMAIN page[e]
      /\ \A e \in Device : \A g \in DOMAIN page[e] :
            e # d \/ g # f => page'[e][g] = page[e][g]
    <2>1. page = [e \in Device |-> page[e]]
        BY DEF Shape
    <2>2. CASE f = "DOOR_DOORBELL_PRESSED"
        BY <1>2, <2>1, <2>2 DEF MoveControl
    <2>3. CASE f # "DOOR_DOORBELL_PRESSED"
        <3> DEFINE x == [page[d] EXCEPT ![f] = v]
        <3>1. page' = [page EXCEPT ![d] = x]
            BY <1>2, <2>3 DEF MoveControl
        <3>2. DOMAIN x = DOMAIN page[d] /\ \A g \in DOMAIN page[d] : g # f => x[g] = page[d][g]
            OBVIOUS
        <3> HIDE DEF x
        <3>3. \A e \in Device : page'[e] = IF e = d THEN x ELSE page[e]
            BY <1>3, <2>1, <3>1
        <3>4. page' = [e \in Device |-> page'[e]]
            BY <1>3, <2>1, <3>1
        <3>5. QED
            BY <3>2, <3>3, <3>4
    <2>4. QED
        BY <2>2, <2>3
<1>6. IsConnected(page, d) =>
        LET b == Forwards(d, f, v)
        IN  /\ Sequence(b)
            /\ \A i \in 1..Len(b) : InOK("Website", b[i]) /\ b[i].command = "WEBSITE_FORWARD"
            /\ 1 \in 1..Len(b) /\ b[1].value.type = d /\ b[1].value.command = f
    BY <1>3, ForwardsOK DEF PageOK
<1>7. IsConnected(page, d) => inbox' = [inbox EXCEPT !["Website"] = @ \o Forwards(d, f, v)]
    BY <1>2
<1>8. ~IsConnected(page, d) => inbox' = inbox
    BY <1>2
<1>9. QED
    BY <1>4, <1>5, <1>6, <1>7, <1>8

LEMMA MoveStep ==
    ASSUME IInv, NEW d \in Home, Move(d)
    PROVE  IInv'
<1> USE DEF IInv
<1>1. /\ left.inputs > 0 /\ left' = [left EXCEPT !.inputs = @ - 1]
      /\ connection["Website"] \in {"first", "again"}
      /\ UNCHANGED <<actual, object, outbox, connection, crossed, lost>>
    BY DEF Move, Input, Connected
<1>2. left' \in [inputs : Nat, faults : Nat]
    BY <1>1 DEF TypeOK
<1>3. Home' = Home /\ Client' = Client /\ "Website" \in Client
    BY <1>1 DEF Home, Client
<1>4. /\ page' = [e \in Device |-> page'[e]]
      /\ \A e \in Device : DOMAIN page'[e] = DOMAIN page[e] /\ page'[e].Status = page[e].Status
    <2>1. \A e \in Device : "Status" \in DOMAIN page[e]
        BY BlankFields DEF Shape
    <2>2. QED
        BY <2>1, Moved
<1>5. /\ inbox' = [e \in Client |-> inbox'[e]]
      /\ \A e \in Client : e # "Website" => inbox'[e] = inbox[e]
      /\ InboxOK("Website", inbox'["Website"])
      /\ inbox["Website"] # <<>> =>
            inbox'["Website"] # <<>> /\ Head(inbox'["Website"]) = Head(inbox["Website"])
    <2>1. inbox = [e \in Client |-> inbox[e]] /\ InboxOK("Website", inbox["Website"])
        BY <1>3 DEF Shape, Traffic
    <2>2. CASE inbox' = inbox
        BY <2>1, <2>2
    <2>3. CASE inbox' # inbox
        <3>1. PICK b : /\ inbox' = [inbox EXCEPT !["Website"] = @ \o b]
                       /\ Sequence(b)
                       /\ \A i \in 1..Len(b) :
                            InOK("Website", b[i]) /\ b[i].command = "WEBSITE_FORWARD"
            BY <2>3, Moved
        <3> DEFINE u == inbox["Website"] \o b
        <3>2. /\ InboxOK("Website", u)
              /\ inbox["Website"] # <<>> => u # <<>> /\ Head(u) = Head(inbox["Website"])
            BY <2>1, <3>1, MoreIn
        <3>3. inbox' = [inbox EXCEPT !["Website"] = u]
            BY <3>1
        <3> HIDE DEF u
        <3>4. QED
            BY <1>3, <2>1, <3>2, <3>3
    <2>4. QED
        BY <2>2, <2>3
<1>6. Shape'
    BY <1>1, <1>3, <1>4, <1>5 DEF Shape
<1>7. Traffic'
    BY <1>1, <1>3, <1>5, TrafficStep
<1>8. TypeOK'
    BY <1>1, <1>2, <1>3 DEF TypeOK, Connected
<1>9. PageOK'
    BY <1>1, <1>4 DEF PageOK, IsConnected, Connected
<1>10. QED
    BY <1>1, <1>6, <1>7, <1>8, <1>9 DEF ObjectsOK

(* What the page makes of a message: it shows just what the message says.  *)
LEMMA Shown ==
    ASSUME IInv, Show
    PROVE  LET h == Head(outbox["Website"])
           IN  /\ OutOK("Website", h)
               /\ page' = [e \in Device |-> page'[e]]
               /\ \A e \in Device : DOMAIN page'[e] = DOMAIN page[e]
               /\ \A e \in Device : \A f \in Pushed(e) \cup {"Status"} :
                    /\ Said(h, e, f) = {} => page'[e][f] = page[e][f]
                    /\ Said(h, e, f) # {} => Said(h, e, f) = {page'[e][f]}
<1> USE DEF IInv
<1> DEFINE h == Head(outbox["Website"])
<1>1. outbox["Website"] # <<>> /\ page' = OnMessage(page, h)
    BY DEF Show
<1>2. OutOK("Website", h)
    <2>1. OutboxOK("Website", outbox["Website"])
        BY DEF Traffic, Client
    <2>2. QED
        BY <1>1, <2>1, OneLess DEF OutboxOK
<1> HIDE DEF h
<1>3. /\ page = [e \in Device |-> page[e]]
      /\ \A e \in Device : Pushed(e) \cup {"Status"} \subseteq DOMAIN page[e]
    BY BlankFields DEF Shape
<1>4. \A e \in Device : \A f \in Pushed(e) \cup {"Status"} :
        f \notin NotUpdated \cup NotShown \cup {"WALL_LAMP_ON", "WALL_LEDSTRIP_ON"}
    BY LedNames DEF Pushed, NotUpdated, NotShown, Device
<1>5. CASE h.command = "WEBSITE_UPDATE"
    <2>1. page' = UpdateDeviceInformation(page, h.value)
        BY <1>1, <1>5 DEF OnMessage
    <2> DEFINE x(e) == [f \in DOMAIN page[e] |->
                    IF f \in NotUpdated THEN page[e][f] ELSE h.value[e][UpdatedFrom(f)]]
               y(e) == IF e \notin DOMAIN h.value THEN page[e] ELSE x(e)
    <2>2. page' = [e \in Device |-> y(e)]
        BY <2>1 DEF UpdateDeviceInformation
    <2>3. \A e : /\ DOMAIN x(e) = DOMAIN page[e]
                 /\ \A f \in DOMAIN page[e] :
                        x(e)[f] = IF f \in NotUpdated THEN page[e][f]
                                  ELSE h.value[e][UpdatedFrom(f)]
        OBVIOUS
    <2> HIDE DEF x
    <2>4. \A e : /\ DOMAIN y(e) = DOMAIN page[e]
                 /\ e \notin DOMAIN h.value => y(e) = page[e]
                 /\ e \in DOMAIN h.value => y(e) = x(e)
        BY <2>3
    <2> HIDE DEF y
    <2>5. page' = [e \in Device |-> page'[e]] /\ \A e \in Device : page'[e] = y(e)
        BY <2>2
    <2>6. ASSUME NEW e \in Device, NEW f \in Pushed(e) \cup {"Status"}
          PROVE  /\ Said(h, e, f) = IF e \in DOMAIN h.value THEN {h.value[e][f]} ELSE {}
                 /\ e \in DOMAIN h.value => page'[e][f] = h.value[e][f]
                 /\ e \notin DOMAIN h.value => page'[e][f] = page[e][f]
        <3>1. Said(h, e, f) = IF e \in DOMAIN h.value THEN {h.value[e][f]} ELSE {}
            BY <1>5 DEF Said, Device
        <3>2. f \in DOMAIN page[e] /\ f \notin NotUpdated /\ UpdatedFrom(f) = f
            BY <1>3, <1>4 DEF UpdatedFrom
        <3>3. QED
            BY <2>3, <2>4, <2>5, <3>1, <3>2
    <2>7. QED
        BY <1>2, <2>4, <2>5, <2>6 DEF h
<1>6. CASE h.command # "WEBSITE_UPDATE" /\ h.command \in NotShown
    <2>1. page' = page
        BY <1>1, <1>6 DEF OnMessage
    <2>2. \A e \in Device : \A f \in Pushed(e) \cup {"Status"} : Said(h, e, f) = {}
        BY <1>4, <1>6, SaidToPage
    <2>3. QED
        BY <1>2, <1>3, <2>1, <2>2 DEF h
<1>7. CASE h.command # "WEBSITE_UPDATE" /\ h.command \notin NotShown
    <2> DEFINE x == [page[h.type] EXCEPT ![h.command] = h.value]
    <2>1. page' = [page EXCEPT ![h.type] = x]
        BY <1>1, <1>7 DEF OnMessage
    <2>2. /\ DOMAIN x = DOMAIN page[h.type]
          /\ \A f \in DOMAIN page[h.type] :
                x[f] = IF f = h.command THEN h.value ELSE page[h.type][f]
        OBVIOUS
    <2> HIDE DEF x
    <2>3. /\ page' = [e \in Device |-> page'[e]]
          /\ \A e \in Device : page'[e] = IF e = h.type THEN x ELSE page[e]
        BY <1>3, <2>1
    <2>4. ASSUME NEW e \in Device, NEW f \in Pushed(e) \cup {"Status"}
          PROVE  Said(h, e, f) = IF h.type = e /\ h.command = f THEN {h.value} ELSE {}
        BY <1>7, SaidToPage
    <2>5. QED
        BY <1>2, <1>3, <2>2, <2>3, <2>4 DEF h
<1>8. QED
    BY <1>5, <1>6, <1>7

LEMMA ShowStep ==
    ASSUME IInv, Show
    PROVE  IInv'
<1> USE DEF IInv
<1> DEFINE h == Head(outbox["Website"])
           rest == Tail(outbox["Website"])
<1>1. /\ outbox["Website"] # <<>> /\ outbox' = [outbox EXCEPT !["Website"] = rest]
      /\ UNCHANGED <<actual, object, inbox, connection, crossed, lost, left>>
    BY DEF Show
<1>2. Home' = Home /\ Client' = Client /\ "Website" \in Client
    BY <1>1 DEF Home, Client
<1>3. OutboxOK("Website", rest)
    BY <1>1, <1>2, OneLess DEF Traffic, OutboxOK
<1>4. Connected("Website") /\ "Website" \in DOMAIN object
    BY <1>1, <1>2 DEF TypeOK, Traffic, Announced
<1>5. /\ page' = [e \in Device |-> page'[e]]
      /\ \A e \in Device : DOMAIN page'[e] = DOMAIN page[e]
      /\ \A e \in Device : page'[e].Status = page[e].Status \/ e \in DOMAIN object
    <2>1. /\ OutOK("Website", h)
          /\ page' = [e \in Device |-> page'[e]]
          /\ \A e \in Device : DOMAIN page'[e] = DOMAIN page[e]
          /\ \A e \in Device : Said(h, e, "Status") = {} => page'[e].Status = page[e].Status
        BY Shown
    <2> HIDE DEF h
    <2>2. \A e \in Device : Said(h, e, "Status") # {} => e \in DOMAIN object
        BY <2>1, SaidToPage DEF OutOK, Said, Device
    <2>3. QED
        BY <2>1, <2>2
<1> HIDE DEF rest
<1>6. /\ outbox' = [e \in Client |-> outbox'[e]]
      /\ \A e \in Client : outbox'[e] = IF e = "Website" THEN rest ELSE outbox[e]
    BY <1>1, <1>2 DEF Shape
<1>7. Shape'
    BY <1>1, <1>2, <1>5, <1>6 DEF Shape
<1>8. Traffic'
    BY <1>1, <1>2, <1>3, <1>4, <1>6, TrafficStep
<1>9. TypeOK'
    BY <1>1, <1>2, <1>4, <1>6 DEF TypeOK, Connected
<1>10. PageOK'
    BY <1>1, <1>4, <1>5 DEF PageOK, IsConnected, Connected
<1>11. QED
    BY <1>1, <1>7, <1>8, <1>9, <1>10 DEF ObjectsOK

(* Main's turn with the next message of a client.                          *)
After(c) == HandleMessage(Turn(object), c, Head(inbox[c]))

LEMMA HandleFrame ==
    ASSUME IInv, NEW c \in Client, Handle(c)
    PROVE  /\ inbox[c] # <<>> /\ connection[c] # "none" /\ c \in Device \cup {"Website"}
           /\ InboxOK(c, Tail(inbox[c])) /\ InOK(c, Head(inbox[c]))
           /\ \A i \in 1..Len(Tail(inbox[c])) : Tail(inbox[c])[i].command # "REGISTRATION"
           /\ Head(inbox[c]).command = "REGISTRATION" <=> c \notin DOMAIN object
           /\ object' = After(c).object
           /\ inbox' = [e \in Client |-> inbox'[e]]
           /\ \A e \in Client : inbox'[e] = IF e = c THEN Tail(inbox[c]) ELSE inbox[e]
           /\ outbox' = [e \in Client |-> outbox'[e]]
           /\ \A e \in Client : outbox'[e] =
                IF Connected(e) THEN outbox[e] \o SentTo(e, After(c).sent) ELSE outbox[e]
           /\ crossed \subseteq crossed' /\ crossed' \subseteq crossed \cup Home
           /\ \A d \in Home : SentTo(d, After(c).sent) # <<>> /\ AnswerAwaited(d, inbox')
                                => d \in crossed'
           /\ lost' = [d \in Home |-> lost'[d]]
           /\ \A d \in Home : lost'[d] =
                IF Connected(d) THEN lost[d] \ Commands(SentTo(d, After(c).sent)) ELSE lost[d]
           /\ UNCHANGED <<actual, page, connection, left>>
           /\ Home' = Home /\ Client' = Client
<1> USE DEF IInv
<1> DEFINE h == Head(inbox[c])
           rest == Tail(inbox[c])
           t == After(c)
<1>1. /\ inbox[c] # <<>>
      /\ object' = t.object
      /\ inbox' = [inbox EXCEPT ![c] = rest]
      /\ outbox' = [e \in Client |->
                IF Connected(e) THEN outbox[e] \o SentTo(e, t.sent) ELSE outbox[e]]
      /\ crossed' = crossed \cup
                {d \in Home : SentTo(d, t.sent) # <<>> /\ AnswerAwaited(d, inbox')}
      /\ lost' = [d \in Home |-> IF Connected(d)
                THEN lost[d] \ Commands(SentTo(d, t.sent)) ELSE lost[d]]
      /\ UNCHANGED <<actual, page, connection, left>>
    BY DEF Handle, After
<1>2. InboxOK(c, inbox[c]) /\ Announced(c) /\ c \in Device \cup {"Website"}
    BY DEF Traffic, Client, Shape
<1>3. /\ InboxOK(c, rest) /\ InOK(c, h)
      /\ \A i \in 1..Len(rest) : rest[i].command # "REGISTRATION"
      /\ h.command = "REGISTRATION" => c \notin DOMAIN object
    BY <1>1, <1>2, OneLess DEF InboxOK
<1>4. connection[c] # "none" /\ (c \notin DOMAIN object => h.command = "REGISTRATION")
    BY <1>1, <1>2 DEF Announced
<1> HIDE DEF h, rest, t
<1>5. Home' = Home /\ Client' = Client
    BY <1>1 DEF Home, Client
<1>6. /\ inbox' = [e \in Client |-> inbox'[e]]
      /\ \A e \in Client : inbox'[e] = IF e = c THEN rest ELSE inbox[e]
    BY <1>1 DEF Shape
<1> HIDE DEF IInv
<1>7. QED
    BY <1>1, <1>2, <1>3, <1>4, <1>5, <1>6 DEF h, rest, t

LEMMA HandleRegisters ==
    ASSUME IInv, NEW c \in Client, Handle(c), c \notin DOMAIN object
    PROVE  LET t == After(c)
           IN  /\ DOMAIN t.object = DOMAIN object \cup {c}
               /\ \A d \in DOMAIN object : t.object[d] = object[d]
               /\ ObjectsOK(t.object)
               /\ Sequence(t.sent)
               /\ \A i \in 1..Len(t.sent) : SentOK(t.sent[i], object) /\ t.sent[i].to = c
               /\ \A e : e # c => SentTo(e, t.sent) = <<>>
               /\ Len(SentTo(c, t.sent)) = 1 /\ Sequence(SentTo(c, t.sent))
               /\ c # "Website" => SentTo(c, t.sent)[1].command = "DEVICE_INFO"
               /\ c = "Website" => /\ SentTo(c, t.sent)[1].command = "WEBSITE_UPDATE"
                                   /\ SentTo(c, t.sent)[1].value = object
<1> DEFINE m == Head(inbox[c])
<1>1. c \in Device \cup {"Website"} /\ m.command = "REGISTRATION"
    BY HandleFrame
<1>2. ObjectsOK(object)
    BY DEF IInv
<1>3. After(c) = HandleMessage(Turn(object), c, m)
    BY DEF After
<1> HIDE DEF m
<1> DEFINE t == HandleMessage(Turn(object), c, m)
<1>4. /\ DOMAIN t.object = DOMAIN object \cup {c}
      /\ \A d \in DOMAIN object : t.object[d] = object[d]
      /\ ObjectsOK(t.object)
      /\ Sequence(t.sent)
      /\ \A i \in 1..Len(t.sent) : SentOK(t.sent[i], object) /\ t.sent[i].to = c
      /\ \A e : e # c => SentTo(e, t.sent) = <<>>
      /\ Len(SentTo(c, t.sent)) = 1 /\ Sequence(SentTo(c, t.sent))
      /\ c # "Website" => SentTo(c, t.sent)[1].command = "DEVICE_INFO"
      /\ c = "Website" => /\ SentTo(c, t.sent)[1].command = "WEBSITE_UPDATE"
                          /\ SentTo(c, t.sent)[1].value = object
    BY <1>1, <1>2, RegisterOK
<1> HIDE DEF t
<1>5. After(c) = t
    BY <1>3 DEF t
<1>6. QED
    BY <1>4, <1>5

LEMMA HandleTurns ==
    ASSUME IInv, NEW c \in Client, Handle(c), c \in DOMAIN object
    PROVE  Turned(After(c), c, Head(inbox[c]))
BY HandleFrame, HandleOK DEF After, IInv

(* What main's step does to the objects and sends.                         *)
LEMMA HandleSends ==
    ASSUME IInv, NEW c \in Client, Handle(c), NEW e \in Client
    PROVE  /\ DOMAIN object' = DOMAIN object \cup {c} /\ ObjectsOK(object')
           /\ Sequence(outbox[e]) /\ Sequence(outbox'[e]) /\ Sequence(SentTo(e, After(c).sent))
           /\ Len(outbox[e]) \in Nat
           /\ \A i \in 1..Len(outbox[e]) : outbox'[e][i] = outbox[e][i]
           /\ \A i \in Len(outbox[e])+1..Len(outbox'[e]) :
                outbox'[e][i].to = e /\ SentOK(outbox'[e][i], object)
           /\ \A i \in 1..Len(SentTo(e, After(c).sent)) :
                /\ SentTo(e, After(c).sent)[i].to = e
                /\ SentOK(SentTo(e, After(c).sent)[i], object)
           /\ e \notin DOMAIN object /\ e # c => SentTo(e, After(c).sent) = <<>>
<1> DEFINE t == After(c)
           new == SentTo(e, t.sent)
           old == outbox[e]
           both == old \o new
<1>1. /\ DOMAIN object' = DOMAIN object \cup {c} /\ ObjectsOK(object')
      /\ Sequence(t.sent)
      /\ \A i \in 1..Len(t.sent) :
            SentOK(t.sent[i], object) /\ t.sent[i].to \in DOMAIN object \cup {c}
    <2>1. object' = After(c).object
        BY HandleFrame
    <2>2. CASE c \in DOMAIN object
        BY <2>1, <2>2, HandleTurns DEF Turned
    <2>3. CASE c \notin DOMAIN object
        BY <2>1, <2>3, HandleRegisters
    <2>4. QED
        BY <2>2, <2>3
<1>2. outbox'[e] = IF Connected(e) THEN both ELSE old
    BY HandleFrame
<1> HIDE DEF t
<1>3. /\ Sequence(new)
      /\ \A i \in 1..Len(new) : \E j \in 1..Len(t.sent) : t.sent[j].to = e /\ new[i] = t.sent[j]
    BY <1>1, SentToOK
<1>4. Sequence(old)
    BY DEF IInv, Traffic, OutboxOK
<1> HIDE DEF new, old
<1>5. /\ Sequence(both)
      /\ Len(old) \in Nat /\ Len(new) \in Nat /\ Len(both) = Len(old) + Len(new)
      /\ \A i \in 1..Len(old) : both[i] = old[i]
      /\ \A i \in Len(old)+1..Len(both) :
            i - Len(old) \in 1..Len(new) /\ both[i] = new[i - Len(old)]
    BY <1>3, <1>4, SequenceConcat
<1> HIDE DEF both
<1>6. \A i \in 1..Len(new) : new[i].to = e /\ SentOK(new[i], object)
    BY <1>1, <1>3
<1>7. e \notin DOMAIN object /\ e # c => new = <<>>
    <2>1. e \notin DOMAIN object /\ e # c => Len(new) = 0
        BY <1>1, <1>3, <1>5
    <2>2. QED
        BY <1>3, <2>1, SequenceHead
<1>8. CASE Connected(e)
    <2>1. outbox'[e] = both
        BY <1>2, <1>8
    <2>2. \A i \in 1..Len(old) : outbox'[e][i] = old[i]
        BY <1>5, <2>1
    <2>3. \A i \in Len(old)+1..Len(outbox'[e]) :
            outbox'[e][i].to = e /\ SentOK(outbox'[e][i], object)
        BY <1>5, <1>6, <2>1
    <2>4. Sequence(outbox'[e])
        BY <1>5, <2>1
    <2> HIDE DEF IInv
    <2>5. QED
        BY <1>1, <1>3, <1>4, <1>5, <1>6, <1>7, <2>1, <2>2, <2>3, <2>4 DEF old, new, t
<1>9. CASE ~Connected(e)
    <2>1. outbox'[e] = old /\ \A i \in Len(old)+1..Len(old) : FALSE
        BY <1>2, <1>5, <1>9
    <2>2. QED
        BY <1>1, <1>3, <1>4, <1>5, <1>6, <1>7, <2>1 DEF old, new, t
<1>10. QED
    BY <1>8, <1>9

LEMMA HandleStep ==
    ASSUME IInv, NEW c \in Client, Handle(c)
    PROVE  IInv'
<1> USE DEF IInv
<1> DEFINE rest == Tail(inbox[c])
<1>1. /\ connection[c] # "none"
      /\ InboxOK(c, rest)
      /\ \A i \in 1..Len(rest) : rest[i].command # "REGISTRATION"
      /\ inbox' = [e \in Client |-> inbox'[e]]
      /\ \A e \in Client : inbox'[e] = IF e = c THEN rest ELSE inbox[e]
      /\ outbox' = [e \in Client |-> outbox'[e]]
      /\ crossed' \subseteq crossed \cup Home
      /\ lost' = [d \in Home |-> lost'[d]]
      /\ \A d \in Home : lost'[d] \subseteq lost[d]
      /\ UNCHANGED <<actual, page, connection, left>>
      /\ Home' = Home /\ Client' = Client
    <2>1. /\ lost' = [d \in Home |-> lost'[d]]
          /\ \A d \in Home : lost'[d] =
                IF Connected(d) THEN lost[d] \ Commands(SentTo(d, After(c).sent)) ELSE lost[d]
        BY HandleFrame
    <2>2. \A d \in Home : lost'[d] \subseteq lost[d]
        BY <2>1
    <2> HIDE DEF IInv
    <2>3. QED
        BY <2>1, <2>2, HandleFrame
<1> HIDE DEF rest
<1>2. DOMAIN object' = DOMAIN object \cup {c} /\ ObjectsOK(object')
    BY HandleSends
<1>3. Shape'
    BY <1>1 DEF Shape
<1>4. /\ \A e, m : OutOK(e, m) => OutOK(e, m)'
      /\ \A e, s : OutboxOK(e, s) => OutboxOK(e, s)'
      /\ \A e, m : InOK(e, m) => InOK(e, m)'
      /\ \A e, s : InboxOK(e, s) /\ (e \in DOMAIN object' => e \in DOMAIN object)
                        => InboxOK(e, s)'
    BY <1>2, QueuesKept
<1>5. ASSUME NEW e \in Client PROVE InboxOK(e, inbox[e])'
    <2>1. CASE e = c
        <3>1. \A s : InboxOK(c, s) /\ (\A i \in 1..Len(s) : s[i].command # "REGISTRATION")
                        => InboxOK(c, s)'
            BY <1>4 DEF InboxOK
        <3>2. inbox'[c] = rest
            BY <1>1
        <3>3. InboxOK(c, inbox'[c]) /\ \A i \in 1..Len(inbox'[c]) :
                    inbox'[c][i].command # "REGISTRATION"
            BY <1>1, <3>2
        <3>4. QED
            BY <2>1, <3>1, <3>3
    <2>2. CASE e # c
        <3>1. InboxOK(e, inbox'[e]) /\ (e \in DOMAIN object' => e \in DOMAIN object)
            BY <1>1, <1>2, <2>2 DEF Traffic
        <3>2. QED
            BY <1>4, <3>1
    <2>3. QED
        BY <2>1, <2>2
<1>6. ASSUME NEW e \in Client PROVE OutboxOK(e, outbox'[e])
    <2>1. /\ Sequence(outbox'[e]) /\ Len(outbox[e]) \in Nat
          /\ \A i \in 1..Len(outbox[e]) : outbox'[e][i] = outbox[e][i]
          /\ \A i \in Len(outbox[e])+1..Len(outbox'[e]) :
                outbox'[e][i].to = e /\ SentOK(outbox'[e][i], object)
        BY HandleSends
    <2>2. \A i \in 1..Len(outbox[e]) : OutOK(e, outbox[e][i])
        BY DEF Traffic, OutboxOK
    <2>3. \A m : m.to = e /\ SentOK(m, object) => OutOK(e, m)
        BY DEF SentOK, OutOK
    <2>4. Len(outbox'[e]) \in Nat
        BY <2>1, SequenceHead
    <2>5. \A i \in 1..Len(outbox'[e]) : i \in 1..Len(outbox[e]) \/ i \in Len(outbox[e])+1..Len(outbox'[e])
        BY <2>1, <2>4
    <2>6. QED
        BY <2>1, <2>2, <2>3, <2>5 DEF OutboxOK
<1>7. ASSUME NEW e \in Client PROVE Announced(e)'
    <2>1. Announced(e)
        BY DEF Traffic
    <2>2. CASE e = c
        BY <1>1, <1>2, <2>2 DEF Announced
    <2>3. CASE e # c
        <3>1. e \notin DOMAIN object => outbox'[e] = <<>>
            <4>1. e \notin DOMAIN object =>
                    outbox[e] = <<>> /\ SentTo(e, After(c).sent) = <<>>
                BY <2>1, <2>3, HandleSends DEF Announced
            <4>2. outbox'[e] = IF Connected(e) THEN outbox[e] \o SentTo(e, After(c).sent)
                               ELSE outbox[e]
                BY HandleFrame
            <4> HIDE DEF IInv
            <4>3. QED
                BY <4>1, <4>2
        <3>2. QED
            BY <1>1, <1>2, <2>1, <2>3, <3>1 DEF Announced
    <2>4. QED
        BY <2>2, <2>3
<1>8. Traffic'
    <2>1. \A e \in Client : OutboxOK(e, outbox[e])'
        BY <1>4, <1>6
    <2>2. QED
        BY <1>1, <1>5, <1>7, <2>1 DEF Traffic
<1>9. TypeOK'
    <2>1. DOMAIN object' \subseteq Client
        BY <1>2 DEF TypeOK
    <2>2. /\ \A e \in DOMAIN object' : DOMAIN object'[e] = DOMAIN NewObject[e]
          /\ "Chair" \in DOMAIN object' =>
                object'["Chair"].CHAIR_PRESSURE_SENSOR_VALUE \in 0..255
          /\ "SimulatedDevice" \in DOMAIN object' =>
                object'["SimulatedDevice"].activeLed \in 1..3
        <3>1. /\ "CHAIR_PRESSURE_SENSOR_VALUE" \in DOMAIN NewObject["Chair"]
              /\ "activeLed" \in DOMAIN NewObject["SimulatedDevice"]
            BY DEF NewObject, NewChair, NewSimulatedDevice
        <3>2. QED
            BY <1>2, <3>1 DEF ObjectsOK, FieldOK
    <2>3. \A e \in Client : ~Connected(e)' => outbox'[e] = <<>>
        <3>1. \A e \in Client : ~Connected(e) => outbox'[e] = outbox[e]
            BY HandleFrame
        <3>2. \A e : Connected(e)' <=> Connected(e)
            BY <1>1 DEF Connected
        <3>3. QED
            BY <3>1, <3>2 DEF TypeOK
    <2>4. QED
        BY <1>1, <2>1, <2>2, <2>3 DEF TypeOK
<1>10. PageOK'
    BY <1>1, <1>2 DEF PageOK, IsConnected, Connected
<1>11. QED
    BY <1>2, <1>3, <1>8, <1>9, <1>10

-----------------------------------------------------------------------------
LEMMA InitIInv == Init => IInv
<1> SUFFICES ASSUME Init PROVE IInv
    OBVIOUS
<1>1. PICK home \in Homes :
        /\ \E state \in {PowerOn, InUse} : actual = [d \in home.devices |-> state[d]]
        /\ inbox = [c \in home.devices \cup {"Website"} |-> <<>>]
        /\ outbox = [c \in home.devices \cup {"Website"} |-> <<>>]
        /\ connection = [c \in home.devices \cup {"Website"} |-> "none"]
        /\ left = [inputs |-> home.inputs, faults |-> home.faults]
    BY DEF Init
<1>2. PICK state \in {PowerOn, InUse} : actual = [d \in home.devices |-> state[d]]
    BY <1>1
<1>3. /\ page = BlankPage /\ object = << >> /\ crossed = {}
      /\ lost = [d \in Home |-> {}]
    BY DEF Init
<1>4. /\ Home = home.devices /\ Client = home.devices \cup {"Website"}
      /\ Home \subseteq Device
      /\ home.inputs \in Nat /\ home.faults \in Nat
    BY <1>1, <1>2, HouseholdAssumption DEF Home, Client
<1>5. DOMAIN object = {}
    BY <1>3
<1>6. Sequence(<<>>) /\ Len(<<>>) = 0
    BY SequenceSmall
<1>7. TypeOK
    BY <1>1, <1>3, <1>4, <1>5 DEF TypeOK
<1>8. ObjectsOK(object)
    BY <1>5 DEF ObjectsOK
<1> DEFINE blank == BlankPage
<1>9. /\ page = blank /\ blank = [d \in Device |-> blank[d]]
      /\ \A d \in Device : DOMAIN blank[d] = DOMAIN BlankPage[d]
      /\ \A d \in Device : blank[d].Status = "DISCONNECTED"
    BY <1>3, BlankFields
<1> HIDE DEF blank
<1>10. Shape
    <2>1. \A d \in Home :
            /\ DOMAIN actual[d] = DOMAIN PowerOn[d]
            /\ \A f \in DOMAIN actual[d] \cap DOMAIN Possible : actual[d][f] \in Possible[f]
        BY <1>2, <1>4, InputAssumption
    <2>2. QED
        BY <1>1, <1>3, <1>4, <1>9, <2>1 DEF Shape
<1>11. Traffic
    BY <1>1, <1>4, <1>5, <1>6 DEF Traffic, Announced, InboxOK, OutboxOK
<1>12. PageOK
    BY <1>9 DEF PageOK, IsConnected
<1>13. QED
    BY <1>7, <1>8, <1>10, <1>11, <1>12 DEF IInv

LEMMA Stutter ==
    ASSUME IInv, UNCHANGED vars
    PROVE  IInv'
<1>1. Home' = Home /\ Client' = Client
    BY DEF vars, Home, Client
<1>2. TypeOK'
    BY <1>1 DEF vars, IInv, TypeOK, Connected
<1>3. Shape'
    BY <1>1 DEF vars, IInv, Shape
<1>4. object' = object /\ inbox' = inbox /\ outbox' = outbox /\ connection' = connection
    BY DEF vars
<1>5. Traffic'
    BY <1>1, <1>4, TrafficStep DEF IInv
<1>6. QED
    BY <1>2, <1>3, <1>5 DEF vars, IInv, ObjectsOK, PageOK, IsConnected, Connected

LEMMA NextIInv == IInv /\ [Next]_vars => IInv'
<1> SUFFICES ASSUME IInv, [Next]_vars PROVE IInv'
    OBVIOUS
<1>1. ASSUME NEW c \in Client, Connect(c) PROVE IInv'
    BY <1>1, ConnectStep
<1>2. ASSUME NEW c \in Client, Break(c) PROVE IInv'
    BY <1>2, BreakStep
<1>3. ASSUME NEW c \in Client, Handle(c) PROVE IInv'
    BY <1>3, HandleStep
<1>4. ASSUME NEW d \in Home, Sense(d) PROVE IInv'
    BY <1>4, SenseStep
<1>5. ASSUME NEW d \in Home, Obey(d) PROVE IInv'
    BY <1>5, ObeyStep
<1>6. ASSUME NEW d \in Home, Report(d) PROVE IInv'
    BY <1>6, ReportStep
<1>7. ASSUME NEW d \in Home, Move(d) PROVE IInv'
    BY <1>7, MoveStep
<1>8. CASE Show
    BY <1>8, ShowStep
<1>9. CASE UNCHANGED vars
    BY <1>9, Stutter
<1>10. QED
    BY <1>1, <1>2, <1>3, <1>4, <1>5, <1>6, <1>7, <1>8, <1>9 DEF Next

(* The queues, objects, devices and page are as IInv says, whatever        *)
(* happens: main, the devices and the page can interpret what they get.    *)
THEOREM Invariance == Spec => []IInv
BY InitIInv, NextIInv, PTL DEF Spec

(* Fields keep to their widths, and nothing is under way to a client that  *)
(* has no connection, in every household.                                  *)
THEOREM HouseholdTyped == Spec => []TypeOK
<1>1. IInv => TypeOK
    BY DEF IInv
<1>2. QED
    BY <1>1, Invariance, PTL

(* Website::handleMessage always finds the object it forwards to, because  *)
(* the page takes a device for connected only after an update with that    *)
(* device in it.                                                           *)
THEOREM ForwardsReachObjects == Spec => []ForwardsFindObjects
<1>1. IInv => ForwardsFindObjects
    <2> SUFFICES ASSUME IInv, NEW i \in 1..Len(inbox["Website"]),
                        inbox["Website"][i].command = "WEBSITE_FORWARD"
                 PROVE  inbox["Website"][i].value.type \in DOMAIN object
        BY DEF ForwardsFindObjects
    <2>1. InOK("Website", inbox["Website"][i])
        BY DEF IInv, Traffic, InboxOK, Client
    <2>2. QED
        BY <2>1 DEF InOK
<1>2. QED
    BY <1>1, Invariance, PTL

(* Door::openDoor is the only way to the door, and no message, not even a  *)
(* forwarded one, makes it open a door that is locked.                     *)
THEOREM LockHolds == Spec => LockedDoorStaysShut
<1> DEFINE Shut ==
        ("Door" \in Home /\ "Door" \in DOMAIN object /\ object["Door"].DOOR_DOOR_LOCKED) =>
            \A i \in Len(outbox["Door"]) + 1 .. Len(outbox'["Door"]) :
                outbox'["Door"][i].command = "DOOR_DOOR_OPEN" => ~outbox'["Door"][i].value
<1>1. IInv /\ [Next]_vars => [Shut]_vars
    <2> SUFFICES ASSUME IInv, Next, "Door" \in Home, "Door" \in DOMAIN object,
                        object["Door"].DOOR_DOOR_LOCKED,
                        NEW i \in Len(outbox["Door"]) + 1 .. Len(outbox'["Door"]),
                        outbox'["Door"][i].command = "DOOR_DOOR_OPEN"
                 PROVE  ~outbox'["Door"][i].value
        OBVIOUS
    <2>1. "Door" \in Client /\ Sequence(outbox["Door"])
        BY DEF Client, IInv, Traffic, OutboxOK
    <2> DEFINE s == outbox["Door"]
    <2>2. ASSUME NEW c \in Client, Handle(c) PROVE ~outbox'["Door"][i].value
        <3>1. outbox'["Door"][i].to = "Door" /\ SentOK(outbox'["Door"][i], object)
            BY <2>1, <2>2, HandleSends
        <3>2. QED
            BY <3>1 DEF SentOK, Locked
    <2>3. ASSUME outbox'["Door"] \in {s, <<>>, Tail(s)},
                 outbox'["Door"] = Tail(s) => s # <<>> \/ outbox'["Door"] = s
          PROVE  FALSE
        <3>1. /\ Len(s) \in Nat
              /\ s # <<>> => Len(Tail(s)) = Len(s) - 1
              /\ Len(<<>>) = 0
            BY <2>1, SequenceHead, SequenceSmall
        <3>2. Len(outbox'["Door"]) \in Nat /\ Len(outbox'["Door"]) <= Len(s)
            <4> HIDE DEF s
            <4>1. CASE outbox'["Door"] = s
                BY <3>1, <4>1
            <4>2. CASE outbox'["Door"] = <<>>
                BY <3>1, <4>2
            <4>3. CASE outbox'["Door"] = Tail(s) /\ s # <<>>
                <5>1. Len(s) # 0
                    BY <2>1, <4>3, SequenceHead DEF s
                <5>2. QED
                    BY <3>1, <4>3, <5>1
            <4>4. QED
                BY <2>3, <4>1, <4>2, <4>3 DEF s
        <3>3. QED
            BY <3>1, <3>2
    <2>4. outbox = [c \in Client |-> outbox[c]]
        BY DEF IInv, Shape
    <2>5. ASSUME NEW c \in Client, Break(c) PROVE FALSE
        BY <2>1, <2>3, <2>4, <2>5 DEF Break
    <2>6. ASSUME NEW d \in Home, Obey(d) PROVE FALSE
        BY <2>1, <2>3, <2>4, <2>6 DEF Obey
    <2>7. CASE Show
        BY <2>1, <2>3, <2>4, <2>7 DEF Show
    <2>8. ASSUME NEW c \in Client, Connect(c) PROVE FALSE
        BY <2>3, <2>8 DEF Connect
    <2>9. ASSUME NEW d \in Home, Sense(d) \/ Report(d) \/ Move(d) PROVE FALSE
        BY <2>3, <2>9 DEF Sense, Report, Move
    <2>10. QED
        BY <2>2, <2>5, <2>6, <2>7, <2>8, <2>9 DEF Next
<1>2. QED
    BY <1>1, Invariance, PTL DEF Spec, LockedDoorStaysShut

=============================================================================
