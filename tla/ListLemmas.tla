----------------------------- MODULE ListLemmas -----------------------------
(***************************************************************************)
(* Facts about the sequence operators that the proofs cite: removing an    *)
(* element by its index, what that does to a list of records with          *)
(* different UUIDs, and what Select does with a longer or shorter sequence *)
(* (by induction over a set of naturals that holds its own successors).    *)
(***************************************************************************)
EXTENDS Selection, Integers, SequencesExt, SequenceTheorems, WellFoundedInduction, TLAPS

(* RemoveAt drops the element at k and moves up those behind it.           *)
LEMMA RemoveAtProperties ==
    ASSUME NEW S, NEW s \in Seq(S), NEW k \in 1..Len(s)
    PROVE  /\ RemoveAt(s, k) \in Seq(S)
           /\ Len(RemoveAt(s, k)) = Len(s) - 1
           /\ \A i \in 1..Len(s) - 1 :
                RemoveAt(s, k)[i] = IF i < k THEN s[i] ELSE s[i+1]
<1> DEFINE a == SubSeq(s, 1, k-1)
           b == SubSeq(s, k+1, Len(s))
<1>1. /\ a \in Seq(S) /\ Len(a) = k - 1
      /\ \A i \in 1..k-1 : a[i] = s[i]
    <2>1. \A i \in 1..k-1 : s[i] \in S
        OBVIOUS
    <2>2. QED
        BY <2>1, SubSeqProperties
<1>2. /\ b \in Seq(S) /\ Len(b) = Len(s) - k
      /\ \A i \in 1..Len(s)-k : b[i] = s[k+i]
    <2>1. \A i \in k+1..Len(s) : s[i] \in S
        OBVIOUS
    <2>2. /\ b \in Seq(S)
          /\ Len(b) = IF k+1 <= Len(s) THEN Len(s)-(k+1)+1 ELSE 0
          /\ \A i \in 1..Len(s)-(k+1)+1 : b[i] = s[(k+1)+i-1]
        BY <2>1, SubSeqProperties
    <2>3. QED
        BY <2>2
<1> HIDE DEF a, b
<1>3. /\ a \o b \in Seq(S) /\ Len(a \o b) = Len(s) - 1
      /\ \A i \in 1..Len(s) - 1 :
            (a \o b)[i] = IF i <= Len(a) THEN a[i] ELSE b[i - Len(a)]
    BY <1>1, <1>2, ConcatProperties
<1>4. ASSUME NEW i \in 1..Len(s) - 1
      PROVE  (a \o b)[i] = IF i < k THEN s[i] ELSE s[i+1]
    BY <1>1, <1>2, <1>3
<1>5. RemoveAt(s, k) = a \o b
    BY DEF RemoveAt, a, b
<1>6. QED
    BY <1>3, <1>4, <1>5

(* The list t is s without its element at k.                               *)
Without(s, t, k) ==
    /\ Len(t) = Len(s) - 1
    /\ \A i \in 1..Len(s) - 1 : t[i] = IF i < k THEN s[i] ELSE s[i+1]

Distinct(s) == \A i, j \in 1..Len(s) : s[i].uuid = s[j].uuid => i = j

(* Removing a record from a list of records with different UUIDs removes   *)
(* its UUID and keeps every other.                                         *)
LEMMA WithoutProperties ==
    ASSUME NEW S, NEW s \in Seq(S), NEW t \in Seq(S), NEW k \in 1..Len(s),
           Distinct(s), Without(s, t, k)
    PROVE  /\ Distinct(t)
           /\ \A i \in 1..Len(t) : t[i].uuid # s[k].uuid
           /\ \A i \in 1..Len(t) : \E j \in 1..Len(s) : t[i] = s[j]
           /\ \A j \in 1..Len(s) : j # k => \E i \in 1..Len(t) : t[i] = s[j]
<1> DEFINE f[i \in 1..Len(t)] == IF i < k THEN i ELSE i+1
<1>1. Len(t) \in Nat /\ Len(s) \in Nat /\ Len(t) = Len(s) - 1
    BY DEF Without
<1>2. \A i \in 1..Len(t) : f[i] \in 1..Len(s) /\ t[i] = s[f[i]] /\ f[i] # k
    BY <1>1 DEF Without
<1>3. \A i, j \in 1..Len(t) : f[i] = f[j] => i = j
    BY <1>1
<1>4. ASSUME NEW j \in 1..Len(s), j # k
      PROVE  \E i \in 1..Len(t) : f[i] = j
    <2>1. CASE j < k
        <3>1. j \in 1..Len(t) /\ f[j] = j
            BY <1>1, <2>1
        <3>2. QED
            BY <3>1
    <2>2. CASE j > k
        <3>1. j-1 \in 1..Len(t) /\ f[j-1] = j
            BY <1>1, <2>2
        <3>2. QED
            BY <3>1
    <2>3. QED
        BY <1>4, <2>1, <2>2
<1> HIDE DEF f
<1>5. Distinct(t)
    <2> SUFFICES ASSUME NEW i \in 1..Len(t), NEW j \in 1..Len(t), t[i].uuid = t[j].uuid
                 PROVE  i = j
        BY DEF Distinct
    <2>1. s[f[i]].uuid = s[f[j]].uuid /\ f[i] \in 1..Len(s) /\ f[j] \in 1..Len(s)
        BY <1>2
    <2>2. f[i] = f[j]
        BY <2>1 DEF Distinct
    <2>3. QED
        BY <1>3, <2>2
<1>6. \A i \in 1..Len(t) : t[i].uuid # s[k].uuid
    BY <1>2 DEF Distinct
<1>7. \A i \in 1..Len(t) : \E j \in 1..Len(s) : t[i] = s[j]
    BY <1>2
<1>8. \A j \in 1..Len(s) : j # k => \E i \in 1..Len(t) : t[i] = s[j]
    BY <1>2, <1>4
<1>9. QED
    BY <1>5, <1>6, <1>7, <1>8

-----------------------------------------------------------------------------
(* Induction over the naturals, for a set instead of a predicate: a set    *)
(* without a least counterexample.                                         *)
LEMMA SetInduction ==
    ASSUME NEW A, 0 \in A, \A n \in Nat : n \in A => n + 1 \in A
    PROVE  Nat \subseteq A
<1> DEFINE B == Nat \ A
<1>1. SUFFICES ASSUME B # {} PROVE FALSE
    OBVIOUS
<1>2. B \subseteq Nat
    OBVIOUS
<1>3. \E x \in B : \A y \in B : ~(<<y, x>> \in OpToRel(<, Nat))
    <2> HIDE DEF B
    <2>1. QED
        BY <1>1, <1>2, NatLessThanWellFounded, WFMin, Zenon
<1>4. PICK x \in B : \A y \in B : ~(<<y, x>> \in OpToRel(<, Nat))
    BY <1>3
<1>5. x \in Nat /\ x # 0 /\ x - 1 \in Nat
    OBVIOUS
<1>6. x - 1 \in B
    <2>1. SUFFICES ASSUME x - 1 \in A PROVE FALSE
        BY <1>5
    <2>2. (x - 1) + 1 \in A /\ (x - 1) + 1 = x
        BY <1>5, <2>1
    <2>3. QED
        BY <2>2
<1>7. <<x - 1, x>> \in OpToRel(<, Nat)
    <2>1. x - 1 < x
        BY <1>5
    <2>2. QED
        BY <1>5, <2>1, Zenon DEF OpToRel
<1>8. QED
    BY <1>4, <1>6, <1>7, Zenon

(* The same up to a bound.                                                 *)
LEMMA BoundedInduction ==
    ASSUME NEW A, NEW m \in Nat, 0 \in A, \A n \in 0..m-1 : n \in A => n + 1 \in A
    PROVE  0..m \subseteq A
<1> DEFINE B == {n \in Nat : n <= m => n \in A}
<1>1. 0 \in B /\ \A n \in Nat : n \in B => n + 1 \in B
    OBVIOUS
<1> HIDE DEF B
<1>2. Nat \subseteq B
    BY <1>1, SetInduction
<1>3. QED
    BY <1>2 DEF B

(* The recursion is well founded: there is a function it defines.          *)
LEMMA SelectionsDef ==
    ASSUME NEW s, Len(s) \in Nat, NEW I
    PROVE  Selections(s, I) =
            [n \in 0..Len(s) |->
                IF n = 0 THEN <<>>
                ELSE IF n \in I THEN Append(Selections(s, I)[n-1], s[n])
                     ELSE Selections(s, I)[n-1]]
<1> DEFINE Next(v, n) == IF n \in I THEN Append(v, s[n]) ELSE v
           Of(g, m) == g = [n \in 0..m |-> IF n = 0 THEN <<>> ELSE Next(g[n-1], n)]
           A == {m \in Nat : \E g : Of(g, m)}
<1> HIDE DEF Next
<1>1. 0 \in A
    <2>1. Of([n \in 0..0 |-> <<>>], 0)
        OBVIOUS
    <2>2. QED
        BY <2>1
<1>2. ASSUME NEW m \in Nat, m \in A PROVE m + 1 \in A
    <2>1. PICK g : Of(g, m)
        BY <1>2
    <2> DEFINE h == [n \in 0..m+1 |-> IF n <= m THEN g[n] ELSE Next(g[m], n)]
    <2>2. \A n \in 0..m : h[n] = g[n]
        OBVIOUS
    <2>3. ASSUME NEW n \in 0..m+1
          PROVE  h[n] = IF n = 0 THEN <<>> ELSE Next(h[n-1], n)
        <3>1. CASE n <= m
            <4>1. g[n] = IF n = 0 THEN <<>> ELSE Next(g[n-1], n)
                BY <2>1, <3>1
            <4>2. n # 0 => n - 1 \in 0..m
                BY <3>1
            <4>3. QED
                BY <2>2, <3>1, <4>1, <4>2
        <3>2. CASE n = m + 1
            <4>1. n # 0 /\ n - 1 = m /\ ~(n <= m)
                BY <3>2
            <4>2. QED
                BY <2>2, <4>1
        <3>3. QED
            BY <3>1, <3>2
    <2>4. Of(h, m + 1)
        <3>1. h = [n \in 0..m+1 |-> h[n]]
            OBVIOUS
        <3> HIDE DEF h
        <3>2. QED
            BY <2>3, <3>1
    <2> HIDE DEF Of
    <2>5. QED
        BY <2>4
<1>3. Len(s) \in A
    <2> HIDE DEF A
    <2>1. QED
        BY <1>1, <1>2, SetInduction
<1>4. \E g : Of(g, Len(s))
    BY <1>3
<1>5. Selections(s, I) = CHOOSE g : Of(g, Len(s))
    BY DEF Selections, Next
<1>6. Of(Selections(s, I), Len(s))
    BY <1>4, <1>5
<1>7. QED
    BY <1>6 DEF Next

LEMMA SelectionsStep ==
    ASSUME NEW s, Len(s) \in Nat, NEW I
    PROVE  /\ Selections(s, I)[0] = <<>>
           /\ \A n \in 0..Len(s)-1 :
                Selections(s, I)[n+1] =
                    IF n + 1 \in I THEN Append(Selections(s, I)[n], s[n+1])
                    ELSE Selections(s, I)[n]
<1> DEFINE P == Selections(s, I)
<1>1. P = [n \in 0..Len(s) |->
            IF n = 0 THEN <<>>
            ELSE IF n \in I THEN Append(P[n-1], s[n]) ELSE P[n-1]]
    BY SelectionsDef
<1> HIDE DEF P
<1>2. P[0] = <<>>
    BY <1>1
<1>3. ASSUME NEW n \in 0..Len(s)-1
      PROVE  P[n+1] = IF n + 1 \in I THEN Append(P[n], s[n+1]) ELSE P[n]
    <2>1. n + 1 \in 0..Len(s) /\ n + 1 # 0 /\ (n + 1) - 1 = n
        OBVIOUS
    <2>2. QED
        BY <1>1, <2>1
<1>4. QED
    BY <1>2, <1>3 DEF P

LEMMA SelectionsType ==
    ASSUME NEW S, NEW s \in Seq(S), NEW I
    PROVE  \A n \in 0..Len(s) : Selections(s, I)[n] \in Seq(S)
<1> DEFINE P == Selections(s, I)
           A == {n \in 0..Len(s) : P[n] \in Seq(S)}
<1>1. /\ Len(s) \in Nat /\ P[0] = <<>>
      /\ \A n \in 0..Len(s)-1 :
            P[n+1] = IF n + 1 \in I THEN Append(P[n], s[n+1]) ELSE P[n]
    BY SelectionsStep
<1> HIDE DEF P
<1>2. 0 \in A
    <2>1. 0 \in 0..Len(s) /\ P[0] \in Seq(S)
        BY <1>1
    <2>2. QED
        BY <2>1
<1>3. ASSUME NEW n \in 0..Len(s)-1, n \in A PROVE n + 1 \in A
    <2>1. s[n+1] \in S /\ P[n] \in Seq(S) /\ n + 1 \in 0..Len(s)
        BY <1>3
    <2>2. Append(P[n], s[n+1]) \in Seq(S)
        BY <2>1
    <2>3. QED
        BY <1>1, <2>1, <2>2
<1> HIDE DEF A
<1>4. 0..Len(s) \subseteq A
    BY <1>1, <1>2, <1>3, BoundedInduction
<1>5. QED
    BY <1>4 DEF A, P

LEMMA SelectType ==
    ASSUME NEW S, NEW s \in Seq(S), NEW I
    PROVE  Select(s, I) \in Seq(S)
<1>1. Len(s) \in 0..Len(s)
    OBVIOUS
<1>2. QED
    BY <1>1, SelectionsType DEF Select

(* What is selected is an element at one of the indices.                   *)
LEMMA SelectElement ==
    ASSUME NEW S, NEW s \in Seq(S), NEW I, NEW i \in 1..Len(Select(s, I))
    PROVE  \E j \in 1..Len(s) : j \in I /\ Select(s, I)[i] = s[j]
<1> DEFINE P == Selections(s, I)
           Element(n) == \A k \in 1..Len(P[n]) : \E j \in 1..n : j \in I /\ P[n][k] = s[j]
           A == {n \in 0..Len(s) : Element(n)}
<1>1. /\ Len(s) \in Nat /\ P[0] = <<>>
      /\ \A n \in 0..Len(s)-1 :
            P[n+1] = IF n + 1 \in I THEN Append(P[n], s[n+1]) ELSE P[n]
    <2>1. Len(s) \in Nat
        OBVIOUS
    <2>2. QED
        BY <2>1, SelectionsStep
<1>2. \A n \in 0..Len(s) : P[n] \in Seq(S)
    BY SelectionsType
<1> HIDE DEF P
<1>3. 0 \in A
    BY <1>1
<1>4. ASSUME NEW n \in 0..Len(s)-1, n \in A PROVE n + 1 \in A
    <2>1. s[n+1] \in S /\ P[n] \in Seq(S) /\ n + 1 \in 0..Len(s) /\ n \in 0..Len(s)
        BY <1>2
    <2>2. Element(n)
        BY <1>4
    <2>3. ASSUME NEW k \in 1..Len(P[n+1])
          PROVE  \E j \in 1..n+1 : j \in I /\ P[n+1][k] = s[j]
        <3>1. CASE n + 1 \notin I
            BY <1>1, <2>2, <3>1
        <3>2. CASE n + 1 \in I
            <4>1. P[n+1] = Append(P[n], s[n+1])
                BY <1>1, <3>2
            <4>2. CASE k = Len(P[n]) + 1
                <5>1. P[n+1][k] = s[n+1] /\ n + 1 \in 1..n+1
                    BY <2>1, <4>1, <4>2
                <5>2. QED
                    BY <3>2, <5>1
            <4>3. CASE k # Len(P[n]) + 1
                <5>1. k \in 1..Len(P[n]) /\ P[n+1][k] = P[n][k]
                    BY <2>1, <4>1, <4>3
                <5>2. PICK j \in 1..n : j \in I /\ P[n][k] = s[j]
                    BY <2>2, <5>1
                <5>3. j \in 1..n+1
                    OBVIOUS
                <5>4. QED
                    BY <5>1, <5>2, <5>3
            <4>4. QED
                BY <4>2, <4>3
        <3>3. QED
            BY <3>1, <3>2
    <2> HIDE DEF P
    <2>4. Element(n+1)
        BY <2>3
    <2>5. QED
        BY <2>1, <2>4
<1>5. 0..Len(s) \subseteq A
    <2> HIDE DEF A
    <2>1. QED
        BY <1>1, <1>3, <1>4, BoundedInduction
<1>6. Element(Len(s))
    BY <1>1, <1>5
<1>7. Select(s, I) = P[Len(s)]
    BY DEF Select, P
<1>8. QED
    BY <1>6, <1>7

(* Elements and indices up to n decide what is selected of the first n.    *)
LEMMA SelectionsAgree ==
    ASSUME NEW S, NEW s \in Seq(S), NEW t \in Seq(S), NEW I, NEW J, Len(s) <= Len(t),
           \A i \in 1..Len(s) : s[i] = t[i] /\ (i \in I <=> i \in J)
    PROVE  \A n \in 0..Len(s) : Selections(s, I)[n] = Selections(t, J)[n]
<1> DEFINE P == Selections(s, I)
           Q == Selections(t, J)
           A == {n \in 0..Len(s) : P[n] = Q[n]}
<1>1. /\ Len(s) \in Nat /\ Len(t) \in Nat /\ P[0] = <<>> /\ Q[0] = <<>>
      /\ \A n \in 0..Len(s)-1 :
            P[n+1] = IF n + 1 \in I THEN Append(P[n], s[n+1]) ELSE P[n]
      /\ \A n \in 0..Len(t)-1 :
            Q[n+1] = IF n + 1 \in J THEN Append(Q[n], t[n+1]) ELSE Q[n]
    BY SelectionsStep
<1> HIDE DEF P, Q
<1>2. 0 \in A
    BY <1>1
<1>3. ASSUME NEW n \in 0..Len(s)-1, n \in A PROVE n + 1 \in A
    <2>1. n + 1 \in 1..Len(s) /\ n \in 0..Len(t)-1 /\ n + 1 \in 0..Len(s) /\ P[n] = Q[n]
        BY <1>1, <1>3
    <2>2. P[n+1] = Q[n+1]
        BY <1>1, <2>1
    <2>3. QED
        BY <2>1, <2>2
<1> HIDE DEF A
<1>4. 0..Len(s) \subseteq A
    BY <1>1, <1>2, <1>3, BoundedInduction
<1>5. QED
    BY <1>4 DEF A, P, Q

LEMMA SelectAppend ==
    ASSUME NEW S, NEW s \in Seq(S), NEW e \in S, NEW I, NEW J,
           \A i \in 1..Len(s) : i \in I <=> i \in J
    PROVE  Select(Append(s, e), J) =
            IF Len(s) + 1 \in J THEN Append(Select(s, I), e) ELSE Select(s, I)
<1> DEFINE t == Append(s, e)
           n == Len(s)
<1>1. /\ t \in Seq(S) /\ Len(t) = n + 1 /\ t[n+1] = e /\ n \in Nat
      /\ \A i \in 1..n : t[i] = s[i]
    OBVIOUS
<1> HIDE DEF t
<1>2. Selections(t, J)[n] = Selections(s, I)[n]
    <2>1. \A k \in 0..n : Selections(s, I)[k] = Selections(t, J)[k]
        BY <1>1, SelectionsAgree
    <2>2. QED
        BY <1>1, <2>1
<1>3. Selections(t, J)[n+1] =
        IF n + 1 \in J THEN Append(Selections(t, J)[n], t[n+1]) ELSE Selections(t, J)[n]
    <2>1. n \in 0..Len(t)-1 /\ Len(t) \in Nat
        BY <1>1
    <2> HIDE DEF n
    <2>2. QED
        BY <2>1, SelectionsStep
<1>4. QED
    BY <1>1, <1>2, <1>3 DEF Select, t

(* What is selected of a sequence starts with its head, if that is, and    *)
(* goes on with what is selected of its tail.                              *)
LEMMA SelectTail ==
    ASSUME NEW S, NEW s \in Seq(S), s # <<>>, NEW I, NEW J,
           \A i \in 1..Len(s)-1 : i \in J <=> i + 1 \in I
    PROVE  Select(s, I) =
            IF 1 \in I THEN <<Head(s)>> \o Select(Tail(s), J) ELSE Select(Tail(s), J)
<1> DEFINE t == Tail(s)
           pre == IF 1 \in I THEN <<Head(s)>> ELSE <<>>
           P == Selections(s, I)
           Q == Selections(t, J)
           A == {n \in 0..Len(t) : P[n+1] = pre \o Q[n]}
<1>1. /\ t \in Seq(S) /\ Len(s) \in Nat /\ Len(t) = Len(s) - 1 /\ Len(t) \in Nat
      /\ Head(s) = s[1] /\ s[1] \in S
      /\ \A i \in 1..Len(t) : t[i] = s[i+1]
    OBVIOUS
<1> HIDE DEF t
<1>2. pre \in Seq(S)
    BY <1>1
<1>3. /\ P[0] = <<>> /\ Q[0] = <<>>
      /\ \A n \in 0..Len(s)-1 :
            P[n+1] = IF n + 1 \in I THEN Append(P[n], s[n+1]) ELSE P[n]
      /\ \A n \in 0..Len(t)-1 :
            Q[n+1] = IF n + 1 \in J THEN Append(Q[n], t[n+1]) ELSE Q[n]
    BY <1>1, SelectionsStep
<1>4. \A n \in 0..Len(t) : Q[n] \in Seq(S)
    BY <1>1, SelectionsType
<1> HIDE DEF P, Q
<1>5. 0 \in A
    <2>1. P[1] = IF 1 \in I THEN Append(P[0], s[1]) ELSE P[0]
        <3>1. 0 \in 0..Len(s)-1 /\ 0 + 1 = 1
            BY <1>1
        <3>2. QED
            BY <1>3, <3>1
    <2>2. P[1] = pre
        BY <1>1, <1>3, <2>1
    <2>3. pre \o Q[0] = pre
        BY <1>2, <1>3, ConcatEmptySeq
    <2>4. 0 \in 0..Len(t) /\ 0 + 1 = 1
        BY <1>1
    <2> HIDE DEF pre
    <2>5. QED
        BY <2>2, <2>3, <2>4
<1>6. ASSUME NEW n \in 0..Len(t)-1, n \in A PROVE n + 1 \in A
    <2> HIDE DEF pre
    <2>1. /\ n \in 0..Len(t) /\ n + 1 \in 0..Len(t) /\ n + 1 \in 0..Len(s)-1
          /\ n + 1 \in 1..Len(t) /\ P[n+1] = pre \o Q[n]
        BY <1>1, <1>6
    <2>2. t[n+1] = s[(n+1)+1] /\ t[n+1] \in S /\ (n + 1 \in J <=> (n + 1) + 1 \in I)
        BY <1>1, <2>1
    <2>3. P[(n+1)+1] = IF (n+1) + 1 \in I THEN Append(P[n+1], s[(n+1)+1]) ELSE P[n+1]
        BY <1>3, <2>1
    <2>4. Q[n+1] = IF n + 1 \in J THEN Append(Q[n], t[n+1]) ELSE Q[n]
        BY <1>3
    <2>5. Append(pre \o Q[n], t[n+1]) = pre \o Append(Q[n], t[n+1])
        <3> DEFINE b == Q[n]
                   e == t[n+1]
        <3>1. b \in Seq(S) /\ e \in S
            BY <1>4, <2>1, <2>2
        <3> HIDE DEF b, e
        <3>2. Append(pre \o b, e) = pre \o Append(b, e)
            <4>1. pre \in Seq(S) /\ pre \o b \in Seq(S) /\ <<e>> \in Seq(S)
                BY <1>2, <3>1
            <4>2. Append(pre \o b, e) = (pre \o b) \o <<e>>
                BY <3>1, <4>1, AppendIsConcat
            <4>3. Append(b, e) = b \o <<e>>
                BY <3>1, AppendIsConcat
            <4>4. (pre \o b) \o <<e>> = pre \o (b \o <<e>>)
                BY <3>1, <4>1, ConcatAssociative
            <4>5. QED
                BY <4>2, <4>3, <4>4
        <3>3. QED
            BY <3>2 DEF b, e
    <2>6. P[(n+1)+1] = pre \o Q[n+1]
        BY <2>1, <2>2, <2>3, <2>4, <2>5
    <2>7. QED
        BY <2>1, <2>6
<1>7. 0..Len(t) \subseteq A
    <2> HIDE DEF A
    <2>1. QED
        BY <1>1, <1>5, <1>6, BoundedInduction
<1>8. P[Len(t)+1] = pre \o Q[Len(t)]
    <2>1. Len(t) \in 0..Len(t)
        BY <1>1
    <2>2. Len(t) \in A
        BY <1>7, <2>1
    <2> HIDE DEF pre
    <2>3. QED
        BY <2>2
<1>9. Select(s, I) = pre \o Select(t, J)
    <2>1. Len(t) + 1 = Len(s)
        BY <1>1
    <2>2. Select(s, I) = P[Len(s)] /\ Select(t, J) = Q[Len(t)]
        BY DEF Select, P, Q
    <2> HIDE DEF pre
    <2>3. QED
        BY <1>8, <2>1, <2>2
<1>10. Select(t, J) \in Seq(S)
    BY <1>1, SelectType
<1>11. QED
    BY <1>1, <1>9, <1>10, ConcatEmptySeq DEF t

(* The same as facts about the parts.                                      *)
LEMMA SelectParts ==
    ASSUME NEW S, NEW s \in Seq(S), s # <<>>, NEW I, NEW J,
           \A i \in 1..Len(s)-1 : i \in J <=> i + 1 \in I
    PROVE  /\ Select(Tail(s), J) \in Seq(S)
           /\ 1 \notin I => Select(s, I) = Select(Tail(s), J)
           /\ 1 \in I => /\ Select(s, I) # <<>>
                         /\ Head(Select(s, I)) = Head(s)
                         /\ Tail(Select(s, I)) = Select(Tail(s), J)
<1> DEFINE h == Head(s)
           r == Select(Tail(s), J)
           w == Select(s, I)
<1>1. h \in S /\ Tail(s) \in Seq(S)
    OBVIOUS
<1>2. r \in Seq(S)
    BY <1>1, SelectType
<1>3. w = IF 1 \in I THEN <<h>> \o r ELSE r
    BY SelectTail
<1> HIDE DEF h, r, w
<1>4. <<h>> \o r # <<>> /\ Head(<<h>> \o r) = h /\ Tail(<<h>> \o r) = r
    BY <1>1, <1>2
<1>5. QED
    BY <1>2, <1>3, <1>4 DEF h, r, w

=============================================================================
