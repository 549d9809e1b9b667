----------------------------- MODULE Selection -----------------------------
(***************************************************************************)
(* The elements of a sequence at the indices of a set, in their order: as  *)
(* SelectSeq, but with a set for the test, so that it can be reasoned      *)
(* about.                                                                  *)
(***************************************************************************)
EXTENDS Integers, Sequences

(* For each n, what is selected of the first n elements.                   *)
Selections(s, I) ==
    LET kept[n \in 0..Len(s)] ==
            IF n = 0 THEN <<>>
            ELSE IF n \in I THEN Append(kept[n-1], s[n]) ELSE kept[n-1]
    IN  kept

Select(s, I) == Selections(s, I)[Len(s)]

=============================================================================
