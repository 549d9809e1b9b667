--------------------------- MODULE ClientChannel ---------------------------
(***************************************************************************)
(* What the server promises each client, without threads, locks, lists or  *)
(* objects: a channel to main.  Main gets a client's first registration    *)
(* and every message the client sent after it, once each and in the order  *)
(* they were received, until the process ends; a repeated registration is  *)
(* kept back, a message without a registration refused.  The channels of   *)
(* different clients promise nothing about each other.                     *)
(***************************************************************************)
EXTENDS Sequences

CONSTANTS
    Client,
    Text        \* what clients send, records with uuid and command

VARIABLES
    sent,       \* what each client sent that is not judged yet
    passed,     \* what main has still to get of each client
    known,      \* the clients that have registered
    up          \* does the process run?

vars == <<sent, passed, known, up>>

Init ==
    /\ sent = [u \in Client |-> <<>>]
    /\ passed = [u \in Client |-> <<>>]
    /\ known = {}
    /\ up = TRUE

Send(m) ==
    /\ up
    /\ sent' = [sent EXCEPT ![m.uuid] = Append(@, m)]
    /\ UNCHANGED <<passed, known, up>>

Judged(u) == sent' = [sent EXCEPT ![u] = Tail(@)]

Passed(u) == passed' = [passed EXCEPT ![u] = Append(@, Head(sent[u]))]

Registers(u) == Head(sent[u]).command = "REGISTRATION"

Admit(u) ==
    /\ Registers(u) /\ u \notin known
    /\ known' = known \cup {u}
    /\ Judged(u) /\ Passed(u)
    /\ UNCHANGED up

KeepBack(u) ==
    /\ Registers(u) /\ u \in known
    /\ Judged(u)
    /\ UNCHANGED <<passed, known, up>>

Pass(u) ==
    /\ ~Registers(u) /\ u \in known
    /\ Judged(u) /\ Passed(u)
    /\ UNCHANGED <<known, up>>

(* The answer may not reach the client and end the process.                *)
Refuse(u) ==
    /\ ~Registers(u) /\ u \notin known
    /\ Judged(u)
    /\ up' \in BOOLEAN
    /\ UNCHANGED <<passed, known>>

Judge(u) ==
    /\ up
    /\ sent[u] # <<>>
    /\ Admit(u) \/ KeepBack(u) \/ Pass(u) \/ Refuse(u)

(* Main gets the next message of u; handling it may end the process.       *)
Deliver(u) ==
    /\ up
    /\ passed[u] # <<>>
    /\ passed' = [passed EXCEPT ![u] = Tail(@)]
    /\ up' \in BOOLEAN
    /\ UNCHANGED <<sent, known>>

End ==
    /\ up
    /\ up' = FALSE
    /\ UNCHANGED <<sent, passed, known>>

Next ==
    \/ \E u \in Client : Judge(u) \/ Deliver(u)
    \/ End
    \/ \E m \in Text : Send(m)

SafeSpec == Init /\ [][Next]_vars

Spec == SafeSpec /\ \A u \in Client : WF_vars(Judge(u)) /\ WF_vars(Deliver(u))

=============================================================================
