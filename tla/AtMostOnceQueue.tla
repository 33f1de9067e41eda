-------------------------- MODULE AtMostOnceQueue ---------------------------
(***************************************************************************)
(* What the inference stream and its worker promise together: records are  *)
(* numbered in the order they are submitted, handed over first come first  *)
(* served, and answered at most once and only by whoever was handed them.  *)
(* Nothing promises that a record is answered: it may be lost from the     *)
(* queue, and what was handed over may be forgotten.                       *)
(***************************************************************************)
EXTENDS Naturals

VARIABLES submitted,   \* number of records submitted so far
          waiting,     \* records nobody was handed yet
          held,        \* records handed over and still being worked on
          answered     \* records with a published answer

vars == <<submitted, waiting, held, answered>>

Init == /\ submitted = 0
        /\ waiting = {}
        /\ held = {}
        /\ answered = {}

\* A record joins the queue.
Submit == /\ submitted' = submitted + 1
          /\ waiting' = waiting \cup {submitted'}
          /\ UNCHANGED <<held, answered>>

\* The oldest waiting records leave the queue; some or all of them are handed over.
Take == \E last \in waiting :
            /\ waiting' = {i \in waiting : i > last}
            /\ held \subseteq held'
            /\ held' \subseteq held \cup (waiting \ waiting')
            /\ UNCHANGED <<submitted, answered>>

\* The answer to a held record is published; the holder may give up the rest.
Answer == \E i \in held :
            /\ answered' = answered \cup {i}
            /\ held' \subseteq held \ {i}
            /\ UNCHANGED <<submitted, waiting>>

\* Records are dropped: from the queue, or by whoever holds them.
Lose == /\ waiting' \subseteq waiting
        /\ held' \subseteq held
        /\ UNCHANGED <<submitted, answered>>

Next == Submit \/ Take \/ Answer \/ Lose

Spec == Init /\ [][Next]_vars

=============================================================================
