----------------------------- MODULE MatchBatch -----------------------------
(***************************************************************************)
(* What one run of the dataset builder promises of the matches in its      *)
(* directory, without channels and goroutines: each is judged once, which  *)
(* makes it a parsed match or an error; each parsed match gets one         *)
(* transaction, one at a time, which keeps it or not; and the run ends     *)
(* when nothing is left to do, unless it gives up before the first match.  *)
(***************************************************************************)
CONSTANT Matches

VARIABLES unjudged,  \* matches of which nothing is known yet
          ready,     \* parsed matches that had no transaction yet
          saving,    \* the match whose transaction is open, if any
          saved,     \* matches whose transaction was committed
          over       \* the run has ended

vars == <<unjudged, ready, saving, saved, over>>

Init ==
    /\ unjudged = Matches
    /\ ready = {} /\ saving = {} /\ saved = {}
    /\ over = FALSE

\* A match turns out to be good or not.
Judge ==
    /\ ~over
    /\ \E m \in unjudged :
          /\ unjudged' = unjudged \ {m}
          /\ ready' \in {ready, ready \cup {m}}
    /\ UNCHANGED <<saving, saved, over>>

Begin ==
    /\ ~over /\ saving = {}
    /\ \E m \in ready : saving' = {m} /\ ready' = ready \ {m}
    /\ UNCHANGED <<unjudged, saved, over>>

\* Commit or rollback.
Finish ==
    /\ ~over /\ saving # {}
    /\ saved' \in {saved, saved \cup saving}
    /\ saving' = {}
    /\ UNCHANGED <<unjudged, ready, over>>

End ==
    /\ ~over /\ over' = TRUE
    /\ ready = {} /\ saving = {}
    /\ \/ unjudged = {}
       \/ unjudged = Matches /\ saved = {}
    /\ UNCHANGED <<unjudged, ready, saving, saved>>

Next == Judge \/ Begin \/ Finish \/ End

Spec == Init /\ [][Next]_vars

=============================================================================
