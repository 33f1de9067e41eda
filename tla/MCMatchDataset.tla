--------------------------- MODULE MCMatchDataset ---------------------------
(***************************************************************************)
(* A hero with one name and a hero whom the combat log calls otherwise.    *)
(***************************************************************************)
EXTENDS MatchDataset

CONSTANTS sven, crystalmaiden, crystal_maiden,
          MaxSeen   \* bound: frames that show the second one

Names == [h \in Heroes |-> IF h = crystalmaiden THEN crystal_maiden ELSE h]

\* What the frames show of the second hero changes nothing for the first.
SeldomSeen ==
  LET frames == results \o frame
  IN  Cardinality({k \in DOMAIN frames : crystalmaiden \in frames[k].heroes}) <= MaxSeen
=============================================================================
