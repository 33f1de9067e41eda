------------------------- MODULE MCReplayCollection -------------------------
(***************************************************************************)
(* Two matches, on one page or on two.                                     *)
(***************************************************************************)
EXTENDS ReplayCollection

Ids == 1..2
=============================================================================
