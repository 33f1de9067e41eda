--------------------------- MODULE MCGsiProcessor ---------------------------
(***************************************************************************)
(* A small catalogue of heroes for GsiProcessor.                           *)
(***************************************************************************)
EXTENDS GsiProcessor, TLC

CONSTANTS t1, t2, h1, h2, axe, bane, unknown, id_axe, id_bane

\* heroNames.json, which does not know the unit name "unknown".
Catalogue == [u \in Units |-> CASE u = axe -> id_axe
                                [] u = bane -> id_bane
                                [] OTHER -> NoHero]

Symmetry == Permutations({t1, t2}) \cup Permutations({h1, h2})
=============================================================================
