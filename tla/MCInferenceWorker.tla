------------------------- MODULE MCInferenceWorker --------------------------
(***************************************************************************)
(* Small sets of records and configs for InferenceWorker.                  *)
(***************************************************************************)
EXTENDS InferenceWorker

CONSTANTS t1, t2, boosting

Rec(t, valid, on_map) == [token |-> t, valid |-> valid, on_map |-> on_map]

\* One session; records the worker can and cannot parse.
ParsedOrNot == {Rec(t1, v, TRUE) : v \in BOOLEAN}

\* Two sessions, a record the worker cannot parse and one of a hero off the grid.
TwoSessionsOrNot == {Rec(t1, TRUE, TRUE), Rec(t2, TRUE, TRUE), Rec(t1, FALSE, TRUE),
                     Rec(t1, TRUE, FALSE)}

Boosting(full_map) == [model |-> boosting, full_map |-> full_map]
NoConfigs == {}
AroundHero == {Boosting(FALSE)}
=============================================================================
