---------------------------- MODULE MCGridCells -----------------------------
(***************************************************************************)
(* The map's real bounds, and heroes on both sides of the borders between  *)
(* squares, the map's own edges included.                                  *)
(***************************************************************************)
EXTENDS GridCells

West == -9400
East == 8000
South == -8500
North == 8500

\* Columns and rows at both ends, on both sides of the middle, and of 0.
Borders == {0, 1, 2, 3, 15, 16, 17, 18, 30, 31, 32}
Near(low, size) ==
    UNION {{low + (b * size) \div 32 + d : d \in {-1, 0, 1}} : b \in Borders}
NearX == Near(West, East - West)
NearY == Near(South, North - South)
=============================================================================
