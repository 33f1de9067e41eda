----------------------------- MODULE GridCells ------------------------------
(***************************************************************************)
(* The grid of map squares, as each service computes it: gsi_processor     *)
(* turns a position into a square (infra/formulas.py), the worker chooses  *)
(* the squares to predict and places them in the heatmap                   *)
(* (services/worker.py), the front draws the heatmap on a canvas           *)
(* (HeatmapCanvas.tsx).  Integer arithmetic is exact here.  In the code    *)
(* the quotient is a float; for the bounds in use a whole coordinate lies  *)
(* on a square's border only where the quotient is a multiple of 1/8, and  *)
(* there the float is exact too.                                           *)
(***************************************************************************)
EXTENDS Integers, FiniteSets

CONSTANTS XMin, XMax, YMin, YMax,  \* the map, in world units
          Cells,                   \* squares per side
          Xs, Ys,                  \* coordinates a hero may report
          Intervals                \* PredictionConfig.interval

ASSUME GridConstants ==
    /\ XMin \in Int /\ XMax \in Int /\ XMin < XMax
    /\ YMin \in Int /\ YMax \in Int /\ YMin < YMax
    /\ Cells \in Nat \ {0}
    /\ Xs \subseteq Int /\ Ys \subseteq Int
    /\ Intervals \subseteq Nat

\* A square is at least two units wide and high (the map's are over 500): what
\* int() cuts off its centre does not reach the border of the square.
ASSUME SquaresAreWide ==
    /\ 2 * Cells <= XMax - XMin
    /\ 2 * Cells <= YMax - YMin

VARIABLES x, y,                \* where the player's hero is
          interval, full_map   \* its session's config

vars == <<x, y, interval, full_map>>

Width == XMax - XMin
Height == YMax - YMin
Squares == 0 .. Cells * Cells - 1

\* int() of the quotient a / b, for b > 0: it drops the fraction.
Truncate(a, b) == IF a >= 0 THEN a \div b ELSE -((-a) \div b)

\* cell_id
CellId(px, py) == Truncate((py - YMin) * Cells, Height) * Cells
                    + Truncate((px - XMin) * Cells, Width)

Row(square) == square \div Cells
Col(square) == square % Cells

\* Mutant of CellCentre: the corner of the cell instead of its centre.
CellCorner(square) ==
    <<Truncate(XMin * Cells + Col(square) * Width, Cells),
      Truncate(YMin * Cells + Row(square) * Height, Cells)>>

\* cell_center, and the int() of _recalculate_distance_features: the x and y
\* the model is given for a square.
CellCentre(square) ==
    <<Truncate(XMin * 2 * Cells + (2 * Col(square) + 1) * Width, 2 * Cells),
      Truncate(YMin * 2 * Cells + (2 * Row(square) + 1) * Height, 2 * Cells)>>

\* Mutant of Around: the range is not cut off at the edges of the map.
AroundUnclamped(c, radius) == c - radius .. c + radius

\* range(max(0, c - radius), min(cells, c + radius + 1))
Around(c, radius) == {i \in c - radius .. c + radius : 0 <= i /\ i < Cells}

Radius(i) == IF i = 0 THEN 0 ELSE (i - 1) \div 2

\* _get_candidate_squares
Candidates(square, i, full) ==
    IF full THEN Squares
    ELSE IF square \notin Squares THEN {}
    ELSE {row * Cells + col : row \in Around(Row(square), Radius(i)),
                              col \in Around(Col(square), Radius(i))}

\* Mutant of Pixel: row 0 of the matrix is drawn at the top.
PixelUnflipped(square) == <<Col(square), Row(square)>>

\* HeatmapCanvas: the pixel, from the left and from the top, of a square of the
\* heatmap, which is at row r, column c of the matrix.
Pixel(square) == <<Col(square), Cells - 1 - Row(square)>>

-----------------------------------------------------------------------------
Init == /\ x \in Xs
        /\ y \in Ys
        /\ interval \in Intervals
        /\ full_map \in BOOLEAN

\* The hero moves, or the session is restarted with another config.
Move == /\ x' \in Xs
        /\ y' \in Ys
        /\ UNCHANGED <<interval, full_map>>
Reconfigure == /\ interval' \in Intervals
               /\ full_map' \in BOOLEAN
               /\ UNCHANGED <<x, y>>

Next == Move \/ Reconfigure
Spec == Init /\ [][Next]_vars

-----------------------------------------------------------------------------
(***************************************************************************)
(* Properties                                                              *)
(***************************************************************************)

Inside == x \in XMin .. XMax - 1 /\ y \in YMin .. YMax - 1
Distance(a, b) == IF a < b THEN b - a ELSE a - b

\* The worker's features for a square and gsi_processor's agree: the position
\* the model is given for a square is a position gsi_processor puts in it.
CentreIsInSquare ==
    \A square \in Candidates(CellId(x, y), interval, full_map) :
        LET centre == CellCentre(square)
        IN  CellId(centre[1], centre[2]) = square

\* For a hero inside the map, without full_map exactly the squares of the map at
\* most Radius(interval) columns and rows away are predicted: none wraps round
\* to the other edge (_get_candidate_squares).
CandidatesAreNear ==
    Inside /\ ~full_map =>
        LET hero == CellId(x, y)
        IN  Candidates(hero, interval, full_map) =
              {square \in Squares :
                 /\ Distance(Col(square), Col(hero)) <= Radius(interval)
                 /\ Distance(Row(square), Row(hero)) <= Radius(interval)}

\* Across the three services, the pixel of a hero's own square is drawn where the
\* hero stands: at its share of the width from the left, and of the height from
\* the bottom.
DrawnWhereItStands ==
    Inside =>
        LET pixel == Pixel(CellId(x, y))
            up == Cells - 1 - pixel[2]
        IN  /\ pixel[1] * Width <= (x - XMin) * Cells
            /\ (x - XMin) * Cells < (pixel[1] + 1) * Width
            /\ up * Height <= (y - YMin) * Cells
            /\ (y - YMin) * Cells < (up + 1) * Height
=============================================================================
