-------------------------- MODULE GridCellsProofs ---------------------------
(***************************************************************************)
(* The four computations of the grid agree, for every map whose squares    *)
(* are at least two units wide and high, any number of squares per side,   *)
(* every whole position and every config.                                  *)
(***************************************************************************)
EXTENDS GridCells, TLAPS

\* The state: one of the positions, one of the configs.
GridTypes == x \in Xs /\ y \in Ys /\ interval \in Intervals /\ full_map \in BOOLEAN

\* Every step picks them from the same sets.
LEMMA GridTypesHold == Spec => []GridTypes
  <1>1. Init => GridTypes
    BY DEF Init, GridTypes
  <1>2. GridTypes /\ [Next]_vars => GridTypes'
    BY DEF GridTypes, Next, Move, Reconfigure, vars
  <1> QED BY <1>1, <1>2, PTL DEF Spec

\* What a position and a config are.
LEMMA GridNumbers ==
    /\ XMin \in Int /\ YMin \in Int /\ Cells \in Nat \ {0}
    /\ Width \in Nat \ {0} /\ Height \in Nat \ {0}
    /\ 2 * Cells <= Width /\ 2 * Cells <= Height
    /\ GridTypes => x \in Int /\ y \in Int /\ interval \in Nat
  <1>1. /\ XMin \in Int /\ YMin \in Int /\ Cells \in Nat \ {0}
        /\ Width \in Nat \ {0} /\ Height \in Nat \ {0}
    BY GridConstants DEF Width, Height
  <1>2. 2 * Cells <= Width /\ 2 * Cells <= Height
    BY SquaresAreWide DEF Width, Height
  <1>3. ASSUME GridTypes PROVE x \in Int /\ y \in Int /\ interval \in Nat
    <2>1. Xs \subseteq Int /\ Ys \subseteq Int /\ Intervals \subseteq Nat
      BY GridConstants
    <2> QED BY <1>3, <2>1 DEF GridTypes
  <1> QED BY <1>1, <1>2, <1>3

-----------------------------------------------------------------------------
(***************************************************************************)
(* Quotients.                                                              *)
(***************************************************************************)

\* A quotient is the last whole number not above the fraction.
LEMMA DivBounds ==
    ASSUME NEW a \in Int, NEW b \in Nat \ {0}
    PROVE  /\ a \div b \in Int
           /\ b * (a \div b) <= a
           /\ a < b * (a \div b) + b
  OBVIOUS

\* Multiples of b are b apart.
LEMMA Squeeze ==
    ASSUME NEW b \in Nat \ {0}, NEW q \in Int, NEW p \in Int, b * q < b * p + b
    PROVE  q <= p
  <1>1. ASSUME q >= p + 1 PROVE FALSE
    <2>1. PICK d \in Nat : q = p + 1 + d
      <3>1. q - (p + 1) \in Nat
        BY <1>1
      <3> QED BY <3>1
    <2>2. b * q = b * p + b + b * d
      BY <2>1
    <2>3. b * d >= 0
      OBVIOUS
    <2> QED BY <2>2, <2>3
  <1> QED BY <1>1

\* Nothing else is between its multiple of b and the next one.
LEMMA DivUnique ==
    ASSUME NEW a \in Int, NEW b \in Nat \ {0}, NEW q \in Int,
           b * q <= a, a < b * q + b
    PROVE  a \div b = q
  <1>1. /\ a \div b \in Int
        /\ b * (a \div b) <= a
        /\ a < b * (a \div b) + b
    BY DivBounds
  <1>2. q <= a \div b
    BY <1>1, Squeeze
  <1>3. a \div b <= q
    BY <1>1, Squeeze
  <1> QED BY <1>1, <1>2, <1>3

\* Quotient and rest of a number written with both.
LEMMA DivMod ==
    ASSUME NEW b \in Nat \ {0}, NEW q \in Int, NEW r \in 0 .. b - 1
    PROVE  (q * b + r) \div b = q /\ (q * b + r) % b = r
  <1>1. (q * b + r) \div b = q
    BY DivUnique
  <1>2. q * b + r = b * ((q * b + r) \div b) + ((q * b + r) % b)
    OBVIOUS
  <1> QED BY <1>1, <1>2

\* int() cuts off less than one, towards 0.
LEMMA TruncateBounds ==
    ASSUME NEW a \in Int, NEW b \in Nat \ {0}
    PROVE  /\ Truncate(a, b) \in Int
           /\ a - b < b * Truncate(a, b) /\ b * Truncate(a, b) < a + b
           /\ a >= 0 => Truncate(a, b) = a \div b
  <1>1. CASE a >= 0
    BY <1>1, DivBounds DEF Truncate
  <1>2. CASE a < 0
    <2>1. /\ (-a) \div b \in Int
          /\ b * ((-a) \div b) <= -a
          /\ -a < b * ((-a) \div b) + b
      BY DivBounds
    <2>2. Truncate(a, b) = -((-a) \div b)
      BY <1>2 DEF Truncate
    <2>3. b * Truncate(a, b) = -(b * ((-a) \div b))
      BY <2>1, <2>2
    <2> QED BY <1>2, <2>1, <2>2, <2>3
  <1> QED BY <1>1, <1>2

-----------------------------------------------------------------------------
(***************************************************************************)
(* Squares.                                                                *)
(***************************************************************************)

\* A square is its row and its column.
LEMMA SquareOf ==
    ASSUME NEW r \in 0 .. Cells - 1, NEW c \in 0 .. Cells - 1
    PROVE  /\ r * Cells + c \in Squares
           /\ Row(r * Cells + c) = r /\ Col(r * Cells + c) = c
  <1>1. Cells \in Nat \ {0} /\ r \in Int
    BY GridNumbers
  <1>2. Row(r * Cells + c) = r /\ Col(r * Cells + c) = c
    BY <1>1, DivMod DEF Row, Col
  <1>3. r * Cells >= 0 /\ r * Cells <= (Cells - 1) * Cells
    BY <1>1
  <1>4. r * Cells + c \in 0 .. Cells * Cells - 1
    BY <1>1, <1>3
  <1> QED BY <1>2, <1>4 DEF Squares

\* The row and the column of a square are on the map, and they tell squares apart.
LEMMA RowAndCol ==
    ASSUME NEW square \in Squares
    PROVE  /\ Row(square) \in 0 .. Cells - 1 /\ Col(square) \in 0 .. Cells - 1
           /\ square = Row(square) * Cells + Col(square)
  <1>1. Cells \in Nat \ {0}
    BY GridNumbers
  <1>2. square \in Int /\ 0 <= square /\ square < Cells * Cells
    BY <1>1 DEF Squares
  <1>3. /\ square \div Cells \in Int
        /\ square % Cells \in 0 .. Cells - 1
        /\ square = Cells * (square \div Cells) + (square % Cells)
    BY <1>1, <1>2
  <1>4. square \div Cells >= 0
    <2>1. Cells * 0 < Cells * (square \div Cells) + Cells
      BY <1>1, <1>2, <1>3
    <2> QED BY <1>1, <1>3, <2>1, Squeeze
  <1>5. square \div Cells <= Cells - 1
    <2>1. Cells * (square \div Cells) < Cells * (Cells - 1) + Cells
      BY <1>1, <1>2, <1>3
    <2>2. Cells - 1 \in Int
      BY <1>1
    <2> QED BY <1>1, <1>3, <2>1, <2>2, Squeeze
  <1> QED BY <1>1, <1>3, <1>4, <1>5 DEF Row, Col

\* cell_id in one dimension: inside the map a coordinate falls into the part it
\* stands in.
LEMMA PartOf ==
    ASSUME NEW size \in Nat \ {0}, NEW d \in 0 .. size - 1
    PROVE  /\ Truncate(d * Cells, size) \in 0 .. Cells - 1
           /\ Truncate(d * Cells, size) * size <= d * Cells
           /\ d * Cells < (Truncate(d * Cells, size) + 1) * size
  <1> DEFINE q == (d * Cells) \div size
  <1>1. Cells \in Nat \ {0}
    BY GridNumbers
  <1>2. d * Cells \in Nat /\ d * Cells < size * Cells
    BY <1>1
  <1>3. Truncate(d * Cells, size) = q
    BY <1>2 DEF Truncate
  <1>4. q \in Int /\ size * q <= d * Cells /\ d * Cells < size * q + size
    <2>1. d * Cells \in Int
      BY <1>2
    <2> QED BY <2>1, DivBounds
  <1> HIDE DEF q
  <1>5. q >= 0
    <2>1. size * 0 < size * q + size
      BY <1>2, <1>4
    <2> QED BY <1>4, <2>1, Squeeze
  <1>6. q <= Cells - 1
    <2>1. size * q < size * (Cells - 1) + size
      BY <1>1, <1>2, <1>4
    <2>2. Cells - 1 \in Int
      BY <1>1
    <2> QED BY <1>4, <2>1, <2>2, Squeeze
  <1> QED BY <1>1, <1>3, <1>4, <1>5, <1>6

\* cell_id inside the map.
LEMMA InsideSquare ==
    ASSUME GridTypes, Inside
    PROVE  LET row == Truncate((y - YMin) * Cells, Height)
               col == Truncate((x - XMin) * Cells, Width)
           IN  /\ row \in 0 .. Cells - 1 /\ col \in 0 .. Cells - 1
               /\ CellId(x, y) = row * Cells + col
  <1>1. y - YMin \in 0 .. Height - 1 /\ x - XMin \in 0 .. Width - 1
    BY GridConstants, GridNumbers DEF Inside, Width, Height
  <1> QED BY <1>1, GridNumbers, PartOf DEF CellId

-----------------------------------------------------------------------------
(***************************************************************************)
(* The centre of a square.                                                 *)
(***************************************************************************)

\* In one dimension: the centre of part c of n is in part c, although int()
\* moves it by up to one unit.
LEMMA CentreOfPart ==
    ASSUME NEW low \in Int, NEW size \in Nat \ {0}, NEW n \in Nat \ {0}, 2 * n <= size,
           NEW c \in 0 .. n - 1
    PROVE  LET m == Truncate(low * 2 * n + (2 * c + 1) * size, 2 * n)
           IN  m \in Int /\ Truncate((m - low) * n, size) = c
  <1> DEFINE A == low * 2 * n + (2 * c + 1) * size
             m == Truncate(A, 2 * n)
  <1>1. A \in Int /\ 2 * n \in Nat \ {0}
    OBVIOUS
  <1>2. m \in Int /\ A - 2 * n < (2 * n) * m /\ (2 * n) * m < A + 2 * n
    BY <1>1, TruncateBounds
  <1> HIDE DEF m
  <1>3. A = 2 * (n * low) + 2 * (c * size) + size
    OBVIOUS
  <1> HIDE DEF A
  <1>4. (2 * n) * m = 2 * (n * m)
    BY <1>2
  <1>5. /\ c * size \in Nat /\ n * low \in Int /\ n * m \in Int
        /\ (m - low) * n = n * m - n * low
    BY <1>2
  <1>6. c * size < n * m - n * low /\ n * m - n * low < c * size + size
    BY <1>2, <1>3, <1>4, <1>5
  <1>7. (m - low) * n \in Int /\ (m - low) * n >= 0
    BY <1>5, <1>6
  <1>8. ((m - low) * n) \div size = c
    BY <1>5, <1>6, <1>7, DivUnique
  <1>9. Truncate((m - low) * n, size) = c
    BY <1>7, <1>8 DEF Truncate
  <1> QED BY <1>2, <1>9 DEF m, A

\* cell_id takes the centre of a square back to that square.
LEMMA CentreOfSquare ==
    ASSUME NEW square \in Squares
    PROVE  CellId(CellCentre(square)[1], CellCentre(square)[2]) = square
  <1>1. /\ Row(square) \in 0 .. Cells - 1 /\ Col(square) \in 0 .. Cells - 1
        /\ square = Row(square) * Cells + Col(square)
    BY RowAndCol
  <1>2. Truncate((CellCentre(square)[1] - XMin) * Cells, Width) = Col(square)
    BY <1>1, GridNumbers, CentreOfPart DEF CellCentre
  <1>3. Truncate((CellCentre(square)[2] - YMin) * Cells, Height) = Row(square)
    BY <1>1, GridNumbers, CentreOfPart DEF CellCentre
  <1> QED BY <1>1, <1>2, <1>3 DEF CellId

\* Only squares of the map are ever predicted.
LEMMA CandidatesOnMap ==
    ASSUME NEW square, NEW i, NEW full
    PROVE  Candidates(square, i, full) \subseteq Squares
  <1>1. ASSUME square \in Squares, NEW row \in Around(Row(square), Radius(i)),
               NEW col \in Around(Col(square), Radius(i))
        PROVE  row * Cells + col \in Squares
    <2>1. row \in 0 .. Cells - 1 /\ col \in 0 .. Cells - 1
      BY GridNumbers DEF Around
    <2> QED BY <2>1, SquareOf
  <1> QED BY <1>1 DEF Candidates

\* CentreIsInSquare: wherever the hero is, on the map or off it, each square that
\* is predicted is given a position that gsi_processor puts in that square.
THEOREM GridCentreIsInSquare == Spec => []CentreIsInSquare
  <1>1. CentreIsInSquare
    BY CandidatesOnMap, CentreOfSquare DEF CentreIsInSquare
  <1> QED BY <1>1, PTL

-----------------------------------------------------------------------------
(***************************************************************************)
(* The squares around the hero, and the pixel of its own.                  *)
(***************************************************************************)

\* The range of rows, or columns, is what is near and on the map.
LEMMA AroundIsNear ==
    ASSUME NEW c \in 0 .. Cells - 1, NEW radius \in Nat, NEW k \in 0 .. Cells - 1
    PROVE  k \in Around(c, radius) <=> Distance(k, c) <= radius
  BY GridNumbers DEF Around, Distance

\* A radius is a number of squares.
LEMMA RadiusType == ASSUME NEW i \in Nat PROVE Radius(i) \in Nat
  BY DEF Radius

\* CandidatesAreNear: for a hero on the map the predicted squares are the ones at
\* most Radius(interval) rows and columns away, cut off at the edges of the map.
THEOREM GridCandidatesAreNear == Spec => []CandidatesAreNear
  <1>1. GridTypes => CandidatesAreNear
    <2> DEFINE hero == CellId(x, y)
               R == Radius(interval)
               near == {square \in Squares : /\ Distance(Col(square), Col(hero)) <= R
                                             /\ Distance(Row(square), Row(hero)) <= R}
    <2> SUFFICES ASSUME GridTypes, Inside, ~full_map
                 PROVE  Candidates(hero, interval, full_map) = near
      BY DEF CandidatesAreNear
    <2>1. hero \in Squares
      BY InsideSquare, SquareOf
    <2>2. R \in Nat
      BY GridNumbers, RadiusType
    <2> HIDE DEF hero, R
    <2>3. Row(hero) \in 0 .. Cells - 1 /\ Col(hero) \in 0 .. Cells - 1
      BY <2>1, RowAndCol
    <2>4. Candidates(hero, interval, full_map) =
            {row * Cells + col : row \in Around(Row(hero), R), col \in Around(Col(hero), R)}
      BY <2>1 DEF Candidates, R
    <2>5. ASSUME NEW square \in near
          PROVE  square \in Candidates(hero, interval, full_map)
      <3>1. /\ Row(square) \in 0 .. Cells - 1 /\ Col(square) \in 0 .. Cells - 1
            /\ square = Row(square) * Cells + Col(square)
        BY RowAndCol
      <3>2. Row(square) \in Around(Row(hero), R) /\ Col(square) \in Around(Col(hero), R)
        BY <2>2, <2>3, <3>1, AroundIsNear
      <3> QED BY <2>4, <3>1, <3>2
    <2>6. ASSUME NEW row \in Around(Row(hero), R), NEW col \in Around(Col(hero), R)
          PROVE  row * Cells + col \in near
      <3>1. row \in 0 .. Cells - 1 /\ col \in 0 .. Cells - 1
        BY GridNumbers DEF Around
      <3>2. Distance(row, Row(hero)) <= R /\ Distance(col, Col(hero)) <= R
        BY <2>2, <2>3, <3>1, AroundIsNear
      <3> QED BY <3>1, <3>2, SquareOf
    <2> QED BY <2>4, <2>5, <2>6
  <1> QED BY <1>1, GridTypesHold, PTL

\* DrawnWhereItStands: the pixel of the hero's own square covers the place where
\* it stands, counted from the left and from the bottom.
THEOREM GridDrawnWhereItStands == Spec => []DrawnWhereItStands
  <1>1. GridTypes => DrawnWhereItStands
    <2> DEFINE row == Truncate((y - YMin) * Cells, Height)
               col == Truncate((x - XMin) * Cells, Width)
               pixel == Pixel(CellId(x, y))
    <2> SUFFICES ASSUME GridTypes, Inside
                 PROVE  /\ pixel[1] * Width <= (x - XMin) * Cells
                        /\ (x - XMin) * Cells < (pixel[1] + 1) * Width
                        /\ (Cells - 1 - pixel[2]) * Height <= (y - YMin) * Cells
                        /\ (y - YMin) * Cells < (Cells - 1 - pixel[2] + 1) * Height
      BY DEF DrawnWhereItStands
    <2>1. /\ row \in 0 .. Cells - 1 /\ col \in 0 .. Cells - 1
          /\ CellId(x, y) = row * Cells + col
      BY InsideSquare
    <2>2. y - YMin \in 0 .. Height - 1 /\ x - XMin \in 0 .. Width - 1
      BY GridConstants, GridNumbers DEF Inside, Width, Height
    <2>3. /\ row * Height <= (y - YMin) * Cells
          /\ (y - YMin) * Cells < (row + 1) * Height
          /\ col * Width <= (x - XMin) * Cells
          /\ (x - XMin) * Cells < (col + 1) * Width
      BY <2>2, GridNumbers, PartOf
    <2> HIDE DEF row, col
    <2>4. pixel = <<col, Cells - 1 - row>>
      BY <2>1, SquareOf DEF Pixel
    <2>5. pixel[1] = col /\ Cells - 1 - pixel[2] = row
      BY <2>1, <2>4, GridNumbers
    <2> HIDE DEF pixel
    <2> QED BY <2>3, <2>5
  <1> QED BY <1>1, GridTypesHold, PTL

=============================================================================
