---------------------------- MODULE Orientations ----------------------------
(***************************************************************************)
(* The three tables of rotations and mirrorings the layout tools share: a  *)
(* placed cell (lib/a1-layout-format.ts, placePoint), an I/O pin (layout-  *)
(* export/parse-def.ts, turn) and a referenced GDS structure (layout-      *)
(* export/read-gds.ts, flattenCell), and what must hold between them.      *)
(***************************************************************************)
EXTENDS Integers, TLAPS

\* DEF orientations, in the order stored: N, S, E, W, FN, FS, FE, FW.
Orients == 0 .. 7

\* A point of a w by h cell placed at an orientation, relative to the placed
\* lower-left corner.
placePoint(orient, w, h, x, y) ==
  CASE orient = 0 -> <<x, y>>
    [] orient = 1 -> <<w - x, h - y>>
    [] orient = 2 -> <<y, w - x>>
    [] orient = 3 -> <<h - y, x>>
    [] orient = 4 -> <<w - x, y>>
    [] orient = 5 -> <<x, h - y>>
    [] orient = 6 -> <<h - y, w - x>>
    [] orient = 7 -> <<y, x>>

Least(a, b) == IF a <= b THEN a ELSE b
Most(a, b) == IF a <= b THEN b ELSE a

placeRect(orient, w, h, r) ==
  LET a == placePoint(orient, w, h, r.x0, r.y0)
      b == placePoint(orient, w, h, r.x1, r.y1)
  IN  [x0 |-> Least(a[1], b[1]), y0 |-> Least(a[2], b[2]),
       x1 |-> Most(a[1], b[1]), y1 |-> Most(a[2], b[2])]

\* A pin's shapes turn about its placement point.
turn(orient, x, y) ==
  CASE orient = 0 -> <<x, y>>
    [] orient = 1 -> <<-x, -y>>
    [] orient = 2 -> <<y, -x>>
    [] orient = 3 -> <<-y, x>>
    [] orient = 4 -> <<-x, y>>
    [] orient = 5 -> <<x, -y>>
    [] orient = 6 -> <<-y, -x>>
    [] orient = 7 -> <<y, x>>

\* A GDS reference mirrors about the x axis, then rotates by quarter turns.
refPoint(mirrorX, quarters, x, y) ==
  LET my == IF mirrorX THEN -y ELSE y
  IN  CASE quarters = 1 -> <<-my, x>>
        [] quarters = 2 -> <<-x, -my>>
        [] quarters = 3 -> <<my, -x>>
        [] OTHER -> <<x, my>>

\* The DEF orientation a reference amounts to.
orientOf(mirrorX, quarters) ==
  IF mirrorX
    THEN CASE quarters = 0 -> 5 [] quarters = 1 -> 7 [] quarters = 2 -> 4 [] OTHER -> 6
    ELSE CASE quarters = 0 -> 0 [] quarters = 1 -> 3 [] quarters = 2 -> 1 [] OTHER -> 2

\* The box of a placed cell: rotated by a quarter turn it is h by w.
PlacedWidth(orient, w, h) == IF orient \in {2, 3, 6, 7} THEN h ELSE w
PlacedHeight(orient, w, h) == IF orient \in {2, 3, 6, 7} THEN w ELSE h
----------------------------------------------------------------------------
\* Placing keeps a cell's points inside its placed box, whatever the
\* orientation: "DEF applies the orientation, then moves the cell's bounding
\* box to the placement point" (a1-layout-format.ts, at placePoint).
THEOREM PlaceStaysInBox ==
  ASSUME NEW o \in Orients, NEW w \in Nat, NEW h \in Nat, NEW x \in 0 .. w, NEW y \in 0 .. h
  PROVE  /\ placePoint(o, w, h, x, y)[1] \in 0 .. PlacedWidth(o, w, h)
         /\ placePoint(o, w, h, x, y)[2] \in 0 .. PlacedHeight(o, w, h)
<1>0. CASE o = 0
  BY <1>0 DEF placePoint, PlacedWidth, PlacedHeight
<1>1. CASE o = 1
  BY <1>1 DEF placePoint, PlacedWidth, PlacedHeight
<1>2. CASE o = 2
  BY <1>2 DEF placePoint, PlacedWidth, PlacedHeight
<1>3. CASE o = 3
  BY <1>3 DEF placePoint, PlacedWidth, PlacedHeight
<1>4. CASE o = 4
  BY <1>4 DEF placePoint, PlacedWidth, PlacedHeight
<1>5. CASE o = 5
  BY <1>5 DEF placePoint, PlacedWidth, PlacedHeight
<1>6. CASE o = 6
  BY <1>6 DEF placePoint, PlacedWidth, PlacedHeight
<1>7. CASE o = 7
  BY <1>7 DEF placePoint, PlacedWidth, PlacedHeight
<1>q. QED
  BY <1>0, <1>1, <1>2, <1>3, <1>4, <1>5, <1>6, <1>7 DEF Orients

\* Placing a cell and turning a pin differ by a shift only: the two tables
\* mean the same eight orientations.
THEOREM TurnIsPlace ==
  ASSUME NEW o \in Orients, NEW w \in Nat, NEW h \in Nat,
         NEW x \in Int, NEW y \in Int
  PROVE  /\ placePoint(o, w, h, x, y)[1] = turn(o, x, y)[1] + placePoint(o, w, h, 0, 0)[1]
         /\ placePoint(o, w, h, x, y)[2] = turn(o, x, y)[2] + placePoint(o, w, h, 0, 0)[2]
<1>0. CASE o = 0
  BY <1>0 DEF placePoint, turn
<1>1. CASE o = 1
  BY <1>1 DEF placePoint, turn
<1>2. CASE o = 2
  BY <1>2 DEF placePoint, turn
<1>3. CASE o = 3
  BY <1>3 DEF placePoint, turn
<1>4. CASE o = 4
  BY <1>4 DEF placePoint, turn
<1>5. CASE o = 5
  BY <1>5 DEF placePoint, turn
<1>6. CASE o = 6
  BY <1>6 DEF placePoint, turn
<1>7. CASE o = 7
  BY <1>7 DEF placePoint, turn
<1>q. QED
  BY <1>0, <1>1, <1>2, <1>3, <1>4, <1>5, <1>6, <1>7 DEF Orients

\* A GDS reference is one of the same eight orientations, and every one of
\* them can be written so.
THEOREM RefIsTurn ==
  ASSUME NEW m \in BOOLEAN, NEW q \in 0 .. 3, NEW x \in Int, NEW y \in Int
  PROVE  refPoint(m, q, x, y) = turn(orientOf(m, q), x, y)
<1>1. CASE m = TRUE /\ q = 0
  BY <1>1 DEF refPoint, turn, orientOf
<1>2. CASE m = TRUE /\ q = 1
  BY <1>2 DEF refPoint, turn, orientOf
<1>3. CASE m = TRUE /\ q = 2
  BY <1>3 DEF refPoint, turn, orientOf
<1>4. CASE m = TRUE /\ q = 3
  BY <1>4 DEF refPoint, turn, orientOf
<1>5. CASE m = FALSE /\ q = 0
  BY <1>5 DEF refPoint, turn, orientOf
<1>6. CASE m = FALSE /\ q = 1
  BY <1>6 DEF refPoint, turn, orientOf
<1>7. CASE m = FALSE /\ q = 2
  BY <1>7 DEF refPoint, turn, orientOf
<1>8. CASE m = FALSE /\ q = 3
  BY <1>8 DEF refPoint, turn, orientOf
<1>9. m = TRUE \/ m = FALSE
  OBVIOUS
<1>10. q = 0 \/ q = 1 \/ q = 2 \/ q = 3
  OBVIOUS
<1>q. QED
  BY <1>1, <1>2, <1>3, <1>4, <1>5, <1>6, <1>7, <1>8, <1>9, <1>10

\* No orientation is beyond a reference.
THEOREM RefsAreAllOrients ==
  ASSUME NEW o \in Orients
  PROVE  \E m \in BOOLEAN, q \in 0 .. 3 : orientOf(m, q) = o
<1>0. CASE o = 0
  <2>1. FALSE \in BOOLEAN /\ 0 \in 0 .. 3
    OBVIOUS
  <2>2. orientOf(FALSE, 0) = o
    BY <1>0 DEF orientOf
  <2>3. QED
    BY <2>1, <2>2, Zenon
<1>1. CASE o = 1
  <2>1. FALSE \in BOOLEAN /\ 2 \in 0 .. 3
    OBVIOUS
  <2>2. orientOf(FALSE, 2) = o
    BY <1>1 DEF orientOf
  <2>3. QED
    BY <2>1, <2>2, Zenon
<1>2. CASE o = 2
  <2>1. FALSE \in BOOLEAN /\ 3 \in 0 .. 3
    OBVIOUS
  <2>2. orientOf(FALSE, 3) = o
    BY <1>2 DEF orientOf
  <2>3. QED
    BY <2>1, <2>2, Zenon
<1>3. CASE o = 3
  <2>1. FALSE \in BOOLEAN /\ 1 \in 0 .. 3
    OBVIOUS
  <2>2. orientOf(FALSE, 1) = o
    BY <1>3 DEF orientOf
  <2>3. QED
    BY <2>1, <2>2, Zenon
<1>4. CASE o = 4
  <2>1. TRUE \in BOOLEAN /\ 2 \in 0 .. 3
    OBVIOUS
  <2>2. orientOf(TRUE, 2) = o
    BY <1>4 DEF orientOf
  <2>3. QED
    BY <2>1, <2>2, Zenon
<1>5. CASE o = 5
  <2>1. TRUE \in BOOLEAN /\ 0 \in 0 .. 3
    OBVIOUS
  <2>2. orientOf(TRUE, 0) = o
    BY <1>5 DEF orientOf
  <2>3. QED
    BY <2>1, <2>2, Zenon
<1>6. CASE o = 6
  <2>1. TRUE \in BOOLEAN /\ 3 \in 0 .. 3
    OBVIOUS
  <2>2. orientOf(TRUE, 3) = o
    BY <1>6 DEF orientOf
  <2>3. QED
    BY <2>1, <2>2, Zenon
<1>7. CASE o = 7
  <2>1. TRUE \in BOOLEAN /\ 1 \in 0 .. 3
    OBVIOUS
  <2>2. orientOf(TRUE, 1) = o
    BY <1>7 DEF orientOf
  <2>3. QED
    BY <2>1, <2>2, Zenon
<1>q. QED
  BY <1>0, <1>1, <1>2, <1>3, <1>4, <1>5, <1>6, <1>7 DEF Orients

\* A placed rectangle keeps its size and lies in the placed box.
THEOREM PlaceRectFits ==
  ASSUME NEW o \in Orients, NEW w \in Nat, NEW h \in Nat,
         NEW r \in [x0 : 0 .. w, y0 : 0 .. h, x1 : 0 .. w, y1 : 0 .. h],
         r.x0 <= r.x1, r.y0 <= r.y1
  PROVE  /\ 0 <= placeRect(o, w, h, r).x0
         /\ placeRect(o, w, h, r).x1 <= PlacedWidth(o, w, h)
         /\ 0 <= placeRect(o, w, h, r).y0
         /\ placeRect(o, w, h, r).y1 <= PlacedHeight(o, w, h)
         /\ placeRect(o, w, h, r).x1 - placeRect(o, w, h, r).x0
              = PlacedWidth(o, r.x1 - r.x0, r.y1 - r.y0)
         /\ placeRect(o, w, h, r).y1 - placeRect(o, w, h, r).y0
              = PlacedHeight(o, r.x1 - r.x0, r.y1 - r.y0)
<1>0. CASE o = 0
  BY <1>0 DEF placeRect, placePoint, PlacedWidth, PlacedHeight, Least, Most
<1>1. CASE o = 1
  BY <1>1 DEF placeRect, placePoint, PlacedWidth, PlacedHeight, Least, Most
<1>2. CASE o = 2
  BY <1>2 DEF placeRect, placePoint, PlacedWidth, PlacedHeight, Least, Most
<1>3. CASE o = 3
  BY <1>3 DEF placeRect, placePoint, PlacedWidth, PlacedHeight, Least, Most
<1>4. CASE o = 4
  BY <1>4 DEF placeRect, placePoint, PlacedWidth, PlacedHeight, Least, Most
<1>5. CASE o = 5
  BY <1>5 DEF placeRect, placePoint, PlacedWidth, PlacedHeight, Least, Most
<1>6. CASE o = 6
  BY <1>6 DEF placeRect, placePoint, PlacedWidth, PlacedHeight, Least, Most
<1>7. CASE o = 7
  BY <1>7 DEF placeRect, placePoint, PlacedWidth, PlacedHeight, Least, Most
<1>q. QED
  BY <1>0, <1>1, <1>2, <1>3, <1>4, <1>5, <1>6, <1>7 DEF Orients
=============================================================================
