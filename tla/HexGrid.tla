------------------------------- MODULE HexGrid -------------------------------
(***************************************************************************)
(* The cells of a hexagonal grid: their indices, rings and positions, the  *)
(* lines of symmetry of a third of it and the cells that a cell stands for *)
(* in such a third (armi/reactor/grids/hexagonal.py).                      *)
(***************************************************************************)
EXTENDS Integers, Sequences

Cell    == Int \X Int        \* indices (i, j); the axial index plays no part
Centre  == <<0, 0>>

(* The six edges of a ring, counterclockwise from the cell in direction i, *)
(* and the offset of a cell on its edge.                                   *)
OnEdge(e, r, k) == [edge |-> e, ring |-> r, offset |-> k]

EdgeOf(i, j) ==
  IF i > 0 /\ j >= 0       THEN OnEdge(0, i + j + 1, j)
  ELSE IF i <= 0 /\ j > -i THEN OnEdge(1, j + 1, -i)
  ELSE IF i < 0 /\ j > 0   THEN OnEdge(2, 1 - i, -j - i)
  ELSE IF i < 0            THEN OnEdge(3, 1 - i - j, -j)
  ELSE IF j < -i           THEN OnEdge(4, 1 - j, i)
  ELSE OnEdge(5, i + 1, i + j)

(* indicesToRingPos: rings and positions count from 1. *)
IndicesToRingPos(l) ==
  LET on == EdgeOf(l[1], l[2])
  IN  <<on.ring, 1 + on.edge * (on.ring - 1) + on.offset>>

(* The cell at an offset on an edge of the r-th ring around the centre. *)
AtOffset(e, r, k) ==
  IF e = 0 THEN <<r - k, k>>
  ELSE IF e = 1 THEN <<-k, r>>
  ELSE IF e = 2 THEN <<-r, r - k>>
  ELSE IF e = 3 THEN <<k - r, -k>>
  ELSE IF e = 4 THEN <<k, -r>>
  ELSE <<r, k - r>>

(* getIndicesFromRingAndPos *)
IndicesFromRingAndPos(ring, pos) ==
  IF ring = 1 THEN Centre
  ELSE AtOffset((pos - 1) \div (ring - 1), ring - 1, (pos - 1) % (ring - 1))

PositionsInRing(ring) == IF ring = 1 THEN 1 ELSE 6 * (ring - 1)

(* overlapsWhichSymmetryLine: the line that runs through the middle of a   *)
(* cell, if one does.                                                      *)
SymmetryLine(l) ==
  IF l = Centre                            THEN "BOUNDARY_CENTER"
  ELSE IF l[1] > 0 /\ l[1] = -2 * l[2]     THEN "BOUNDARY_0_DEGREES"
  ELSE IF l[1] = l[2] /\ l[1] > 0          THEN "BOUNDARY_60_DEGREES"
  ELSE IF l[2] = -2 * l[1] /\ l[2] > 0     THEN "BOUNDARY_120_DEGREES"
  ELSE "None"

(* A rotation of a third of a turn, counterclockwise. *)
Turn(l) == <<-l[1] - l[2], l[1]>>

(* getSymmetricEquivalents of a grid that stands for a third of the core:  *)
(* [(-i - j, i), (j, -i - j)].                                             *)
SymmetricEquivalents(l) ==
  IF l = Centre THEN <<>> ELSE <<Turn(l), Turn(Turn(l))>>

(* isInFirstThird: by ring and position, with the upper edge or without.   *)
InFirstThird(ring, pos, includeTopEdge) ==
  \/ ring = 1
  \/ pos <= ring + ring \div 2 - (IF ring % 2 = 1 /\ includeTopEdge THEN 0 ELSE 1)
  \/ pos >= PositionsInRing(ring) - ring \div 2 + (IF ring % 2 = 0 THEN 2 ELSE 1)

IsInFirstThird(l, includeTopEdge) ==
  InFirstThird(IndicesToRingPos(l)[1], IndicesToRingPos(l)[2], includeTopEdge)

(* rotateIndex: sixths of a turn, counterclockwise, of the three cubic     *)
(* coordinates i, j and -(i + j).                                          *)
RotateIndex(l, rotations) ==
  LET cubic == <<l[1], l[2], -(l[1] + l[2])>>
      At(n) == cubic[1 + ((n + rotations) % 3)]
      sign  == IF rotations % 2 = 1 THEN -1 ELSE 1
  IN  <<sign * At(0), sign * At(1)>>
=============================================================================
