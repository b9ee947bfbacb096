--------------------------- MODULE GeometryProofs ---------------------------
(***************************************************************************)
(* A core keeps its promises (GeometryProperties), for every third of a    *)
(* core, any number of shuffles and any order of shuffles, solves and      *)
(* conversions.                                                            *)
(***************************************************************************)
EXTENDS GeometryProperties, FiniteSetTheorems, FunctionTheorems, SequenceTheorems, TLAPS

(***************************************************************************)
(* The grid: conversions between indices and rings and positions, and the  *)
(* symmetry of a third, for every cell.                                    *)
(***************************************************************************)

(* A cell and its two images are one orbit: a third turn leads back to the *)
(* cell, and only the centre is its own image (getSymmetricEquivalents).   *)
THEOREM ThreeTurns ==
  \A l \in Cell : /\ Turn(l) \in Cell
                  /\ Turn(Turn(Turn(l))) = l
                  /\ Turn(l) = l <=> l = Centre
  BY DEF Cell, Turn, Centre

(* rotateIndex by two sixths is the turn of getSymmetricEquivalents.       *)
THEOREM TwoSixthsAreATurn == \A l \in Cell : RotateIndex(l, 2) = Turn(l)
  BY DEF Cell, Turn, RotateIndex

(* A cell is on one of six edges, at an offset below the edge's length.    *)
LEMMA Edges ==
  ASSUME NEW i \in Int, NEW j \in Int, i # 0 \/ j # 0
  PROVE  /\ EdgeOf(i, j).edge \in 0..5
         /\ EdgeOf(i, j).ring \in Nat
         /\ EdgeOf(i, j).offset \in 0..EdgeOf(i, j).ring - 2
         /\ AtOffset(EdgeOf(i, j).edge, EdgeOf(i, j).ring - 1, EdgeOf(i, j).offset) = <<i, j>>
  BY DEF EdgeOf, OnEdge, AtOffset

(* A turn keeps ring and offset and leads two edges on.                    *)
LEMMA EdgesTurn ==
  ASSUME NEW i \in Int, NEW j \in Int, i # 0 \/ j # 0
  PROVE  EdgeOf(-i - j, i) = OnEdge((EdgeOf(i, j).edge + 2) % 6, EdgeOf(i, j).ring, EdgeOf(i, j).offset)
  BY DEF EdgeOf, OnEdge

(* Position in ring, unique.                                               *)
LEMMA Quotient ==
  ASSUME NEW n \in Nat \ {0}, NEW e \in 0..5, NEW k \in 0..n - 1
  PROVE  (e * n + k) \div n = e /\ (e * n + k) % n = k
  OBVIOUS

(* Ring and position are those of the edge, and tell edge and offset.      *)
LEMMA Positions ==
  ASSUME NEW i \in Int, NEW j \in Int, i # 0 \/ j # 0,
         NEW n, n = EdgeOf(i, j).ring - 1
  PROVE  \E pos \in 1..6 * n :
           /\ IndicesToRingPos(<<i, j>>) = <<n + 1, pos>>
           /\ n \in Nat \ {0}
           /\ (pos - 1) \div n = EdgeOf(i, j).edge
           /\ (pos - 1) % n = EdgeOf(i, j).offset
<1> DEFINE e == EdgeOf(i, j).edge
           k == EdgeOf(i, j).offset
<1>1. e \in 0..5 /\ n \in Nat \ {0} /\ k \in 0..n - 1
  BY SMTT(30), Edges
<1>2. IndicesToRingPos(<<i, j>>) = <<n + 1, 1 + e * n + k>>
  <2>1. IndicesToRingPos(<<i, j>>) = <<EdgeOf(i, j).ring, 1 + e * (EdgeOf(i, j).ring - 1) + k>>
    BY DEF IndicesToRingPos
  <2> QED BY <2>1, Edges
<1> HIDE DEF e, k
<1>3. (e * n + k) \div n = e /\ (e * n + k) % n = k
  BY <1>1, Quotient
<1>4. e * n + k \in 0..6 * n - 1 /\ (1 + e * n + k) - 1 = e * n + k
  BY <1>1
<1>5. 1 + e * n + k \in 1..6 * n
  <2>1. \A m \in 0..6 * n - 1 : 1 + m \in 1..6 * n
    BY <1>1
  <2>2. 1 + (e * n + k) \in 1..6 * n
    BY <1>4, <2>1
  <2>3. 1 + e * n + k = 1 + (e * n + k)
    BY <1>1
  <2> QED BY <2>2, <2>3
<1> QED BY <1>1, <1>2, <1>3, <1>4, <1>5 DEF e, k

(* The grid finds every cell again by its ring and position:               *)
(* getIndicesFromRingAndPos undoes getRingPos.                             *)
THEOREM CellsAreFoundByPosition ==
  \A l \in Cell : \E ring \in Nat \ {0} : \E pos \in 1..PositionsInRing(ring) :
    IndicesToRingPos(l) = <<ring, pos>> /\ IndicesFromRingAndPos(ring, pos) = l
<1> SUFFICES ASSUME NEW i \in Int, NEW j \in Int
             PROVE  \E ring \in Nat \ {0} : \E pos \in 1..PositionsInRing(ring) :
                      /\ IndicesToRingPos(<<i, j>>) = <<ring, pos>>
                      /\ IndicesFromRingAndPos(ring, pos) = <<i, j>>
  BY DEF Cell
<1>1. CASE i = 0 /\ j = 0
  <2>1. IndicesToRingPos(<<i, j>>) = <<1, 1>>
    BY <1>1 DEF IndicesToRingPos, EdgeOf, OnEdge
  <2>2. IndicesFromRingAndPos(1, 1) = <<i, j>> /\ 1 \in 1..PositionsInRing(1)
    BY <1>1 DEF IndicesFromRingAndPos, Centre, PositionsInRing
  <2> QED BY <2>1, <2>2
<1>2. CASE i # 0 \/ j # 0
  <2> DEFINE n == EdgeOf(i, j).ring - 1
  <2>1. PICK pos \in 1..6 * n : /\ IndicesToRingPos(<<i, j>>) = <<n + 1, pos>>
                               /\ n \in Nat \ {0}
                               /\ (pos - 1) \div n = EdgeOf(i, j).edge
                               /\ (pos - 1) % n = EdgeOf(i, j).offset
    BY <1>2, Positions
  <2>2. AtOffset(EdgeOf(i, j).edge, n, EdgeOf(i, j).offset) = <<i, j>>
    BY <1>2, Edges
  <2> HIDE DEF n
  <2>3. n + 1 \in Nat \ {0} /\ n + 1 # 1 /\ (n + 1) - 1 = n
    BY <2>1
  <2>4. IndicesFromRingAndPos(n + 1, pos) = <<i, j>>
    BY <2>1, <2>2, <2>3 DEF IndicesFromRingAndPos
  <2>5. pos \in 1..PositionsInRing(n + 1)
    BY <2>1, <2>3 DEF PositionsInRing
  <2> QED BY <2>1, <2>3, <2>4, <2>5
<1> QED BY <1>1, <1>2

(* What isInFirstThird says of ring and position is a sector between the   *)
(* lower line and the upper one, which the edge belongs to or not.         *)
LEMMA ThirdsAreSectors ==
  ASSUME NEW i \in Int, NEW j \in Int, i # 0 \/ j # 0
  PROVE  /\ IsInFirstThird(<<i, j>>, FALSE) <=> i + 2 * j >= 0 /\ 2 * i + j > 0
         /\ IsInFirstThird(<<i, j>>, TRUE) <=> i + 2 * j >= 0 /\ 2 * i + j >= 0
<1>1. CASE i > 0 /\ j >= 0
  <2>1. IndicesToRingPos(<<i, j>>) = <<i + j + 1, 1 + j>>
    BY <1>1 DEF IndicesToRingPos, EdgeOf, OnEdge
  <2> QED BY <1>1, <2>1 DEF IsInFirstThird, InFirstThird, PositionsInRing
<1>2. CASE i <= 0 /\ j > -i
  <2>1. IndicesToRingPos(<<i, j>>) = <<j + 1, 1 + j - i>>
    BY <1>2 DEF IndicesToRingPos, EdgeOf, OnEdge
  <2> QED BY <1>2, <2>1 DEF IsInFirstThird, InFirstThird, PositionsInRing
<1>3. CASE i < 0 /\ j > 0 /\ j <= -i
  <2>1. IndicesToRingPos(<<i, j>>) = <<1 - i, 1 - 2 * i - j - i>>
    BY <1>3 DEF IndicesToRingPos, EdgeOf, OnEdge
  <2> QED BY <1>3, <2>1 DEF IsInFirstThird, InFirstThird, PositionsInRing
<1>4. CASE i < 0 /\ j <= 0
  <2>1. IndicesToRingPos(<<i, j>>) = <<1 - i - j, 1 - 3 * i - 4 * j>>
    BY <1>4 DEF IndicesToRingPos, EdgeOf, OnEdge
  <2> QED BY <1>4, <2>1 DEF IsInFirstThird, InFirstThird, PositionsInRing
<1>5. CASE i >= 0 /\ j < -i
  <2>1. IndicesToRingPos(<<i, j>>) = <<1 - j, 1 - 4 * j + i>>
    BY <1>5 DEF IndicesToRingPos, EdgeOf, OnEdge
  <2> QED BY <1>5, <2>1 DEF IsInFirstThird, InFirstThird, PositionsInRing
<1>6. CASE i > 0 /\ j < 0 /\ j >= -i
  <2>1. IndicesToRingPos(<<i, j>>) = <<i + 1, 1 + 6 * i + j>>
    BY <1>6 DEF IndicesToRingPos, EdgeOf, OnEdge
  <2> QED BY <1>6, <2>1 DEF IsInFirstThird, InFirstThird, PositionsInRing
<1>7. \/ i > 0 /\ j >= 0
      \/ i <= 0 /\ j > -i
      \/ i < 0 /\ j > 0 /\ j <= -i
      \/ i < 0 /\ j <= 0
      \/ i >= 0 /\ j < -i
      \/ i > 0 /\ j < 0 /\ j >= -i
  OBVIOUS
<1> QED BY <1>1, <1>2, <1>3, <1>4, <1>5, <1>6, <1>7, Zenon

(* Of a cell and its two images the model of a third of the core has one,  *)
(* whatever the ring (isInFirstThird without the upper edge).              *)
THEOREM OneOfThreeIsModelled ==
  \A l \in Cell : l # Centre =>
    \E k \in {l, Turn(l), Turn(Turn(l))} :
      \A m \in {l, Turn(l), Turn(Turn(l))} : IsInFirstThird(m, FALSE) <=> m = k
<1> SUFFICES ASSUME NEW l \in Cell, l # Centre
             PROVE  \E k \in {l, Turn(l), Turn(Turn(l))} :
                      \A m \in {l, Turn(l), Turn(Turn(l))} : IsInFirstThird(m, FALSE) <=> m = k
  OBVIOUS
<1>1. PICK i \in Int, j \in Int : l = <<i, j>>
  BY DEF Cell
<1>2. /\ Turn(l) = <<-i - j, i>> /\ Turn(Turn(l)) = <<j, -i - j>>
      /\ i # 0 \/ j # 0
  BY <1>1 DEF Turn, Centre
<1>3. IsInFirstThird(l, FALSE) <=> i + 2 * j >= 0 /\ 2 * i + j > 0
  BY <1>1, <1>2, ThirdsAreSectors, Zenon
<1>4. IsInFirstThird(Turn(l), FALSE) <=> i - j >= 0 /\ -i - 2 * j > 0
  <2>1. -i - j \in Int /\ (-i - j # 0 \/ i # 0)
    BY <1>2
  <2>2. IsInFirstThird(<<-i - j, i>>, FALSE) <=> (-i - j) + 2 * i >= 0 /\ 2 * (-i - j) + i > 0
    BY <2>1, ThirdsAreSectors, Zenon
  <2>3. (-i - j) + 2 * i >= 0 /\ 2 * (-i - j) + i > 0 <=> i - j >= 0 /\ -i - 2 * j > 0
    OBVIOUS
  <2> QED BY <1>2, <2>2, <2>3, Zenon
<1>5. IsInFirstThird(Turn(Turn(l)), FALSE) <=> -2 * i - j >= 0 /\ j - i > 0
  <2>1. -i - j \in Int /\ (j # 0 \/ -i - j # 0)
    BY <1>2
  <2>2. IsInFirstThird(<<j, -i - j>>, FALSE) <=> j + 2 * (-i - j) >= 0 /\ 2 * j + (-i - j) > 0
    BY <2>1, ThirdsAreSectors, Zenon
  <2>3. j + 2 * (-i - j) >= 0 /\ 2 * j + (-i - j) > 0 <=> -2 * i - j >= 0 /\ j - i > 0
    OBVIOUS
  <2> QED BY <1>2, <2>2, <2>3, Zenon
<1>6. /\ \/ i + 2 * j >= 0 /\ 2 * i + j > 0
         \/ i - j >= 0 /\ -i - 2 * j > 0
         \/ -2 * i - j >= 0 /\ j - i > 0
      /\ i + 2 * j >= 0 /\ 2 * i + j > 0 => ~(i - j >= 0 /\ -i - 2 * j > 0)
      /\ i + 2 * j >= 0 /\ 2 * i + j > 0 => ~(-2 * i - j >= 0 /\ j - i > 0)
      /\ i - j >= 0 /\ -i - 2 * j > 0 => ~(-2 * i - j >= 0 /\ j - i > 0)
  BY <1>2
<1>7. /\ IsInFirstThird(l, FALSE) \/ IsInFirstThird(Turn(l), FALSE) \/ IsInFirstThird(Turn(Turn(l)), FALSE)
      /\ IsInFirstThird(l, FALSE) => ~IsInFirstThird(Turn(l), FALSE)
      /\ IsInFirstThird(l, FALSE) => ~IsInFirstThird(Turn(Turn(l)), FALSE)
      /\ IsInFirstThird(Turn(l), FALSE) => ~IsInFirstThird(Turn(Turn(l)), FALSE)
  BY <1>3, <1>4, <1>5, <1>6, Zenon
<1> QED BY <1>7, Zenon

(* The cells that the upper edge adds are those on the upper line, and     *)
(* they are the images of the cells on the lower line, which are modelled: *)
(* adding edge assemblies copies the one to the other                      *)
(* (EdgeAssemblyChanger).                                                  *)
THEOREM EdgesAreLines ==
  \A l \in Cell :
    /\ IsInFirstThird(l, TRUE) /\ ~IsInFirstThird(l, FALSE) <=> SymmetryLine(l) = "BOUNDARY_120_DEGREES"
    /\ SymmetryLine(l) = "BOUNDARY_0_DEGREES" => IsInFirstThird(l, FALSE)
    /\ SymmetryLine(l) = "BOUNDARY_0_DEGREES" <=> SymmetryLine(Turn(l)) = "BOUNDARY_120_DEGREES"
<1> SUFFICES ASSUME NEW l \in Cell
             PROVE  /\ IsInFirstThird(l, TRUE) /\ ~IsInFirstThird(l, FALSE)
                        <=> SymmetryLine(l) = "BOUNDARY_120_DEGREES"
                    /\ SymmetryLine(l) = "BOUNDARY_0_DEGREES" => IsInFirstThird(l, FALSE)
                    /\ SymmetryLine(l) = "BOUNDARY_0_DEGREES"
                        <=> SymmetryLine(Turn(l)) = "BOUNDARY_120_DEGREES"
  OBVIOUS
<1>1. PICK i \in Int, j \in Int : l = <<i, j>>
  BY DEF Cell
<1>2. SymmetryLine(l) = "BOUNDARY_0_DEGREES" <=> i > 0 /\ i = -2 * j
  BY <1>1 DEF SymmetryLine, Centre
<1>3. SymmetryLine(l) = "BOUNDARY_120_DEGREES" <=> j > 0 /\ j = -2 * i
  BY <1>1 DEF SymmetryLine, Centre
<1>4. SymmetryLine(Turn(l)) = "BOUNDARY_120_DEGREES" <=> i > 0 /\ i = -2 * j
  <2>1. Turn(l) = <<-i - j, i>>
    BY <1>1 DEF Turn
  <2> QED BY <2>1 DEF SymmetryLine, Centre
<1>5. CASE i = 0 /\ j = 0
  <2>1. IsInFirstThird(l, FALSE)
    BY <1>1, <1>5 DEF IsInFirstThird, InFirstThird, IndicesToRingPos, EdgeOf, OnEdge
  <2>2. ~(i > 0) /\ ~(j > 0)
    BY <1>5
  <2> QED BY <1>2, <1>3, <1>4, <2>1, <2>2, Zenon
<1>6. CASE i # 0 \/ j # 0
  <2>1. /\ IsInFirstThird(l, FALSE) <=> i + 2 * j >= 0 /\ 2 * i + j > 0
        /\ IsInFirstThird(l, TRUE) <=> i + 2 * j >= 0 /\ 2 * i + j >= 0
    BY <1>1, <1>6, ThirdsAreSectors, Zenon
  <2>2. (i + 2 * j >= 0 /\ 2 * i + j >= 0) /\ ~(i + 2 * j >= 0 /\ 2 * i + j > 0) <=> j > 0 /\ j = -2 * i
    BY <1>6
  <2>3. i > 0 /\ i = -2 * j => i + 2 * j >= 0 /\ 2 * i + j > 0
    OBVIOUS
  <2> QED BY <1>2, <1>3, <1>4, <2>1, <2>2, <2>3, Zenon
<1> QED BY <1>5, <1>6, Zenon

-----------------------------------------------------------------------------
(***************************************************************************)
(* The core on the grid.                                                   *)
(***************************************************************************)

(* The cells of the other two thirds, and those that mirror the lower      *)
(* symmetry line of the modelled third.                                    *)
OnLowerLine == {l \in Filled : SymmetryLine(l) = "BOUNDARY_0_DEGREES"}
Reflected   == {Turn(l) : l \in OnLowerLine}
Images      == UNION {{Turn(l), Turn(Turn(l))} : l \in Filled \ {Centre}}

Places == NotInCore \cup {IndicesToRingPos(l) : l \in Cell}

Block == [of : Nat \ {0}, p : [Params -> Nat], area : Nat]
AssemblyAt(n) == [block : [Parts -> Block], hist : [1 .. n + 1 -> Places]]
Assembly == AssemblyAt(cycle)

(* The type of every variable, and which cells hold assemblies.            *)
Phase ==
  \/ symmetry = "third" /\ use = "none" /\ DOMAIN core = Filled
  \/ symmetry = "third" /\ use = "edges" /\ DOMAIN core = Filled \cup Reflected
  \/ symmetry = "full" /\ use = "grown" /\ DOMAIN core = Filled \cup Images /\ changer.added = Images
  \/ symmetry = "full" /\ use = "none" /\ DOMAIN core = Filled \cup Images
  \/ symmetry = "third" /\ use = "failed"

CellsHold ==
  /\ cycle \in Nat /\ stationary \subseteq Parts
  /\ assigned \in [Params -> SUBSET ANYTHING]
  /\ changer.scaled \subseteq Params
  /\ pool \subseteq Assembly
  /\ core \in [DOMAIN core -> Assembly]
  /\ Phase

CachesHold ==
  use # "failed" => \A l \in DOMAIN core, q \in Parts : core[l].block[q].area \in {NotCached, Factor(l)}

Has(a, place) == a.hist[cycle + 1] = place

HistoriesHold ==
  /\ use \in {"edges", "grown"} => DOMAIN original = Filled
  /\ use \in {"none", "grown"} => \A l \in DOMAIN core : Has(core[l], IndicesToRingPos(l))
  /\ use = "edges" => \A l \in Filled : Has(core[l], IndicesToRingPos(l))
  /\ use = "grown" => \A l \in Filled \ {Centre} : \A n \in 1 .. cycle + 1 :
       /\ core[l].hist[n] # IndicesToRingPos(Centre)
       /\ core[Turn(l)].hist[n] = InImage(core[l].hist[n], 1)
       /\ core[Turn(Turn(l))].hist[n] = InImage(core[l].hist[n], 2)

(* Parameter x of block b is that of one of n parts. *)
IsPart(b, x, n) == b.p[x] = Whole(b) \div n
IsPartIfSolved(b, x, n) == b.p[x] = Unsolved \/ IsPart(b, x, n)

SharesHold ==
  /\ use \in {"none", "grown"} => \A q \in Parts, x \in Params :
       /\ \A l \in DOMAIN core : IsPartIfSolved(core[l].block[q], x, Factor(l))
       /\ \A a \in pool : IsPartIfSolved(a.block[q], x, 1)
  /\ use = "edges" => \A q \in Parts, x \in Params :
       /\ \A l \in Filled : "GEOM" \notin assigned[x] =>
            IsPartIfSolved(core[l].block[q], x, FactorIn("third", Filled, l))
       /\ \A l \in DOMAIN core : "GEOM" \in assigned[x] => IsPart(core[l].block[q], x, Factor(l))
       /\ \A l \in OnLowerLine : core[Turn(l)].block[q].of = core[l].block[q].of
       /\ \A a \in pool : IsPartIfSolved(a.block[q], x, 1)

(* Masses are not solved for within edge assemblies. *)
EdgesHold == use = "edges" => "GEOM" \notin assigned["mass"]

(* Masses are assigned from the beginning, powers once they are solved for. *)
MassesHold ==
  /\ use \in {"none", "grown"} => assigned["mass"] = ANYTHING
  /\ use = "edges" => assigned["mass"] = {"SINCE"}
  /\ use = "grown" => "mass" \in changer.scaled

PowersHold ==
  /\ use \in {"none", "grown"} => assigned["power"] \in {{}, ANYTHING}
  /\ use # "failed" /\ assigned["power"] = {} => \A q \in Parts :
       /\ \A l \in DOMAIN core : core[l].block[q].p["power"] = Unsolved
       /\ \A a \in pool : a.block[q].p["power"] = Unsolved
  /\ use = "grown" /\ assigned["power"] # {} => "power" \in changer.scaled

OriginalHolds ==
  /\ use \in {"edges", "grown"} => original \in [Filled -> Assembly]
  /\ use = "edges" => \A l \in Filled : SameAssembly(core[l], original[l])
  /\ use = "grown" =>
       /\ \A l \in Filled \ {Centre} : SameAssembly(core[l], original[l])
       /\ core[Centre].hist = original[Centre].hist
       /\ \A q \in Parts : /\ core[Centre].block[q].of = original[Centre].block[q].of
                          /\ core[Centre].block[q].p["mass"] =
                               IF "mass" \in changer.scaled
                               THEN 3 * original[Centre].block[q].p["mass"]
                               ELSE original[Centre].block[q].p["mass"]
-----------------------------------------------------------------------------
(* The modelled third and its images. *)

LEMMA FilledFacts ==
  /\ Filled \subseteq Cell /\ Centre \in Filled /\ UpperEdge \in Cell
  /\ \A l \in Filled : IsInFirstThird(l, FALSE)
  /\ \A l \in Cell : SymmetricEquivalents(l) = IF l = Centre THEN <<>> ELSE <<Turn(l), Turn(Turn(l))>>
<1>1. UpperEdge \in Cell
  BY DEF Cell, UpperEdge
<1>2. Filled \subseteq Cell /\ Centre \in Filled /\ \A l \in Filled : IsInFirstThird(l, FALSE)
  BY GeometryAssumption
<1>3. ASSUME NEW l \in Cell
      PROVE  SymmetricEquivalents(l) = IF l = Centre THEN <<>> ELSE <<Turn(l), Turn(Turn(l))>>
  BY Zenon DEF SymmetricEquivalents
<1> QED
  BY <1>1, <1>2, <1>3

LEMMA Orbits ==
  ASSUME NEW l \in Filled, l # Centre
  PROVE  /\ l \in Cell /\ Turn(l) \in Cell /\ Turn(Turn(l)) \in Cell
         /\ Turn(l) \notin Filled /\ Turn(Turn(l)) \notin Filled
         /\ Turn(l) # Centre /\ Turn(Turn(l)) # Centre /\ Turn(l) # Turn(Turn(l))
<1>1. /\ l \in Cell /\ Turn(l) \in Cell /\ Turn(Turn(l)) \in Cell
      /\ Turn(Turn(Turn(l))) = l /\ Turn(l) # l
      /\ Turn(Turn(Turn(Turn(l)))) = Turn(l) /\ Turn(Turn(l)) # Turn(l)
      /\ Turn(Turn(Turn(l))) # Turn(Turn(l))
  <2>1. l \in Cell /\ Turn(l) # l /\ Turn(l) \in Cell /\ Turn(Turn(Turn(l))) = l
    BY ThreeTurns, FilledFacts
  <2>2. Turn(l) # Centre
    <3>1. Turn(Centre) = Centre /\ Centre \in Cell
      BY ThreeTurns, FilledFacts
    <3> QED
      BY <2>1, <3>1
  <2>3. Turn(Turn(l)) # Turn(l) /\ Turn(Turn(l)) \in Cell
    BY <2>1, <2>2, ThreeTurns
  <2>4. Turn(Turn(l)) # l
    BY <2>1
  <2> QED
    BY <2>1, <2>2, <2>3, <2>4
<1>2. PICK k \in {l, Turn(l), Turn(Turn(l))} :
        \A m \in {l, Turn(l), Turn(Turn(l))} : IsInFirstThird(m, FALSE) <=> m = k
  BY <1>1, OneOfThreeIsModelled
<1>3. k = l
  BY <1>2, FilledFacts
<1>4. ~IsInFirstThird(Turn(l), FALSE) /\ ~IsInFirstThird(Turn(Turn(l)), FALSE)
  BY <1>1, <1>2, <1>3
<1> QED
  BY <1>1, <1>4, FilledFacts

LEMMA TurnsApart ==
  ASSUME NEW l \in Filled, NEW m \in Filled, l # Centre, m # Centre
  PROVE  /\ Turn(l) = Turn(m) => l = m
         /\ Turn(Turn(l)) = Turn(Turn(m)) => l = m
         /\ Turn(l) # Turn(Turn(m))
<1>1. /\ l \in Cell /\ Turn(l) \in Cell /\ Turn(Turn(l)) \in Cell /\ Turn(Turn(l)) \notin Filled
      /\ m \in Cell /\ Turn(m) \in Cell /\ Turn(Turn(m)) \in Cell
  BY Orbits
<1>2. Turn(Turn(Turn(l))) = l /\ Turn(Turn(Turn(m))) = m
  BY <1>1, ThreeTurns
<1>3. Turn(l) = Turn(Turn(m)) => Turn(Turn(l)) = m
  BY <1>2
<1> QED
  BY <1>1, <1>2, <1>3

LEMMA PositionsTell ==
  ASSUME NEW l \in Cell
  PROVE  /\ IndicesFromRingAndPos(IndicesToRingPos(l)[1], IndicesToRingPos(l)[2]) = l
         /\ IndicesToRingPos(l) \notin NotInCore
         /\ IndicesToRingPos(l) \in Places
         /\ \A m \in Cell : IndicesToRingPos(l) = IndicesToRingPos(m) => l = m
<1>1. ASSUME NEW c \in Cell
      PROVE  /\ IndicesFromRingAndPos(IndicesToRingPos(c)[1], IndicesToRingPos(c)[2]) = c
             /\ IndicesToRingPos(c) \notin NotInCore
  <2>1. PICK ring \in Nat \ {0} : \E pos \in 1 .. PositionsInRing(ring) :
          IndicesToRingPos(c) = <<ring, pos>> /\ IndicesFromRingAndPos(ring, pos) = c
    BY CellsAreFoundByPosition
  <2>2. PICK pos \in 1 .. PositionsInRing(ring) :
          IndicesToRingPos(c) = <<ring, pos>> /\ IndicesFromRingAndPos(ring, pos) = c
    BY <2>1
  <2>3. IndicesToRingPos(c)[1] = ring /\ IndicesToRingPos(c)[2] = pos
    BY <2>2
  <2>4. <<ring, pos>> # <<0, 1>> /\ <<ring, pos>> # <<0, 0>>
    OBVIOUS
  <2> QED
    BY <2>2, <2>3, <2>4 DEF NotInCore, InPool, NotCreated
<1> QED
  BY <1>1 DEF Places

LEMMA FilledOffLine ==
  /\ UpperEdge \notin Filled
  /\ \A l \in Filled : SymmetryLine(l) # "BOUNDARY_120_DEGREES"
  /\ \A l \in Filled : SymmetryLine(l) = "BOUNDARY_0_DEGREES" => l # Centre
  /\ \A l \in Filled : l \in OnLowerLine <=> SymmetryLine(Turn(l)) = "BOUNDARY_120_DEGREES"
<1>1. SymmetryLine(UpperEdge) = "BOUNDARY_120_DEGREES"
  <2>1. UpperEdge[1] = -1 /\ UpperEdge[2] = 2
    BY DEF UpperEdge
  <2>2. UpperEdge # Centre
    <3>1. Centre[1] = 0
      BY DEF Centre
    <3> QED
      BY <2>1, <3>1
  <2>3. ~(UpperEdge[1] > 0) /\ UpperEdge[2] = -2 * UpperEdge[1] /\ UpperEdge[2] > 0
    <3>1. \A i \in Int : i + 1 = 0 => ~(i > 0) /\ 2 = -2 * i
      OBVIOUS
    <3>2. -1 \in Int /\ -1 + 1 = 0 /\ 2 > 0
      OBVIOUS
    <3> QED
      BY <2>1, <3>1, <3>2
  <2> QED
    BY <2>2, <2>3 DEF SymmetryLine
<1>2. SymmetryLine(Centre) = "BOUNDARY_CENTER"
  BY DEF SymmetryLine
<1>3. \A l \in Filled : SymmetryLine(l) # "BOUNDARY_120_DEGREES"
  BY FilledFacts, EdgesAreLines
<1>4. \A l \in Filled : l \in OnLowerLine <=> SymmetryLine(Turn(l)) = "BOUNDARY_120_DEGREES"
  BY FilledFacts, EdgesAreLines DEF OnLowerLine
<1>5. "BOUNDARY_CENTER" # "BOUNDARY_0_DEGREES"
  OBVIOUS
<1> QED
  BY <1>1, <1>2, <1>3, <1>4, <1>5

(* The symmetry factors of a third as it is, of one with edge assemblies   *)
(* and of a full core.                                                     *)
LEMMA Factors ==
  /\ \A sym, cells, l : FactorIn(sym, cells, l) \in {1, 2, 3}
  /\ \A cells, l : FactorIn("full", cells, l) = 1
  /\ \A l : FactorIn("third", Filled, l) = IF l = Centre THEN 3 ELSE 1
  /\ \A l \in Filled \ OnLowerLine :
       FactorIn("third", Filled \cup Reflected, l) = FactorIn("third", Filled, l)
BY FilledOffLine DEF FactorIn, OnLowerLine

(* There are edge assemblies, among them the first, without which the code *)
(* does not take them for halves.                                          *)
FirstEdgeIsFilled == UpperEdge \in Reflected

LEMMA EdgeFactors ==
  ASSUME FirstEdgeIsFilled, NEW l \in Filled
  PROVE  /\ l \in OnLowerLine => /\ FactorIn("third", Filled \cup Reflected, l) = 2
                                /\ FactorIn("third", Filled \cup Reflected, Turn(l)) = 2
                                /\ FactorIn("third", Filled, l) = 1
         /\ l \notin OnLowerLine =>
              FactorIn("third", Filled \cup Reflected, l) = FactorIn("third", Filled, l)
<1>1. CASE l \in OnLowerLine
  <2>1. l # Centre /\ UpperEdge \in Filled \cup Reflected /\ SymmetryLine(l) = "BOUNDARY_0_DEGREES"
    BY <1>1, FilledOffLine DEF FirstEdgeIsFilled, Reflected, OnLowerLine
  <2>2. Turn(l) # Centre /\ SymmetryLine(Turn(l)) = "BOUNDARY_120_DEGREES"
    BY <1>1, <2>1, Orbits, FilledOffLine
  <2>3. "third" # "full"
    OBVIOUS
  <2> QED
    BY <1>1, <2>1, <2>2, <2>3, Factors DEF FactorIn
<1>2. CASE l \notin OnLowerLine
  BY <1>2, Factors
<1> QED
  BY <1>1, <1>2
LEMMA EdgesAreThere ==
  ASSUME FirstEdgeIsFilled
  PROVE  Reflected # {} /\ Images # {}
<1>1. PICK l \in OnLowerLine : UpperEdge = Turn(l)
  BY DEF FirstEdgeIsFilled, Reflected
<1>2. l \in Filled \ {Centre}
  BY FilledOffLine DEF OnLowerLine
<1>3. Turn(l) \in Images
  BY <1>2 DEF Images
<1> QED
  BY <1>3 DEF FirstEdgeIsFilled
-----------------------------------------------------------------------------
(* Shares of a whole. *)

LEMMA UnitFacts ==
  /\ Unit \in Nat \ {0}
  /\ \E k \in Nat : Unit = 36 * k
BY GeometryAssumption

LEMMA WholeFacts ==
  ASSUME NEW b \in Block
  PROVE  /\ Whole(b) \in Nat \ {0}
         /\ \E k \in Nat : Whole(b) = 6 * k
<1>1. b.of \in Nat \ {0}
  BY DEF Block
<1>2. PICK k \in Nat : Unit = 36 * k
  BY UnitFacts
<1>3. Whole(b) = 6 * (6 * k * b.of)
  BY <1>1, <1>2 DEF Whole
<1>4. 6 * k * b.of \in Nat
  BY <1>1, <1>2
<1>5. Unit * b.of \in Nat \ {0}
  BY <1>1, UnitFacts
<1> QED
  BY <1>3, <1>4, <1>5 DEF Whole

(* A share of one symmetry factor that is scaled to another is a share of  *)
(* the other, and two halves or three thirds are a whole.                  *)
LEMMA Shares ==
  ASSUME NEW b \in Block, NEW f \in {1, 2, 3}, NEW g \in {1, 2, 3}
  PROVE  /\ Whole(b) \div f \in Nat
         /\ ((Whole(b) \div f) * f) \div g = Whole(b) \div g
         /\ Whole(b) \div 1 = Whole(b)
         /\ (Whole(b) \div 2) + (Whole(b) \div 2) = Whole(b)
         /\ 0 \div f = 0
<1>1. PICK w \in Nat : w = Whole(b)
  BY WholeFacts
<1>2. PICK k \in Nat : w = 6 * k
  BY <1>1, WholeFacts
<1>3. w \div 1 = w /\ w \div 2 = 3 * k /\ w \div 3 = 2 * k
  BY <1>2
<1>4. (w \div f) \in Nat /\ (w \div f) * f = w
  BY <1>2, <1>3
<1>5. 0 \div f = 0
  OBVIOUS
<1> QED
  BY <1>1, <1>2, <1>3, <1>4, <1>5

LEMMA ScaledValues ==
  ASSUME NEW v \in Nat, NEW f \in {1, 2, 3}, NEW g \in {1, 2, 3}
  PROVE  /\ (v * f) \div g \in Nat
         /\ (v * f) \div f = v
         /\ (0 * f) \div g = 0
         /\ (3 * v) \div 3 = v /\ (v * 3) \div 1 = 3 * v /\ (v * 1) \div 3 = v \div 3
<1>1. CASE f = 1
  BY <1>1
<1>2. CASE f = 2
  BY <1>2
<1>3. CASE f = 3
  BY <1>3
<1> QED
  BY <1>1, <1>2, <1>3
-----------------------------------------------------------------------------
(* What the operations do to an assembly. *)

LEMMA AssemblyParts ==
  ASSUME NEW n \in Int, NEW a \in AssemblyAt(n)
  PROVE  /\ a = [block |-> a.block, hist |-> a.hist]
         /\ a.hist \in [1 .. n + 1 -> Places] /\ DOMAIN a.hist = 1 .. n + 1
         /\ a.block \in [Parts -> Block]
         /\ \A q \in Parts :
              /\ a.block[q] \in Block
              /\ a.block[q] = [of |-> a.block[q].of, p |-> a.block[q].p, area |-> a.block[q].area]
              /\ a.block[q].of \in Nat \ {0} /\ a.block[q].area \in Nat
              /\ a.block[q].p \in [Params -> Nat]
              /\ \A x \in Params : a.block[q].p[x] \in Nat
<1>1. a.block \in [Parts -> Block] /\ a.hist \in [1 .. n + 1 -> Places]
      /\ a = [block |-> a.block, hist |-> a.hist]
  BY DEF AssemblyAt
<1>2. \A q \in Parts : a.block[q] \in Block
  BY <1>1
<1> QED
  BY <1>1, <1>2 DEF Block

LEMMA AssemblyMade ==
  ASSUME NEW n \in Int, NEW block \in [Parts -> Block], NEW hist \in [1 .. n + 1 -> Places]
  PROVE  [block |-> block, hist |-> hist] \in AssemblyAt(n)
BY DEF AssemblyAt

LEMMA UncachedFacts ==
  ASSUME NEW n \in Int, NEW a \in AssemblyAt(n)
  PROVE  /\ Uncached(a) \in AssemblyAt(n) /\ Uncached(a).hist = a.hist
         /\ \A q \in Parts : /\ Uncached(a).block[q].of = a.block[q].of
                            /\ Uncached(a).block[q].p = a.block[q].p
                            /\ Uncached(a).block[q].area = NotCached
<1> DEFINE block == [q \in Parts |-> [a.block[q] EXCEPT !.area = NotCached]]
<1>1. Uncached(a) = [block |-> block, hist |-> a.hist]
  <2>1. a = [block |-> a.block, hist |-> a.hist]
    BY AssemblyParts
  <2> QED
    BY <2>1 DEF Uncached
<1>2. ASSUME NEW q \in Parts
      PROVE  /\ block[q] \in Block /\ block[q].of = a.block[q].of
             /\ block[q].p = a.block[q].p /\ block[q].area = NotCached
  <2>1. block[q] = [of |-> a.block[q].of, p |-> a.block[q].p, area |-> NotCached]
    <3>1. a.block[q] = [of |-> a.block[q].of, p |-> a.block[q].p, area |-> a.block[q].area]
      BY AssemblyParts
    <3> QED
      BY <3>1
  <2> QED
    BY ZenonT(40), <2>1, AssemblyParts DEF Block, NotCached
<1>3. block \in [Parts -> Block]
  BY <1>2
<1> HIDE DEF block
<1> QED
  BY <1>1, <1>2, <1>3, AssemblyMade, AssemblyParts

LEMMA ScaledFacts ==
  ASSUME NEW n \in Int, NEW a \in AssemblyAt(n), NEW params \in SUBSET Params,
         NEW f \in {1, 2, 3}, NEW g \in {1, 2, 3}
  PROVE  /\ Scaled(a, params, f, g) \in AssemblyAt(n) /\ Scaled(a, params, f, g).hist = a.hist
         /\ \A q \in Parts :
              /\ Scaled(a, params, f, g).block[q].of = a.block[q].of
              /\ Scaled(a, params, f, g).block[q].area = a.block[q].area
              /\ \A x \in Params : Scaled(a, params, f, g).block[q].p[x]
                   = IF x \in params THEN (a.block[q].p[x] * f) \div g ELSE a.block[q].p[x]
<1> DEFINE p(q)  == [x \in Params |->
                       IF x \in params THEN (a.block[q].p[x] * f) \div g ELSE a.block[q].p[x]]
           block == [q \in Parts |-> [a.block[q] EXCEPT !.p = p(q)]]
<1>1. Scaled(a, params, f, g) = [block |-> block, hist |-> a.hist]
  <2>1. a = [block |-> a.block, hist |-> a.hist]
    BY AssemblyParts
  <2>2. ASSUME NEW q \in Parts
        PROVE  ScaledBlock(a.block[q], params, f, g) = [a.block[q] EXCEPT !.p = p(q)]
    BY DEF ScaledBlock
  <2>3. [q \in Parts |-> ScaledBlock(a.block[q], params, f, g)] = block
    <3> HIDE DEF p
    <3> QED
      BY <2>2
  <2> HIDE DEF block
  <2> QED
    BY <2>1, <2>3 DEF Scaled
<1>2. ASSUME NEW q \in Parts
      PROVE  p(q) \in [Params -> Nat]
  BY AssemblyParts, ScaledValues
<1>3. ASSUME NEW q \in Parts
      PROVE  /\ block[q] \in Block /\ block[q].of = a.block[q].of
             /\ block[q].p = p(q) /\ block[q].area = a.block[q].area
  <2> HIDE DEF p
  <2>1. block[q] = [of |-> a.block[q].of, p |-> p(q), area |-> a.block[q].area]
    <3>1. a.block[q] = [of |-> a.block[q].of, p |-> a.block[q].p, area |-> a.block[q].area]
      BY AssemblyParts
    <3> QED
      BY <3>1
  <2> QED
    BY <1>2, <2>1, AssemblyParts DEF Block
<1>4. block \in [Parts -> Block]
  BY <1>3
<1>5. \A q \in Parts, x \in Params :
        p(q)[x] = IF x \in params THEN (a.block[q].p[x] * f) \div g ELSE a.block[q].p[x]
  OBVIOUS
<1> HIDE DEF block, p
<1> QED
  BY <1>1, <1>3, <1>4, <1>5, AssemblyMade, AssemblyParts

LEMMA MovedFacts ==
  ASSUME NEW n \in Int, NEW a \in AssemblyAt(n), NEW f \in {1, 2, 3}, NEW g \in {1, 2, 3}
  PROVE  /\ Moved(a, f, g) \in AssemblyAt(n) /\ Moved(a, f, g).hist = a.hist
         /\ \A q \in Parts :
              /\ Moved(a, f, g).block[q].of = a.block[q].of
              /\ Moved(a, f, g).block[q].area = NotCached
              /\ \A x \in Params : Moved(a, f, g).block[q].p[x] = (a.block[q].p[x] * f) \div g
<1>1. Uncached(a) \in AssemblyAt(n)
  BY UncachedFacts
<1>2. Moved(a, f, g) = Scaled(Uncached(a), Params, f, g) /\ Params \in SUBSET Params
  BY DEF Moved
<1>3. /\ Moved(a, f, g) \in AssemblyAt(n) /\ Moved(a, f, g).hist = Uncached(a).hist
      /\ \A q \in Parts :
           /\ Moved(a, f, g).block[q].of = Uncached(a).block[q].of
           /\ Moved(a, f, g).block[q].area = Uncached(a).block[q].area
           /\ \A x \in Params : Moved(a, f, g).block[q].p[x] = (Uncached(a).block[q].p[x] * f) \div g
  BY SMTT(30), <1>1, <1>2, ScaledFacts
<1> QED
  BY <1>3, UncachedFacts

LEMMA StationaryFacts ==
  ASSUME NEW n \in Int, NEW m \in Int, NEW a \in AssemblyAt(n), NEW b \in AssemblyAt(m)
  PROVE  /\ WithStationaryOf(a, b) \in AssemblyAt(n) /\ WithStationaryOf(a, b).hist = a.hist
         /\ \A q \in Parts : WithStationaryOf(a, b).block[q]
                              = IF q \in stationary THEN b.block[q] ELSE a.block[q]
<1> DEFINE block == [q \in Parts |-> IF q \in stationary THEN b.block[q] ELSE a.block[q]]
<1>1. WithStationaryOf(a, b) = [block |-> block, hist |-> a.hist]
  <2>1. a = [block |-> a.block, hist |-> a.hist]
    BY AssemblyParts
  <2> QED
    BY <2>1 DEF WithStationaryOf
<1>2. block \in [Parts -> Block]
  BY AssemblyParts
<1>3. \A q \in Parts : block[q] = IF q \in stationary THEN b.block[q] ELSE a.block[q]
  OBVIOUS
<1>4. a.hist \in [1 .. n + 1 -> Places]
  BY AssemblyParts
<1> HIDE DEF block
<1> QED
  BY <1>1, <1>2, <1>3, <1>4, AssemblyMade

LEMMA RecordedFacts ==
  ASSUME cycle' \in Nat, NEW n \in Int, NEW a \in AssemblyAt(n), NEW place \in Places
  PROVE  /\ Recorded(a, place) \in AssemblyAt(cycle')
         /\ Recorded(a, place).block = a.block
         /\ Recorded(a, place).hist[cycle' + 1] = place
<1> DEFINE hist == [k \in 1 .. cycle' + 1 |->
                     IF k = cycle' + 1          THEN place
                     ELSE IF k \in DOMAIN a.hist THEN a.hist[k]
                     ELSE NotCreated]
<1>1. Recorded(a, place) = [block |-> a.block, hist |-> hist]
  BY AssemblyParts DEF Recorded
<1>2. NotCreated \in Places
  BY DEF Places, NotInCore
<1>3. hist \in [1 .. cycle' + 1 -> Places]
  BY <1>2, AssemblyParts
<1>4. hist[cycle' + 1] = place
  <2>1. cycle' + 1 \in 1 .. cycle' + 1
    <3>1. \A c \in Nat : c + 1 \in 1 .. c + 1
      OBVIOUS
    <3> QED
      BY <3>1
  <2> QED
    BY <2>1
<1> HIDE DEF hist
<1> QED
  BY <1>1, <1>3, <1>4, AssemblyMade, AssemblyParts


LEMMA NewFacts ==
  ASSUME NEW m \in Int, NEW n \in Nat \ {0}, NEW hist \in [1 .. m + 1 -> Places]
  PROVE  /\ NewAssembly(n, hist) \in AssemblyAt(m) /\ NewAssembly(n, hist).hist = hist
         /\ \A q \in Parts : LET b == NewAssembly(n, hist).block[q]
                             IN  /\ b.area = NotCached /\ b.p["power"] = Unsolved
                                 /\ b.p["mass"] = Whole(b)
<1>1. ReplacementNumber \in Nat \ {0}
  <2>1. Cardinality(Filled) \in Nat
    BY GeometryAssumption, FS_CardinalityType
  <2> QED
    BY <2>1 DEF ReplacementNumber
<1>2. ASSUME NEW k \in Nat \ {0}
      PROVE  /\ NewBlock(k) \in Block /\ NewBlock(k).area = NotCached
             /\ NewBlock(k).p["power"] = Unsolved /\ NewBlock(k).p["mass"] = Whole(NewBlock(k))
  <2> DEFINE p == [x \in Params |-> IF x = "mass" THEN Unit * k ELSE Unsolved]
  <2>1. Unit * k \in Nat
    BY UnitFacts
  <2>2. p \in [Params -> Nat]
    BY <2>1 DEF Unsolved
  <2>3. "mass" \in Params /\ "power" \in Params /\ "power" # "mass"
    BY DEF Params
  <2>4. p["mass"] = Unit * k /\ p["power"] = Unsolved
    BY <2>3
  <2> HIDE DEF p
  <2>5. NewBlock(k) = [of |-> k, p |-> p, area |-> NotCached]
    BY DEF NewBlock, p
  <2> QED
    BY <2>2, <2>4, <2>5 DEF Block, Whole, NotCached
<1> DEFINE block == [q \in Parts |-> NewBlock(IF q = "fuel" THEN n ELSE n + ReplacementNumber)]
<1>3. NewAssembly(n, hist) = [block |-> block, hist |-> hist]
  BY DEF NewAssembly
<1>4. ASSUME NEW q \in Parts
      PROVE  \E k \in Nat \ {0} : block[q] = NewBlock(k)
  <2>1. n + ReplacementNumber \in Nat \ {0}
    BY <1>1
  <2> QED
    BY <2>1
<1>5. block \in [Parts -> Block]
  BY <1>2, <1>4
<1> HIDE DEF block
<1>6. NewAssembly(n, hist) \in AssemblyAt(m)
  BY <1>3, <1>5, AssemblyMade
<1> QED
  BY <1>2, <1>3, <1>4, <1>6

LEMMA Numbers ==
  /\ ReplacementNumber \in Nat \ {0}
  /\ \A l \in Filled : Number[l] \in Nat \ {0}
<1>1. Cardinality(Filled) \in Nat
  BY GeometryAssumption, FS_CardinalityType
<1>2. \E f \in [Filled -> 1 .. Cardinality(Filled)] : \A l, m \in Filled : f[l] = f[m] => l = m
  <2>1. ExistsBijection(1 .. Cardinality(Filled), Filled)
    BY GeometryAssumption, FS_CardinalityType
  <2>2. ExistsBijection(Filled, 1 .. Cardinality(Filled))
    BY <2>1, Fun_ExistsBijSymmetric
  <2>3. PICK f \in Bijection(Filled, 1 .. Cardinality(Filled)) : TRUE
    BY <2>2 DEF ExistsBijection
  <2> QED
    BY <2>3 DEF Bijection, Injection, Surjection, IsInjective
<1>3. Number \in [Filled -> 1 .. Cardinality(Filled)]
  BY <1>2 DEF Number
<1> QED
  BY <1>1, <1>3 DEF ReplacementNumber
-----------------------------------------------------------------------------
(* The symmetry factors of a state. *)

LEMMA CellFacts ==
  ASSUME CellsHold
  PROVE  /\ \A l \in DOMAIN core : core[l] \in AssemblyAt(cycle)
         /\ \A a \in pool : a \in AssemblyAt(cycle)
         /\ \A l : Factor(l) \in {1, 2, 3}
         /\ use # "failed" => DOMAIN core \subseteq Cell /\ Filled \subseteq DOMAIN core
         /\ use = "none" => symmetry \in {"third", "full"}
                            /\ \A l \in DOMAIN core : Factor(l) = IF AtCentre(l) THEN 3 ELSE 1
<1>1. /\ \A l \in DOMAIN core : core[l] \in AssemblyAt(cycle)
      /\ \A a \in pool : a \in AssemblyAt(cycle)
  BY DEF CellsHold, Assembly
<1>2. \A l : Factor(l) \in {1, 2, 3}
  BY Factors DEF Factor
<1>3. Filled \subseteq Cell /\ Reflected \subseteq Cell /\ Images \subseteq Cell
  BY FilledFacts, FilledOffLine, Orbits DEF Reflected, Images, OnLowerLine
<1>4. use # "failed" => DOMAIN core \subseteq Cell /\ Filled \subseteq DOMAIN core
  BY <1>3 DEF CellsHold, Phase
<1>5. ASSUME use = "none"
      PROVE  symmetry \in {"third", "full"}
             /\ \A l \in DOMAIN core : Factor(l) = IF AtCentre(l) THEN 3 ELSE 1
  <2>1. \/ symmetry = "third" /\ DOMAIN core = Filled
        \/ symmetry = "full"
    BY <1>5 DEF CellsHold, Phase
  <2>2. "third" # "full"
    OBVIOUS
  <2> QED
    BY <2>1, <2>2, Factors DEF Factor, AtCentre
<1> QED
  BY <1>1, <1>2, <1>4, <1>5

LEMMA FactorsKept ==
  ASSUME symmetry' = symmetry, DOMAIN core' = DOMAIN core
  PROVE  \A l : Factor(l)' = Factor(l)
BY DEF Factor
-----------------------------------------------------------------------------
(* What a shuffle does: the block in a part of a cell was one in the core, *)
(* in the pool or new, where its symmetry factor was f, and it is g now.   *)
Carried(new, old, b, f, g) ==
  /\ new.of = b.of
  /\ \A x \in Params : new.p[x] = (b.p[x] * f) \div g
  /\ new.area \in {NotCached, old.area}

Shuffled ==
  /\ cycle' \in Nat /\ cycle' # cycle
  /\ core' \in [DOMAIN core -> AssemblyAt(cycle')]
  /\ pool' \subseteq AssemblyAt(cycle')
  /\ \A c \in DOMAIN core : core'[c].hist[cycle' + 1] = IndicesToRingPos(c)

LEMMA ShufflesKeep ==
  ASSUME CellsHold, Shuffle
  PROVE  /\ use = "none" /\ cycle' \in Nat /\ cycle' # cycle
         /\ UNCHANGED <<symmetry, stationary, use, changer, original>>
         /\ symmetry \in {"third", "full"}
BY CellFacts DEF CellsHold, Shuffle

LEMMA AllRecorded ==
  ASSUME NEW cells, cycle' \in Nat, NEW n \in Int, DOMAIN cells \subseteq Cell,
         \A c \in DOMAIN cells : cells[c] \in AssemblyAt(n)
  PROVE  /\ DOMAIN RecordedAll(cells) = DOMAIN cells
         /\ RecordedAll(cells) \in [DOMAIN cells -> AssemblyAt(cycle')]
         /\ \A c \in DOMAIN cells :
              /\ RecordedAll(cells)[c].block = cells[c].block
              /\ RecordedAll(cells)[c].hist[cycle' + 1] = IndicesToRingPos(c)
<1>1. ASSUME NEW c \in DOMAIN cells
      PROVE  /\ Recorded(cells[c], IndicesToRingPos(c)) \in AssemblyAt(cycle')
             /\ Recorded(cells[c], IndicesToRingPos(c)).block = cells[c].block
             /\ Recorded(cells[c], IndicesToRingPos(c)).hist[cycle' + 1] = IndicesToRingPos(c)
  <2>1. cells[c] \in AssemblyAt(n) /\ IndicesToRingPos(c) \in Places
    BY PositionsTell
  <2> QED
    BY <2>1, RecordedFacts
<1> QED
  BY <1>1 DEF RecordedAll

LEMMA PooledAt ==
  ASSUME NEW assemblies, cycle' \in Nat, NEW n \in Int, assemblies \subseteq AssemblyAt(n)
  PROVE  /\ {Recorded(a, InPool) : a \in assemblies} \subseteq AssemblyAt(cycle')
         /\ \A b \in {Recorded(a, InPool) : a \in assemblies} :
              \E a \in assemblies : b.block = a.block
<1>1. InPool \in Places
  BY DEF Places, NotInCore
<1>2. ASSUME NEW a \in assemblies
      PROVE  Recorded(a, InPool) \in AssemblyAt(cycle') /\ Recorded(a, InPool).block = a.block
  BY <1>1, RecordedFacts
<1> QED
  BY <1>2

LEMMA SwapEffect ==
  ASSUME CellsHold, NEW l \in DOMAIN core, NEW m \in DOMAIN core, SwapAssemblies(l, m)
  PROVE  /\ Shuffled
         /\ \A c \in DOMAIN core, q \in Parts : \E d \in DOMAIN core, f \in {1, 2, 3} :
              /\ Carried(core'[c].block[q], core[c].block[q], core[d].block[q], f, Factor(c))
              /\ q \in stationary => d = c
              /\ ~PlatesAtCentre => f = Factor(d)
         /\ \A a \in pool' : \E b \in pool : a.block = b.block
         /\ assigned' \in [Params -> SUBSET ANYTHING]
         /\ \A x \in Params : assigned'[x] \in {assigned[x], ANYTHING}
<1> DEFINE other(c) == IF c = l THEN m ELSE l
           made(c)  == IF c \in {l, m}
                       THEN Moved(WithStationaryOf(core[other(c)], core[c]), Factor(other(c)), Factor(c))
                       ELSE core[c]
           cells    == [c \in DOMAIN core |-> made(c)]
<1>1. /\ use = "none" /\ cycle \in Nat /\ cycle' \in Nat /\ cycle' # cycle
      /\ DOMAIN core \subseteq Cell /\ \A c \in DOMAIN core : core[c] \in AssemblyAt(cycle)
      /\ \A c : Factor(c) \in {1, 2, 3}
      /\ pool \subseteq AssemblyAt(cycle)
      /\ core = [c \in DOMAIN core |-> core[c]]
  <2>1. Shuffle /\ CellsHold
    BY DEF SwapAssemblies
  <2>2. use # "failed"
    BY <2>1, ShufflesKeep
  <2>3. cycle \in Nat /\ core = [c \in DOMAIN core |-> core[c]]
    BY DEF CellsHold
  <2> QED
    BY <2>1, <2>2, <2>3, ShufflesKeep, CellFacts
<1>2. core' = RecordedAll(cells) /\ l # m
  <2>1. core' = RecordedAll([core EXCEPT
          ![m] = Moved(WithStationaryOf(core[l], core[m]), Factor(l), Factor(m)),
          ![l] = Moved(WithStationaryOf(core[m], core[l]), Factor(m), Factor(l))]) /\ l # m
    BY Zenon DEF SwapAssemblies
  <2> QED
    BY <1>1, <2>1
<1>3. ASSUME NEW c \in DOMAIN core
      PROVE  made(c) \in AssemblyAt(cycle)
  <2>1. other(c) \in DOMAIN core
    OBVIOUS
  <2> HIDE DEF other
  <2>2. WithStationaryOf(core[other(c)], core[c]) \in AssemblyAt(cycle)
    BY <1>1, <2>1, StationaryFacts
  <2> QED
    BY <1>1, <2>1, <2>2, MovedFacts
<1>4. DOMAIN cells = DOMAIN core /\ \A c \in DOMAIN core : cells[c] = made(c)
  OBVIOUS
<1>5. /\ core' \in [DOMAIN core -> AssemblyAt(cycle')]
      /\ \A c \in DOMAIN core : /\ core'[c].block = made(c).block
                               /\ core'[c].hist[cycle' + 1] = IndicesToRingPos(c)
  <2> HIDE DEF cells, made
  <2> QED
    BY <1>1, <1>2, <1>3, <1>4, AllRecorded
<1>6. pool' \subseteq AssemblyAt(cycle') /\ \A a \in pool' : \E b \in pool : a.block = b.block
  BY <1>1, PooledAt DEF SwapAssemblies
<1>7. \A c \in DOMAIN core, q \in Parts : \E d \in DOMAIN core, f \in {1, 2, 3} :
         /\ Carried(core'[c].block[q], core[c].block[q], core[d].block[q], f, Factor(c))
         /\ q \in stationary => d = c
         /\ ~PlatesAtCentre => f = Factor(d)
  <2> TAKE c \in DOMAIN core, q \in Parts
  <2>1. CASE c \notin {l, m}
    <3>1. core'[c].block = core[c].block
      BY <1>5, <2>1
    <3>2. \A x \in Params : core[c].block[q].p[x] = (core[c].block[q].p[x] * Factor(c)) \div Factor(c)
      <4>1. \A x \in Params : core[c].block[q].p[x] \in Nat
        <5>1. core[c] \in AssemblyAt(cycle) /\ cycle \in Int
          BY <1>1
        <5> QED
          BY <5>1, AssemblyParts
      <4>2. Factor(c) \in {1, 2, 3}
        BY <1>1
      <4> QED
        BY <4>1, <4>2, ScaledValues
    <3>3. Carried(core'[c].block[q], core[c].block[q], core[c].block[q], Factor(c), Factor(c))
      BY <3>1, <3>2 DEF Carried
    <3> QED
      BY <1>1, <3>3
  <2>2. CASE c \in {l, m}
    <3>1. PICK e \in DOMAIN core : e = other(c) /\ e \in {l, m}
      OBVIOUS
    <3>2. PICK d \in DOMAIN core : d = IF q \in stationary THEN c ELSE e
      OBVIOUS
    <3>3. /\ WithStationaryOf(core[e], core[c]) \in AssemblyAt(cycle)
          /\ WithStationaryOf(core[e], core[c]).block[q] = core[d].block[q]
      BY <1>1, <3>2, StationaryFacts
    <3>4. core'[c].block = Moved(WithStationaryOf(core[e], core[c]), Factor(e), Factor(c)).block
      BY <1>5, <2>2, <3>1
    <3>5. Carried(core'[c].block[q], core[c].block[q], core[d].block[q], Factor(e), Factor(c))
      <4>1. PICK a \in AssemblyAt(cycle) : a = WithStationaryOf(core[e], core[c])
        BY <3>3
      <4>2. /\ Moved(a, Factor(e), Factor(c)).block[q].of = a.block[q].of
            /\ Moved(a, Factor(e), Factor(c)).block[q].area = NotCached
            /\ \A x \in Params : Moved(a, Factor(e), Factor(c)).block[q].p[x]
                 = (a.block[q].p[x] * Factor(e)) \div Factor(c)
        BY <1>1, MovedFacts
      <4> QED
        BY <3>3, <3>4, <4>1, <4>2, Zenon DEF Carried
    <3>6. ~PlatesAtCentre => Factor(e) = Factor(d)
      <4>1. PlatesMayMove(l) /\ PlatesMayMove(m)
        BY DEF SwapAssemblies
      <4>2. q \in stationary /\ ~PlatesAtCentre => ~AtCentre(l) /\ ~AtCentre(m)
        BY <4>1 DEF PlatesMayMove
      <4>3. \A k \in DOMAIN core : Factor(k) = IF AtCentre(k) THEN 3 ELSE 1
        BY <1>1, CellFacts
      <4> QED
        BY <2>2, <3>1, <3>2, <4>2, <4>3
    <3> QED
      BY <1>1, <3>2, <3>5, <3>6
  <2> QED
    BY <2>1, <2>2
<1>8. /\ assigned' \in [Params -> SUBSET ANYTHING]
      /\ \A x \in Params : assigned'[x] \in {assigned[x], ANYTHING}
  <2>1. assigned \in [Params -> SUBSET ANYTHING]
    BY DEF CellsHold
  <2>2. assigned' \in {assigned, Rescaled(core[l], core[m])}
    BY DEF SwapAssemblies
  <2> QED
    BY <2>1, <2>2 DEF Rescaled
<1>9. Shuffled
  BY <1>1, <1>5, <1>6 DEF Shuffled
<1>10. \A a \in pool' : \E b \in pool : a.block = b.block
  BY <1>6
<1> QED
  BY <1>7, <1>8, <1>9, <1>10


Replacement == NewAssembly(ReplacementNumber, <<>>)

LEMMA ReplacementFacts ==
  /\ Replacement \in AssemblyAt(-1) /\ -1 \in Int
  /\ \A q \in Parts : LET b == Replacement.block[q]
                      IN  /\ b \in Block /\ b.area = NotCached /\ b.p["power"] = Unsolved
                          /\ b.p["mass"] = Whole(b)
<1>1. <<>> \in [1 .. -1 + 1 -> Places] /\ -1 \in Int
  OBVIOUS
<1>2. Replacement \in AssemblyAt(-1)
  BY <1>1, Numbers, NewFacts DEF Replacement
<1>3. \A q \in Parts : Replacement.block[q] \in Block
  BY <1>1, <1>2, AssemblyParts
<1>4. ReplacementNumber \in Nat \ {0}
  BY Numbers
<1>5. \A q \in Parts : LET b == NewAssembly(ReplacementNumber, <<>>).block[q]
                      IN  /\ b.area = NotCached /\ b.p["power"] = Unsolved
                          /\ b.p["mass"] = Whole(b)
  BY <1>1, <1>4, NewFacts
<1> QED
  BY <1>1, <1>2, <1>3, <1>5 DEF Replacement

LEMMA DischargeEffect ==
  ASSUME CellsHold, NEW l \in DOMAIN core, NEW incoming \in pool \cup {Replacement},
         DischargeSwap(incoming, l)
  PROVE  /\ Shuffled
         /\ \A c \in DOMAIN core, q \in Parts :
              \/ \E f \in {1, 2, 3} : /\ Carried(core'[c].block[q], core[c].block[q], core[c].block[q], f, Factor(c))
                                      /\ ~PlatesAtCentre => f = Factor(c)
              \/ q \notin stationary /\ Carried(core'[c].block[q], core[c].block[q], incoming.block[q], 1, Factor(c))
         /\ \A a \in pool', q \in Parts :
              \/ \E b \in pool \cup {incoming} : a.block[q] = b.block[q]
              \/ a.block[q] = core[l].block[q] /\ (~DischargeCentre => Factor(l) = 1)
         /\ assigned' = [Touched EXCEPT !["mass"] = ANYTHING]
<1> DEFINE put     == WithStationaryOf(incoming, core[l])
           out     == WithStationaryOf(core[l], incoming)
           made(c) == IF c = l THEN Moved(put, 1, Factor(l)) ELSE core[c]
           cells   == [c \in DOMAIN core |-> made(c)]
<1>1. /\ use = "none" /\ cycle \in Nat /\ cycle' \in Nat /\ cycle' # cycle /\ cycle \in Int
      /\ DOMAIN core \subseteq Cell /\ \A c \in DOMAIN core : core[c] \in AssemblyAt(cycle)
      /\ \A c : Factor(c) \in {1, 2, 3}
      /\ pool \subseteq AssemblyAt(cycle)
      /\ core = [c \in DOMAIN core |-> core[c]]
  <2>1. Shuffle /\ CellsHold
    BY DEF DischargeSwap
  <2>2. use # "failed"
    BY <2>1, ShufflesKeep
  <2>3. cycle \in Nat /\ core = [c \in DOMAIN core |-> core[c]]
    BY DEF CellsHold
  <2> QED
    BY <2>1, <2>2, <2>3, ShufflesKeep, CellFacts
<1>2. PICK i \in Int : incoming \in AssemblyAt(i)
  BY <1>1, ReplacementFacts
<1>3. /\ put \in AssemblyAt(i) /\ out \in AssemblyAt(cycle)
      /\ \A q \in Parts : /\ put.block[q] = IF q \in stationary THEN core[l].block[q] ELSE incoming.block[q]
                         /\ out.block[q] = IF q \in stationary THEN incoming.block[q] ELSE core[l].block[q]
  BY <1>1, <1>2, StationaryFacts
<1> HIDE DEF put, out
<1>4. /\ Moved(put, 1, Factor(l)) \in AssemblyAt(i)
      /\ \A q \in Parts :
           /\ Moved(put, 1, Factor(l)).block[q].of = put.block[q].of
           /\ Moved(put, 1, Factor(l)).block[q].area = NotCached
           /\ \A x \in Params : Moved(put, 1, Factor(l)).block[q].p[x]
                = (put.block[q].p[x] * 1) \div Factor(l)
  BY <1>1, <1>3, MovedFacts
<1>5. core' = RecordedAll(cells)
  <2>1. core' = RecordedAll([core EXCEPT ![l] = Moved(put, 1, Factor(l))])
    BY Zenon DEF DischargeSwap, put
  <2> QED
    BY <1>1, <2>1
<1>6. /\ core' \in [DOMAIN core -> AssemblyAt(cycle')]
      /\ \A c \in DOMAIN core : /\ core'[c].block = made(c).block
                               /\ core'[c].hist[cycle' + 1] = IndicesToRingPos(c)
  <2>1. ASSUME NEW c \in DOMAIN core
        PROVE  /\ Recorded(made(c), IndicesToRingPos(c)) \in AssemblyAt(cycle')
               /\ Recorded(made(c), IndicesToRingPos(c)).block = made(c).block
               /\ Recorded(made(c), IndicesToRingPos(c)).hist[cycle' + 1] = IndicesToRingPos(c)
    <3>1. IndicesToRingPos(c) \in Places
      BY <1>1, PositionsTell
    <3>2. \E n \in Int : made(c) \in AssemblyAt(n)
      BY <1>1, <1>4
    <3> HIDE DEF made
    <3> QED
      BY <1>1, <3>1, <3>2, RecordedFacts
  <2>2. core' = [c \in DOMAIN core |-> Recorded(made(c), IndicesToRingPos(c))]
    BY <1>5 DEF RecordedAll
  <2> HIDE DEF made
  <2> QED
    BY <2>1, <2>2
<1>7. /\ pool' \subseteq AssemblyAt(cycle')
      /\ \A a \in pool' : \E b \in (pool \ {incoming}) \cup {out} : a.block = b.block
  <2>1. (pool \ {incoming}) \cup {out} \subseteq AssemblyAt(cycle)
    BY <1>1, <1>3
  <2>2. pool' = {Recorded(a, InPool) : a \in (pool \ {incoming}) \cup {out}}
    BY Zenon DEF DischargeSwap, out
  <2> QED
    BY <1>1, <2>1, <2>2, PooledAt
<1>8. ~AtCentre(l) => Factor(l) = 1
  BY <1>1, CellFacts
<1>9. \A c \in DOMAIN core, q \in Parts :
         \/ \E f \in {1, 2, 3} : /\ Carried(core'[c].block[q], core[c].block[q], core[c].block[q], f, Factor(c))
                                 /\ ~PlatesAtCentre => f = Factor(c)
         \/ q \notin stationary /\ Carried(core'[c].block[q], core[c].block[q], incoming.block[q], 1, Factor(c))
  <2> TAKE c \in DOMAIN core, q \in Parts
  <2>1. CASE c # l
    <3>1. core'[c].block = core[c].block
      BY <1>6, <2>1
    <3>2. \A x \in Params : core[c].block[q].p[x] = (core[c].block[q].p[x] * Factor(c)) \div Factor(c)
      <4>1. core[c] \in AssemblyAt(cycle) /\ cycle \in Int /\ Factor(c) \in {1, 2, 3}
        BY <1>1
      <4>2. \A x \in Params : core[c].block[q].p[x] \in Nat
        BY <4>1, AssemblyParts
      <4> QED
        BY <4>1, <4>2, ScaledValues
    <3>3. Carried(core'[c].block[q], core[c].block[q], core[c].block[q], Factor(c), Factor(c))
      BY <3>1, <3>2 DEF Carried
    <3> QED
      BY <1>1, <3>3
  <2>2. CASE c = l
    <3>1. core'[c].block = Moved(put, 1, Factor(l)).block
      BY <1>6, <2>2
    <3>2. Carried(core'[c].block[q], core[c].block[q], put.block[q], 1, Factor(c))
      BY <1>4, <2>2, <3>1 DEF Carried
    <3>3. q \in stationary /\ ~PlatesAtCentre => Factor(c) = 1
      BY <1>8, <2>2 DEF DischargeSwap, PlatesMayMove
    <3> QED
      BY <1>3, <2>2, <3>2, <3>3
  <2> QED
    BY <2>1, <2>2
<1>10. \A a \in pool', q \in Parts :
          \/ \E b \in pool \cup {incoming} : a.block[q] = b.block[q]
          \/ a.block[q] = core[l].block[q] /\ (~DischargeCentre => Factor(l) = 1)
  BY <1>3, <1>7, <1>8 DEF DischargeSwap
<1>11. Shuffled /\ assigned' = [Touched EXCEPT !["mass"] = ANYTHING]
  BY <1>1, <1>6, <1>7 DEF Shuffled, DischargeSwap
<1> QED
  BY <1>9, <1>10, <1>11
-----------------------------------------------------------------------------
(* What the other operations do. *)

LEMMA SolveEffect ==
  ASSUME CellsHold, Solve
  PROVE  /\ DOMAIN core' = DOMAIN core
         /\ core' \in [DOMAIN core -> AssemblyAt(cycle)]
         /\ \A c \in DOMAIN core :
              /\ core'[c].hist = core[c].hist
              /\ \A q \in Parts :
                   /\ core'[c].block[q].of = core[c].block[q].of
                   /\ core'[c].block[q].area = core[c].block[q].area
                   /\ core'[c].block[q].p["mass"] = core[c].block[q].p["mass"]
                   /\ core'[c].block[q].p["power"] = Whole(core[c].block[q]) \div Factor(c)
<1> DEFINE solved(c, q) == [core[c].block[q] EXCEPT !.p["power"] = Whole(core[c].block[q]) \div Factor(c)]
           made(c) == [core[c] EXCEPT !.block = [q \in Parts |-> solved(c, q)]]
<1>1. core' = [c \in DOMAIN core |-> made(c)]
  BY Zenon DEF Solve
<1>2. ASSUME NEW c \in DOMAIN core
      PROVE  /\ made(c) \in AssemblyAt(cycle) /\ made(c).hist = core[c].hist
             /\ \A q \in Parts :
                  /\ made(c).block[q].of = core[c].block[q].of
                  /\ made(c).block[q].area = core[c].block[q].area
                  /\ made(c).block[q].p["mass"] = core[c].block[q].p["mass"]
                  /\ made(c).block[q].p["power"] = Whole(core[c].block[q]) \div Factor(c)
  <2>1. core[c] \in AssemblyAt(cycle) /\ cycle \in Int
    BY CellFacts DEF CellsHold
  <2>2. ASSUME NEW q \in Parts
        PROVE  /\ solved(c, q) \in Block
               /\ solved(c, q).of = core[c].block[q].of
               /\ solved(c, q).area = core[c].block[q].area
               /\ solved(c, q).p["mass"] = core[c].block[q].p["mass"]
               /\ solved(c, q).p["power"] = Whole(core[c].block[q]) \div Factor(c)
    <3>1. PICK b \in Block : b = core[c].block[q]
      BY <2>1, AssemblyParts
    <3>2. /\ b = [of |-> b.of, p |-> b.p, area |-> b.area]
          /\ b.of \in Nat \ {0} /\ b.area \in Nat /\ b.p \in [Params -> Nat]
      BY DEF Block
    <3>3. PICK v \in Nat : v = Whole(b) \div Factor(c)
      BY CellFacts, Shares
    <3>4. PICK p : p = [b.p EXCEPT !["power"] = v]
      OBVIOUS
    <3>5. p \in [Params -> Nat]
      BY <3>2, <3>4
    <3>6. p["mass"] = b.p["mass"] /\ p["power"] = v
      <4>1. "power" # "mass" /\ "power" \in Params /\ "mass" \in Params
        BY DEF Params
      <4> QED
        BY <3>2, <3>4, <4>1
    <3>7. solved(c, q) = [of |-> b.of, p |-> p, area |-> b.area]
      <4>1. solved(c, q) = [b EXCEPT !.p["power"] = v]
        BY <3>1, <3>3
      <4>2. [b EXCEPT !.p["power"] = v] = [b EXCEPT !.p = p]
        BY <3>2, <3>4
      <4> HIDE DEF solved
      <4> QED
        BY <3>2, <4>1, <4>2
    <3> HIDE DEF solved
    <3> QED
      BY <3>1, <3>2, <3>3, <3>5, <3>6, <3>7 DEF Block
  <2> HIDE DEF solved
  <2>3. PICK block : block = [q \in Parts |-> solved(c, q)]
    OBVIOUS
  <2>4. block \in [Parts -> Block] /\ \A q \in Parts : block[q] = solved(c, q)
    BY <2>2, <2>3
  <2>5. made(c) = [block |-> block, hist |-> core[c].hist]
    <3>1. core[c] = [block |-> core[c].block, hist |-> core[c].hist]
      BY <2>1, AssemblyParts
    <3>2. made(c) = [core[c] EXCEPT !.block = block]
      BY <2>3
    <3> HIDE DEF made
    <3> QED
      BY <3>1, <3>2
  <2>6. core[c].hist \in [1 .. cycle + 1 -> Places]
    BY <2>1, AssemblyParts
  <2> HIDE DEF made
  <2> QED
    BY <2>1, <2>2, <2>4, <2>5, <2>6, AssemblyMade
<1> HIDE DEF made
<1> QED
  BY <1>1, <1>2

LEMMA GetAreaEffect ==
  ASSUME CellsHold, NEW l \in DOMAIN core, GetArea(l)
  PROVE  /\ DOMAIN core' = DOMAIN core
         /\ core' \in [DOMAIN core -> AssemblyAt(cycle)]
         /\ \A c \in DOMAIN core :
              /\ core'[c].hist = core[c].hist
              /\ \A q \in Parts :
                   /\ core'[c].block[q].of = core[c].block[q].of
                   /\ core'[c].block[q].p = core[c].block[q].p
                   /\ core'[c].block[q].area \in {core[c].block[q].area, Factor(c)}
<1>1. /\ core[l] \in AssemblyAt(cycle) /\ cycle \in Int /\ Factor(l) \in Nat
      /\ \A c \in DOMAIN core : core[c] \in AssemblyAt(cycle)
      /\ core = [c \in DOMAIN core |-> core[c]]
  BY CellFacts DEF CellsHold
<1>2. PICK b \in Block : b = core[l].block["fuel"]
  BY <1>1, AssemblyParts DEF Parts
<1>3. PICK made : made = [core[l] EXCEPT !.block = [core[l].block EXCEPT !["fuel"] =
        [core[l].block["fuel"] EXCEPT !.area = Factor(l)]]]
  OBVIOUS
<1>4. core' = [core EXCEPT ![l] = made]
  <2>1. core' = [core EXCEPT ![l].block["fuel"].area = Factor(l)]
    BY Zenon DEF GetArea
  <2> QED
    BY <1>1, <1>3, <2>1
<1>5. /\ made \in AssemblyAt(cycle) /\ made.hist = core[l].hist
      /\ \A q \in Parts : /\ made.block[q].of = core[l].block[q].of
                         /\ made.block[q].p = core[l].block[q].p
                         /\ made.block[q].area \in {core[l].block[q].area, Factor(l)}
  <2>1. PICK b1 : b1 = [b EXCEPT !.area = Factor(l)]
    OBVIOUS
  <2>2. b1 \in Block /\ b1.of = b.of /\ b1.p = b.p /\ b1.area = Factor(l)
    <3>1. b = [of |-> b.of, p |-> b.p, area |-> b.area]
      BY DEF Block
    <3>2. b1 = [of |-> b.of, p |-> b.p, area |-> Factor(l)]
      BY <2>1, <3>1
    <3> QED
      BY <1>1, <3>2 DEF Block
  <2>3. PICK block : block = [core[l].block EXCEPT !["fuel"] = b1]
    OBVIOUS
  <2>4. block \in [Parts -> Block]
        /\ \A q \in Parts : block[q] = IF q = "fuel" THEN b1 ELSE core[l].block[q]
    BY <1>1, <2>2, <2>3, AssemblyParts
  <2>5. made = [block |-> block, hist |-> core[l].hist]
    <3>1. core[l] = [block |-> core[l].block, hist |-> core[l].hist]
      BY <1>1, AssemblyParts
    <3>2. made = [core[l] EXCEPT !.block = block]
      BY <1>2, <1>3, <2>1, <2>3
    <3> QED
      BY <3>1, <3>2
  <2>6. core[l].hist \in [1 .. cycle + 1 -> Places]
    BY <1>1, AssemblyParts
  <2> QED
    BY <1>1, <1>2, <2>2, <2>4, <2>5, <2>6, AssemblyMade
<1> QED
  BY <1>1, <1>4, <1>5


LEMMA EdgeCells ==
  /\ \A l \in OnLowerLine : /\ l \in Filled /\ l # Centre /\ Turn(l) \in Reflected
                           /\ Turn(l) \notin Filled
                           /\ SymmetricEquivalents(l)[1] = Turn(l)
  /\ \A l, m \in OnLowerLine : Turn(l) = Turn(m) => l = m
  /\ \A c \in Reflected : \E l \in OnLowerLine : c = Turn(l)
  /\ Filled \cap Reflected = {}
  /\ \A cells \in {Filled, Filled \cup Reflected} :
       DOMAIN core = cells => Lower = OnLowerLine
  /\ DOMAIN core = Filled \cup Reflected => Upper = Reflected
<1>1. ASSUME NEW l \in OnLowerLine
      PROVE  /\ l \in Filled /\ l # Centre /\ Turn(l) \in Reflected /\ Turn(l) \notin Filled
             /\ SymmetricEquivalents(l)[1] = Turn(l)
             /\ SymmetryLine(Turn(l)) = "BOUNDARY_120_DEGREES"
  <2>1. l \in Filled /\ l # Centre
    BY FilledOffLine DEF OnLowerLine
  <2>2. SymmetricEquivalents(l) = <<Turn(l), Turn(Turn(l))>>
    BY <2>1, FilledFacts
  <2> QED
    BY <2>1, <2>2, Orbits, FilledOffLine DEF Reflected
<1>2. \A l, m \in OnLowerLine : Turn(l) = Turn(m) => l = m
  BY <1>1, TurnsApart
<1>3. \A c \in Reflected : \E l \in OnLowerLine : c = Turn(l)
  BY DEF Reflected
<1>4. \A c \in Reflected : /\ SymmetryLine(c) = "BOUNDARY_120_DEGREES"
                          /\ SymmetryLine(c) # "BOUNDARY_0_DEGREES"
                          /\ c \notin Filled
  <2>1. "BOUNDARY_120_DEGREES" # "BOUNDARY_0_DEGREES"
    OBVIOUS
  <2> QED
    BY <1>1, <1>3, <2>1
<1>5. \A cells \in {Filled, Filled \cup Reflected} :
        DOMAIN core = cells => Lower = OnLowerLine
  BY <1>4 DEF Lower, OnLine, OnLowerLine
<1>6. DOMAIN core = Filled \cup Reflected => Upper = Reflected
  BY <1>4, FilledOffLine DEF Upper, OnLine
<1> QED
  BY <1>1, <1>2, <1>3, <1>4, <1>5, <1>6

LEMMA AddEffect ==
  ASSUME CellsHold, AddEdgeAssemblies
  PROVE  /\ DOMAIN core = Filled /\ DOMAIN core' = Filled \cup Reflected
         /\ core' \in [Filled \cup Reflected -> AssemblyAt(cycle)]
         /\ \A l \in Filled :
              /\ core'[l].hist = core[l].hist
              /\ \A q \in Parts : /\ core'[l].block[q].of = core[l].block[q].of
                                 /\ core'[l].block[q].p = core[l].block[q].p
                                 /\ core'[l].block[q].area = IF l \in OnLowerLine THEN NotCached
                                                            ELSE core[l].block[q].area
         /\ \A l \in OnLowerLine, q \in Parts :
              /\ core'[Turn(l)].block[q].of = core[l].block[q].of
              /\ core'[Turn(l)].block[q].area = NotCached
              /\ \A x \in Params : core'[Turn(l)].block[q].p[x] =
                   (core[l].block[q].p[x] * 1) \div FactorIn("third", Filled \cup Reflected, Turn(l))
<1>1. DOMAIN core = Filled /\ symmetry = "third" /\ use = "none" /\ cycle \in Int
  <2>1. "third" # "full"
    OBVIOUS
  <2> QED
    BY <2>1 DEF CellsHold, Phase, AddEdgeAssemblies
<1>2. Lower = OnLowerLine
  BY <1>1, EdgeCells
<1>3. {SymmetricEquivalents(l)[1] : l \in Lower} = Reflected
  BY <1>2, EdgeCells DEF Reflected
<1>4. \A l \in OnLowerLine : (CHOOSE m \in Lower : SymmetricEquivalents(m)[1] = Turn(l)) = l
  BY <1>2, EdgeCells
<1> DEFINE source(l) == CHOOSE m \in Lower : SymmetricEquivalents(m)[1] = l
           cells     == Filled \cup Reflected
           made(l)   == IF l \in Reflected THEN Moved(core[source(l)], 1, FactorIn("third", cells, l))
                        ELSE IF l \in Lower THEN Uncached(core[l])
                        ELSE core[l]
<1>5. core' = [l \in cells |-> made(l)]
  <2> DEFINE S == {SymmetricEquivalents(l)[1] : l \in Lower}
  <2>2. core' = [l \in DOMAIN core \cup S |->
          IF l \in S THEN Moved(core[source(l)], 1, FactorIn(symmetry, DOMAIN core \cup S, l))
          ELSE IF l \in Lower THEN Uncached(core[l])
          ELSE core[l]]
    BY Zenon DEF AddEdgeAssemblies
  <2>3. S = Reflected
    BY <1>3
  <2> HIDE DEF source, S
  <2> QED
    BY <1>1, <2>2, <2>3, Zenon
<1>6. \A l \in Filled : core[l] \in AssemblyAt(cycle)
  BY <1>1, CellFacts
<1>7. ASSUME NEW l \in Filled
      PROVE  /\ made(l) \in AssemblyAt(cycle)
             /\ made(l).hist = core[l].hist
             /\ \A q \in Parts : /\ made(l).block[q].of = core[l].block[q].of
                                /\ made(l).block[q].p = core[l].block[q].p
                                /\ made(l).block[q].area = IF l \in OnLowerLine THEN NotCached
                                                          ELSE core[l].block[q].area
  <2>1. made(l) = IF l \in OnLowerLine THEN Uncached(core[l]) ELSE core[l]
    BY <1>2, EdgeCells
  <2> HIDE DEF made
  <2> QED
    BY <1>1, <1>6, <2>1, UncachedFacts
<1>8. ASSUME NEW l \in OnLowerLine
      PROVE  /\ made(Turn(l)) \in AssemblyAt(cycle)
             /\ \A q \in Parts :
                  /\ made(Turn(l)).block[q].of = core[l].block[q].of
                  /\ made(Turn(l)).block[q].area = NotCached
                  /\ \A x \in Params : made(Turn(l)).block[q].p[x] =
                       (core[l].block[q].p[x] * 1) \div FactorIn("third", cells, Turn(l))
  <2>1. l \in Filled /\ Turn(l) \in Reflected /\ source(Turn(l)) = l
    BY <1>4, EdgeCells
  <2> HIDE DEF source
  <2>2. made(Turn(l)) = Moved(core[l], 1, FactorIn("third", cells, Turn(l)))
    BY <2>1
  <2> HIDE DEF made
  <2> QED
    BY SMTT(30), <1>1, <1>6, <2>1, <2>2, Factors, MovedFacts
<1>9. \A c \in cells : made(c) \in AssemblyAt(cycle)
  <2> HIDE DEF made, source
  <2>1. \A c \in Reflected : made(c) \in AssemblyAt(cycle)
    BY <1>8, EdgeCells
  <2> QED
    BY <1>7, <2>1
<1>10. DOMAIN core' = cells /\ \A c \in cells : core'[c] = made(c)
  BY <1>5
<1> HIDE DEF made, source
<1>11. \A l \in OnLowerLine : l \in Filled /\ Turn(l) \in cells
  BY EdgeCells
<1> QED
  BY ZenonT(40), <1>1, <1>5, <1>7, <1>8, <1>9, <1>10, <1>11

LEMMA JoinedFacts ==
  ASSUME NEW n \in Int, NEW a \in AssemblyAt(n), NEW m \in Int, NEW b \in AssemblyAt(m)
  PROVE  /\ Joined(a, b) \in AssemblyAt(n) /\ Joined(a, b).hist = a.hist
         /\ \A q \in Parts :
              /\ Joined(a, b).block[q].of = a.block[q].of
              /\ \A x \in Params : Joined(a, b).block[q].p[x] =
                   IF "GEOM" \in assigned[x] /\ a.block[q].p[x] # Unsolved
                   THEN a.block[q].p[x] + b.block[q].p[x] ELSE a.block[q].p[x]
<1> DEFINE p(q)  == [x \in Params |->
                       IF "GEOM" \in assigned[x] /\ a.block[q].p[x] # Unsolved
                       THEN a.block[q].p[x] + b.block[q].p[x] ELSE a.block[q].p[x]]
           block == [q \in Parts |-> [a.block[q] EXCEPT !.p = p(q)]]
<1>1. Joined(a, b) = [block |-> block, hist |-> a.hist]
  <2>1. a = [block |-> a.block, hist |-> a.hist]
    BY AssemblyParts
  <2>2. ASSUME NEW q \in Parts
        PROVE  JoinedBlock(a.block[q], b.block[q]) = [a.block[q] EXCEPT !.p = p(q)]
    BY DEF JoinedBlock
  <2>3. [q \in Parts |-> JoinedBlock(a.block[q], b.block[q])] = block
    <3> HIDE DEF p
    <3> QED
      BY <2>2
  <2> HIDE DEF block
  <2> QED
    BY <2>1, <2>3 DEF Joined
<1>2. ASSUME NEW q \in Parts
      PROVE  p(q) \in [Params -> Nat]
  <2>1. \A x \in Params : a.block[q].p[x] \in Nat /\ b.block[q].p[x] \in Nat
    BY AssemblyParts
  <2> QED
    BY <2>1
<1>3. ASSUME NEW q \in Parts
      PROVE  /\ block[q] \in Block /\ block[q].of = a.block[q].of /\ block[q].p = p(q)
  <2> HIDE DEF p
  <2>1. block[q] = [of |-> a.block[q].of, p |-> p(q), area |-> a.block[q].area]
    <3>1. a.block[q] = [of |-> a.block[q].of, p |-> a.block[q].p, area |-> a.block[q].area]
      BY AssemblyParts
    <3> QED
      BY <3>1
  <2> QED
    BY <1>2, <2>1, AssemblyParts DEF Block
<1>4. block \in [Parts -> Block]
  BY <1>3
<1>5. \A q \in Parts, x \in Params :
        p(q)[x] = IF "GEOM" \in assigned[x] /\ a.block[q].p[x] # Unsolved
                  THEN a.block[q].p[x] + b.block[q].p[x] ELSE a.block[q].p[x]
  OBVIOUS
<1> HIDE DEF block, p
<1> QED
  BY <1>1, <1>3, <1>4, <1>5, AssemblyMade, AssemblyParts

LEMMA UndoEffect ==
  ASSUME CellsHold, UndoEdgeAssemblies
  PROVE  /\ DOMAIN core = Filled \cup Reflected /\ DOMAIN core' = Filled
         /\ core' \in [Filled -> AssemblyAt(cycle)]
         /\ \A l \in Filled \ OnLowerLine : core'[l] = core[l]
         /\ \A l \in OnLowerLine :
              /\ core'[l].hist = core[l].hist
              /\ \A q \in Parts :
                   /\ core'[l].block[q].of = core[l].block[q].of
                   /\ core'[l].block[q].area = NotCached
                   /\ \A x \in Params : core'[l].block[q].p[x] =
                        IF "GEOM" \in assigned[x] /\ core[l].block[q].p[x] # Unsolved
                        THEN core[l].block[q].p[x] + core[Turn(l)].block[q].p[x]
                        ELSE core[l].block[q].p[x]
<1>1. DOMAIN core = Filled \cup Reflected /\ cycle \in Int
  <2>1. use = "edges" /\ "edges" # "none" /\ "edges" # "grown" /\ "edges" # "failed"
    BY DEF UndoEdgeAssemblies
  <2> QED
    BY <2>1 DEF CellsHold, Phase
<1>2. Lower = OnLowerLine /\ Upper = Reflected /\ DOMAIN core \ Upper = Filled
  BY <1>1, EdgeCells
<1> DEFINE made(l) == IF l \in OnLowerLine
                      THEN Uncached(Joined(core[l], core[SymmetricEquivalents(l)[1]])) ELSE core[l]
<1>3. core' = [l \in Filled |-> made(l)]
  BY <1>2, Zenon DEF UndoEdgeAssemblies, RemainingCache
<1>4. \A l \in DOMAIN core : core[l] \in AssemblyAt(cycle)
  BY CellFacts
<1>5. ASSUME NEW l \in OnLowerLine
      PROVE  /\ made(l) \in AssemblyAt(cycle)
             /\ made(l).hist = core[l].hist
             /\ \A q \in Parts :
                   /\ made(l).block[q].of = core[l].block[q].of
                   /\ made(l).block[q].area = NotCached
                   /\ \A x \in Params : made(l).block[q].p[x] =
                        IF "GEOM" \in assigned[x] /\ core[l].block[q].p[x] # Unsolved
                        THEN core[l].block[q].p[x] + core[Turn(l)].block[q].p[x]
                        ELSE core[l].block[q].p[x]
  <2>1. core[l] \in AssemblyAt(cycle) /\ core[Turn(l)] \in AssemblyAt(cycle)
    BY <1>1, <1>4, EdgeCells
  <2>2. made(l) = Uncached(Joined(core[l], core[Turn(l)]))
    BY EdgeCells
  <2>3. PICK b \in AssemblyAt(cycle) : b = core[l]
    BY <2>1
  <2>4. PICK m \in AssemblyAt(cycle) : m = core[Turn(l)]
    BY <2>1
  <2>5. /\ Joined(b, m) \in AssemblyAt(cycle) /\ Joined(b, m).hist = b.hist
        /\ \A q \in Parts :
             /\ Joined(b, m).block[q].of = b.block[q].of
             /\ \A x \in Params : Joined(b, m).block[q].p[x] =
                  IF "GEOM" \in assigned[x] /\ b.block[q].p[x] # Unsolved
                  THEN b.block[q].p[x] + m.block[q].p[x] ELSE b.block[q].p[x]
    BY <1>1, JoinedFacts
  <2>6. made(l) = Uncached(Joined(b, m))
    BY <2>2, <2>3, <2>4
  <2> HIDE DEF made
  <2>7. PICK a \in AssemblyAt(cycle) : a = Joined(b, m)
    BY <2>5
  <2>8. /\ Uncached(a) \in AssemblyAt(cycle) /\ Uncached(a).hist = a.hist
        /\ \A q \in Parts : /\ Uncached(a).block[q].of = a.block[q].of
                           /\ Uncached(a).block[q].p = a.block[q].p
                           /\ Uncached(a).block[q].area = NotCached
    BY <1>1, UncachedFacts
  <2> QED
    BY SMTT(30), <2>3, <2>4, <2>5, <2>6, <2>7, <2>8
<1>6. \A l \in Filled \ OnLowerLine : made(l) = core[l] /\ core[l] \in AssemblyAt(cycle)
  BY <1>1, <1>4
<1> HIDE DEF made
<1>7. \A l \in OnLowerLine : l \in Filled
  BY EdgeCells
<1> QED
  BY <1>1, <1>3, <1>5, <1>6, <1>7


LEMMA ImageFacts ==
  ASSUME NEW n \in Int, NEW a \in AssemblyAt(n), NEW k \in 1 .. 2,
         \A i \in 1 .. n + 1 : a.hist[i] # IndicesToRingPos(Centre)
  PROVE  /\ Image(a, k) \in AssemblyAt(n) /\ Image(a, k).block = a.block
         /\ \A i \in 1 .. n + 1 : Image(a, k).hist[i] = InImage(a.hist[i], k)
<1>1. ASSUME NEW place \in Places, place # IndicesToRingPos(Centre)
      PROVE  InImage(place, k) \in Places
  <2>1. CASE place \in NotInCore
    BY <2>1 DEF InImage, Places
  <2>2. CASE place \notin NotInCore
    <3>1. PICK c \in Cell : place = IndicesToRingPos(c)
      BY <2>2 DEF Places
    <3>2. IndicesFromRingAndPos(place[1], place[2]) = c /\ c # Centre
      BY <1>1, <3>1, PositionsTell
    <3>3. SymmetricEquivalents(c) = <<Turn(c), Turn(Turn(c))>>
      BY <3>2, FilledFacts
    <3>4. Turn(c) \in Cell /\ Turn(Turn(c)) \in Cell
      BY ThreeTurns
    <3>5. SymmetricEquivalents(c)[k] \in Cell
      BY <3>3, <3>4
    <3>6. InImage(place, k) = IndicesToRingPos(SymmetricEquivalents(c)[k])
      BY <2>2, <3>2 DEF InImage
    <3> QED
      BY <3>5, <3>6 DEF Places
  <2> QED
    BY <2>1, <2>2
<1>2. /\ a = [block |-> a.block, hist |-> a.hist] /\ DOMAIN a.hist = 1 .. n + 1
      /\ a.hist \in [1 .. n + 1 -> Places] /\ a.block \in [Parts -> Block]
  BY AssemblyParts
<1>3. PICK hist : hist = [i \in 1 .. n + 1 |-> InImage(a.hist[i], k)]
  OBVIOUS
<1>4. hist \in [1 .. n + 1 -> Places]
  BY <1>1, <1>2, <1>3
<1>5. Image(a, k) = [block |-> a.block, hist |-> hist]
  <2>1. hist = [i \in DOMAIN a.hist |-> InImage(a.hist[i], k)]
    BY <1>2, <1>3
  <2>2. Image(a, k) = [a EXCEPT !.hist = hist]
    BY <2>1 DEF Image
  <2> QED
    BY <1>2, <2>2
<1>6. [block |-> a.block, hist |-> hist] \in AssemblyAt(n)
  BY <1>2, <1>4, AssemblyMade
<1>7. \A i \in 1 .. n + 1 : hist[i] = InImage(a.hist[i], k)
  BY <1>3
<1> QED
  BY <1>5, <1>6, <1>7

LEMMA ImageCells ==
  /\ \A l \in Filled \ {Centre} :
       /\ l \notin Images /\ Turn(l) \in Images /\ Turn(Turn(l)) \in Images
       /\ SymmetricEquivalents(l)[1] = Turn(l) /\ SymmetricEquivalents(l)[2] = Turn(Turn(l))
  /\ Centre \notin Images /\ Filled \cap Images = {}
  /\ \A c \in Images : \E l \in Filled \ {Centre} : c = Turn(l) \/ c = Turn(Turn(l))
  /\ Images = UNION {{SymmetricEquivalents(l)[k] : k \in 1 .. 2} : l \in Filled \ {Centre}}
<1>1. ASSUME NEW l \in Filled \ {Centre}
      PROVE  /\ Turn(l) \in Images /\ Turn(Turn(l)) \in Images
             /\ SymmetricEquivalents(l) = <<Turn(l), Turn(Turn(l))>>
             /\ SymmetricEquivalents(l)[1] = Turn(l) /\ SymmetricEquivalents(l)[2] = Turn(Turn(l))
             /\ {SymmetricEquivalents(l)[k] : k \in 1 .. 2} = {Turn(l), Turn(Turn(l))}
             /\ Turn(l) \notin Filled /\ Turn(Turn(l)) \notin Filled
  <2>1. SymmetricEquivalents(l) = <<Turn(l), Turn(Turn(l))>>
    BY FilledFacts
  <2>2. 1 .. 2 = {1, 2}
    OBVIOUS
  <2>3. SymmetricEquivalents(l)[1] = Turn(l) /\ SymmetricEquivalents(l)[2] = Turn(Turn(l))
    BY <2>1
  <2>4. {SymmetricEquivalents(l)[k] : k \in 1 .. 2} = {Turn(l), Turn(Turn(l))}
    BY <2>2, <2>3
  <2>5. Turn(l) \in Images /\ Turn(Turn(l)) \in Images
    BY DEF Images
  <2> QED
    BY <2>1, <2>3, <2>4, <2>5, Orbits
<1>2. \A c \in Images : \E l \in Filled \ {Centre} : c = Turn(l) \/ c = Turn(Turn(l))
  BY DEF Images
<1>3. Filled \cap Images = {} /\ Centre \in Filled
  BY <1>1, <1>2, FilledFacts
<1>4. Images = UNION {{SymmetricEquivalents(l)[k] : k \in 1 .. 2} : l \in Filled \ {Centre}}
  BY <1>1 DEF Images
<1> QED
  BY <1>1, <1>2, <1>3, <1>4

(* The cell and the number that the conversion finds for an image are the  *)
(* only ones.                                                              *)
LEMMA SourcesAreFound ==
  ASSUME NEW l \in Filled \ {Centre}, DOMAIN core = Filled
  PROVE  LET whose(c) == CHOOSE m \in DOMAIN core \ {Centre} :
                           \E k \in 1 .. 2 : SymmetricEquivalents(m)[k] = c
             which(c) == CHOOSE k \in 1 .. 2 : SymmetricEquivalents(whose(c))[k] = c
         IN  /\ whose(Turn(l)) = l /\ which(Turn(l)) = 1
             /\ whose(Turn(Turn(l))) = l /\ which(Turn(Turn(l))) = 2
<1> DEFINE whose(c) == CHOOSE m \in DOMAIN core \ {Centre} :
                         \E k \in 1 .. 2 : SymmetricEquivalents(m)[k] = c
<1>1. 1 .. 2 = {1, 2} /\ 1 # 2
  OBVIOUS
<1>2. ASSUME NEW m \in Filled \ {Centre}
      PROVE  SymmetricEquivalents(m)[1] = Turn(m) /\ SymmetricEquivalents(m)[2] = Turn(Turn(m))
  BY ImageCells
<1>3. ASSUME NEW m \in Filled \ {Centre}, NEW k \in 1 .. 2
      PROVE  /\ SymmetricEquivalents(m)[k] = Turn(l) => m = l /\ k = 1
             /\ SymmetricEquivalents(m)[k] = Turn(Turn(l)) => m = l /\ k = 2
  BY <1>1, <1>2, TurnsApart
<1>4. whose(Turn(l)) = l
  <2>1. \E m \in DOMAIN core \ {Centre} : \E k \in 1 .. 2 : SymmetricEquivalents(m)[k] = Turn(l)
    BY <1>1, <1>2
  <2> QED
    BY <1>3, <2>1
<1>5. whose(Turn(Turn(l))) = l
  <2>1. \E m \in DOMAIN core \ {Centre} :
          \E k \in 1 .. 2 : SymmetricEquivalents(m)[k] = Turn(Turn(l))
    BY <1>1, <1>2
  <2> QED
    BY <1>3, <2>1
<1>6. (CHOOSE k \in 1 .. 2 : SymmetricEquivalents(l)[k] = Turn(l)) = 1
  BY <1>1, <1>2, <1>3
<1>7. (CHOOSE k \in 1 .. 2 : SymmetricEquivalents(l)[k] = Turn(Turn(l))) = 2
  BY <1>1, <1>2, <1>3
<1> QED
  BY <1>4, <1>5, <1>6, <1>7

LEMMA ConvertEffect ==
  ASSUME CellsHold, Convert
  PROVE  /\ DOMAIN core = Filled /\ DOMAIN core' = Filled \cup Images
         /\ core' \in [Filled \cup Images -> AssemblyAt(cycle)]
         /\ changer' = [added |-> Images, scaled |-> {x \in Params : "GEOM" \in assigned[x]}]
         /\ \A c \in Filled \cup Images, q \in Parts : core'[c].block[q].area = NotCached
         /\ \A l \in Filled \ {Centre} :
              /\ core'[l].hist = core[l].hist
              /\ \A n \in 1 .. cycle + 1 :
                   /\ core[l].hist[n] # IndicesToRingPos(Centre)
                   /\ core'[Turn(l)].hist[n] = InImage(core[l].hist[n], 1)
                   /\ core'[Turn(Turn(l))].hist[n] = InImage(core[l].hist[n], 2)
              /\ \A c \in {l, Turn(l), Turn(Turn(l))}, q \in Parts :
                   /\ core'[c].block[q].of = core[l].block[q].of
                   /\ core'[c].block[q].p = core[l].block[q].p
         /\ core'[Centre].hist = core[Centre].hist
         /\ \A q \in Parts :
              /\ core'[Centre].block[q].of = core[Centre].block[q].of
              /\ \A x \in Params : core'[Centre].block[q].p[x] =
                   IF "GEOM" \in assigned[x] THEN (core[Centre].block[q].p[x] * 3) \div 1
                   ELSE core[Centre].block[q].p[x]
<1>1. DOMAIN core = Filled /\ symmetry = "third" /\ use = "none" /\ cycle \in Int /\ ~CameFromCentre
  <2>1. "third" # "full"
    OBVIOUS
  <2> QED
    BY <2>1 DEF CellsHold, Phase, Convert
<1> DEFINE images   == UNION {{SymmetricEquivalents(l)[k] : k \in 1 .. 2} : l \in DOMAIN core \ {Centre}}
           whose(l) == CHOOSE m \in DOMAIN core \ {Centre} : \E k \in 1 .. 2 : SymmetricEquivalents(m)[k] = l
           which(l) == CHOOSE k \in 1 .. 2 : SymmetricEquivalents(whose(l))[k] = l
           scaled   == {x \in Params : "GEOM" \in assigned[x]}
           grown(l) == IF l = Centre THEN ScaledUp(core[l], scaled)
                       ELSE IF l \in images THEN Image(core[whose(l)], which(l))
                       ELSE core[l]
<1>2. images = Images
  BY <1>1, ImageCells
<1>3. core' = [l \in DOMAIN core \cup images |-> Uncached(grown(l))]
  BY Zenon DEF Convert
<1>4. changer' = [added |-> images, scaled |-> scaled]
  BY Zenon DEF Convert
<1>5. \A l \in Filled : core[l] \in AssemblyAt(cycle)
  BY <1>1, CellFacts
<1>6. ASSUME NEW l \in Filled \ {Centre}, NEW n \in 1 .. cycle + 1
      PROVE  core[l].hist[n] # IndicesToRingPos(Centre)
  <2>1. n \in DOMAIN core[l].hist
    BY <1>1, <1>5, AssemblyParts
  <2> QED
    BY <1>1, <2>1 DEF CameFromCentre
<1>7. ASSUME NEW l \in Filled \ {Centre}
      PROVE  grown(l) = core[l] /\ grown(Turn(l)) = Image(core[l], 1)
             /\ grown(Turn(Turn(l))) = Image(core[l], 2)
  <2>1. /\ l \notin images /\ Turn(l) \in images /\ Turn(Turn(l)) \in images
        /\ Turn(l) # Centre /\ Turn(Turn(l)) # Centre
    BY <1>2, ImageCells, Orbits
  <2>2. /\ whose(Turn(l)) = l /\ which(Turn(l)) = 1
        /\ whose(Turn(Turn(l))) = l /\ which(Turn(Turn(l))) = 2
    BY <1>1, SourcesAreFound
  <2> HIDE DEF images, whose, which
  <2> QED
    BY <2>1, <2>2
<1>8. grown(Centre) = Scaled(core[Centre], scaled, 3, 1)
  BY DEF ScaledUp
<1> HIDE DEF images, whose, which, grown
<1>9. ASSUME NEW l \in Filled \ {Centre}
      PROVE  /\ Image(core[l], 1) \in AssemblyAt(cycle) /\ Image(core[l], 1).block = core[l].block
             /\ \A i \in 1 .. cycle + 1 : Image(core[l], 1).hist[i] = InImage(core[l].hist[i], 1)
             /\ Image(core[l], 2) \in AssemblyAt(cycle) /\ Image(core[l], 2).block = core[l].block
             /\ \A i \in 1 .. cycle + 1 : Image(core[l], 2).hist[i] = InImage(core[l].hist[i], 2)
  <2>1. core[l] \in AssemblyAt(cycle) /\ 1 \in 1 .. 2 /\ 2 \in 1 .. 2
    BY <1>5
  <2> QED
    BY <1>1, <1>6, <2>1, ImageFacts
<1>10. /\ Scaled(core[Centre], scaled, 3, 1) \in AssemblyAt(cycle)
       /\ Scaled(core[Centre], scaled, 3, 1).hist = core[Centre].hist
       /\ \A q \in Parts :
            /\ Scaled(core[Centre], scaled, 3, 1).block[q].of = core[Centre].block[q].of
            /\ \A x \in Params : Scaled(core[Centre], scaled, 3, 1).block[q].p[x]
                 = IF x \in scaled THEN (core[Centre].block[q].p[x] * 3) \div 1
                   ELSE core[Centre].block[q].p[x]
  <2>1. core[Centre] \in AssemblyAt(cycle) /\ scaled \in SUBSET Params
    BY <1>5, FilledFacts
  <2> HIDE DEF scaled
  <2> QED
    BY <1>1, <2>1, ScaledFacts
<1>11. ASSUME NEW c \in Filled \cup Images
       PROVE  grown(c) \in AssemblyAt(cycle)
  <2>1. CASE c = Centre
    BY <1>8, <1>10, <2>1
  <2>2. CASE c \in Filled \ {Centre}
    BY <1>5, <1>7, <2>2
  <2>3. CASE c \in Images
    <3>1. PICK l \in Filled \ {Centre} : c = Turn(l) \/ c = Turn(Turn(l))
      BY <2>3, ImageCells
    <3> QED
      BY <1>7, <1>9, <3>1
  <2> QED
    BY <2>1, <2>2, <2>3
<1>12. \A c \in Filled \cup Images :
         /\ core'[c] \in AssemblyAt(cycle) /\ core'[c].hist = grown(c).hist
         /\ \A q \in Parts : /\ core'[c].block[q].of = grown(c).block[q].of
                            /\ core'[c].block[q].p = grown(c).block[q].p
                            /\ core'[c].block[q].area = NotCached
  BY <1>1, <1>2, <1>3, <1>11, UncachedFacts
<1>13. DOMAIN core' = Filled \cup Images /\ core' \in [Filled \cup Images -> AssemblyAt(cycle)]
  BY <1>1, <1>2, <1>3, <1>12
<1>14. \A x \in Params : x \in scaled <=> "GEOM" \in assigned[x]
  OBVIOUS
<1>15. \A l \in Filled \ {Centre} : {l, Turn(l), Turn(Turn(l))} \subseteq Filled \cup Images
  <2>1. \A l \in Filled \ {Centre} : Turn(l) \in Images /\ Turn(Turn(l)) \in Images
    BY ImageCells
  <2> QED
    BY <2>1
<1>16. ASSUME NEW l \in Filled \ {Centre}
       PROVE  /\ core'[l].hist = core[l].hist
              /\ \A n \in 1 .. cycle + 1 :
                   /\ core[l].hist[n] # IndicesToRingPos(Centre)
                   /\ core'[Turn(l)].hist[n] = InImage(core[l].hist[n], 1)
                   /\ core'[Turn(Turn(l))].hist[n] = InImage(core[l].hist[n], 2)
              /\ \A c \in {l, Turn(l), Turn(Turn(l))}, q \in Parts :
                   /\ core'[c].block[q].of = core[l].block[q].of
                   /\ core'[c].block[q].p = core[l].block[q].p
  BY <1>6, <1>7, <1>9, <1>12, <1>15
<1>17. /\ core'[Centre].hist = core[Centre].hist
       /\ \A q \in Parts :
            /\ core'[Centre].block[q].of = core[Centre].block[q].of
            /\ \A x \in Params : core'[Centre].block[q].p[x] =
                 IF "GEOM" \in assigned[x] THEN (core[Centre].block[q].p[x] * 3) \div 1
                 ELSE core[Centre].block[q].p[x]
  BY <1>8, <1>10, <1>12, <1>14, FilledFacts
<1> QED
  BY <1>1, <1>2, <1>4, <1>12, <1>13, <1>16, <1>17

(* A core without images is left as the full core that it is.              *)
LEMMA RestoreStep ==
  ASSUME CellsHold, RestorePreviousGeometry
  PROVE  /\ use = "grown" /\ use' = "none" /\ symmetry = "full" /\ DOMAIN core = Filled \cup Images
         /\ UNCHANGED <<pool, stationary, cycle, original>> /\ changer' = NoConverter
         /\ assigned' \in {assigned, Touched}
         /\ Images = {} => UNCHANGED <<symmetry, core>>
         /\ Images # {} => symmetry' = "third" /\ assigned' = Touched
<1>1. use = "grown" /\ "grown" # "none" /\ "grown" # "edges" /\ "grown" # "failed"
  BY DEF RestorePreviousGeometry
<1>2. symmetry = "full" /\ DOMAIN core = Filled \cup Images /\ changer.added = Images
  BY <1>1 DEF CellsHold, Phase
<1> QED
  BY <1>1, <1>2 DEF RestorePreviousGeometry, TouchedBy

LEMMA RestoreEffect ==
  ASSUME CellsHold, RestorePreviousGeometry, Images # {}
  PROVE  /\ DOMAIN core = Filled \cup Images /\ DOMAIN core' = Filled
         /\ core' \in [Filled -> AssemblyAt(cycle)]
         /\ \A l \in Filled : /\ core'[l].hist = core[l].hist
                             /\ \A q \in Parts : /\ core'[l].block[q].of = core[l].block[q].of
                                                /\ core'[l].block[q].area = NotCached
         /\ \A l \in Filled \ {Centre}, q \in Parts : core'[l].block[q].p = core[l].block[q].p
         /\ \A q \in Parts, x \in Params : core'[Centre].block[q].p[x] =
              IF x \in changer.scaled THEN (core[Centre].block[q].p[x] * 1) \div 3
              ELSE core[Centre].block[q].p[x]
<1>1. /\ DOMAIN core = Filled \cup Images /\ changer.added = Images /\ cycle \in Int
      /\ changer.scaled \in SUBSET Params
  <2>1. use = "grown" /\ "grown" # "none" /\ "grown" # "edges" /\ "grown" # "failed"
    BY DEF RestorePreviousGeometry
  <2> QED
    BY <2>1 DEF CellsHold, Phase
<1>2. DOMAIN core \ changer.added = Filled
  BY <1>1, ImageCells
<1>3. core' = [l \in Filled |->
        Uncached(IF l = Centre THEN Scaled(core[l], changer.scaled, 1, 3) ELSE core[l])]
  BY <1>1, <1>2, Zenon DEF RestorePreviousGeometry, ScaledDown
<1>4. \A l \in Filled : core[l] \in AssemblyAt(cycle)
  BY <1>1, CellFacts
<1>5. PICK third : third = Scaled(core[Centre], changer.scaled, 1, 3)
  OBVIOUS
<1>6. /\ third \in AssemblyAt(cycle) /\ third.hist = core[Centre].hist
      /\ \A q \in Parts :
           /\ third.block[q].of = core[Centre].block[q].of
           /\ \A x \in Params : third.block[q].p[x]
                = IF x \in changer.scaled THEN (core[Centre].block[q].p[x] * 1) \div 3
                  ELSE core[Centre].block[q].p[x]
  BY SMTT(30), <1>1, <1>4, <1>5, FilledFacts, ScaledFacts
<1>7. \A l \in Filled \ {Centre} : core'[l] = Uncached(core[l])
  BY <1>3
<1>8. core'[Centre] = Uncached(third)
  BY <1>3, <1>5, FilledFacts
<1>9. \A l \in Filled \ {Centre} :
        /\ core'[l] \in AssemblyAt(cycle) /\ core'[l].hist = core[l].hist
        /\ \A q \in Parts : /\ core'[l].block[q].of = core[l].block[q].of
                           /\ core'[l].block[q].p = core[l].block[q].p
                           /\ core'[l].block[q].area = NotCached
  BY <1>1, <1>4, <1>7, UncachedFacts
<1>10. /\ core'[Centre] \in AssemblyAt(cycle) /\ core'[Centre].hist = third.hist
       /\ \A q \in Parts : /\ core'[Centre].block[q].of = third.block[q].of
                          /\ core'[Centre].block[q].p = third.block[q].p
                          /\ core'[Centre].block[q].area = NotCached
  BY <1>1, <1>6, <1>8, UncachedFacts
<1>11. DOMAIN core' = Filled /\ core' \in [Filled -> AssemblyAt(cycle)]
  BY <1>3, <1>9, <1>10
<1> QED
  BY <1>1, <1>6, <1>9, <1>10, <1>11
-----------------------------------------------------------------------------
(* Every step keeps the types and the cells. *)

LEMMA Assignments ==
  ASSUME assigned \in [Params -> SUBSET ANYTHING]
  PROVE  /\ Touched \in [Params -> SUBSET ANYTHING]
         /\ \A x \in Params : Touched[x] = IF assigned[x] = {} THEN {} ELSE ANYTHING
         /\ \A cells : TouchedBy(cells) \in [Params -> SUBSET ANYTHING]
         /\ SinceGeometry \in [Params -> SUBSET ANYTHING]
         /\ \A x \in Params : SinceGeometry[x] = assigned[x] \ {"GEOM"}
         /\ \A y \in Params : /\ [assigned EXCEPT ![y] = ANYTHING] \in [Params -> SUBSET ANYTHING]
                             /\ [Touched EXCEPT ![y] = ANYTHING] \in [Params -> SUBSET ANYTHING]
BY DEF Touched, TouchedBy, SinceGeometry

LEMMA ShuffledCells ==
  ASSUME CellsHold, Shuffle, Shuffled, assigned' \in [Params -> SUBSET ANYTHING]
  PROVE  CellsHold' /\ DOMAIN core' = DOMAIN core
<1>1. UNCHANGED <<symmetry, stationary, use, changer, original>>
  BY ShufflesKeep
<1>2. DOMAIN core' = DOMAIN core /\ core' \in [DOMAIN core' -> Assembly'] /\ pool' \subseteq Assembly'
      /\ cycle' \in Nat
  BY DEF Shuffled, Assembly
<1>3. Phase'
  BY <1>1, <1>2 DEF CellsHold, Phase
<1> QED
  BY <1>1, <1>2, <1>3 DEF CellsHold

(* A step within a cycle that changes no assembly but those in the core.   *)
LEMMA CellsWithinCycle ==
  ASSUME CellsHold, cycle' = cycle, stationary' = stationary, pool' = pool,
         core' \in [DOMAIN core' -> AssemblyAt(cycle)],
         assigned' \in [Params -> SUBSET ANYTHING], changer'.scaled \subseteq Params, Phase'
  PROVE  CellsHold'
<1>1. Assembly' = AssemblyAt(cycle)
  BY DEF Assembly
<1>2. pool' \subseteq Assembly'
  BY <1>1 DEF CellsHold, Assembly
<1> QED
  BY <1>1, <1>2 DEF CellsHold

(* The steps, one by one, as the proofs below take them. *)
Swaps      == \E l, m \in DOMAIN core : SwapAssemblies(l, m)
Discharges == \E l \in DOMAIN core, incoming \in pool \cup {Replacement} : DischargeSwap(incoming, l)
Areas      == \E l \in Measured \cap DOMAIN core : GetArea(l)

LEMMA Steps ==
  Next <=> \/ Swaps \/ Discharges \/ Solve \/ Areas
           \/ AddEdgeAssemblies \/ UndoEdgeAssemblies \/ SolveFails
           \/ Convert \/ ConvertFails \/ RestorePreviousGeometry \/ StaysFull
           \/ Failed
BY DEF Next, Swaps, Discharges, Areas, Replacement

LEMMA CellsStep == CellsHold /\ [Next]_vars => CellsHold'
<1> SUFFICES ASSUME CellsHold, [Next]_vars
             PROVE  CellsHold'
  OBVIOUS
<1> USE Steps
<1>1. /\ assigned \in [Params -> SUBSET ANYTHING] /\ changer.scaled \subseteq Params
      /\ core \in [DOMAIN core -> AssemblyAt(cycle)] /\ Phase
  BY DEF CellsHold, Assembly
<1>2. CASE Swaps
  <2>1. PICK l \in DOMAIN core, m \in DOMAIN core : SwapAssemblies(l, m)
    BY <1>2 DEF Swaps
  <2>2. Shuffle
    BY <2>1 DEF SwapAssemblies
  <2>3. Shuffled /\ assigned' \in [Params -> SUBSET ANYTHING]
    BY <2>1, SwapEffect
  <2> QED
    BY <2>2, <2>3, ShuffledCells
<1>3. CASE Discharges
  <2>1. PICK l \in DOMAIN core, incoming \in pool \cup {Replacement} : DischargeSwap(incoming, l)
    BY <1>3 DEF Discharges
  <2>2. Shuffle
    BY <2>1 DEF DischargeSwap
  <2>3. Shuffled /\ assigned' = [Touched EXCEPT !["mass"] = ANYTHING]
    BY <2>1, DischargeEffect
  <2>4. "mass" \in Params
    BY DEF Params
  <2> QED
    BY <1>1, <2>2, <2>3, <2>4, Assignments, ShuffledCells
<1>4. CASE Solve
  <2>1. DOMAIN core' = DOMAIN core /\ core' \in [DOMAIN core -> AssemblyAt(cycle)]
    BY <1>4, SolveEffect
  <2>2. UNCHANGED <<symmetry, pool, stationary, use, changer, cycle>>
        /\ assigned' = [assigned EXCEPT !["power"] = ANYTHING]
    BY <1>4 DEF Solve
  <2>3. "power" \in Params
    BY DEF Params
  <2>4. Phase'
    BY <1>1, <2>1, <2>2 DEF Phase
  <2> QED
    BY <1>1, <2>1, <2>2, <2>3, <2>4, Assignments, CellsWithinCycle
<1>5. CASE Areas
  <2>1. PICK l \in DOMAIN core : GetArea(l)
    BY <1>5 DEF Areas
  <2>2. DOMAIN core' = DOMAIN core /\ core' \in [DOMAIN core -> AssemblyAt(cycle)]
    BY <2>1, GetAreaEffect
  <2>3. UNCHANGED <<symmetry, pool, assigned, stationary, use, changer, cycle>>
    BY <2>1 DEF GetArea
  <2>4. Phase'
    BY <1>1, <2>2, <2>3 DEF Phase
  <2> QED
    BY <1>1, <2>2, <2>3, <2>4, CellsWithinCycle
<1>6. CASE AddEdgeAssemblies
  <2>1. DOMAIN core' = Filled \cup Reflected /\ core' \in [Filled \cup Reflected -> AssemblyAt(cycle)]
    BY <1>6, AddEffect
  <2>2. /\ UNCHANGED <<symmetry, pool, stationary, changer, cycle>>
        /\ assigned' = SinceGeometry /\ symmetry = "third" /\ use' = "edges"
    BY <1>6 DEF AddEdgeAssemblies
  <2>3. Phase'
    BY <2>1, <2>2 DEF Phase
  <2> QED
    BY <1>1, <2>1, <2>2, <2>3, Assignments, CellsWithinCycle
<1>7. CASE UndoEdgeAssemblies
  <2>1. DOMAIN core' = Filled /\ core' \in [Filled -> AssemblyAt(cycle)]
    BY <1>7, UndoEffect
  <2>2. /\ UNCHANGED <<symmetry, pool, stationary, changer, cycle>>
        /\ assigned' = TouchedBy(Upper) /\ use = "edges" /\ use' = "none"
    BY <1>7 DEF UndoEdgeAssemblies
  <2>3. symmetry = "third"
    BY <1>1, <2>2 DEF Phase
  <2>4. Phase'
    BY <2>1, <2>2, <2>3 DEF Phase
  <2> QED
    BY <1>1, <2>1, <2>2, <2>4, Assignments, CellsWithinCycle
<1>8. CASE SolveFails
  <2>1. /\ UNCHANGED <<symmetry, core, pool, assigned, stationary, changer, cycle>>
        /\ use = "edges" /\ use' = "failed"
    BY <1>8 DEF SolveFails
  <2>2. symmetry = "third"
    BY <1>1, <2>1 DEF Phase
  <2>3. Phase'
    BY <2>1, <2>2 DEF Phase
  <2> QED
    BY <1>1, <2>1, <2>3, CellsWithinCycle
<1>9. CASE Convert
  <2>1. /\ DOMAIN core' = Filled \cup Images /\ core' \in [Filled \cup Images -> AssemblyAt(cycle)]
        /\ changer' = [added |-> Images, scaled |-> {x \in Params : "GEOM" \in assigned[x]}]
    BY <1>9, ConvertEffect
  <2>2. /\ UNCHANGED <<pool, stationary, cycle>>
        /\ assigned' \in {assigned, Touched} /\ symmetry' = "full" /\ use' = "grown"
    BY <1>9 DEF Convert, TouchedBy
  <2>3. changer'.scaled \subseteq Params /\ changer'.added = Images
    BY <2>1
  <2>4. Phase'
    BY <2>1, <2>2, <2>3 DEF Phase
  <2> QED
    BY <1>1, <2>1, <2>2, <2>3, <2>4, Assignments, CellsWithinCycle
<1>10. CASE ConvertFails
  <2>1. /\ UNCHANGED <<symmetry, core, pool, assigned, stationary, changer, cycle>>
        /\ symmetry = "third" /\ use' = "failed"
    BY <1>10 DEF ConvertFails
  <2>2. Phase'
    BY <2>1 DEF Phase
  <2> QED
    BY <1>1, <2>1, <2>2, CellsWithinCycle
<1>11. CASE RestorePreviousGeometry
  <2>1. /\ UNCHANGED <<pool, stationary, cycle>> /\ changer' = NoConverter /\ use' = "none"
        /\ assigned' \in [Params -> SUBSET ANYTHING]
    BY <1>1, <1>11, RestoreStep, Assignments
  <2>2. changer'.scaled \subseteq Params
    BY <2>1 DEF NoConverter
  <2>3. CASE Images # {}
    <3>1. DOMAIN core' = Filled /\ core' \in [Filled -> AssemblyAt(cycle)] /\ symmetry' = "third"
      BY <1>11, <2>3, RestoreEffect, RestoreStep
    <3>2. Phase'
      BY <2>1, <3>1 DEF Phase
    <3> QED
      BY <2>1, <2>2, <3>1, <3>2, CellsWithinCycle
  <2>4. CASE Images = {}
    <3>1. UNCHANGED <<symmetry, core>> /\ symmetry = "full" /\ DOMAIN core = Filled \cup Images
      BY <1>11, <2>4, RestoreStep
    <3>2. Phase'
      BY <2>1, <3>1 DEF Phase
    <3> QED
      BY <1>1, <2>1, <2>2, <3>1, <3>2, CellsWithinCycle
  <2> QED
    BY <2>3, <2>4
<1>12. CASE StaysFull
  <2>1. /\ UNCHANGED <<symmetry, core, pool, assigned, stationary, cycle>>
        /\ use = "grown" /\ use' = "none" /\ changer' = NoConverter
    BY <1>12 DEF StaysFull
  <2>2. changer'.scaled \subseteq Params
    BY <2>1 DEF NoConverter
  <2>3. Phase'
    BY <1>1, <2>1 DEF Phase
  <2> QED
    BY <1>1, <2>1, <2>2, <2>3, CellsWithinCycle
<1>13. CASE UNCHANGED vars
  BY <1>13 DEF CellsHold, Phase, Assembly, vars
<1>14. CASE Failed
  BY <1>13, <1>14 DEF Failed
<1> QED
  BY <1>2, <1>3, <1>4, <1>5, <1>6, <1>7, <1>8, <1>9, <1>10, <1>11, <1>12, <1>13, <1>14


LEMMA InitFacts ==
  ASSUME Init
  PROVE  /\ DOMAIN core = Filled /\ core \in [Filled -> AssemblyAt(0)] /\ cycle = 0
         /\ \A l \in Filled :
              /\ core[l].hist = <<IndicesToRingPos(l)>>
              /\ \A q \in Parts :
                   LET b == core[l].block[q]
                   IN  /\ b.area = NotCached /\ b.p["power"] = Unsolved
                       /\ b.p["mass"] = Whole(b) \div FactorIn("third", Filled, l)
<1>1. ASSUME NEW l \in Filled
      PROVE  LET a == Scaled(NewAssembly(Number[l], <<IndicesToRingPos(l)>>), Params,
                             1, FactorIn("third", Filled, l))
             IN  /\ a \in AssemblyAt(0) /\ a.hist = <<IndicesToRingPos(l)>>
                 /\ \A q \in Parts :
                      LET b == a.block[q]
                      IN  /\ b.area = NotCached /\ b.p["power"] = Unsolved
                          /\ b.p["mass"] = Whole(b) \div FactorIn("third", Filled, l)
  <2>1. PICK n \in Nat \ {0} : n = Number[l]
    BY Numbers
  <2>2. PICK h : h = <<IndicesToRingPos(l)>>
    OBVIOUS
  <2>3. h \in [1 .. 0 + 1 -> Places] /\ 0 \in Int
    BY <2>2, FilledFacts, PositionsTell
  <2>4. PICK f \in {1, 2, 3} : f = FactorIn("third", Filled, l)
    BY Factors
  <2>5. PICK a \in AssemblyAt(0) : a = NewAssembly(n, h)
    BY <2>3, NewFacts
  <2>6. /\ a.hist = h
        /\ \A q \in Parts : /\ a.block[q].area = NotCached /\ a.block[q].p["power"] = Unsolved
                           /\ a.block[q].p["mass"] = Whole(a.block[q])
                           /\ a.block[q] \in Block
    BY <2>3, <2>5, NewFacts, AssemblyParts
  <2>7. Params \in SUBSET Params /\ "power" \in Params /\ "mass" \in Params
    BY DEF Params
  <2>8. PICK s : s = Scaled(a, Params, 1, f)
    OBVIOUS
  <2>9. /\ s \in AssemblyAt(0) /\ s.hist = a.hist
        /\ \A q \in Parts :
             /\ s.block[q].of = a.block[q].of /\ s.block[q].area = a.block[q].area
             /\ s.block[q].p["power"] = (a.block[q].p["power"] * 1) \div f
             /\ s.block[q].p["mass"] = (a.block[q].p["mass"] * 1) \div f
    BY SMTT(30), <2>3, <2>7, <2>8, ScaledFacts
  <2>10. ASSUME NEW q \in Parts
         PROVE  /\ s.block[q].p["power"] = Unsolved
                /\ s.block[q].p["mass"] = Whole(s.block[q]) \div f
    <3>1. Whole(s.block[q]) = Whole(a.block[q])
      BY <2>9 DEF Whole
    <3>2. PICK w \in Nat : w = Whole(a.block[q])
      BY <2>6, WholeFacts
    <3>3. w * 1 = w /\ (0 * 1) \div f = 0
      OBVIOUS
    <3> QED
      BY <2>6, <2>9, <3>1, <3>2, <3>3 DEF Unsolved
  <2> QED
    BY SMTT(30), <2>1, <2>2, <2>4, <2>5, <2>6, <2>8, <2>9, <2>10
<1>2. core = [l \in Filled |-> Scaled(NewAssembly(Number[l], <<IndicesToRingPos(l)>>), Params,
                                      1, FactorIn("third", Filled, l))] /\ cycle = 0
  BY DEF Init
<1> QED
  BY <1>1, <1>2

LEMMA CellsInit == Init => CellsHold
<1> SUFFICES ASSUME Init
             PROVE  CellsHold
  OBVIOUS
<1>1. DOMAIN core = Filled /\ core \in [Filled -> AssemblyAt(0)] /\ cycle = 0
  BY InitFacts
<1>2. /\ symmetry = "third" /\ use = "none" /\ pool = {} /\ stationary \in {{}, {"plate"}}
      /\ assigned = [x \in Params |-> IF x = "mass" THEN ANYTHING ELSE {}]
      /\ changer = NoConverter
  BY DEF Init
<1>3. Phase
  BY <1>1, <1>2 DEF Phase
<1>4. core \in [DOMAIN core -> Assembly] /\ pool \subseteq Assembly
  BY <1>1, <1>2 DEF Assembly
<1>5. stationary \subseteq Parts /\ assigned \in [Params -> SUBSET ANYTHING]
      /\ changer.scaled \subseteq Params
  BY <1>2 DEF Parts, NoConverter
<1> QED
  BY <1>1, <1>3, <1>4, <1>5 DEF CellsHold

LEMMA CellsAlways == Spec => []CellsHold
BY CellsInit, CellsStep, PTL DEF Spec
-----------------------------------------------------------------------------
(* Caches. *)

LEMMA CachesStep == CellsHold /\ CellsHold' /\ CachesHold /\ [Next]_vars => CachesHold'
<1> SUFFICES ASSUME CellsHold, CellsHold', CachesHold, [Next]_vars
             PROVE  CachesHold'
  OBVIOUS
<1> USE Steps
<1> DEFINE Current(c) == \A q \in Parts : core'[c].block[q].area \in {NotCached, Factor(c)'}
<1>1. SUFFICES ASSUME use' # "failed", NEW c \in DOMAIN core'
               PROVE  Current(c)
  BY DEF CachesHold
(* The symmetry factors stay, and an area stays or is forgotten or is      *)
(* that of the present factor.                                             *)
<1>2. ASSUME use # "failed", UNCHANGED symmetry, DOMAIN core' = DOMAIN core,
             \A q \in Parts : core'[c].block[q].area \in {NotCached, core[c].block[q].area, Factor(c)}
      PROVE  Current(c)
  BY <1>1, <1>2, FactorsKept DEF CachesHold
<1>3. CASE Swaps
  <2>1. PICK l \in DOMAIN core, m \in DOMAIN core : SwapAssemblies(l, m)
    BY <1>3 DEF Swaps
  <2>2. Shuffle
    BY <2>1 DEF SwapAssemblies
  <2>3. use = "none" /\ UNCHANGED symmetry
    BY <2>2, ShufflesKeep
  <2>4. DOMAIN core' = DOMAIN core
    BY <2>1, SwapEffect DEF Shuffled
  <2>5. \A q \in Parts : core'[c].block[q].area \in {NotCached, core[c].block[q].area}
    BY <1>1, <2>1, <2>4, SwapEffect DEF Carried
  <2> QED
    BY <1>2, <2>3, <2>4, <2>5
<1>4. CASE Discharges
  <2>1. PICK l \in DOMAIN core, incoming \in pool \cup {Replacement} : DischargeSwap(incoming, l)
    BY <1>4 DEF Discharges
  <2>2. Shuffle
    BY <2>1 DEF DischargeSwap
  <2>3. use = "none" /\ UNCHANGED symmetry
    BY <2>2, ShufflesKeep
  <2>4. DOMAIN core' = DOMAIN core
    BY <2>1, DischargeEffect DEF Shuffled
  <2>5. \A q \in Parts : core'[c].block[q].area \in {NotCached, core[c].block[q].area}
    <3>1. \A d \in DOMAIN core, q \in Parts :
            \/ \E f \in {1, 2, 3} : /\ Carried(core'[d].block[q], core[d].block[q], core[d].block[q], f, Factor(d))
                                    /\ ~PlatesAtCentre => f = Factor(d)
            \/ q \notin stationary /\ Carried(core'[d].block[q], core[d].block[q], incoming.block[q], 1, Factor(d))
      BY <2>1, DischargeEffect
    <3>2. \A new, old, b, f, g :
            Carried(new, old, b, f, g) => new.area \in {NotCached, old.area}
      BY Zenon DEF Carried
    <3>3. c \in DOMAIN core
      BY <1>1, <2>4
    <3>4. ASSUME NEW q \in Parts
          PROVE  core'[c].block[q].area \in {NotCached, core[c].block[q].area}
      <4>1. CASE \E f \in {1, 2, 3} :
                   Carried(core'[c].block[q], core[c].block[q], core[c].block[q], f, Factor(c))
        BY <3>2, <4>1
      <4>2. CASE Carried(core'[c].block[q], core[c].block[q], incoming.block[q], 1, Factor(c))
        BY <3>2, <4>2
      <4> QED
        BY <3>1, <3>3, <4>1, <4>2
    <3> QED
      BY <3>4
  <2> QED
    BY <1>2, <2>3, <2>4, <2>5
<1>5. CASE Solve
  <2>1. use # "failed" /\ UNCHANGED symmetry /\ DOMAIN core' = DOMAIN core
    BY <1>5, SolveEffect DEF Solve
  <2>2. \A q \in Parts : core'[c].block[q].area = core[c].block[q].area
    BY <1>1, <1>5, <2>1, SolveEffect
  <2> QED
    BY <1>2, <2>1, <2>2
<1>6. CASE Areas
  <2>1. PICK l \in DOMAIN core : GetArea(l)
    BY <1>6 DEF Areas
  <2>2. use # "failed" /\ UNCHANGED symmetry /\ DOMAIN core' = DOMAIN core
    BY <2>1, GetAreaEffect DEF GetArea
  <2>3. \A q \in Parts : core'[c].block[q].area \in {core[c].block[q].area, Factor(c)}
    BY <1>1, <2>1, <2>2, GetAreaEffect
  <2> QED
    BY <1>2, <2>2, <2>3
<1>7. CASE AddEdgeAssemblies
  <2>1. /\ symmetry = "third" /\ symmetry' = "third" /\ use = "none"
        /\ DOMAIN core = Filled /\ DOMAIN core' = Filled \cup Reflected
    BY <1>7, AddEffect DEF AddEdgeAssemblies
  <2>2. CASE c \in Filled \ OnLowerLine
    <3>1. Factor(c)' = Factor(c)
      BY <2>1, <2>2, Factors DEF Factor
    <3>2. \A q \in Parts : core'[c].block[q].area = core[c].block[q].area
      BY <1>7, <2>2, AddEffect
    <3>3. \A q \in Parts : core[c].block[q].area \in {NotCached, Factor(c)}
      BY <2>1, <2>2 DEF CachesHold
    <3> QED
      BY <3>1, <3>2, <3>3
  <2>3. CASE c \in OnLowerLine
    BY <1>7, <2>3, EdgeCells, AddEffect
  <2>4. CASE c \in Reflected
    BY <1>7, <2>4, EdgeCells, AddEffect
  <2> QED
    BY <1>1, <2>1, <2>2, <2>3, <2>4
<1>8. CASE UndoEdgeAssemblies
  <2>1. /\ use = "edges" /\ use' = "none" /\ UNCHANGED symmetry
        /\ DOMAIN core = Filled \cup Reflected /\ DOMAIN core' = Filled
    BY <1>8, UndoEffect DEF UndoEdgeAssemblies
  <2>2. symmetry = "third"
    BY <2>1 DEF CellsHold, Phase
  <2>3. CASE c \in OnLowerLine
    BY <1>8, <2>3, UndoEffect
  <2>4. CASE c \in Filled \ OnLowerLine
    <3>1. Factor(c)' = Factor(c)
      BY <2>1, <2>2, <2>4, Factors DEF Factor
    <3>2. core'[c] = core[c]
      BY <1>8, <2>4, UndoEffect
    <3>3. \A q \in Parts : core[c].block[q].area \in {NotCached, Factor(c)}
      BY <2>1, <2>4 DEF CachesHold
    <3> QED
      BY <3>1, <3>2, <3>3
  <2> QED
    BY <1>1, <2>1, <2>3, <2>4
<1>9. CASE SolveFails \/ ConvertFails
  BY <1>1, <1>9 DEF SolveFails, ConvertFails
<1>10. CASE Convert
  BY <1>1, <1>10, ConvertEffect
<1>11. CASE RestorePreviousGeometry
  <2>1. CASE Images # {}
    BY <1>1, <1>11, <2>1, RestoreEffect
  <2>2. CASE Images = {}
    <3>1. UNCHANGED <<symmetry, core>> /\ use # "failed"
      BY <1>11, <2>2, RestoreStep
    <3> QED
      BY <1>1, <1>2, <3>1
  <2> QED
    BY <2>1, <2>2
<1>12. CASE StaysFull \/ UNCHANGED vars \/ Failed
  <2>1. UNCHANGED <<symmetry, core>> /\ use # "failed"
    BY <1>1, <1>12 DEF StaysFull, Failed, vars
  <2> QED
    BY <1>1, <1>2, <2>1
<1> QED
  BY <1>3, <1>4, <1>5, <1>6, <1>7, <1>8, <1>9, <1>10, <1>11, <1>12

(* A cached area was divided by the symmetry factor that its cell has,     *)
(* whatever was shuffled, solved and converted since it was cached.        *)
THEOREM AreasAreCurrent == Spec => []AreaIsCurrent
<1>1. Init => CachesHold
  BY InitFacts DEF CachesHold
<1>2. CachesHold => AreaIsCurrent
  BY DEF CachesHold, AreaIsCurrent
<1> QED
  BY <1>1, <1>2, CellsAlways, CachesStep, PTL DEF Spec
-----------------------------------------------------------------------------
(* Location histories. *)

LEMMA ImageOfPlace ==
  ASSUME NEW c \in Cell, c # Centre
  PROVE  /\ InImage(IndicesToRingPos(c), 1) = IndicesToRingPos(Turn(c))
         /\ InImage(IndicesToRingPos(c), 2) = IndicesToRingPos(Turn(Turn(c)))
<1>1. /\ IndicesFromRingAndPos(IndicesToRingPos(c)[1], IndicesToRingPos(c)[2]) = c
      /\ IndicesToRingPos(c) \notin NotInCore
  BY PositionsTell
<1>2. SymmetricEquivalents(c) = <<Turn(c), Turn(Turn(c))>>
  BY FilledFacts
<1>3. SymmetricEquivalents(c)[1] = Turn(c) /\ SymmetricEquivalents(c)[2] = Turn(Turn(c))
  BY <1>2
<1> QED
  BY <1>1, <1>3 DEF InImage

LEMMA HistoriesStep == CellsHold /\ HistoriesHold /\ [Next]_vars => HistoriesHold'
<1> SUFFICES ASSUME CellsHold, HistoriesHold, [Next]_vars
             PROVE  HistoriesHold'
  OBVIOUS
<1> USE Steps
<1>1. "none" # "edges" /\ "none" # "grown" /\ "edges" # "grown" /\ "none" # "failed"
      /\ "edges" # "failed" /\ "grown" # "failed"
  OBVIOUS
(* Outside of conversions there is but the place of each assembly to tell. *)
<1>2. ASSUME use' = "none", \A c \in DOMAIN core' : core'[c].hist[cycle' + 1] = IndicesToRingPos(c)
      PROVE  HistoriesHold'
  BY <1>1, <1>2 DEF HistoriesHold, Has
<1>3. CASE Swaps \/ Discharges
  <2>1. Shuffle /\ Shuffled
    <3>1. CASE Swaps
      <4>1. PICK l \in DOMAIN core, m \in DOMAIN core : SwapAssemblies(l, m)
        BY <3>1 DEF Swaps
      <4> QED
        BY <4>1, SwapEffect DEF SwapAssemblies
    <3>2. CASE Discharges
      <4>1. PICK l \in DOMAIN core, incoming \in pool \cup {Replacement} : DischargeSwap(incoming, l)
        BY <3>2 DEF Discharges
      <4>2. Shuffled
        BY <4>1, DischargeEffect
      <4> QED
        BY <4>1, <4>2 DEF DischargeSwap
    <3> QED
      BY <1>3, <3>1, <3>2
  <2>2. use' = "none"
    BY <2>1, ShufflesKeep
  <2> QED
    BY <1>2, <2>1, <2>2 DEF Shuffled
(* Steps that change no history and no cell. *)
<1>4. ASSUME UNCHANGED <<use, cycle, original>>, DOMAIN core' = DOMAIN core,
             \A c \in DOMAIN core : core'[c].hist = core[c].hist
      PROVE  HistoriesHold'
  <2>1. use = "edges" => Filled \subseteq DOMAIN core
    BY <1>1, CellFacts
  <2>2. use = "grown" => \A l \in Filled \ {Centre} :
          l \in DOMAIN core /\ Turn(l) \in DOMAIN core /\ Turn(Turn(l)) \in DOMAIN core
    BY <1>1, ImageCells DEF CellsHold, Phase
  <2> QED
    BY <1>4, <2>1, <2>2 DEF HistoriesHold, Has
<1>5. CASE Solve
  BY <1>4, <1>5, SolveEffect DEF Solve
<1>6. CASE Areas
  <2>1. PICK l \in DOMAIN core : GetArea(l)
    BY <1>6 DEF Areas
  <2> QED
    BY <1>4, <2>1, GetAreaEffect DEF GetArea
<1>7. CASE UNCHANGED vars \/ Failed
  BY <1>4, <1>7 DEF vars, Failed
<1>8. CASE SolveFails \/ ConvertFails
  BY <1>1, <1>8 DEF SolveFails, ConvertFails, HistoriesHold
<1>9. CASE AddEdgeAssemblies
  <2>1. use = "none" /\ use' = "edges" /\ UNCHANGED cycle /\ original' = core
    BY <1>9 DEF AddEdgeAssemblies
  <2>2. DOMAIN core = Filled /\ \A l \in Filled : core'[l].hist = core[l].hist
    BY <1>9, AddEffect
  <2> QED
    BY <1>1, <2>1, <2>2 DEF HistoriesHold, Has
<1>10. CASE UndoEdgeAssemblies
  <2>1. use = "edges" /\ use' = "none" /\ UNCHANGED cycle
    BY <1>10 DEF UndoEdgeAssemblies
  <2>2. DOMAIN core' = Filled /\ \A l \in Filled : core'[l].hist = core[l].hist
    BY <1>10, UndoEffect
  <2>3. \A l \in Filled : core[l].hist[cycle + 1] = IndicesToRingPos(l)
    BY <1>1, <2>1 DEF HistoriesHold, Has
  <2> QED
    BY <1>2, <2>1, <2>2, <2>3
<1>11. CASE Convert
  <2>1. use = "none" /\ use' = "grown" /\ UNCHANGED cycle /\ original' = core /\ cycle \in Nat
    BY <1>11 DEF Convert, CellsHold
  <2>2. DOMAIN core = Filled /\ DOMAIN core' = Filled \cup Images
    BY <1>11, ConvertEffect
  <2>3. /\ core'[Centre].hist = core[Centre].hist
        /\ \A l \in Filled \ {Centre} :
             /\ core'[l].hist = core[l].hist
             /\ \A n \in 1 .. cycle + 1 :
                  /\ core[l].hist[n] # IndicesToRingPos(Centre)
                  /\ core'[Turn(l)].hist[n] = InImage(core[l].hist[n], 1)
                  /\ core'[Turn(Turn(l))].hist[n] = InImage(core[l].hist[n], 2)
    BY <1>11, ConvertEffect
  <2>4. \A l \in Filled : core[l].hist[cycle + 1] = IndicesToRingPos(l)
    BY <2>1, <2>2 DEF HistoriesHold, Has
  <2>5. \A c \in Filled : core'[c].hist[cycle + 1] = IndicesToRingPos(c)
    BY <2>3, <2>4
  <2>6. \A c \in Images : core'[c].hist[cycle + 1] = IndicesToRingPos(c)
    <3>1. ASSUME NEW l \in Filled \ {Centre}
          PROVE  /\ core'[Turn(l)].hist[cycle + 1] = IndicesToRingPos(Turn(l))
                 /\ core'[Turn(Turn(l))].hist[cycle + 1] = IndicesToRingPos(Turn(Turn(l)))
      <4>1. l \in Cell /\ l # Centre /\ cycle + 1 \in 1 .. cycle + 1
        BY <2>1, FilledFacts
      <4> QED
        BY <2>3, <2>4, <4>1, ImageOfPlace
    <3> TAKE c \in Images
    <3>2. PICK l \in Filled \ {Centre} : c = Turn(l) \/ c = Turn(Turn(l))
      BY ImageCells
    <3> QED
      BY <3>1, <3>2
  <2>7. \A l \in DOMAIN core' : Has(core[l], IndicesToRingPos(l))'
    BY <2>1, <2>2, <2>5, <2>6 DEF Has
  <2> QED
    BY <1>1, <2>1, <2>2, <2>3, <2>7 DEF HistoriesHold
<1>12. CASE RestorePreviousGeometry
  <2>1. use = "grown" /\ use' = "none" /\ UNCHANGED cycle
    BY <1>12 DEF RestorePreviousGeometry
  <2>2. /\ DOMAIN core = Filled \cup Images /\ DOMAIN core' = Filled
        /\ \A l \in Filled : core'[l].hist = core[l].hist
    <3>1. CASE Images # {}
      BY <1>12, <3>1, RestoreEffect
    <3>2. CASE Images = {}
      BY <1>12, <3>2, RestoreStep
    <3> QED
      BY <3>1, <3>2
  <2>3. \A l \in Filled : core[l].hist[cycle + 1] = IndicesToRingPos(l)
    BY <2>1, <2>2 DEF HistoriesHold, Has
  <2> QED
    BY <1>2, <2>1, <2>2, <2>3
<1>13. CASE StaysFull
  <2>1. use = "grown" /\ use' = "none" /\ UNCHANGED <<core, cycle>>
    BY <1>13 DEF StaysFull
  <2> QED
    BY <1>2, <2>1 DEF HistoriesHold, Has
<1> QED
  BY <1>3, <1>5, <1>6, <1>7, <1>8, <1>9, <1>10, <1>11, <1>12, <1>13

LEMMA HistoriesTell == CellsHold /\ HistoriesHold => HistoriesFollow
<1> SUFFICES ASSUME CellsHold, HistoriesHold
             PROVE  HistoriesFollow
  OBVIOUS
<1>1. ASSUME use \in {"none", "grown"}, NEW l \in DOMAIN core
      PROVE  core[l].hist[Len(core[l].hist)] = IndicesToRingPos(l)
  <2>1. core[l] \in AssemblyAt(cycle) /\ cycle \in Nat
    BY CellFacts DEF CellsHold
  <2>2. PICK hist \in [1 .. cycle + 1 -> Places] : hist = core[l].hist
    BY <2>1, AssemblyParts
  <2>3. Len(hist) = cycle + 1
    <3>1. hist \in Seq(Places)
      BY <2>1, SeqDef
    <3> QED
      BY <2>1, <3>1
  <2> QED
    BY <1>1, <2>2, <2>3 DEF HistoriesHold, Has
<1>2. ASSUME use = "grown", NEW l \in DOMAIN original \ {Centre}, NEW n \in DOMAIN core[l].hist
      PROVE  LET was(m) == core[m].hist[n]
                 Cells(m) == IndicesFromRingAndPos(was(m)[1], was(m)[2])
             IN  IF was(l) \in NotInCore THEN {was(Turn(l)), was(Turn(Turn(l)))} = {was(l)}
                 ELSE Cells(Turn(l)) = Turn(Cells(l)) /\ Cells(Turn(Turn(l))) = Turn(Turn(Cells(l)))
  <2>1. l \in Filled \ {Centre}
    BY <1>2 DEF HistoriesHold
  <2>2. core[l] \in AssemblyAt(cycle) /\ cycle \in Nat
    BY <1>2, <2>1, CellFacts DEF CellsHold
  <2>3. n \in 1 .. cycle + 1 /\ core[l].hist[n] \in Places
    BY <2>2, AssemblyParts
  <2>4. PICK place \in Places : place = core[l].hist[n]
    BY <2>3
  <2>5. /\ place # IndicesToRingPos(Centre)
        /\ core[Turn(l)].hist[n] = InImage(place, 1)
        /\ core[Turn(Turn(l))].hist[n] = InImage(place, 2)
    BY <1>2, <2>1, <2>3, <2>4 DEF HistoriesHold
  <2>6. CASE place \in NotInCore
    BY <2>4, <2>5, <2>6 DEF InImage
  <2>7. CASE place \notin NotInCore
    <3>1. PICK c \in Cell : place = IndicesToRingPos(c)
      BY <2>7 DEF Places
    <3>2. c # Centre
      BY <2>5, <3>1
    <3>3. Turn(c) \in Cell /\ Turn(Turn(c)) \in Cell
      BY ThreeTurns
    <3>4. \A d \in Cell : IndicesFromRingAndPos(IndicesToRingPos(d)[1], IndicesToRingPos(d)[2]) = d
      BY PositionsTell
    <3>5. /\ core[Turn(l)].hist[n] = IndicesToRingPos(Turn(c))
          /\ core[Turn(Turn(l))].hist[n] = IndicesToRingPos(Turn(Turn(c)))
      BY <2>5, <3>1, <3>2, ImageOfPlace
    <3> QED
      BY <2>4, <2>7, <3>1, <3>3, <3>4, <3>5, Zenon
  <2> QED
    BY <2>6, <2>7
<1> QED
  BY <1>1, <1>2 DEF HistoriesFollow

(* The last entry of an assembly's location history is where it is, and    *)
(* the copies that a full core is made of have been where a third and two  *)
(* thirds of a turn take their source, in every cycle.                     *)
THEOREM HistoriesAreFollowed == Spec => []HistoriesFollow
<1>1. Init => HistoriesHold
  <2> SUFFICES ASSUME Init
               PROVE  HistoriesHold
    OBVIOUS
  <2>1. use = "none" /\ "none" # "edges" /\ "none" # "grown"
    BY DEF Init
  <2>2. \A l \in DOMAIN core : core[l].hist[cycle + 1] = IndicesToRingPos(l)
    BY InitFacts
  <2> QED
    BY <2>1, <2>2 DEF HistoriesHold, Has
<1> QED
  BY <1>1, CellsAlways, HistoriesStep, HistoriesTell, PTL DEF Spec
-----------------------------------------------------------------------------
(* Conversions. *)

LEMMA EdgesStep == CellsHold /\ EdgesHold /\ [Next]_vars => EdgesHold'
<1> SUFFICES ASSUME CellsHold, EdgesHold, [Next]_vars, use' = "edges"
             PROVE  "GEOM" \notin assigned'["mass"]
  BY DEF EdgesHold
<1> USE Steps
<1>1. "none" # "edges" /\ "grown" # "edges" /\ "failed" # "edges"
  OBVIOUS
<1>2. /\ "mass" \in Params /\ "power" \in Params /\ "mass" # "power"
      /\ assigned \in [Params -> SUBSET ANYTHING]
  BY DEF Params, CellsHold
<1>3. CASE AddEdgeAssemblies
  BY <1>2, <1>3, Assignments DEF AddEdgeAssemblies
<1>4. CASE Solve
  <2>1. UNCHANGED use /\ assigned' = [assigned EXCEPT !["power"] = ANYTHING]
    BY <1>4 DEF Solve
  <2> QED
    BY <1>2, <2>1 DEF EdgesHold
<1>5. CASE Areas \/ UNCHANGED vars \/ Failed
  BY <1>5 DEF Areas, GetArea, vars, Failed, EdgesHold
<1>6. CASE Swaps \/ Discharges
  <2>1. Shuffle
    BY <1>6 DEF Swaps, Discharges, SwapAssemblies, DischargeSwap
  <2> QED
    BY <1>1, <2>1, ShufflesKeep
<1>7. CASE \/ UndoEdgeAssemblies \/ SolveFails \/ Convert \/ ConvertFails
           \/ RestorePreviousGeometry \/ StaysFull
  BY <1>1, <1>7 DEF UndoEdgeAssemblies, SolveFails, Convert, ConvertFails,
    RestorePreviousGeometry, StaysFull
<1> QED
  BY <1>3, <1>4, <1>5, <1>6, <1>7

LEMMA MassesStep ==
  ASSUME FirstEdgeIsFilled
  PROVE  CellsHold /\ MassesHold /\ [Next]_vars => MassesHold'
<1> SUFFICES ASSUME CellsHold, MassesHold, [Next]_vars
             PROVE  MassesHold'
  OBVIOUS
<1> USE Steps
<1>1. "none" # "edges" /\ "none" # "grown" /\ "edges" # "grown" /\ "none" # "failed"
      /\ "edges" # "failed" /\ "grown" # "failed"
  OBVIOUS
<1>2. "mass" \in Params /\ "power" \in Params /\ "mass" # "power"
  BY DEF Params
<1>3. assigned \in [Params -> SUBSET ANYTHING] /\ "GEOM" \in ANYTHING /\ ANYTHING # {}
      /\ ANYTHING \ {"GEOM"} = {"SINCE"} /\ {"SINCE"} # {}
  <2>1. "GEOM" # "SINCE"
    OBVIOUS
  <2> QED
    BY <2>1 DEF CellsHold, ANYTHING
<1>4. Touched["mass"] = IF assigned["mass"] = {} THEN {} ELSE ANYTHING
  BY <1>2, <1>3, Assignments
<1>5. CASE Swaps \/ Discharges
  <2>1. Shuffle /\ (assigned'["mass"] \in {assigned["mass"], ANYTHING}
                    \/ assigned' = [Touched EXCEPT !["mass"] = ANYTHING])
    <3>1. CASE Swaps
      <4>1. PICK l \in DOMAIN core, m \in DOMAIN core : SwapAssemblies(l, m)
        BY <3>1 DEF Swaps
      <4> QED
        BY <1>2, <4>1, SwapEffect DEF SwapAssemblies
    <3>2. CASE Discharges
      <4>1. PICK l \in DOMAIN core, incoming \in pool \cup {Replacement} : DischargeSwap(incoming, l)
        BY <3>2 DEF Discharges
      <4> QED
        BY <4>1 DEF DischargeSwap
    <3> QED
      BY <1>5, <3>1, <3>2
  <2>2. use = "none" /\ use' = "none"
    BY <2>1, ShufflesKeep
  <2>3. assigned["mass"] = ANYTHING
    BY <2>2 DEF MassesHold
  <2>4. assigned'["mass"] = ANYTHING
    <3>1. Touched["mass"] = ANYTHING /\ Touched \in [Params -> SUBSET ANYTHING]
      BY <1>3, <1>4, <2>3, Assignments
    <3>2. [Touched EXCEPT !["mass"] = ANYTHING]["mass"] = ANYTHING
      BY <1>2, <3>1
    <3> QED
      BY <2>1, <2>3, <3>1, <3>2
  <2> QED
    BY <1>1, <2>2, <2>4 DEF MassesHold
<1>6. CASE Solve
  <2>1. UNCHANGED <<use, changer>> /\ assigned' = [assigned EXCEPT !["power"] = ANYTHING]
    BY <1>6 DEF Solve
  <2>2. assigned'["mass"] = assigned["mass"]
    BY <1>2, <1>3, <2>1
  <2> QED
    BY <2>1, <2>2 DEF MassesHold
<1>7. CASE Areas \/ UNCHANGED vars \/ Failed
  BY <1>7 DEF Areas, GetArea, vars, Failed, MassesHold
<1>8. CASE SolveFails \/ ConvertFails
  BY <1>1, <1>8 DEF SolveFails, ConvertFails, MassesHold
<1>9. CASE AddEdgeAssemblies
  <2>1. use = "none" /\ use' = "edges" /\ assigned' = SinceGeometry
    BY <1>9 DEF AddEdgeAssemblies
  <2>2. assigned'["mass"] = {"SINCE"}
    BY <1>2, <1>3, <2>1, Assignments DEF MassesHold
  <2> QED
    BY <1>1, <2>1, <2>2 DEF MassesHold
<1>10. CASE UndoEdgeAssemblies
  <2>1. use = "edges" /\ use' = "none" /\ assigned' = Touched
    <3>1. Upper # {}
      BY <1>10, EdgesAreThere, EdgeCells, UndoEffect
    <3> QED
      BY <1>10, <3>1 DEF UndoEdgeAssemblies, TouchedBy
  <2>2. assigned["mass"] = {"SINCE"}
    BY <2>1 DEF MassesHold
  <2> QED
    BY <1>1, <1>3, <1>4, <2>1, <2>2 DEF MassesHold
<1>11. CASE Convert
  <2>1. use = "none" /\ use' = "grown" /\ assigned' \in {assigned, Touched}
    BY <1>11 DEF Convert, TouchedBy
  <2>2. changer'.scaled = {x \in Params : "GEOM" \in assigned[x]}
    BY <1>11, ConvertEffect
  <2>3. assigned["mass"] = ANYTHING
    BY <2>1 DEF MassesHold
  <2> QED
    BY <1>1, <1>2, <1>3, <1>4, <2>1, <2>2, <2>3 DEF MassesHold
<1>12. CASE RestorePreviousGeometry
  <2>1. use = "grown" /\ use' = "none" /\ assigned' \in {assigned, Touched}
    BY <1>12, RestoreStep
  <2> QED
    BY <1>1, <1>3, <1>4, <2>1 DEF MassesHold
<1>13. CASE StaysFull
  BY <1>1, <1>13 DEF StaysFull, MassesHold
<1> QED
  BY <1>5, <1>6, <1>7, <1>8, <1>9, <1>10, <1>11, <1>12, <1>13

LEMMA OriginalStep == CellsHold /\ OriginalHolds /\ [Next]_vars => OriginalHolds'
<1> SUFFICES ASSUME CellsHold, OriginalHolds, [Next]_vars
             PROVE  OriginalHolds'
  OBVIOUS
<1> USE Steps
<1>1. "none" # "edges" /\ "none" # "grown" /\ "edges" # "grown" /\ "none" # "failed"
      /\ "edges" # "failed" /\ "grown" # "failed"
  OBVIOUS
<1>2. "mass" \in Params
  BY DEF Params
<1>3. ASSUME use' \notin {"edges", "grown"}
      PROVE  OriginalHolds'
  BY <1>1, <1>3 DEF OriginalHolds
<1>4. ASSUME UNCHANGED <<use, cycle, original, changer>>, DOMAIN core' = DOMAIN core,
             \A c \in DOMAIN core : SameAssembly(core'[c], core[c])
      PROVE  OriginalHolds'
  <2>1. use # "failed" => Filled \subseteq DOMAIN core
    BY CellFacts
  <2>2. Centre \in Filled
    BY FilledFacts
  <2>3. Assembly' = Assembly
    BY <1>4 DEF Assembly
  <2> QED
    BY <1>1, <1>4, <2>1, <2>2, <2>3 DEF OriginalHolds, SameAssembly
<1>5. CASE Swaps \/ Discharges
  <2>1. Shuffle
    BY <1>5 DEF Swaps, Discharges, SwapAssemblies, DischargeSwap
  <2> QED
    BY <1>1, <1>3, <2>1, ShufflesKeep
<1>6. CASE Solve
  BY <1>4, <1>6, SolveEffect DEF Solve, SameAssembly
<1>7. CASE Areas
  <2>1. PICK l \in DOMAIN core : GetArea(l)
    BY <1>7 DEF Areas
  <2> QED
    BY <1>4, <2>1, GetAreaEffect DEF GetArea, SameAssembly
<1>8. CASE UNCHANGED vars \/ Failed
  BY <1>4, <1>8 DEF vars, Failed, SameAssembly
<1>9. CASE SolveFails \/ ConvertFails \/ UndoEdgeAssemblies \/ RestorePreviousGeometry \/ StaysFull
  BY <1>1, <1>3, <1>9 DEF SolveFails, ConvertFails, UndoEdgeAssemblies, RestorePreviousGeometry, StaysFull
<1>10. CASE AddEdgeAssemblies
  <2>1. use' = "edges" /\ original' = core /\ UNCHANGED cycle
    BY <1>10 DEF AddEdgeAssemblies
  <2>2. original' \in [Filled -> Assembly']
    BY <1>10, <2>1, AddEffect DEF CellsHold, Assembly
  <2>3. \A l \in Filled : SameAssembly(core'[l], original'[l])
    BY <1>2, <1>10, <2>1, AddEffect DEF SameAssembly
  <2> QED
    BY <1>1, <2>1, <2>2, <2>3 DEF OriginalHolds, SameAssembly
<1>11. CASE Convert
  <2>1. use = "none" /\ use' = "grown" /\ original' = core /\ UNCHANGED cycle /\ cycle \in Int
    BY <1>11 DEF Convert, CellsHold
  <2>2. original' \in [Filled -> Assembly']
    BY <1>11, <2>1, ConvertEffect DEF CellsHold, Assembly
  <2>3. \A l \in Filled \ {Centre} : SameAssembly(core'[l], original'[l])
    BY <1>2, <1>11, <2>1, ConvertEffect DEF SameAssembly
  <2>4. "mass" \in changer'.scaled <=> "GEOM" \in assigned["mass"]
    BY <1>2, <1>11, ConvertEffect
  <2>5. ASSUME NEW q \in Parts
        PROVE  /\ core'[Centre].block[q].of = core[Centre].block[q].of
               /\ core'[Centre].block[q].p["mass"] = IF "mass" \in changer'.scaled
                    THEN 3 * core[Centre].block[q].p["mass"] ELSE core[Centre].block[q].p["mass"]
    <3>1. core[Centre] \in AssemblyAt(cycle)
      BY <1>11, FilledFacts, ConvertEffect, CellFacts
    <3>2. PICK v \in Nat : v = core[Centre].block[q].p["mass"]
      BY <1>2, <2>1, <3>1, AssemblyParts
    <3>3. /\ core'[Centre].block[q].of = core[Centre].block[q].of
          /\ core'[Centre].block[q].p["mass"] =
               IF "mass" \in changer'.scaled THEN (v * 3) \div 1 ELSE v
      BY <1>2, <1>11, <2>4, <3>2, ConvertEffect
    <3> QED
      BY <3>2, <3>3, ScaledValues
  <2>6. core'[Centre].hist = core[Centre].hist
    BY <1>11, ConvertEffect
  <2> QED
    BY <1>1, <2>1, <2>2, <2>3, <2>5, <2>6 DEF OriginalHolds, SameAssembly
<1> QED
  BY <1>5, <1>6, <1>7, <1>8, <1>9, <1>10, <1>11

(* Undoing a conversion gives back the core that was converted, with the   *)
(* histories and every parameter that was not solved for meanwhile.        *)
THEOREM ConversionsUndo == Spec => ConversionsAreUndone
<1> DEFINE Undone == use' = "none" /\ use # use' /\ symmetry' = "third" =>
                       /\ DOMAIN core' = DOMAIN original
                       /\ \A l \in DOMAIN original : SameAssembly(core'[l], original[l])
<1>1. ASSUME CellsHold, EdgesHold, OriginalHolds, [Next]_vars
      PROVE  [Undone]_vars
  <2> USE <1>1
  <2>1. CASE UndoEdgeAssemblies
    <3>1. use = "edges" /\ "edges" # "grown"
      BY <2>1 DEF UndoEdgeAssemblies
    <3>2. DOMAIN original = Filled /\ \A l \in Filled : SameAssembly(core[l], original[l])
      BY <3>1 DEF OriginalHolds
    <3>3. "GEOM" \notin assigned["mass"] /\ "mass" \in Params
      BY <3>1 DEF EdgesHold, Params
    <3>4. DOMAIN core' = Filled /\ \A l \in Filled : SameAssembly(core'[l], core[l])
      BY <2>1, <3>3, UndoEffect DEF SameAssembly
    <3> QED
      BY <3>2, <3>4 DEF SameAssembly
  <2>2. CASE RestorePreviousGeometry /\ symmetry' = "third"
    <3>1. use = "grown" /\ "edges" # "grown"
      BY <2>2 DEF RestorePreviousGeometry
    <3>2. Images # {}
      <4>1. "full" # "third"
        OBVIOUS
      <4> QED
        BY <2>2, <4>1, RestoreStep
    <3>3. /\ original \in [Filled -> AssemblyAt(cycle)] /\ cycle \in Int
          /\ \A l \in Filled \ {Centre} : SameAssembly(core[l], original[l])
          /\ core[Centre].hist = original[Centre].hist
          /\ \A q \in Parts :
               /\ core[Centre].block[q].of = original[Centre].block[q].of
               /\ core[Centre].block[q].p["mass"] = IF "mass" \in changer.scaled
                    THEN 3 * original[Centre].block[q].p["mass"] ELSE original[Centre].block[q].p["mass"]
      BY <3>1 DEF OriginalHolds, CellsHold, Assembly
    <3>4. "mass" \in Params
      BY DEF Params
    <3>5. DOMAIN core' = Filled /\ \A l \in Filled \ {Centre} : SameAssembly(core'[l], core[l])
      BY <2>2, <3>2, <3>4, RestoreEffect DEF SameAssembly
    <3>6. SameAssembly(core'[Centre], original[Centre])
      <4>1. core'[Centre].hist = original[Centre].hist
        BY <2>2, <3>2, <3>3, FilledFacts, RestoreEffect
      <4>2. ASSUME NEW q \in Parts
            PROVE  /\ core'[Centre].block[q].of = original[Centre].block[q].of
                   /\ core'[Centre].block[q].p["mass"] = original[Centre].block[q].p["mass"]
        <5>1. PICK v \in Nat : v = original[Centre].block[q].p["mass"]
          <6>1. original[Centre] \in AssemblyAt(cycle)
            BY <3>3, FilledFacts
          <6> QED
            BY <3>3, <3>4, <6>1, AssemblyParts
        <5>2. core[Centre].block[q].p["mass"] = IF "mass" \in changer.scaled THEN 3 * v ELSE v
          BY <3>3, <5>1
        <5>3. core'[Centre].block[q].p["mass"] =
                IF "mass" \in changer.scaled THEN (core[Centre].block[q].p["mass"] * 1) \div 3
                ELSE core[Centre].block[q].p["mass"]
          BY <2>2, <3>2, <3>4, RestoreEffect
        <5>4. ((3 * v) * 1) \div 3 = v
          OBVIOUS
        <5>5. core'[Centre].block[q].of = original[Centre].block[q].of
          BY <2>2, <3>2, <3>3, FilledFacts, RestoreEffect
        <5> QED
          BY <5>1, <5>2, <5>3, <5>4, <5>5
      <4> QED
        BY <4>1, <4>2 DEF SameAssembly
    <3> QED
      BY <3>3, <3>5, <3>6 DEF SameAssembly
  <2>3. CASE StaysFull
    <3>1. use = "grown" /\ UNCHANGED symmetry
      BY <2>3 DEF StaysFull
    <3>2. "grown" # "none" /\ "grown" # "edges" /\ "grown" # "failed" /\ "full" # "third"
      OBVIOUS
    <3> QED
      BY <3>1, <3>2 DEF CellsHold, Phase
  <2>4. CASE Swaps \/ Discharges
    <3>1. Shuffle
      BY <2>4 DEF Swaps, Discharges, SwapAssemblies, DischargeSwap
    <3> QED
      BY <3>1, ShufflesKeep
  <2>5. CASE Solve \/ Areas \/ Failed
    BY <2>5 DEF Solve, Areas, GetArea, Failed, vars
  <2>6. CASE AddEdgeAssemblies \/ SolveFails \/ Convert \/ ConvertFails
    <3>1. "edges" # "none" /\ "failed" # "none" /\ "grown" # "none"
      OBVIOUS
    <3> QED
      BY <2>6, <3>1 DEF AddEdgeAssemblies, SolveFails, Convert, ConvertFails
  <2> QED
    BY <1>1, <2>1, <2>2, <2>3, <2>4, <2>5, <2>6, Steps
<1>2. Init => EdgesHold /\ OriginalHolds
  <2>1. "none" # "edges" /\ "none" # "grown" /\ "mass" \in Params
    BY DEF Params
  <2> QED
    BY <2>1 DEF Init, EdgesHold, OriginalHolds
<1>3. CellsHold /\ EdgesHold /\ OriginalHolds /\ [Next]_vars => [Undone]_vars
  BY <1>1
<1>4. Spec => [][Undone]_vars
  BY <1>2, <1>3, CellsAlways, EdgesStep, OriginalStep, PTL DEF Spec
<1> QED
  BY <1>4 DEF ConversionsAreUndone
-----------------------------------------------------------------------------
(* Shares. *)

LEMMA BlocksTyped ==
  ASSUME CellsHold
  PROVE  \A q \in Parts : /\ \A l \in DOMAIN core : core[l].block[q] \in Block
                         /\ \A a \in pool : a.block[q] \in Block
<1>1. cycle \in Int
  BY DEF CellsHold
<1> QED
  BY <1>1, CellFacts, AssemblyParts

(* Stationary blocks keep their place and their values in every shuffle of *)
(* a core whose centre is not divided by three between them and others.    *)
THEOREM PlatesStay ==
  ASSUME ~PlatesAtCentre
  PROVE  Spec => StationaryStays
<1> DEFINE Stays == cycle' # cycle => \A l \in DOMAIN core, q \in stationary :
                      /\ core'[l].block[q].of = core[l].block[q].of
                      /\ core'[l].block[q].p = core[l].block[q].p
<1>1. ASSUME CellsHold, CellsHold', [Next]_vars, cycle' # cycle
      PROVE  Stays
  <2> USE <1>1
  <2>1. Shuffled /\ DOMAIN core' = DOMAIN core
        /\ \A c \in DOMAIN core, q \in Parts : q \in stationary =>
             Carried(core'[c].block[q], core[c].block[q], core[c].block[q], Factor(c), Factor(c))
    <3>1. CASE Swaps
      <4>1. PICK l \in DOMAIN core, m \in DOMAIN core : SwapAssemblies(l, m)
        BY <3>1 DEF Swaps
      <4> QED
        BY <4>1, SwapEffect DEF Shuffled
    <3>2. CASE Discharges
      <4>1. PICK l \in DOMAIN core, incoming \in pool \cup {Replacement} : DischargeSwap(incoming, l)
        BY <3>2 DEF Discharges
      <4>2. Shuffled /\ \A c \in DOMAIN core, q \in Parts :
              \/ \E f \in {1, 2, 3} :
                   /\ Carried(core'[c].block[q], core[c].block[q], core[c].block[q], f, Factor(c))
                   /\ ~PlatesAtCentre => f = Factor(c)
              \/ /\ q \notin stationary
                 /\ Carried(core'[c].block[q], core[c].block[q], incoming.block[q], 1, Factor(c))
        BY <4>1, DischargeEffect
      <4> QED
        BY <4>2 DEF Shuffled
    <3>3. CASE ~Swaps /\ ~Discharges
      BY <3>3, Steps DEF Solve, Areas, GetArea, AddEdgeAssemblies, UndoEdgeAssemblies, SolveFails,
        Convert, ConvertFails, RestorePreviousGeometry, StaysFull, Failed, vars
    <3> QED
      BY <3>1, <3>2, <3>3
  <2>2. ASSUME NEW c \in DOMAIN core, NEW q \in stationary
        PROVE  /\ core'[c].block[q].of = core[c].block[q].of
               /\ core'[c].block[q].p = core[c].block[q].p
    <3>1. q \in Parts
      BY DEF CellsHold
    <3>2. PICK b \in Block : b = core[c].block[q]
      BY <3>1, BlocksTyped
    <3>3. PICK new : new = core'[c].block[q]
      OBVIOUS
    <3>4. new \in Block
      <4>1. cycle' \in Int /\ core'[c] \in AssemblyAt(cycle')
        BY <2>1 DEF Shuffled
      <4> QED
        BY <3>1, <3>3, <4>1, AssemblyParts
    <3>5. PICK f \in {1, 2, 3} : f = Factor(c)
      BY CellFacts
    <3>6. Carried(new, b, b, f, f)
      BY <2>1, <3>1, <3>2, <3>3, <3>5
    <3>7. new.p \in [Params -> Nat] /\ b.p \in [Params -> Nat]
      BY <3>4 DEF Block
    <3>8. \A x \in Params : new.p[x] = b.p[x]
      <4> TAKE x \in Params
      <4>1. PICK v \in Nat : v = b.p[x]
        BY <3>7
      <4>2. (v * f) \div f = v
        BY ScaledValues
      <4>3. new.p[x] = (b.p[x] * f) \div f
        BY <3>6, Zenon DEF Carried
      <4> QED
        BY <4>1, <4>2, <4>3
    <3>9. new.p = b.p
      BY <3>7, <3>8
    <3>10. new.of = b.of
      BY <3>6, Zenon DEF Carried
    <3> QED
      BY <3>2, <3>3, <3>9, <3>10
  <2> QED
    BY <2>2
<1>2. CellsHold /\ CellsHold' /\ [Next]_vars => [Stays]_vars
  BY <1>1
<1>3. Spec => [][Stays]_vars
  BY <1>2, CellsAlways, PTL DEF Spec
<1> QED
  BY <1>3 DEF StationaryStays

LEMMA PowersStep ==
  ASSUME ~FirstSolvedFull, FirstEdgeIsFilled
  PROVE  CellsHold /\ PowersHold /\ [Next]_vars => PowersHold'
<1> SUFFICES ASSUME CellsHold, PowersHold, [Next]_vars
             PROVE  PowersHold'
  OBVIOUS
<1> USE Steps
<1>1. "none" # "edges" /\ "none" # "grown" /\ "edges" # "grown" /\ "none" # "failed"
      /\ "edges" # "failed" /\ "grown" # "failed"
  OBVIOUS
<1>2. "mass" \in Params /\ "power" \in Params /\ "mass" # "power"
  BY DEF Params
<1>3. "GEOM" \in ANYTHING /\ ANYTHING # {} /\ ANYTHING \ {"GEOM"} = {"SINCE"} /\ {"SINCE"} # {}
      /\ assigned \in [Params -> SUBSET ANYTHING]
  <2>1. "GEOM" # "SINCE"
    OBVIOUS
  <2> QED
    BY <2>1 DEF ANYTHING, CellsHold
<1>4. /\ Touched["power"] = IF assigned["power"] = {} THEN {} ELSE ANYTHING
      /\ [Touched EXCEPT !["mass"] = ANYTHING]["power"] = Touched["power"]
      /\ SinceGeometry["power"] = assigned["power"] \ {"GEOM"}
  BY <1>2, <1>3, Assignments
<1> DEFINE Unsolveds == \A q \in Parts :
               /\ \A l \in DOMAIN core : core[l].block[q].p["power"] = Unsolved
               /\ \A a \in pool : a.block[q].p["power"] = Unsolved
<1>6. \A f \in {1, 2, 3}, g \in {1, 2, 3} : (Unsolved * f) \div g = Unsolved
  BY DEF Unsolved
<1>7. \A c : Factor(c) \in {1, 2, 3}
  BY CellFacts
<1>8. CASE Swaps
  <2>1. PICK l \in DOMAIN core, m \in DOMAIN core : SwapAssemblies(l, m)
    BY <1>8 DEF Swaps
  <2>2. Shuffle
    BY <2>1 DEF SwapAssemblies
  <2>3. /\ use = "none" /\ use' = "none" /\ DOMAIN core' = DOMAIN core
        /\ assigned'["power"] \in {assigned["power"], ANYTHING}
    BY <1>2, <2>1, <2>2, SwapEffect, ShufflesKeep DEF Shuffled
  <2>4. assigned'["power"] \in {{}, ANYTHING} /\ (assigned'["power"] = {} => assigned["power"] = {})
    BY <1>3, <1>4, <2>3 DEF PowersHold
  <2>5. ASSUME assigned["power"] = {}
        PROVE  Unsolveds'
    <3>1. Unsolveds
      BY <1>1, <2>3, <2>5 DEF PowersHold
    <3>2. ASSUME NEW c \in DOMAIN core, NEW q \in Parts
          PROVE  core'[c].block[q].p["power"] = Unsolved
      <4>1. PICK d \in DOMAIN core, f \in {1, 2, 3} :
              Carried(core'[c].block[q], core[c].block[q], core[d].block[q], f, Factor(c))
        BY <2>1, SwapEffect
      <4>2. core'[c].block[q].p["power"] = (core[d].block[q].p["power"] * f) \div Factor(c)
        BY <1>2, <4>1, Zenon DEF Carried
      <4> QED
        BY <1>6, <1>7, <3>1, <4>2
    <3>3. \A a \in pool' : \E b \in pool : a.block = b.block
      BY <2>1, SwapEffect
    <3> QED
      BY <2>3, <3>1, <3>2, <3>3
  <2> QED
    BY <1>1, <2>3, <2>4, <2>5 DEF PowersHold
<1>9. CASE Discharges
  <2>1. PICK l \in DOMAIN core, incoming \in pool \cup {Replacement} : DischargeSwap(incoming, l)
    BY <1>9 DEF Discharges
  <2>2. Shuffle
    BY <2>1 DEF DischargeSwap
  <2>3. use = "none" /\ use' = "none" /\ assigned' = [Touched EXCEPT !["mass"] = ANYTHING]
        /\ DOMAIN core' = DOMAIN core
    BY <2>1, <2>2, DischargeEffect, ShufflesKeep DEF Shuffled
  <2>4. assigned'["power"] \in {{}, ANYTHING} /\ (assigned'["power"] = {} => assigned["power"] = {})
    BY <1>3, <1>4, <2>3 DEF PowersHold
  <2>5. ASSUME assigned["power"] = {}
        PROVE  Unsolveds'
    <3>1. Unsolveds
      BY <1>1, <2>3, <2>5 DEF PowersHold
    <3>2. \A q \in Parts : \A b \in pool \cup {incoming} : b.block[q].p["power"] = Unsolved
      BY <3>1, ReplacementFacts
    <3>3. ASSUME NEW c \in DOMAIN core, NEW q \in Parts
          PROVE  core'[c].block[q].p["power"] = Unsolved
      <4>1. \/ \E f \in {1, 2, 3} :
                 /\ Carried(core'[c].block[q], core[c].block[q], core[c].block[q], f, Factor(c))
                 /\ ~PlatesAtCentre => f = Factor(c)
            \/ /\ q \notin stationary
               /\ Carried(core'[c].block[q], core[c].block[q], incoming.block[q], 1, Factor(c))
        BY <2>1, DischargeEffect
      <4>2. \E f \in {1, 2, 3} : \E b \in {core[c].block[q], incoming.block[q]} :
              Carried(core'[c].block[q], core[c].block[q], b, f, Factor(c))
        BY <4>1
      <4>3. PICK f \in {1, 2, 3}, b \in {core[c].block[q], incoming.block[q]} :
              Carried(core'[c].block[q], core[c].block[q], b, f, Factor(c))
        BY <4>2
      <4>4. b.p["power"] = Unsolved
        BY <3>1, <3>2
      <4>5. core'[c].block[q].p["power"] = (b.p["power"] * f) \div Factor(c)
        BY <1>2, <4>3, Zenon DEF Carried
      <4> QED
        BY <1>6, <1>7, <4>4, <4>5
    <3>4. \A a \in pool', q \in Parts :
            \/ \E b \in pool \cup {incoming} : a.block[q] = b.block[q]
            \/ a.block[q] = core[l].block[q]
      BY <2>1, DischargeEffect
    <3>5. \A a \in pool', q \in Parts : a.block[q].p["power"] = Unsolved
      BY <3>1, <3>2, <3>4
    <3> QED
      BY <2>3, <3>3, <3>5
  <2> QED
    BY <1>1, <2>3, <2>4, <2>5 DEF PowersHold
<1>10. CASE Solve
  <2>1. /\ UNCHANGED <<use, changer>> /\ assigned' = [assigned EXCEPT !["power"] = ANYTHING]
        /\ use = "grown" => "power" \in changer.scaled
    BY <1>10 DEF Solve
  <2>2. assigned'["power"] = ANYTHING
    BY <1>2, <1>3, <2>1
  <2> QED
    BY <1>3, <2>1, <2>2 DEF PowersHold
<1>11. CASE Areas
  <2>1. PICK l \in DOMAIN core : GetArea(l)
    BY <1>11 DEF Areas
  <2>2. UNCHANGED <<use, assigned, changer, pool>>
    BY <2>1 DEF GetArea
  <2> QED
    BY <2>1, <2>2, GetAreaEffect DEF PowersHold
<1>12. CASE UNCHANGED vars \/ Failed
  BY <1>12 DEF vars, Failed, PowersHold
<1>13. CASE SolveFails \/ ConvertFails
  BY <1>1, <1>13 DEF SolveFails, ConvertFails, PowersHold
<1>14. CASE AddEdgeAssemblies
  <2>1. use = "none" /\ use' = "edges" /\ assigned' = SinceGeometry /\ UNCHANGED pool
    BY <1>14 DEF AddEdgeAssemblies
  <2>2. assigned'["power"] = {} => assigned["power"] = {}
    BY <1>3, <1>4, <2>1 DEF PowersHold
  <2>3. ASSUME assigned["power"] = {}
        PROVE  Unsolveds'
    <3>1. Unsolveds
      BY <1>1, <2>1, <2>3 DEF PowersHold
    <3>2. DOMAIN core = Filled /\ DOMAIN core' = Filled \cup Reflected
      BY <1>14, AddEffect
    <3>3. \A c \in Filled, q \in Parts : core'[c].block[q].p["power"] = Unsolved
      BY <1>14, <3>1, <3>2, AddEffect
    <3>4. ASSUME NEW c \in OnLowerLine, NEW q \in Parts
          PROVE  core'[Turn(c)].block[q].p["power"] = Unsolved
      <4>1. core'[Turn(c)].block[q].p["power"] =
              (core[c].block[q].p["power"] * 1) \div FactorIn("third", Filled \cup Reflected, Turn(c))
        BY <1>2, <1>14, AddEffect
      <4>2. c \in Filled
        BY EdgeCells
      <4>3. FactorIn("third", Filled \cup Reflected, Turn(c)) \in {1, 2, 3}
        BY Factors
      <4> QED
        BY <1>6, <3>1, <3>2, <4>1, <4>2, <4>3
    <3>5. \A c \in Reflected, q \in Parts : core'[c].block[q].p["power"] = Unsolved
      BY <3>4, EdgeCells
    <3> QED
      BY <2>1, <3>1, <3>2, <3>3, <3>5
  <2> QED
    BY <1>1, <2>1, <2>2, <2>3 DEF PowersHold
<1>15. CASE UndoEdgeAssemblies
  <2>1. use = "edges" /\ use' = "none" /\ assigned' = Touched /\ UNCHANGED pool
    <3>1. Upper # {}
      BY <1>15, EdgesAreThere, EdgeCells, UndoEffect
    <3> QED
      BY <1>15, <3>1 DEF UndoEdgeAssemblies, TouchedBy
  <2>2. ASSUME assigned["power"] = {}
        PROVE  Unsolveds'
    <3>1. Unsolveds
      BY <1>1, <2>1, <2>2 DEF PowersHold
    <3>2. DOMAIN core = Filled \cup Reflected /\ DOMAIN core' = Filled
      BY <1>15, UndoEffect
    <3>3. \A c \in Filled \ OnLowerLine, q \in Parts : core'[c].block[q].p["power"] = Unsolved
      BY <1>15, <3>1, <3>2, UndoEffect
    <3>4. \A c \in OnLowerLine, q \in Parts : core'[c].block[q].p["power"] = Unsolved
      BY <1>2, <1>15, <2>2, <3>1, <3>2, UndoEffect, EdgeCells
    <3> QED
      BY <2>1, <3>1, <3>2, <3>3, <3>4
  <2> QED
    BY <1>1, <1>3, <1>4, <2>1, <2>2 DEF PowersHold
<1>16. CASE Convert
  <2>1. use = "none" /\ use' = "grown" /\ assigned' \in {assigned, Touched} /\ UNCHANGED pool
    BY <1>16 DEF Convert, TouchedBy
  <2>2. changer'.scaled = {x \in Params : "GEOM" \in assigned[x]}
    BY <1>16, ConvertEffect
  <2>3. assigned'["power"] # {} => "power" \in changer'.scaled
    BY <1>2, <1>3, <1>4, <2>1, <2>2 DEF PowersHold
  <2>4. ASSUME assigned["power"] = {}
        PROVE  Unsolveds'
    <3>1. Unsolveds
      BY <1>1, <2>1, <2>4 DEF PowersHold
    <3>2. DOMAIN core = Filled /\ DOMAIN core' = Filled \cup Images /\ Centre \in Filled
      BY <1>16, ConvertEffect, FilledFacts
    <3>3. \A q \in Parts : core'[Centre].block[q].p["power"] = Unsolved
      BY <1>2, <1>16, <2>4, <3>1, <3>2, ConvertEffect
    <3>4. \A l \in Filled \ {Centre} : \A c \in {l, Turn(l), Turn(Turn(l))}, q \in Parts :
            core'[c].block[q].p["power"] = Unsolved
      BY <1>16, <3>1, <3>2, ConvertEffect
    <3>5. \A c \in Images, q \in Parts : core'[c].block[q].p["power"] = Unsolved
      <4> TAKE c \in Images, q \in Parts
      <4>1. PICK l \in Filled \ {Centre} : c = Turn(l) \/ c = Turn(Turn(l))
        BY ImageCells
      <4> QED
        BY <3>4, <4>1
    <3> QED
      BY <2>1, <3>1, <3>2, <3>3, <3>4, <3>5
  <2> QED
    BY <1>1, <1>3, <1>4, <2>1, <2>3, <2>4 DEF PowersHold
<1>17. CASE RestorePreviousGeometry
  <2>1. use = "grown" /\ use' = "none" /\ assigned' = Touched /\ UNCHANGED pool
    BY <1>17, EdgesAreThere, RestoreStep
  <2>2. ASSUME assigned["power"] = {}
        PROVE  Unsolveds'
    <3>1. Unsolveds
      BY <1>1, <2>1, <2>2 DEF PowersHold
    <3>2. DOMAIN core = Filled \cup Images /\ DOMAIN core' = Filled /\ Centre \in Filled
      BY <1>17, EdgesAreThere, RestoreEffect, FilledFacts
    <3>3. \A q \in Parts : core'[Centre].block[q].p["power"] = Unsolved
      <4> TAKE q \in Parts
      <4>1. core[Centre].block[q].p["power"] = Unsolved
        BY <3>1, <3>2
      <4>2. core'[Centre].block[q].p["power"] =
              IF "power" \in changer.scaled THEN (core[Centre].block[q].p["power"] * 1) \div 3
              ELSE core[Centre].block[q].p["power"]
        BY <1>2, <1>17, EdgesAreThere, RestoreEffect
      <4> QED
        BY <1>6, <4>1, <4>2
    <3>4. \A c \in Filled \ {Centre}, q \in Parts : core'[c].block[q].p["power"] = Unsolved
      BY <1>17, <3>1, <3>2, EdgesAreThere, RestoreEffect
    <3> QED
      BY <2>1, <3>1, <3>2, <3>3, <3>4
  <2> QED
    BY <1>1, <1>3, <1>4, <2>1, <2>2 DEF PowersHold
<1>18. CASE StaysFull
  BY <1>1, <1>18 DEF StaysFull, PowersHold
<1> QED
  BY <1>8, <1>9, <1>10, <1>11, <1>12, <1>13, <1>14, <1>15, <1>16, <1>17, <1>18


LEMMA PartsCarried ==
  ASSUME NEW b \in Block, NEW new, NEW old, NEW f \in {1, 2, 3}, NEW g \in {1, 2, 3},
         NEW x \in Params, Carried(new, old, b, f, g), IsPartIfSolved(b, x, f)
  PROVE  IsPartIfSolved(new, x, g)
<1>1. new.of = b.of /\ new.p[x] = (b.p[x] * f) \div g
  BY Zenon DEF Carried
<1>2. Whole(new) = Whole(b)
  BY <1>1 DEF Whole
<1>3. CASE b.p[x] = Unsolved
  BY <1>1, <1>3 DEF IsPartIfSolved, Unsolved
<1>4. CASE b.p[x] = Whole(b) \div f
  <2>1. ((Whole(b) \div f) * f) \div g = Whole(b) \div g
    BY Shares
  <2> QED
    BY <1>1, <1>2, <1>4, <2>1 DEF IsPartIfSolved, IsPart
<1> QED
  BY <1>3, <1>4 DEF IsPartIfSolved, IsPart

(* What matters of a block for its shares. *)
LEMMA PartsSame ==
  ASSUME NEW b, NEW c, NEW x, NEW n, c.of = b.of, c.p[x] = b.p[x]
  PROVE  /\ IsPartIfSolved(c, x, n) <=> IsPartIfSolved(b, x, n)
         /\ IsPart(c, x, n) <=> IsPart(b, x, n)
BY DEF IsPartIfSolved, IsPart, Whole

LEMMA SharesStep ==
  ASSUME ~PlatesAtCentre, ~DischargeCentre, FirstEdgeIsFilled
  PROVE  CellsHold /\ CellsHold' /\ MassesHold /\ PowersHold /\ SharesHold /\ [Next]_vars => SharesHold'
<1> SUFFICES ASSUME CellsHold, CellsHold', MassesHold, PowersHold, SharesHold, [Next]_vars
             PROVE  SharesHold'
  OBVIOUS
<1> USE Steps
<1>1. "none" # "edges" /\ "none" # "grown" /\ "edges" # "grown" /\ "none" # "failed"
      /\ "edges" # "failed" /\ "grown" # "failed" /\ "third" # "full"
  OBVIOUS
<1>2. Params = {"power", "mass"} /\ "mass" \in Params /\ "power" \in Params /\ "mass" # "power"
  BY DEF Params
<1>3. "GEOM" \in ANYTHING /\ "GEOM" \notin {"SINCE"}
  <2>1. "GEOM" # "SINCE"
    OBVIOUS
  <2> QED
    BY <2>1 DEF ANYTHING
<1>4. \A c : Factor(c) \in {1, 2, 3}
  BY CellFacts
<1>5. \A q \in Parts : /\ \A l \in DOMAIN core : core[l].block[q] \in Block
                      /\ \A a \in pool : a.block[q] \in Block
  BY BlocksTyped
<1> DEFINE Right(c)  == \A q \in Parts, x \in Params : IsPartIfSolved(core[c].block[q], x, Factor(c))
           Pooled(a) == \A q \in Parts, x \in Params : IsPartIfSolved(a.block[q], x, 1)
<1>6. use \in {"none", "grown"} => (\A c \in DOMAIN core : Right(c)) /\ \A a \in pool : Pooled(a)
  BY DEF SharesHold
<1>7. ASSUME use' \in {"none", "grown"}, \A c \in DOMAIN core' : Right(c)', \A a \in pool' : Pooled(a)
      PROVE  SharesHold'
  BY <1>1, <1>7 DEF SharesHold
<1>8. use = "edges" => \A a \in pool : Pooled(a)
  BY DEF SharesHold
<1>9. CASE Swaps
  <2>1. PICK l \in DOMAIN core, m \in DOMAIN core : SwapAssemblies(l, m)
    BY <1>9 DEF Swaps
  <2>2. Shuffle
    BY <2>1 DEF SwapAssemblies
  <2>3. use = "none" /\ use' = "none" /\ symmetry' = symmetry /\ DOMAIN core' = DOMAIN core
    BY <2>1, <2>2, SwapEffect, ShufflesKeep DEF Shuffled
  <2>4. ASSUME NEW c \in DOMAIN core, NEW q \in Parts, NEW x \in Params
        PROVE  IsPartIfSolved(core'[c].block[q], x, Factor(c)')
    <3>1. Factor(c)' = Factor(c)
      BY <2>3, FactorsKept
    <3>2. PICK d \in DOMAIN core, f \in {1, 2, 3} :
            /\ Carried(core'[c].block[q], core[c].block[q], core[d].block[q], f, Factor(c))
            /\ f = Factor(d)
      BY <2>1, SwapEffect
    <3>3. IsPartIfSolved(core[d].block[q], x, f) /\ core[d].block[q] \in Block
      BY <1>5, <1>6, <2>3, <3>2
    <3> QED
      BY <1>4, <3>1, <3>2, <3>3, PartsCarried
  <2>5. \A a \in pool' : Pooled(a)
    <3>1. \A a \in pool' : \E b \in pool : a.block = b.block
      BY <2>1, SwapEffect
    <3> QED
      BY <1>6, <2>3, <3>1
  <2>6. \A c \in DOMAIN core' : Right(c)'
    BY <2>3, <2>4
  <2> HIDE DEF Right, Pooled
  <2> QED
    BY <1>7, <2>3, <2>5, <2>6
<1>10. CASE Discharges
  <2>1. PICK l \in DOMAIN core, incoming \in pool \cup {Replacement} : DischargeSwap(incoming, l)
    BY <1>10 DEF Discharges
  <2>2. Shuffle
    BY <2>1 DEF DischargeSwap
  <2>3. use = "none" /\ use' = "none" /\ symmetry' = symmetry /\ DOMAIN core' = DOMAIN core
    BY <2>1, <2>2, DischargeEffect, ShufflesKeep DEF Shuffled
  <2>4. \A b \in pool \cup {incoming} : Pooled(b) /\ \A q \in Parts : b.block[q] \in Block
    <3>1. ASSUME NEW q \in Parts, NEW x \in Params
          PROVE  IsPartIfSolved(Replacement.block[q], x, 1) /\ Replacement.block[q] \in Block
      <4>1. PICK b \in Block : b = Replacement.block[q]
        BY ReplacementFacts
      <4>2. b.p["power"] = Unsolved /\ b.p["mass"] = Whole(b)
        BY <4>1, ReplacementFacts
      <4>3. Whole(b) \div 1 = Whole(b)
        BY Shares
      <4> QED
        BY <1>2, <4>1, <4>2, <4>3 DEF IsPartIfSolved, IsPart
    <3>2. \A b \in pool : Pooled(b) /\ \A q \in Parts : b.block[q] \in Block
      BY <1>5, <1>6, <2>3
    <3>3. Pooled(Replacement) /\ \A q \in Parts : Replacement.block[q] \in Block
      BY <1>2, <3>1
    <3> HIDE DEF Pooled
    <3> QED
      BY <3>2, <3>3
  <2>5. ASSUME NEW c \in DOMAIN core, NEW q \in Parts, NEW x \in Params
        PROVE  IsPartIfSolved(core'[c].block[q], x, Factor(c)')
    <3>1. Factor(c)' = Factor(c)
      BY <2>3, FactorsKept
    <3>2. \/ \E f \in {1, 2, 3} :
               /\ Carried(core'[c].block[q], core[c].block[q], core[c].block[q], f, Factor(c))
               /\ ~PlatesAtCentre => f = Factor(c)
          \/ /\ q \notin stationary
             /\ Carried(core'[c].block[q], core[c].block[q], incoming.block[q], 1, Factor(c))
      BY <2>1, DischargeEffect
    <3>3. CASE Carried(core'[c].block[q], core[c].block[q], core[c].block[q], Factor(c), Factor(c))
      <4>1. IsPartIfSolved(core[c].block[q], x, Factor(c)) /\ core[c].block[q] \in Block
        BY <1>5, <1>6, <2>3
      <4> QED
        BY <1>4, <3>1, <3>3, <4>1, PartsCarried
    <3>4. CASE Carried(core'[c].block[q], core[c].block[q], incoming.block[q], 1, Factor(c))
      <4>1. IsPartIfSolved(incoming.block[q], x, 1) /\ incoming.block[q] \in Block
        BY <2>4
      <4> QED
        BY <1>4, <3>1, <3>4, <4>1, PartsCarried
    <3> QED
      BY <3>2, <3>3, <3>4
  <2>6. \A a \in pool' : Pooled(a)
    <3>1. \A a \in pool', q \in Parts :
            \/ \E b \in pool \cup {incoming} : a.block[q] = b.block[q]
            \/ a.block[q] = core[l].block[q] /\ Factor(l) = 1
      BY <2>1, DischargeEffect
    <3> QED
      BY <1>6, <2>3, <2>4, <3>1
  <2>7. \A c \in DOMAIN core' : Right(c)'
    BY <2>3, <2>5
  <2> HIDE DEF Right, Pooled
  <2> QED
    BY <1>7, <2>3, <2>6, <2>7
<1>11. CASE Solve
  <2>1. /\ UNCHANGED <<symmetry, use, pool>> /\ DOMAIN core' = DOMAIN core
        /\ assigned' = [assigned EXCEPT !["power"] = ANYTHING]
    BY <1>11, SolveEffect DEF Solve
  <2>2. \A c : Factor(c)' = Factor(c)
    BY <2>1, FactorsKept
  <2>3. \A c \in DOMAIN core, q \in Parts :
          /\ core'[c].block[q].of = core[c].block[q].of
          /\ core'[c].block[q].p["mass"] = core[c].block[q].p["mass"]
          /\ core'[c].block[q].p["power"] = Whole(core[c].block[q]) \div Factor(c)
    BY <1>11, SolveEffect
  <2>4. \A c \in DOMAIN core, q \in Parts : IsPart(core'[c].block[q], "power", Factor(c))
    BY <2>3 DEF IsPart, Whole
  <2>5. \A c \in DOMAIN core, q \in Parts : \A n :
          IsPartIfSolved(core'[c].block[q], "mass", n) <=> IsPartIfSolved(core[c].block[q], "mass", n)
    BY <2>3, PartsSame
  <2>6. CASE use \in {"none", "grown"}
    <3>1. \A c \in DOMAIN core' : Right(c)'
      <4> TAKE c \in DOMAIN core'
      <4>1. \A q \in Parts : /\ IsPartIfSolved(core'[c].block[q], "power", Factor(c))
                            /\ IsPartIfSolved(core'[c].block[q], "mass", Factor(c))
        BY <1>2, <1>6, <2>1, <2>4, <2>5, <2>6 DEF IsPartIfSolved
      <4> QED
        BY <1>2, <2>2, <4>1
    <3>2. \A a \in pool' : Pooled(a)
      BY <1>6, <2>1, <2>6
    <3> HIDE DEF Right, Pooled
    <3> QED
      BY <1>7, <2>1, <2>6, <3>1, <3>2
  <2>7. CASE use = "edges"
    <3>1. "GEOM" \notin assigned'["mass"] /\ assigned'["power"] = ANYTHING
          /\ assigned'["mass"] = assigned["mass"]
      <4>1. assigned["mass"] = {"SINCE"} /\ assigned \in [Params -> SUBSET ANYTHING]
        BY <2>7 DEF MassesHold, CellsHold
      <4> QED
        BY <1>2, <1>3, <2>1, <4>1
    <3>2. Filled \subseteq DOMAIN core /\ \A l \in OnLowerLine : l \in DOMAIN core /\ Turn(l) \in DOMAIN core
      BY <1>1, <2>7, EdgeCells DEF CellsHold, Phase
    <3>3. \A q \in Parts, x \in Params :
            \A l \in Filled : "GEOM" \notin assigned'[x] =>
              IsPartIfSolved(core'[l].block[q], x, FactorIn("third", Filled, l))
      <4>1. \A q \in Parts, l \in Filled :
              IsPartIfSolved(core[l].block[q], "mass", FactorIn("third", Filled, l))
        BY <1>2, <2>7, <3>1 DEF SharesHold
      <4> QED
        BY <1>2, <1>3, <2>5, <3>1, <3>2, <4>1
    <3>4. \A q \in Parts, x \in Params :
            \A l \in DOMAIN core' : "GEOM" \in assigned'[x] => IsPart(core'[l].block[q], x, Factor(l)')
      BY <1>2, <2>1, <2>2, <2>4, <3>1
    <3>5. \A q \in Parts, l \in OnLowerLine : core'[Turn(l)].block[q].of = core'[l].block[q].of
      BY <1>2, <2>3, <2>7, <3>2 DEF SharesHold
    <3>6. \A q \in Parts, x \in Params : \A a \in pool' : IsPartIfSolved(a.block[q], x, 1)
      BY <1>8, <2>1, <2>7
    <3> QED
      BY <1>1, <2>1, <2>7, <3>3, <3>4, <3>5, <3>6 DEF SharesHold
  <2> QED
    BY <2>1, <2>6, <2>7 DEF SharesHold
(* Steps that change no parameter, no cell and no assignment. *)
<1>12. ASSUME UNCHANGED <<symmetry, assigned, pool>>, DOMAIN core' = DOMAIN core,
              \A c \in DOMAIN core, q \in Parts : /\ core'[c].block[q].of = core[c].block[q].of
                                                 /\ core'[c].block[q].p = core[c].block[q].p
       PROVE  \A c \in DOMAIN core', q \in Parts, x \in Params :
                /\ IsPartIfSolved(core[c].block[q], x, Factor(c)) =>
                     IsPartIfSolved(core'[c].block[q], x, Factor(c)')
                /\ IsPart(core[c].block[q], x, Factor(c)) => IsPart(core'[c].block[q], x, Factor(c)')
                /\ \A n : IsPartIfSolved(core[c].block[q], x, n) => IsPartIfSolved(core'[c].block[q], x, n)
  <2>1. \A c : Factor(c)' = Factor(c)
    BY <1>12, FactorsKept
  <2> QED
    BY <1>12, <2>1, PartsSame
<1>13. ASSUME UNCHANGED <<symmetry, assigned, pool>>, DOMAIN core' = DOMAIN core,
              \A c \in DOMAIN core, q \in Parts : /\ core'[c].block[q].of = core[c].block[q].of
                                                 /\ core'[c].block[q].p = core[c].block[q].p,
              UNCHANGED use
       PROVE  SharesHold'
  <2>1. \A c \in DOMAIN core', q \in Parts, x \in Params :
          /\ IsPartIfSolved(core[c].block[q], x, Factor(c)) =>
               IsPartIfSolved(core'[c].block[q], x, Factor(c)')
          /\ IsPart(core[c].block[q], x, Factor(c)) => IsPart(core'[c].block[q], x, Factor(c)')
          /\ \A n : IsPartIfSolved(core[c].block[q], x, n) => IsPartIfSolved(core'[c].block[q], x, n)
    BY <1>12, <1>13
  <2>2. CASE use \in {"none", "grown"}
    <3>1. \A c \in DOMAIN core' : Right(c)'
      BY <1>6, <1>13, <2>1, <2>2
    <3>2. \A a \in pool' : Pooled(a)
      BY <1>6, <1>13, <2>2
    <3> HIDE DEF Right, Pooled
    <3> QED
      BY <1>7, <1>13, <2>2, <3>1, <3>2
  <2>3. CASE use = "edges"
    <3>1. Filled \subseteq DOMAIN core /\ \A l \in OnLowerLine : l \in DOMAIN core /\ Turn(l) \in DOMAIN core
      BY <1>1, <2>3, EdgeCells DEF CellsHold, Phase
    <3>2. \A q \in Parts, x \in Params :
            \A l \in Filled : "GEOM" \notin assigned'[x] =>
              IsPartIfSolved(core'[l].block[q], x, FactorIn("third", Filled, l))
      BY <1>13, <2>1, <2>3, <3>1 DEF SharesHold
    <3>3. \A q \in Parts, x \in Params :
            \A l \in DOMAIN core' : "GEOM" \in assigned'[x] => IsPart(core'[l].block[q], x, Factor(l)')
      BY <1>13, <2>1, <2>3 DEF SharesHold
    <3>4. \A q \in Parts, l \in OnLowerLine : core'[Turn(l)].block[q].of = core'[l].block[q].of
      BY <1>2, <1>13, <2>3, <3>1 DEF SharesHold
    <3>5. \A q \in Parts, x \in Params : \A a \in pool' : IsPartIfSolved(a.block[q], x, 1)
      BY <1>8, <1>13, <2>3
    <3> QED
      BY <1>1, <1>13, <2>3, <3>2, <3>3, <3>4, <3>5 DEF SharesHold
  <2> QED
    BY <1>13, <2>2, <2>3 DEF SharesHold
<1>14. CASE Areas
  <2>1. PICK l \in DOMAIN core : GetArea(l)
    BY <1>14 DEF Areas
  <2> QED
    BY <1>13, <2>1, GetAreaEffect DEF GetArea
<1>15. CASE UNCHANGED vars \/ Failed
  BY <1>13, <1>15 DEF vars, Failed
<1>16. CASE SolveFails \/ ConvertFails
  BY <1>1, <1>16 DEF SolveFails, ConvertFails, SharesHold

<1>17. CASE AddEdgeAssemblies
  <2>1. /\ use = "none" /\ use' = "edges" /\ assigned' = SinceGeometry /\ UNCHANGED pool
        /\ symmetry = "third" /\ DOMAIN core = Filled
        /\ \A l \in Filled, q \in Parts : /\ core'[l].block[q].of = core[l].block[q].of
                                         /\ core'[l].block[q].p = core[l].block[q].p
        /\ \A l \in OnLowerLine, q \in Parts : core'[Turn(l)].block[q].of = core[l].block[q].of
    <3>1. /\ use = "none" /\ use' = "edges" /\ assigned' = SinceGeometry /\ UNCHANGED pool
          /\ symmetry = "third"
      BY <1>17 DEF AddEdgeAssemblies
    <3> QED
      BY <1>17, <3>1, AddEffect
  <2>2. \A x \in Params : "GEOM" \notin assigned'[x]
    <3>1. assigned \in [Params -> SUBSET ANYTHING]
      BY DEF CellsHold
    <3> QED
      BY <2>1, <3>1, Assignments
  <2>3. \A q \in Parts, x \in Params : \A l \in Filled :
          IsPartIfSolved(core'[l].block[q], x, FactorIn("third", Filled, l))
    <3>1. \A l : Factor(l) = FactorIn("third", Filled, l)
      BY <2>1 DEF Factor
    <3> QED
      BY <1>6, <2>1, <3>1, PartsSame
  <2>4. \A q \in Parts, l \in OnLowerLine : core'[Turn(l)].block[q].of = core'[l].block[q].of
    BY <2>1, EdgeCells
  <2>5. \A q \in Parts, x \in Params : \A a \in pool' : IsPartIfSolved(a.block[q], x, 1)
    BY <1>6, <2>1
  <2> QED
    BY <1>1, <2>1, <2>2, <2>3, <2>4, <2>5 DEF SharesHold
<1>18. CASE UndoEdgeAssemblies
  <2>1. /\ use = "edges" /\ use' = "none" /\ UNCHANGED <<pool, symmetry>>
        /\ DOMAIN core = Filled \cup Reflected /\ DOMAIN core' = Filled
        /\ \A l \in Filled \ OnLowerLine : core'[l] = core[l]
        /\ \A l \in OnLowerLine, q \in Parts :
             /\ core'[l].block[q].of = core[l].block[q].of
             /\ \A x \in Params : core'[l].block[q].p[x] =
                  IF "GEOM" \in assigned[x] /\ core[l].block[q].p[x] # Unsolved
                  THEN core[l].block[q].p[x] + core[Turn(l)].block[q].p[x]
                  ELSE core[l].block[q].p[x]
    BY <1>18, UndoEffect DEF UndoEdgeAssemblies
  <2>2. symmetry = "third"
    BY <1>1, <2>1 DEF CellsHold, Phase
  <2>3. /\ \A c : Factor(c)' = FactorIn("third", Filled, c)
        /\ \A c : Factor(c) = FactorIn("third", Filled \cup Reflected, c)
    BY <2>1, <2>2 DEF Factor
  <2>4. \A l \in Filled, q \in Parts, x \in Params :
          /\ "GEOM" \notin assigned[x] =>
               IsPartIfSolved(core[l].block[q], x, FactorIn("third", Filled, l))
          /\ "GEOM" \in assigned[x] => IsPart(core[l].block[q], x, Factor(l))
    BY <1>1, <2>1 DEF SharesHold
  <2>5. ASSUME NEW l \in Filled \ OnLowerLine, NEW q \in Parts, NEW x \in Params
        PROVE  IsPartIfSolved(core'[l].block[q], x, Factor(l)')
    <3>1. FactorIn("third", Filled \cup Reflected, l) = FactorIn("third", Filled, l)
      BY EdgeFactors
    <3> QED
      BY <2>1, <2>3, <2>4, <3>1 DEF IsPartIfSolved
  <2>6. ASSUME NEW l \in OnLowerLine, NEW q \in Parts, NEW x \in Params
        PROVE  IsPartIfSolved(core'[l].block[q], x, Factor(l)')
    <3>1. /\ l \in Filled /\ Turn(l) \in DOMAIN core
          /\ FactorIn("third", Filled \cup Reflected, l) = 2
          /\ FactorIn("third", Filled \cup Reflected, Turn(l)) = 2
          /\ FactorIn("third", Filled, l) = 1
      BY <2>1, EdgeCells, EdgeFactors
    <3>2. CASE "GEOM" \in assigned[x]
      <4>1. IsPart(core[l].block[q], x, 2) /\ IsPart(core[Turn(l)].block[q], x, 2)
        <5>1. \A c \in DOMAIN core : IsPart(core[c].block[q], x, Factor(c))
          BY <1>1, <2>1, <3>2 DEF SharesHold
        <5>2. l \in DOMAIN core /\ Factor(l) = 2 /\ Factor(Turn(l)) = 2
          BY <2>1, <2>3, <3>1
        <5>3. IsPart(core[l].block[q], x, Factor(l))
          BY <5>1, <5>2
        <5>4. IsPart(core[Turn(l)].block[q], x, Factor(Turn(l)))
          BY <3>1, <5>1
        <5> QED
          BY <5>2, <5>3, <5>4
      <4>2. PICK b \in Block : b = core[l].block[q]
        BY <1>5, <2>1, <3>1
      <4>3. core[Turn(l)].block[q].of = b.of
        BY <1>1, <1>2, <2>1, <4>2 DEF SharesHold
      <4>4. Whole(core[Turn(l)].block[q]) = Whole(b) /\ Whole(core'[l].block[q]) = Whole(b)
        BY <2>1, <4>2, <4>3 DEF Whole
      <4>5. b.p[x] = Whole(b) \div 2 /\ core[Turn(l)].block[q].p[x] = Whole(b) \div 2
        BY <4>1, <4>2, <4>4 DEF IsPart
      <4>6. (Whole(b) \div 2) + (Whole(b) \div 2) = Whole(b) /\ Whole(b) \div 1 = Whole(b)
        BY Shares
      <4>7. core'[l].block[q].p[x] = IF b.p[x] # Unsolved THEN b.p[x] + core[Turn(l)].block[q].p[x]
                                     ELSE b.p[x]
        BY <2>1, <3>2, <4>2
      <4> QED
        BY <2>3, <3>1, <4>4, <4>5, <4>6, <4>7 DEF IsPartIfSolved, IsPart
    <3>3. CASE "GEOM" \notin assigned[x]
      <4>1. IsPartIfSolved(core[l].block[q], x, FactorIn("third", Filled, l))
        BY <2>4, <3>1, <3>3
      <4>2. core'[l].block[q].of = core[l].block[q].of /\ core'[l].block[q].p[x] = core[l].block[q].p[x]
        BY <2>1, <3>3
      <4> QED
        BY <2>3, <4>1, <4>2, PartsSame
    <3> QED
      BY <3>2, <3>3
  <2>7. \A c \in DOMAIN core' : Right(c)'
    BY <2>1, <2>5, <2>6
  <2>8. \A a \in pool' : Pooled(a)
    BY <1>8, <2>1
  <2> HIDE DEF Right, Pooled
  <2> QED
    BY <1>7, <2>1, <2>7, <2>8
<1>19. CASE Convert
  <2>1. /\ use = "none" /\ use' = "grown" /\ UNCHANGED pool
        /\ symmetry = "third" /\ symmetry' = "full"
    BY <1>19 DEF Convert
  <2>2. DOMAIN core = Filled /\ DOMAIN core' = Filled \cup Images /\ Centre \in Filled
    BY <1>19, ConvertEffect, FilledFacts
  <2>3. /\ \A c : Factor(c)' = 1
        /\ \A c \in Filled : Factor(c) = IF c = Centre THEN 3 ELSE 1
    BY <2>1, <2>2, Factors DEF Factor
  <2>4. ASSUME NEW q \in Parts, NEW x \in Params
        PROVE  IsPartIfSolved(core'[Centre].block[q], x, 1)
    <3>1. PICK b \in Block : b = core[Centre].block[q]
      BY <1>5, <2>2
    <3>2. b.p[x] = Unsolved \/ b.p[x] = Whole(b) \div 3
      BY <1>6, <2>1, <2>2, <2>3, <3>1 DEF IsPartIfSolved, IsPart
    <3>3. /\ core'[Centre].block[q].of = b.of
          /\ core'[Centre].block[q].p[x] = IF "GEOM" \in assigned[x] THEN (b.p[x] * 3) \div 1 ELSE b.p[x]
      BY <1>19, <3>1, ConvertEffect
    <3>4. Whole(core'[Centre].block[q]) = Whole(b)
      BY <3>3 DEF Whole
    <3>5. CASE "GEOM" \in assigned[x]
      <4>1. ((Whole(b) \div 3) * 3) \div 1 = Whole(b) \div 1 /\ (Unsolved * 3) \div 1 = Unsolved
        BY Shares DEF Unsolved
      <4> QED
        BY <3>2, <3>3, <3>4, <3>5, <4>1 DEF IsPartIfSolved, IsPart
    <3>6. CASE "GEOM" \notin assigned[x]
      <4>1. assigned["mass"] = ANYTHING /\ assigned["power"] \in {{}, ANYTHING}
        BY <2>1 DEF MassesHold, PowersHold
      <4>2. x = "power" /\ assigned["power"] = {}
        BY <1>2, <1>3, <3>6, <4>1
      <4>3. b.p[x] = Unsolved
        BY <1>1, <2>1, <2>2, <3>1, <4>2 DEF PowersHold
      <4> QED
        BY <3>3, <3>6, <4>3 DEF IsPartIfSolved
    <3> QED
      BY <3>5, <3>6
  <2>5. ASSUME NEW l \in Filled \ {Centre}, NEW c \in {l, Turn(l), Turn(Turn(l))},
               NEW q \in Parts, NEW x \in Params
        PROVE  IsPartIfSolved(core'[c].block[q], x, 1)
    <3>1. IsPartIfSolved(core[l].block[q], x, 1)
      BY <1>6, <2>1, <2>2, <2>3
    <3>2. core'[c].block[q].of = core[l].block[q].of /\ core'[c].block[q].p = core[l].block[q].p
      BY <1>19, ConvertEffect
    <3> QED
      BY <3>1, <3>2, PartsSame
  <2>6. \A c \in DOMAIN core' : Right(c)'
    <3> TAKE c \in DOMAIN core'
    <3>1. CASE c = Centre
      BY <2>3, <2>4, <3>1
    <3>2. CASE c \in Filled \ {Centre}
      BY <2>3, <2>5, <3>2
    <3>3. CASE c \in Images
      <4>1. PICK l \in Filled \ {Centre} : c = Turn(l) \/ c = Turn(Turn(l))
        BY <3>3, ImageCells
      <4> QED
        BY <2>3, <2>5, <4>1
    <3> QED
      BY <2>2, <3>1, <3>2, <3>3
  <2>7. \A a \in pool' : Pooled(a)
    BY <1>6, <2>1
  <2> HIDE DEF Right, Pooled
  <2> QED
    BY <1>7, <2>1, <2>6, <2>7
<1>20. CASE RestorePreviousGeometry
  <2>1. /\ use = "grown" /\ use' = "none" /\ UNCHANGED pool /\ symmetry' = "third"
    BY <1>20, EdgesAreThere, RestoreStep
  <2>2. DOMAIN core = Filled \cup Images /\ DOMAIN core' = Filled /\ Centre \in Filled
    BY <1>20, EdgesAreThere, RestoreEffect, FilledFacts
  <2>3. /\ \A c : Factor(c) = 1
        /\ \A c \in Filled : Factor(c)' = IF c = Centre THEN 3 ELSE 1
    <3>1. symmetry = "full"
      BY <1>1, <2>1 DEF CellsHold, Phase
    <3> QED
      BY <2>1, <2>2, <3>1, Factors DEF Factor
  <2>4. ASSUME NEW q \in Parts, NEW x \in Params
        PROVE  IsPartIfSolved(core'[Centre].block[q], x, 3)
    <3>1. PICK b \in Block : b = core[Centre].block[q]
      BY <1>5, <2>2
    <3>2. b.p[x] = Unsolved \/ b.p[x] = Whole(b) \div 1
      BY <1>6, <2>1, <2>2, <2>3, <3>1 DEF IsPartIfSolved, IsPart
    <3>3. /\ core'[Centre].block[q].of = b.of
          /\ core'[Centre].block[q].p[x] = IF x \in changer.scaled THEN (b.p[x] * 1) \div 3 ELSE b.p[x]
      BY <1>20, <2>2, <3>1, EdgesAreThere, RestoreEffect
    <3>4. Whole(core'[Centre].block[q]) = Whole(b)
      BY <3>3 DEF Whole
    <3>5. CASE x \in changer.scaled
      <4>1. ((Whole(b) \div 1) * 1) \div 3 = Whole(b) \div 3 /\ (Unsolved * 1) \div 3 = Unsolved
        BY Shares DEF Unsolved
      <4> QED
        BY <3>2, <3>3, <3>4, <3>5, <4>1 DEF IsPartIfSolved, IsPart
    <3>6. CASE x \notin changer.scaled
      <4>1. "mass" \in changer.scaled /\ (assigned["power"] # {} => "power" \in changer.scaled)
        BY <2>1 DEF MassesHold, PowersHold
      <4>2. x = "power" /\ assigned["power"] = {}
        BY <1>2, <3>6, <4>1
      <4>3. b.p[x] = Unsolved
        BY <1>1, <2>1, <2>2, <3>1, <4>2 DEF PowersHold
      <4> QED
        BY <3>3, <3>6, <4>3 DEF IsPartIfSolved
    <3> QED
      BY <3>5, <3>6
  <2>5. ASSUME NEW l \in Filled \ {Centre}, NEW q \in Parts, NEW x \in Params
        PROVE  IsPartIfSolved(core'[l].block[q], x, 1)
    <3>1. IsPartIfSolved(core[l].block[q], x, 1)
      BY <1>6, <2>1, <2>2, <2>3
    <3>2. core'[l].block[q].of = core[l].block[q].of /\ core'[l].block[q].p = core[l].block[q].p
      BY <1>20, EdgesAreThere, RestoreEffect
    <3> QED
      BY <3>1, <3>2, PartsSame
  <2>6. \A c \in DOMAIN core' : Right(c)'
    BY <2>2, <2>3, <2>4, <2>5
  <2>7. \A a \in pool' : Pooled(a)
    BY <1>6, <2>1
  <2> HIDE DEF Right, Pooled
  <2> QED
    BY <1>7, <2>1, <2>6, <2>7
<1>21. CASE StaysFull
  <2>1. /\ use = "grown" /\ use' = "none" /\ UNCHANGED <<symmetry, core, pool>>
    BY <1>21 DEF StaysFull
  <2>2. \A c : Factor(c)' = Factor(c)
    BY <2>1, FactorsKept
  <2>3. \A c \in DOMAIN core' : Right(c)'
    BY <1>6, <2>1, <2>2
  <2>4. \A a \in pool' : Pooled(a)
    BY <1>6, <2>1
  <2> HIDE DEF Right, Pooled
  <2> QED
    BY <1>7, <2>1, <2>3, <2>4
<1> QED
  BY <1>9, <1>10, <1>11, <1>14, <1>15, <1>16, <1>17, <1>18, <1>19, <1>20, <1>21

(* Whatever was shuffled, solved and converted, a parameter of a block is  *)
(* that of the part of the block in the model, as long as the centre cell  *)
(* neither exchanges stationary blocks nor gives up its third, parameters  *)
(* of a temporary full core were assigned before it, and the first of the  *)
(* cells on the upper line mirrors one that is filled.                     *)
THEOREM SharesAreKept ==
  ASSUME ~PlatesAtCentre, ~DischargeCentre, ~FirstSolvedFull, FirstEdgeIsFilled
  PROVE  Spec => []SharesAreRight
<1>1. Init => MassesHold /\ PowersHold /\ SharesHold
  <2> SUFFICES ASSUME Init
               PROVE  MassesHold /\ PowersHold /\ SharesHold
    OBVIOUS
  <2>1. "none" # "edges" /\ "none" # "grown" /\ "power" # "mass"
    OBVIOUS
  <2>2. use = "none" /\ symmetry = "third" /\ pool = {}
        /\ assigned = [x \in Params |-> IF x = "mass" THEN ANYTHING ELSE {}]
    BY DEF Init
  <2>3. assigned["mass"] = ANYTHING /\ assigned["power"] = {} /\ Params = {"mass", "power"}
    BY <2>1, <2>2 DEF Params
  <2>4. \A c : Factor(c) = FactorIn("third", Filled, c)
    BY <2>2, InitFacts DEF Factor
  <2>5. \A l \in DOMAIN core, q \in Parts :
          /\ core[l].block[q].p["power"] = Unsolved
          /\ IsPart(core[l].block[q], "mass", Factor(l))
    BY <2>4, InitFacts DEF IsPart
  <2>6. MassesHold
    BY <2>1, <2>2, <2>3 DEF MassesHold
  <2>7. PowersHold
    BY <2>1, <2>2, <2>3, <2>5 DEF PowersHold
  <2>8. SharesHold
    BY <2>1, <2>2, <2>3, <2>5 DEF SharesHold, IsPartIfSolved
  <2> QED
    BY <2>6, <2>7, <2>8
<1>2. CellsHold /\ SharesHold => SharesAreRight
  <2> SUFFICES ASSUME CellsHold, SharesHold, use \in {"none", "grown"}
               PROVE  /\ \A l \in DOMAIN core, q \in Parts, x \in Params :
                           core[l].block[q].p[x] \in {Unsolved, Whole(core[l].block[q]) \div Factor(l)}
                      /\ \A a \in pool, q \in Parts, x \in Params :
                           a.block[q].p[x] \in {Unsolved, Whole(a.block[q])}
    BY DEF SharesAreRight
  <2>1. \A l \in DOMAIN core, q \in Parts, x \in Params :
          core[l].block[q].p[x] \in {Unsolved, Whole(core[l].block[q]) \div Factor(l)}
    BY DEF SharesHold, IsPartIfSolved, IsPart
  <2>2. ASSUME NEW a \in pool, NEW q \in Parts, NEW x \in Params
        PROVE  a.block[q].p[x] \in {Unsolved, Whole(a.block[q])}
    <3>1. a.block[q] \in Block
      BY BlocksTyped
    <3>2. Whole(a.block[q]) \div 1 = Whole(a.block[q])
      BY <3>1, Shares
    <3> QED
      BY <3>2 DEF SharesHold, IsPartIfSolved, IsPart
  <2> QED
    BY <2>1, <2>2
<1> QED
  BY <1>1, <1>2, CellsAlways, MassesStep, PowersStep, SharesStep, PTL DEF Spec

=============================================================================
