---------------------------- MODULE CoreGeometry ----------------------------
(***************************************************************************)
(* A hexagonal core of which a third is modelled, and what changes the     *)
(* part of an assembly that a cell holds: the centre cell holds a third of *)
(* one, and the cells on the lower and upper symmetry lines half of one    *)
(* each while both are there.  Volume-integrated parameters are those of   *)
(* the part, so every operation that changes it scales them:               *)
(*                                                                         *)
(*   Assembly.moveTo, for shuffles (reactor/assemblies.py,                 *)
(*   physics/fuelCycle/fuelHandlers.py);                                   *)
(*   EdgeAssemblyChanger, around a finite-difference flux solve, and       *)
(*   ThirdCoreHexToFullCoreChanger (reactor/converters/                    *)
(*   geometryConverters.py, physics/neutronics/globalFlux/).               *)
(***************************************************************************)
EXTENDS HexGrid, FiniteSets

CONSTANTS
  Filled,      \* the cells of the third that hold assemblies
  Measured,    \* the cells whose fuel block is asked for its area
  Unit,        \* divisible by the symmetry factors and their products
  MaxShuffles, \* bound on shuffles
  MaxCached,   \* bound on the areas in caches at a time
  PlatesAtCentre,  \* stationary blocks are exchanged with the centre cell's
  DischargeCentre, \* the third assembly of the centre cell is discharged
  FirstSolvedFull  \* a parameter is assigned first in a temporary full core

ASSUME GeometryAssumption ==
  /\ Centre \in Filled /\ Filled \subseteq Cell /\ IsFiniteSet(Filled)
  /\ Unit \in Nat \ {0} /\ Unit % 36 = 0
  /\ \A l \in Filled : IsInFirstThird(l, FALSE)
  /\ Measured \subseteq Filled /\ {MaxShuffles, MaxCached} \subseteq Nat
  /\ {PlatesAtCentre, DischargeCentre, FirstSolvedFull} \subseteq BOOLEAN

VARIABLES
  symmetry,    \* core.symmetry: "third" or "full"
  core,        \* childrenByLocator: what is in the cells that hold something
  pool,        \* the assemblies in the spent fuel pool
  assigned,    \* Parameter.assigned: {}, {"SINCE"} or with "GEOM"
  stationary,  \* stationaryBlockFlagsList
  use,         \* what the converters are in the middle of
  changer,     \* the ThirdCoreHexToFullCoreChanger: cells added, parameters scaled
  cycle,
  original     \* ghost: the core that was converted

vars == <<symmetry, core, pool, assigned, stationary, use, changer, cycle, original>>

Parts   == {"fuel", "plate"}
Params  == {"power", "mass"}      \* volume integrated
Unsolved == 0                     \* None
NotCached == 0
ANYTHING == {"SINCE", "GEOM"}     \* SINCE_ANYTHING, with the bit for geometry
NoConverter == [added |-> {}, scaled |-> {}]
ReplacementNumber == Cardinality(Filled) + 1

Number == CHOOSE f \in [Filled -> 1..Cardinality(Filled)] :
            \A l, m \in Filled : f[l] = f[m] => l = m

(* What a parameter is for the whole of a block. *)
Whole(b) == Unit * b.of

NewBlock(n) ==
  [of   |-> n,
   p    |-> [x \in Params |-> IF x = "mass" THEN Unit * n ELSE Unsolved],
   area |-> NotCached]            \* the cached area, as the factor it was divided by

NewAssembly(n, hist) ==
  [block |-> [q \in Parts |-> NewBlock(IF q = "fuel" THEN n ELSE n + ReplacementNumber)],
   hist  |-> hist]                \* ringPosHist
-----------------------------------------------------------------------------
(* HexBlock.getSymmetryFactor *)

UpperEdge == <<-1, 2>>            \* the first of the cells on the upper line

FactorIn(sym, cells, l) ==
  IF sym = "full"    THEN 1
  ELSE IF l = Centre THEN 3
  ELSE IF UpperEdge \in cells
          /\ SymmetryLine(l) \in {"BOUNDARY_0_DEGREES", "BOUNDARY_120_DEGREES"} THEN 2
  ELSE 1

Factor(l) == FactorIn(symmetry, DOMAIN core, l)

(* clearCache of every block of an assembly. *)
Uncached(a) == [a EXCEPT !.block = [q \in Parts |-> [a.block[q] EXCEPT !.area = NotCached]]]

ScaledBlock(b, params, num, den) ==
  [b EXCEPT !.p =
    [x \in Params |-> IF x \in params THEN (b.p[x] * num) \div den ELSE b.p[x]]]

Scaled(a, params, num, den) ==
  [a EXCEPT !.block = [q \in Parts |-> ScaledBlock(a.block[q], params, num, den)]]

(* moveTo, from a place with one symmetry factor to one with another. *)
Moved(a, old, new) == Scaled(Uncached(a), Params, old, new)

(* core.add and core.removeAssembly: what was ever assigned is assigned    *)
(* since everything.                                                       *)
Touched == [x \in Params |-> IF assigned[x] = {} THEN {} ELSE ANYTHING]

(* Assemblies are added to some cells, or removed from them, or none are.  *)
TouchedBy(cells) == IF cells = {} THEN assigned ELSE Touched

Init ==
  /\ symmetry = "third" /\ use = "none" /\ cycle = 0 /\ pool = {}
  /\ stationary \in {{}, {"plate"}}
  /\ core = [l \in Filled |->
       Scaled(NewAssembly(Number[l], <<IndicesToRingPos(l)>>), Params,
              1, FactorIn("third", Filled, l))]
  /\ assigned = [x \in Params |-> IF x = "mass" THEN ANYTHING ELSE {}]
  /\ changer = NoConverter /\ original = <<>>
-----------------------------------------------------------------------------
(* FuelHandler: shuffling at the beginning of a cycle *)

(* SPENT_FUEL_POOL and NOT_CREATED_YET, which stand in the place of a ring  *)
(* and a position; rings count from 1.                                     *)
InPool     == <<0, 1>>
NotCreated == <<0, 0>>
NotInCore  == {InPool, NotCreated}

(* updateAllLocationHistParams, for an assembly that is now at a place: an *)
(* entry for each cycle, missing ones filled in and later ones cut off.    *)
Recorded(a, place) ==
  [a EXCEPT !.hist = [k \in 1..(cycle' + 1) |->
     IF k = cycle' + 1        THEN place
     ELSE IF k \in DOMAIN a.hist THEN a.hist[k]
     ELSE NotCreated]]

RecordedAll(cells) == [l \in DOMAIN cells |-> Recorded(cells[l], IndicesToRingPos(l))]

(* Mutant of WithStationaryOf: the blocks to be moved are exchanged.       *)
WithStationaryOf_Others(a, other) ==
  [a EXCEPT !.block = [q \in Parts |-> IF q \in stationary THEN a.block[q] ELSE other.block[q]]]

(* _transferStationaryBlocks *)
WithStationaryOf(a, other) ==
  [a EXCEPT !.block = [q \in Parts |-> IF q \in stationary THEN other.block[q] ELSE a.block[q]]]

Shuffle ==
  /\ use = "none" /\ cycle < MaxShuffles
  /\ cycle' = cycle + 1
  /\ UNCHANGED <<symmetry, stationary, use, changer, original>>

AtCentre(l) == l = Centre /\ symmetry = "third"
PlatesMayMove(l) == AtCentre(l) => stationary = {} \/ PlatesAtCentre

(* The setters in _scaleParams, which skips what is None. *)
Rescaled(a, b) ==
  [x \in Params |-> IF \E c \in {a, b}, q \in Parts : c.block[q].p[x] # Unsolved
                    THEN ANYTHING ELSE assigned[x]]

SwapAssemblies(l, m) ==
  LET a == WithStationaryOf(core[l], core[m])
      b == WithStationaryOf(core[m], core[l])
  IN  /\ Shuffle /\ l # m /\ PlatesMayMove(l) /\ PlatesMayMove(m)
      /\ core' = RecordedAll([core EXCEPT ![m] = Moved(a, Factor(l), Factor(m)),
                                          ![l] = Moved(b, Factor(m), Factor(l))])
      /\ pool' = {Recorded(a1, InPool) : a1 \in pool}
      /\ assigned' = IF Factor(l) = Factor(m) THEN assigned ELSE Rescaled(core[l], core[m])

(* An assembly that is not in the core has no symmetry: its factor is 1.   *)
DischargeSwap(incoming, l) ==
  /\ Shuffle /\ PlatesMayMove(l)
  /\ AtCentre(l) => DischargeCentre
  /\ core' = RecordedAll([core EXCEPT ![l] =
       Moved(WithStationaryOf(incoming, core[l]), 1, Factor(l))])
  /\ pool' = {Recorded(a, InPool) : a \in (pool \ {incoming}) \cup
                {WithStationaryOf(core[l], incoming)}}
  /\ assigned' = [Touched EXCEPT !["mass"] = ANYTHING]
-----------------------------------------------------------------------------
(* A flux solve gives every block of the core as it is its power. *)

Solve ==
  /\ use # "failed"
  /\ use = "grown" => "power" \in changer.scaled \/ FirstSolvedFull
  /\ core' = [l \in DOMAIN core |-> [core[l] EXCEPT !.block = [q \in Parts |->
       [core[l].block[q] EXCEPT !.p["power"] = Whole(core[l].block[q]) \div Factor(l)]]]]
  /\ assigned' = [assigned EXCEPT !["power"] = ANYTHING]
  /\ UNCHANGED <<symmetry, pool, stationary, use, changer, cycle, original>>

(* Block.getArea of the fuel block in a cell. *)
GetArea(l) ==
  /\ use # "failed" /\ core[l].block["fuel"].area = NotCached
  /\ Cardinality({m \in DOMAIN core : core[m].block["fuel"].area # NotCached}) < MaxCached
  /\ core' = [core EXCEPT ![l].block["fuel"].area = Factor(l)]
  /\ UNCHANGED <<symmetry, pool, assigned, stationary, use, changer, cycle, original>>
-----------------------------------------------------------------------------
(* EdgeAssemblyChanger, around a flux solve in finite differences *)

OnLine(line) == {l \in DOMAIN core : SymmetryLine(l) = line}
Lower == OnLine("BOUNDARY_0_DEGREES")
Upper == OnLine("BOUNDARY_120_DEGREES")

(* Mutant of SinceGeometry: what was assigned before is not forgotten.     *)
SinceGeometry_Kept == Touched

SinceGeometry == [x \in Params |-> assigned[x] \ {"GEOM"}]

AddEdgeAssemblies ==
  LET reflected == {SymmetricEquivalents(l)[1] : l \in Lower}
      cells     == DOMAIN core \cup reflected
      source(l) == CHOOSE m \in Lower : SymmetricEquivalents(m)[1] = l
  IN  /\ use = "none" /\ symmetry = "third"
      /\ core' = [l \in cells |->
           IF l \in reflected THEN Moved(core[source(l)], 1, FactorIn(symmetry, cells, l))
           ELSE IF l \in Lower THEN Uncached(core[l])
           ELSE core[l]]
      /\ assigned' = SinceGeometry
      /\ use' = "edges" /\ original' = core
      /\ UNCHANGED <<symmetry, pool, stationary, changer, cycle>>

(* scaleParamsRelatedToSymmetry, for those assigned since the edge         *)
(* assemblies were added.                                                  *)
JoinedBlock(b, symmetric) ==
  [b EXCEPT !.p = [x \in Params |->
     IF "GEOM" \in assigned[x] /\ b.p[x] # Unsolved THEN b.p[x] + symmetric.p[x] ELSE b.p[x]]]

Joined(a, symmetric) ==
  [a EXCEPT !.block = [q \in Parts |-> JoinedBlock(a.block[q], symmetric.block[q])]]

(* Mutant of RemainingCache: the lower edge's areas stay cached.           *)
RemainingCache_Kept(a) == a

(* removeEdgeAssemblies: "clear cached area since symmetry factor will     *)
(* change"                                                                 *)
RemainingCache(a) == Uncached(a)

(* The flag is set again for what was ever assigned, if there were edge    *)
(* assemblies.                                                             *)
UndoEdgeAssemblies ==
  /\ use = "edges"
  /\ core' = [l \in DOMAIN core \ Upper |->
       IF l \in Lower THEN RemainingCache(Joined(core[l], core[SymmetricEquivalents(l)[1]]))
       ELSE core[l]]
  /\ assigned' = TouchedBy(Upper)
  /\ use' = "none"
  /\ UNCHANGED <<symmetry, pool, stationary, changer, cycle, original>>

SolveFails ==
  /\ use = "edges" /\ use' = "failed"
  /\ UNCHANGED <<symmetry, core, pool, assigned, stationary, changer, cycle, original>>
-----------------------------------------------------------------------------
(* ThirdCoreHexToFullCoreChanger *)

(* Mutant of InImage: both copies are given the history of the first.      *)
InImage_First(place, k) ==
  IF place \in NotInCore THEN place
  ELSE IndicesToRingPos(SymmetricEquivalents(IndicesFromRingAndPos(place[1], place[2]))[1])

(* _updateThirdToFullCoreLocHist, for the k-th of a cell's equivalents. *)
InImage(place, k) ==
  IF place \in NotInCore THEN place
  ELSE IndicesToRingPos(SymmetricEquivalents(IndicesFromRingAndPos(place[1], place[2]))[k])

Image(a, k) == [a EXCEPT !.hist = [n \in DOMAIN a.hist |-> InImage(a.hist[n], k)]]

(* An assembly that is copied was at the centre once, a place without      *)
(* equivalents: IndexError.                                                *)
CameFromCentre ==
  \E l \in DOMAIN core \ {Centre} : \E n \in DOMAIN core[l].hist :
    core[l].hist[n] = IndicesToRingPos(Centre)

(* Mutant of ScaledUp: the centre stays a third.                           *)
ScaledUp_Not(a, params) == a

ScaledUp(a, params) == Scaled(a, params, 3, 1)
ScaledDown(a, params) == Scaled(a, params, 1, 3)

Convert ==
  LET images == UNION {{SymmetricEquivalents(l)[k] : k \in 1..2} : l \in DOMAIN core \ {Centre}}
      whose(l) == CHOOSE m \in DOMAIN core \ {Centre} : \E k \in 1..2 : SymmetricEquivalents(m)[k] = l
      which(l) == CHOOSE k \in 1..2 : SymmetricEquivalents(whose(l))[k] = l
      scaled == {x \in Params : "GEOM" \in assigned[x]}
  IN  /\ use = "none" /\ symmetry = "third" /\ ~CameFromCentre
      /\ symmetry' = "full" /\ use' = "grown"
      /\ core' = [l \in DOMAIN core \cup images |-> Uncached(
           IF l = Centre         THEN ScaledUp(core[l], scaled)
           ELSE IF l \in images THEN Image(core[whose(l)], which(l))
           ELSE core[l])]
      /\ assigned' = TouchedBy(images)
      /\ changer' = [added |-> images, scaled |-> scaled]
      /\ original' = core
      /\ UNCHANGED <<pool, stationary, cycle>>

ConvertFails ==
  /\ use = "none" /\ symmetry = "third" /\ CameFromCentre
  /\ use' = "failed"
  /\ UNCHANGED <<symmetry, core, pool, assigned, stationary, changer, cycle, original>>

(* A core that is its centre alone has no images and stays a full one.     *)
RestorePreviousGeometry ==
  /\ use = "grown" /\ use' = "none"
  /\ symmetry' = IF changer.added = {} THEN symmetry ELSE "third"
  /\ core' = IF changer.added = {} THEN core ELSE
       [l \in DOMAIN core \ changer.added |->
          Uncached(IF l = Centre THEN ScaledDown(core[l], changer.scaled) ELSE core[l])]
  /\ assigned' = TouchedBy(changer.added)
  /\ changer' = NoConverter
  /\ UNCHANGED <<pool, stationary, cycle, original>>

(* The core was grown for good, as after a load from a database. *)
StaysFull ==
  /\ use = "grown" /\ use' = "none" /\ changer' = NoConverter
  /\ UNCHANGED <<symmetry, core, pool, assigned, stationary, cycle, original>>

Failed == use = "failed" /\ UNCHANGED vars

Next ==
  \/ \E l, m \in DOMAIN core : SwapAssemblies(l, m)
  \/ \E l \in DOMAIN core, incoming \in pool \cup {NewAssembly(ReplacementNumber, <<>>)} :
       DischargeSwap(incoming, l)
  \/ Solve
  \/ \E l \in Measured \cap DOMAIN core : GetArea(l)
  \/ AddEdgeAssemblies \/ UndoEdgeAssemblies \/ SolveFails
  \/ Convert \/ ConvertFails \/ RestorePreviousGeometry \/ StaysFull
  \/ Failed

Spec == Init /\ [][Next]_vars
=============================================================================
