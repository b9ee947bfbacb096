---------------------------- MODULE AxialMeshes ----------------------------
(***************************************************************************)
(* The axial meshes of a core: its assemblies expand, snap to the mesh of  *)
(* the reference assembly, and are made uniform for a flux solve whose     *)
(* results are mapped back (reactor/converters/uniformMesh.py, used by     *)
(* globalFluxInterface.py).  A core is uniform as a whole copy of itself   *)
(* on a generated mesh, or in place: assemblies with a non-uniform mesh    *)
(* are put aside and replaced by uniform ones of the same name.            *)
(***************************************************************************)
EXTENDS AxialExpansion, Functions, TLC

CONSTANTS
  Loading,        \* place -> blocks of the assembly there, as built
  Reference,      \* the place of the reference assembly
  Changes,        \* place -> the expansions, changes of height by <<block, shape>>
  Cases,          \* what the settings ask for: [detailed, nonUniform]
  MinimumSizes,   \* of cells of the generated mesh (uniformMeshMinimumSize)
  NoSize,         \* the setting's None
  Rates,          \* of power per length that a solve may find
  MaxMoves        \* bound on the moves counted of an assembly

Places == DOMAIN Loading
NoCore == << >>

(* Blocks as built are stacked, each below the top has a target that is    *)
(* one of its solids (determineTargetComponent raises else), and none      *)
(* tracks a mesh yet.                                                      *)
IsBuilt(a) ==
  /\ Len(a) \in Nat /\ Len(a) >= 2 /\ a = [i \in 1..Len(a) |-> a[i]]
  /\ \A i \in 1..Len(a) :
       /\ DOMAIN a[i] =
            {"zb", "zt", "flags", "target", "topIndex", "power", "peak", "solids"}
       /\ a[i].zb = (IF i = 1 THEN 0 ELSE a[i - 1].zt)
       /\ {a[i].zb, a[i].zt} \subseteq Nat /\ a[i].zb < a[i].zt
       /\ i < Len(a) => a[i].target \in DOMAIN a[i].solids
       /\ a[i].topIndex = 0
       /\ \A s \in DOMAIN a[i].solids :
            /\ DOMAIN a[i].solids[s] = {"material", "mass", "zb", "zt", "h"}
            /\ a[i].solids[s].mass \in Nat

ASSUME LoadingAssumption ==
  /\ IsFiniteSet(Places) /\ Reference \in Places /\ \A p \in Places : IsBuilt(Loading[p])
  /\ \A c \in Cases : c.nonUniform \subseteq Places /\ c.detailed \in BOOLEAN
  /\ \A p \in Places : \A change \in Changes[p] : \A x \in DOMAIN change : change[x] \in Int

(* A solver finds no negative power.                                       *)
ASSUME RatesAssumption == Rates \subseteq Nat

(* Else makeAxialSnapList raises and there is no core.                     *)
ASSUME SnapAssumption ==
  \A c \in Cases : ~c.detailed => \A p \in Places \ c.nonUniform :
    ToSet(TopsOf(Loading[p])) \subseteq ToSet(TopsOf(Loading[Reference]))

VARIABLES
  case,           \* the case's settings
  core,           \* place -> assembly of the core
  byName,         \* assembliesByName: name -> the assembly, as <<place, uniform>>
  blocksByName,   \* <<name, index>> -> the same for blocks
  storage,        \* _nonUniformAssemStorage
  copy,           \* convReactor: the core of the uniform copy
  use,            \* "none", "inPlace" or "copy"; "failed" or "unmapped" for good
  solved,         \* whether the uniform core has been solved
  expanded        \* the places whose assembly has been expanded

vars == <<case, core, byName, blocksByName, storage, copy, use, solved, expanded>>
names == <<byName, blocksByName>>

Suffix == "-TEMP"    \* _TEMP_STORAGE_NAME_SUFFIX

(***************************************************************************)
(* An assembly of a core.  "uniform" tells a homogenized one; blocks hold  *)
(* power, which is integrated over the volume, and the peak of its rate.   *)
(***************************************************************************)
NewAssembly(name, blocks) ==
  [name |-> <<name, "">>, uniform |-> FALSE, moves |-> 0, blocks |-> blocks]

BlockNames(a) == {<<a.name[1], i>> : i \in DOMAIN a.blocks}

Init ==
  /\ case \in Cases
  /\ core = [p \in Places |-> NewAssembly(p,
       IF case.detailed \/ p \in case.nonUniform THEN Loading[p]
       ELSE Snapping(Loading[p], TopsOf(Loading[Reference])))]
  /\ byName = [n \in {<<p, "">> : p \in Places} |-> <<n[1], FALSE>>]
  /\ blocksByName = [n \in UNION {BlockNames(core[p]) : p \in Places} |-> <<n[1], FALSE>>]
  /\ storage = {} /\ copy = NoCore /\ use = "none" /\ solved = FALSE /\ expanded = {}

(***************************************************************************)
(* Changing the meshes.                                                    *)
(***************************************************************************)
MayExpand(p) ==
  /\ use = "none" /\ p \notin expanded
  /\ case.detailed => "dummy" \in core[p].blocks[Len(core[p].blocks)].flags

(* performPrescribedAxialExpansion                                         *)
Expand(p, change) ==
  /\ MayExpand(p)
  /\ LET result == AxiallyExpanded(core[p].blocks, change)
     IN  /\ ~result.raised
         /\ core' = [core EXCEPT ![p].blocks = AtRest(result.blocks)]
  /\ expanded' = expanded \cup {p}
  /\ UNCHANGED <<case, names, storage, copy, use, solved>>

(* An ArithmeticError leaves the assembly half expanded and ends the case. *)
ExpandFails(p, change) ==
  /\ MayExpand(p) /\ AxiallyExpanded(core[p].blocks, change).raised
  /\ use' = "failed" /\ UNCHANGED <<case, core, names, storage, copy, solved, expanded>>

(* manageCoreMesh                                                          *)
ManageCoreMesh ==
  /\ use = "none" /\ expanded # {} /\ ~case.detailed
  /\ core' = [p \in Places |->
       [core[p] EXCEPT !.blocks = OnMesh(@, TopsOf(core[Reference].blocks))]]
  /\ UNCHANGED <<case, names, storage, copy, use, solved, expanded>>

(***************************************************************************)
(* Mapping from the blocks of one mesh to those of another.                *)
(***************************************************************************)
Least(m, n)    == IF m < n THEN m ELSE n
Greatest(m, n) == IF m > n THEN m ELSE n

Overlap(b, zb, zt) == Least(b.zt, zt) - Greatest(b.zb, zb)

(* getBlocksBetweenElevations: the blocks that a part of lies in between.  *)
BlocksBetween(blocks, zb, zt) == {i \in DOMAIN blocks : Overlap(blocks[i], zb, zt) > 0}

(* Mutant: the share is of the block that receives.                        *)
FromOverlaps_Received(blocks, zb, zt, held) ==
  SumFunction([i \in BlocksBetween(blocks, zb, zt) |->
                 Portion(held[i], Overlap(blocks[i], zb, zt), zt - zb)])

(* What a block holds of an integrated quantity, from what the blocks of   *)
(* the other mesh hold in the part of them that overlaps it.               *)
FromOverlaps(blocks, zb, zt, held) ==
  SumFunction([i \in BlocksBetween(blocks, zb, zt) |->
                 Portion(held[i], Overlap(blocks[i], zb, zt), Height(blocks[i]))])

Materials == {"fuel", "absorber", "steel"}

MassIn(b, m) ==
  SumFunction([s \in {x \in DOMAIN b.solids : b.solids[x].material = m} |-> b.solids[s].mass])

(* makeAssemWithUniformMesh: the blocks on a mesh of tops.  The block that *)
(* is copied for its cross-section type is not told apart, and            *)
(* setNumberDensitiesFromOverlaps conserves atoms.                         *)
Bottom(tops, k) == IF k = 1 THEN 0 ELSE tops[k - 1]

Uniform(a, tops) ==
  [a EXCEPT !.uniform = TRUE, !.moves = 1, !.blocks = [k \in DOMAIN tops |->
     [zb |-> Bottom(tops, k), zt |-> tops[k], power |-> 0, peak |-> 0,
      atoms |-> [m \in Materials |->
                   FromOverlaps(a.blocks, Bottom(tops, k), tops[k],
                                [i \in DOMAIN a.blocks |-> MassIn(a.blocks[i], m)])]]]]

(* Each cell has a height and overlaps a block: else ValueError.           *)
Covers(blocks, tops) ==
  \A k \in DOMAIN tops : BlocksBetween(blocks, Bottom(tops, k), tops[k]) # {}

(* Mutant: what a block had is added to.                                   *)
Mapped_Added(source, blocks) ==
  [k \in DOMAIN blocks |->
     LET b == blocks[k]
     IN  [b EXCEPT !.power = @ + FromOverlaps(source, b.zb, b.zt, [i \in DOMAIN source |-> source[i].power]),
                   !.peak  = Max({@} \cup {source[i].peak : i \in BlocksBetween(source, b.zb, b.zt)})]]

(* setAssemblyStateFromOverlaps, the way out: a block of no height keeps   *)
(* what it has.                                                            *)
Mapped(source, blocks) ==
  [k \in DOMAIN blocks |->
     LET b == blocks[k]  from == BlocksBetween(source, b.zb, b.zt)
     IN  IF from = {} THEN b
         ELSE [b EXCEPT !.power = FromOverlaps(source, b.zb, b.zt, [i \in DOMAIN source |-> source[i].power]),
                        !.peak  = Max({0} \cup {source[i].peak : i \in from})]]

CanBeMapped(source, blocks) ==
  \A k \in DOMAIN blocks :
    Height(blocks[k]) = 0 \/ BlocksBetween(source, blocks[k].zb, blocks[k].zt) # {}

(***************************************************************************)
(* UniformMeshGenerator: the mesh of a uniform copy, as a set of tops.     *)
(* {} stands for a ValueError.                                             *)
(***************************************************************************)
AveragedPlaces == {p \in Places : Len(core[p].blocks) = Len(core[Reference].blocks)}

Total(places, k) == SumFunction([p \in places |-> core[p].blocks[k].zt])

(* average1DWithinTolerance: rows with a value that is a fifth off are     *)
(* left out until there are none.                                          *)
NearAverage(places) ==
  {p \in places : \A k \in DOMAIN core[p].blocks :
     LET off == Cardinality(places) * core[p].blocks[k].zt - Total(places, k)
     IN  5 * Greatest(off, -off) <= Total(places, k)}

AverageMesh ==
  LET settled[places \in SUBSET AveragedPlaces] ==
        LET near == NearAverage(places) IN IF near = places THEN places ELSE settled[near]
      rows == settled[AveragedPlaces]
  IN  {Total(rows, k) \div Cardinality(rows) :
         k \in IF rows = {} THEN {} ELSE DOMAIN core[Reference].blocks}

InOrder(points) ==
  LET order[S \in SUBSET points] ==
        IF S = {} THEN << >> ELSE LET least == Min(S) IN <<least>> \o order[S \ {least}]
  IN  order[points]

(* _filterMesh: of two points that are too close one is removed, the one   *)
(* that comes second unless it is an anchor; an error if both are.         *)
Filtered(points, size, anchors, preference) ==
  LET order == IF preference = "bottom" THEN InOrder(points) ELSE Reverse(InOrder(points))
      filter[list \in Seq(points)] ==
        LET close == {i \in 1..Len(list) - 1 :
                        Greatest(list[i + 1] - list[i], list[i] - list[i + 1]) < size}
            i == Min(close)
        IN  IF close = {} THEN ToSet(list)
            ELSE IF {list[i], list[i + 1]} \subseteq anchors THEN {}
            ELSE IF list[i + 1] \in anchors THEN filter[RemoveAt(list, i)]
            ELSE filter[RemoveAt(list, i + 1)]
  IN  filter[order]

With(flag, p) == {i \in DOMAIN core[p].blocks : flag \in core[p].blocks[i].flags}

BottomsOf(flag) ==
  {core[p].blocks[Min(With(flag, p))].zb : p \in {q \in Places : With(flag, q) # {}}}
UppersOf(flag) ==
  {core[p].blocks[Max(With(flag, p))].zt : p \in {q \in Places : With(flag, q) # {}}}

(* _decuspAxialMesh: boundaries of fuel and absorber are put in the mesh   *)
(* and points too close to them taken out.                                 *)
Decusped(common, size) ==
  LET fuelBottoms == Filtered(BottomsOf("fuel"), size, {Min(BottomsOf("fuel"))}, "bottom")
      fuelTops    == Filtered(UppersOf("fuel"), size, {Max(UppersOf("fuel"))}, "top")
      bottoms     == Filtered(fuelBottoms \cup BottomsOf("control"), size, fuelBottoms, "bottom")
      tops        == Filtered(fuelTops \cup UppersOf("control"), size, fuelTops, "top")
      anchors     == Filtered(bottoms \cup tops, size, fuelBottoms \cup fuelTops, "bottom")
      withBottoms == Filtered(common \cup bottoms, size, bottoms, "bottom")
      withTops    == Filtered(common \cup tops, size, tops, "top")
  IN  IF {} \in {fuelBottoms, fuelTops, bottoms, tops, anchors, withBottoms, withTops} THEN {}
      ELSE Filtered(withBottoms \cup withTops, size, anchors, "top")

(* generateCommonMesh, in order                                            *)
CommonMesh(size) ==
  InOrder(IF size = NoSize \/ AverageMesh = {} THEN AverageMesh ELSE Decusped(AverageMesh, size))

(***************************************************************************)
(* UniformMeshGeometryConverter and the solve within it.                   *)
(***************************************************************************)
(* The one function where it is defined, the other elsewhere.              *)
Over(f, g) == [x \in DOMAIN f \cup DOMAIN g |-> IF x \in DOMAIN f THEN f[x] ELSE g[x]]

(* Mutant: names are left in the table.                                    *)
Without_Left(f, S) == f

Without(f, S) == Restrict(f, DOMAIN f \ S)

(* The mesh of the core is that of the reference assembly, over those with *)
(* the same points (Core.updateAxialMesh).                                 *)
ConvertInPlace ==
  LET tops == TopsOf(core[Reference].blocks)
      new  == [p \in case.nonUniform |-> Uniform(core[p], tops)]
  IN  /\ use = "none" /\ case.nonUniform # {}
      /\ \A p \in case.nonUniform : core[p].moves < MaxMoves
      /\ \A p \in case.nonUniform : Covers(core[p].blocks, tops)
      /\ core' = Over(new, core)
      /\ byName' = Over([n \in {new[q].name : q \in DOMAIN new} |-> <<n[1], TRUE>>], byName)
      /\ blocksByName' = Over([n \in UNION {BlockNames(new[q]) : q \in DOMAIN new} |-> <<n[1], TRUE>>],
           Without(blocksByName, UNION {BlockNames(core[q]) : q \in DOMAIN new}))
      /\ storage' = {[core[p] EXCEPT !.name[2] = Suffix] : p \in case.nonUniform}
      /\ use' = "inPlace" /\ UNCHANGED <<case, copy, solved, expanded>>

ConvertToCopy(size) ==
  LET tops == CommonMesh(size)
  IN  /\ use = "none" /\ case.nonUniform = {} /\ case.detailed
      /\ tops # << >> /\ \A p \in Places : Covers(core[p].blocks, tops)
      /\ copy' = [p \in Places |-> Uniform(core[p], tops)]
      /\ use' = "copy" /\ UNCHANGED <<case, core, names, storage, solved, expanded>>

ConvertFails(size) ==
  LET tops == CommonMesh(size)
  IN  /\ use = "none" /\ case.nonUniform = {} /\ case.detailed
      /\ tops = << >> \/ \E p \in Places : ~Covers(core[p].blocks, tops)
      /\ use' = "failed" /\ UNCHANGED <<case, core, copy, names, storage, solved, expanded>>

(* The solver finds a rate in each block.                                  *)
SolvedWith(assembly, r) ==
  [assembly EXCEPT !.blocks = [k \in DOMAIN @ |->
     [assembly.blocks[k] EXCEPT !.power = (r + k) * Height(assembly.blocks[k]), !.peak = r + k]]]

Solve(r) ==
  /\ use \in {"inPlace", "copy"} /\ ~solved
  /\ core' = IF use = "inPlace" THEN [p \in Places |-> SolvedWith(core[p], r)] ELSE core
  /\ copy' = IF use = "copy" THEN [p \in Places |-> SolvedWith(copy[p], r)] ELSE copy
  /\ solved' = TRUE /\ UNCHANGED <<case, names, storage, use, expanded>>

StoredFor(a) == {s \in storage : s.name = <<a.name[1], Suffix>>}

(* applyStateToOriginal for assemblies that were replaced.  Core.add       *)
(* counts a move of each one that comes back.                              *)
ApplyInPlace ==
  /\ use = "inPlace" /\ solved
  /\ \A p \in case.nonUniform : \A s \in StoredFor(core[p]) : CanBeMapped(core[p].blocks, s.blocks)
  /\ LET back == [p \in case.nonUniform |->
                    LET s == CHOOSE s \in StoredFor(core[p]) : TRUE
                    IN  [s EXCEPT !.name = core[p].name, !.moves = @ + 1,
                                  !.blocks = Mapped(core[p].blocks, @)]]
     IN  /\ core' = Over(back, core)
         /\ byName' = Over([n \in {back[q].name : q \in DOMAIN back} |-> <<n[1], FALSE>>], byName)
         /\ blocksByName' = Over([n \in UNION {BlockNames(back[q]) : q \in DOMAIN back} |-> <<n[1], FALSE>>],
              Without(blocksByName, UNION {BlockNames(core[q]) : q \in DOMAIN back}))
  /\ storage' = {s \in storage : \A p \in case.nonUniform : s \notin StoredFor(core[p])}
  /\ use' = "none" /\ solved' = FALSE /\ UNCHANGED <<case, copy, expanded>>

(* The copy's results are applied (applyResultsToReactor) and it is left;  *)
(* a block without a source raises ValueError amid the mapping.            *)
ApplyCopy ==
  /\ use = "copy" /\ solved
  /\ IF \A p \in Places : CanBeMapped(copy[p].blocks, core[p].blocks)
     THEN /\ core' = [p \in Places |-> [core[p] EXCEPT !.blocks = Mapped(copy[p].blocks, @)]]
          /\ copy' = NoCore /\ use' = "none" /\ solved' = FALSE
     ELSE use' = "unmapped" /\ UNCHANGED <<core, copy, solved>>
  /\ UNCHANGED <<case, names, storage, expanded>>

LeaveCopy ==
  /\ use = "copy" /\ solved /\ copy' = NoCore /\ use' = "none" /\ solved' = FALSE
  /\ UNCHANGED <<case, core, names, storage, expanded>>

Next ==
  \/ \E p \in Places : \E change \in Changes[p] : Expand(p, change) \/ ExpandFails(p, change)
  \/ ManageCoreMesh
  \/ ConvertInPlace
  \/ \E size \in MinimumSizes : ConvertToCopy(size) \/ ConvertFails(size)
  \/ \E r \in Rates : Solve(r)
  \/ ApplyInPlace \/ ApplyCopy \/ LeaveCopy

Spec == Init /\ [][Next]_vars
=============================================================================
