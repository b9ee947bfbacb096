------------------------------ MODULE XsGroups ------------------------------
(***************************************************************************)
(* Cross sections: CrossSectionGroupManager sorts the blocks into groups   *)
(* by cross-section type and environment (burnup and temperature) and      *)
(* makes a representative block of each group                              *)
(* (physics/neutronics/crossSectionGroupManager.py), from which            *)
(* LatticePhysicsInterface has a library generated                         *)
(* (physics/neutronics/latticePhysics/latticePhysicsInterface.py), both    *)
(* when the setting latticePhysicsFrequency says so.  Fuel handling, the   *)
(* flux and temperature solvers and depletion change the blocks meanwhile. *)
(* Each step is the hook of one interface, in the order of the stack.      *)
(***************************************************************************)
EXTENDS Integers, Sequences, FiniteSetsExt

CONSTANTS
  Designs,        \* the blocks of the blueprints
  XsType,         \* the cross-section type of a design
  Candidates,     \* the designs that can represent a group: fuel
  PregeneratedTypes, \* the types whose cross sections are in given files
  Loaded,         \* the design in each place of the core at beginning of life
  BuBounds,       \* buGroups: upper burnups, ascending
  TempGroups,     \* the number of temperature groups
  Tolerance,      \* tolerateBurnupChange
  GenXS,          \* genXS is set
  SkipCycles,     \* skipCycles: the first cycle to generate cross sections in
  SkipTight,      \* cyclesSkipTightCouplingInteraction
  Frequencies,    \* the settings of latticePhysicsFrequency to consider
  NCycles, LastNode, MaxIters,
  BurnStep        \* the burnup that a block gains at a node, if any

Places == DOMAIN Loaded

(* LatticePhysicsFrequency *)
never == 0
BOL == 1
BOC == 2
everyNode == 3
firstCoupledIteration == 4
all == 5

ASSUME XsAssumption ==
  /\ XsType \in [Designs -> STRING] /\ Candidates \subseteq Designs
  /\ \A p \in Places : Loaded[p] \in Designs
  /\ BuBounds \in Seq(1..100)
  /\ \A i \in 1..(Len(BuBounds) - 1) : BuBounds[i] <= BuBounds[i + 1]
  /\ TempGroups \in Nat \ {0} /\ Frequencies \subseteq never..all
  /\ {Tolerance, SkipCycles, LastNode} \subseteq Nat /\ GenXS \in BOOLEAN
  /\ {NCycles, MaxIters, BurnStep} \subseteq Nat \ {0}

VARIABLES
  freq,            \* _latticePhysicsFrequency
  couplingIsActive,\* tightCoupling
  before,          \* runLatticePhysicsBeforeShuffling
  core,            \* the block in each place
  reps,            \* representativeBlocks
  lib,             \* core._lib, or NoLib
  isotxs,          \* the file in the working directory
  oldBu,           \* _oldXsIdsAndBurnup
  event, step,     \* the hook, and the interface whose turn it is
  cycle, node,
  iter             \* coupledIteration: 0 before the first

settings == <<freq, couplingIsActive, before>>
vars == <<settings, core, reps, lib, isotxs, oldBu, event, step, cycle, node, iter>>

NoLib == [id \in {} |-> 0]       \* also: no file, no representative blocks
Now   == <<cycle, node, iter>>

Fresh(d) == [design |-> d, bu |-> 0, temp |-> 0, group |-> 0]

Type(b)        == XsType[b.design]
IsCandidate(b) == b.design \in Candidates
Suffix(b)      == <<Type(b), b.group>>              \* getMicroSuffix

Init ==
  /\ freq \in Frequencies /\ couplingIsActive \in BOOLEAN /\ before \in BOOLEAN
  /\ core = [p \in Places |-> Fresh(Loaded[p])]
  /\ reps = NoLib /\ lib = NoLib /\ isotxs = NoLib /\ oldBu = NoLib
  /\ event = "BOL" /\ step = "groups" /\ cycle = 0 /\ node = 0 /\ iter = 0
-----------------------------------------------------------------------------
(* CrossSectionGroupManager *)

(* The first group whose upper bound is not below the burnup. *)
BuGroup(bu) == Min({i - 1 : i \in {j \in DOMAIN BuBounds : bu <= BuBounds[j]}} \cup {Len(BuBounds)})

EnvironmentGroup(b) == b.temp * (Len(BuBounds) + 1) + BuGroup(b.bu)

(* _updateEnvironmentGroups: a single group is left alone. *)
Regrouped(b) ==
  IF BuBounds = <<>> /\ TempGroups = 1 THEN b ELSE [b EXCEPT !.group = EnvironmentGroup(b)]

SuffixesOf(blocks) == {Suffix(b) : b \in blocks}

(* Mutant of MissingBlueprintBlocks: only the core is looked at.           *)
MissingBlueprintBlocks_None(suffixes) == {}

(* _getMissingBlueprintBlocks *)
MissingBlueprintBlocks(suffixes) ==
  {b \in {Regrouped(Fresh(d)) : d \in Designs} : Suffix(b) \notin suffixes}

Average(S) == FoldSet(LAMBDA p, total : total + core[p].bu, 0, S) \div Cardinality(S)

(* _getAlternateEnvGroup: the first in the sorted representative blocks. *)
AlternateEnvGroup(type, represented) ==
  Min({id[2] : id \in {i \in represented : i[1] = type}})

(* createRepresentativeBlocks; a block whose group has no candidate is     *)
(* moved to a group of its type that is represented, if there is one.      *)
CreateRepresentativeBlocks ==
  LET grouped     == [p \in Places |-> Regrouped(core[p])]
      inCore      == {grouped[p] : p \in Places}
      collected   == inCore \cup MissingBlueprintBlocks(SuffixesOf(inCore))
      ids         == {id \in SuffixesOf(collected) : id[1] \notin PregeneratedTypes}
      represented == ids \cap SuffixesOf({b \in collected : IsCandidate(b)})
      members(id) == {p \in Places : Suffix(grouped[p]) = id /\ IsCandidate(grouped[p])}
      others(type) == {id \in represented : id[1] = type}
  IN  /\ reps' = [id \in represented |->
           [bu   |-> IF members(id) = {} THEN 0 ELSE Average(members(id)),
            made |-> Now]]
      /\ core' = [p \in Places |->
           IF Suffix(grouped[p]) \in ids \ represented /\ others(Type(grouped[p])) # {}
           THEN [grouped[p] EXCEPT !.group = AlternateEnvGroup(Type(grouped[p]), represented)]
           ELSE grouped[p]]

(* interactBOL, interactBOC, interactEveryNode, interactCoupled. *)
GroupsDue ==
  \/ event = "BOL" /\ freq = BOL
  \/ event \in {"before", "BOC"} /\ freq = BOC
  \/ event = "node" /\ freq >= everyNode
  \/ event = "coupled" /\ freq = firstCoupledIteration /\ iter = 1
  \/ event = "coupled" /\ freq = all

Groups ==
  /\ step = "groups" /\ event # "EOC" /\ step' = "lattice"
  /\ IF GroupsDue THEN CreateRepresentativeBlocks ELSE UNCHANGED <<core, reps>>
  /\ UNCHANGED <<settings, lib, isotxs, oldBu, event, cycle, node, iter>>
-----------------------------------------------------------------------------
(* LatticePhysicsInterface *)

AbsDiff(a, b) == IF a > b THEN a - b ELSE b - a

BurnupChanged(id) ==
  id \notin DOMAIN oldBu \/ AbsDiff(oldBu[id], reps[id].bu) > Tolerance

IdsChangedBurnup == Tolerance > 0 => \E id \in DOMAIN reps : BurnupChanged(id)

(* _checkBurnupThresholds *)
CheckBurnupThresholds ==
  oldBu' = IF Tolerance = 0 THEN oldBu
           ELSE [id \in DOMAIN oldBu \cup DOMAIN reps |->
                   IF id \in DOMAIN reps /\ BurnupChanged(id) THEN reps[id].bu ELSE oldBu[id]]

(* _newLibraryShouldBeCreated: with a library, only for what it lacks. *)
NewLibraryShouldBeCreated(current) ==
  IF current # NoLib THEN DOMAIN reps \ DOMAIN current # {}
  ELSE GenXS /\ cycle >= SkipCycles /\ IdsChangedBurnup

(* updateXSLibrary, after the library in use was dropped or not. *)
UpdateXSLibrary(current) ==
  /\ CheckBurnupThresholds
  /\ IF NewLibraryShouldBeCreated(current) THEN isotxs' = reps /\ lib' = reps
     ELSE lib' = isotxs /\ UNCHANGED isotxs

(* interactBOL, interactBOC, interactEveryNode, interactCoupled. *)
LatticeDue ==
  \/ event = "BOL" /\ freq = BOL
  \/ event \in {"before", "BOC"} /\ freq = BOC
  \/ event = "node" /\ freq >= everyNode
  \/ event = "coupled" /\ freq >= (IF iter = 1 THEN firstCoupledIteration ELSE all)

(* Mutant of Kept: every coupled run keeps the library.                  *)
Kept_Coupled == event \in {"BOL", "before", "BOC"} \/ (event = "node" /\ couplingIsActive)

(* The library in use is not dropped before the update. *)
Kept ==
  \/ event \in {"BOL", "before", "BOC"}
  \/ event = "node" /\ couplingIsActive /\ freq # everyNode

AfterLattice ==
  IF event = "BOL" /\ before          THEN <<"before", "groups">>
  ELSE IF event \in {"BOL", "before"} THEN <<"BOC", "shuffle">>
  ELSE IF event = "BOC"               THEN <<"node", "groups">>
  ELSE <<event, "flux">>

Lattice ==
  /\ step = "lattice" /\ event # "EOC"
  /\ event' = AfterLattice[1] /\ step' = AfterLattice[2]
  /\ IF LatticeDue THEN UpdateXSLibrary(IF Kept THEN lib ELSE NoLib)
     ELSE UNCHANGED <<lib, isotxs, oldBu>>
  /\ UNCHANGED <<settings, core, reps, cycle, node, iter>>

(* The lib property of the core. *)
CoreLib == IF lib # NoLib THEN lib ELSE isotxs
-----------------------------------------------------------------------------
(* The other interfaces and the operator *)

(* Fuel handling at the beginning of a cycle: at most one block is         *)
(* discharged for a fresh one.                                             *)
Shuffle ==
  /\ step = "shuffle" /\ step' = "groups"
  /\ \/ UNCHANGED core
     \/ \E p \in Places, d \in Designs :
          /\ d \in Candidates <=> IsCandidate(core[p])
          /\ core' = [core EXCEPT ![p] = Fresh(d)]
  /\ UNCHANGED <<settings, reps, lib, isotxs, oldBu, event, cycle, node, iter>>

Fuelled == {p \in Places : IsCandidate(core[p])}

(* Depletion, at every node after the first. *)
Deplete ==
  /\ step = "deplete" /\ step' = "groups"
  /\ \E burnt \in SUBSET Fuelled :
       core' = [p \in Places |-> IF p \in burnt THEN [core[p] EXCEPT !.bu = @ + BurnStep] ELSE core[p]]
  /\ UNCHANGED <<settings, reps, lib, isotxs, oldBu, event, cycle, node, iter>>

CouplesNow == couplingIsActive /\ cycle \notin SkipTight

NextNode ==
  IF node < LastNode
  THEN event' = "node" /\ step' = "deplete" /\ node' = node + 1 /\ iter' = 0
  ELSE event' = "EOC" /\ step' = "groups" /\ iter' = 0 /\ UNCHANGED node

(* A flux solve and the temperatures that come of it, at a node or in a    *)
(* coupled iteration, which may be the last.                               *)
Solve ==
  /\ step = "flux"
  /\ \E hot \in SUBSET Fuelled :
       core' = [p \in Places |-> IF p \in Fuelled
         THEN [core[p] EXCEPT !.temp = IF p \in hot THEN TempGroups - 1 ELSE 0] ELSE core[p]]
  /\ \/ /\ CouplesNow /\ iter < MaxIters
        /\ event' = "coupled" /\ step' = "groups" /\ iter' = iter + 1 /\ UNCHANGED node
     \/ /\ CouplesNow => iter > 0
        /\ NextNode
  /\ UNCHANGED <<settings, reps, lib, isotxs, oldBu, cycle>>

(* interactEOC: the representative blocks, then the library are dropped. *)
GroupsEOC ==
  /\ event = "EOC" /\ step = "groups" /\ step' = "lattice"
  /\ reps' = NoLib
  /\ UNCHANGED <<settings, core, lib, isotxs, oldBu, event, cycle, node, iter>>

LatticeEOC ==
  /\ event = "EOC" /\ step = "lattice"
  /\ lib' = NoLib
  /\ IF cycle < NCycles - 1
     THEN /\ cycle' = cycle + 1 /\ node' = 0
          /\ event' = IF before THEN "before" ELSE "BOC"
          /\ step' = IF before THEN "groups" ELSE "shuffle"
     ELSE event' = "EOL" /\ step' = "done" /\ UNCHANGED <<cycle, node>>
  /\ UNCHANGED <<settings, core, reps, isotxs, oldBu, iter>>

Done == step = "done" /\ UNCHANGED vars

Next ==
  \/ Groups \/ Lattice \/ Shuffle \/ Deplete \/ Solve
  \/ GroupsEOC \/ LatticeEOC \/ Done

Spec == Init /\ [][Next]_vars
=============================================================================
