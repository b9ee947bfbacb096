---------------------------- MODULE XsProperties ----------------------------
(***************************************************************************)
(* What a flux solve may rely on: cross sections for every block, as       *)
(* recent as latticePhysicsFrequency asks for.                             *)
(***************************************************************************)
EXTENDS XsGroups

(* When the flux is solved the library has the cross sections of every     *)
(* block of the core: structure whose own group has no fuel was moved to a *)
(* group of its type that has, and fresh fuel that was not in the core     *)
(* when the library was generated came from the blueprints.  Only types    *)
(* that are given, or that no fuel has, are not in it.                     *)
EveryBlockIsCovered ==
  step = "flux" => \A p \in Places :
    \/ Suffix(core[p]) \in DOMAIN CoreLib
    \/ Type(core[p]) \in PregeneratedTypes
    \/ ~ \E q \in Fuelled : Type(core[q]) = Type(core[p])

Used == {CoreLib[Suffix(core[p])] : p \in {q \in Places : Suffix(core[q]) \in DOMAIN CoreLib}}

(* Cross sections that the flux is solved with were generated for the      *)
(* groups as they were made when latticePhysicsFrequency says: at the      *)
(* beginning of life, at the beginning of this cycle, at this node, in the *)
(* first or in this coupled iteration of it (LatticePhysicsFrequency).     *)
(* Before the first coupled iteration those that are updated in coupled    *)
(* iterations are of this cycle.                                           *)
LibraryIsFresh ==
  step = "flux" => \A e \in Used :
    /\ freq = BOL => e.made = <<0, 0, 0>>
    /\ freq >= BOC => e.made[1] = cycle
    /\ freq = BOC => e.made = <<cycle, 0, 0>>
    /\ freq = everyNode => e.made = <<cycle, node, 0>>
    /\ freq > everyNode /\ ~CouplesNow => e.made = <<cycle, node, 0>>
    /\ freq = firstCoupledIteration /\ event = "coupled" => e.made = <<cycle, node, 1>>
    /\ freq = all /\ event = "coupled" => e.made = Now

-----------------------------------------------------------------------------
(* Once the library was dropped for an update, the cross sections of a     *)
(* group in use were generated at a burnup within                          *)
(* the tolerance (setting tolerateBurnupChange: "If the prior cross        *)
(* sections were computed within the window, new cross sections will not   *)
(* be generated and the prior calculated cross sections will be used.").   *)
LibraryIsWithinTolerance ==
  step = "flux" /\ LatticeDue /\ ~Kept => \A id \in DOMAIN reps \cap DOMAIN CoreLib :
    AbsDiff(reps[id].bu, CoreLib[id].bu) <= Tolerance
=============================================================================
