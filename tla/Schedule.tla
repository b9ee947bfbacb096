------------------------------ MODULE Schedule ------------------------------
(***************************************************************************)
(* The calendar of a case: cycles, burn steps, time nodes and the order in *)
(* which a run visits them (armi/utils/__init__.py).                       *)
(*                                                                         *)
(* A cycle with b burn steps has b + 1 time nodes, 0 .. b.  The last node  *)
(* of a cycle and node 0 of the next one are distinct statepoints: between *)
(* them the plant is down for the outage of the earlier cycle.             *)
(***************************************************************************)
EXTENDS Integers, Sequences

CONSTANTS
  Plans,        \* the time histories a case may be given in its settings
  NCycles,      \* NCycles[p]: the nCycles setting of plan p
  StepLengths,  \* StepLengths[p][c]: the step lengths of cycle c, in days
  Outage        \* Outage[p][c]: cycleLength * (1 - availabilityFactor)

BurnSteps(p, c) == Len(StepLengths[p][c])

CyclesOf(p) == 0 .. NCycles[p] - 1

Nodes(p) == UNION { {c} \X (0 .. BurnSteps(p, c)) : c \in CyclesOf(p) }

ASSUME PlanAssumption ==
  /\ Plans # {}
  /\ \A p \in Plans :
       /\ NCycles[p] \in Nat \ {0}
       /\ StepLengths[p] \in [CyclesOf(p) -> Seq(Nat)]
       /\ Outage[p] \in [CyclesOf(p) -> Nat]

(* The chronological order of statepoints. *)
Before(a, b) == a[1] < b[1] \/ (a[1] = b[1] /\ a[2] < b[2])

(* getPreviousTimeNode; its ValueError at (0, 0) is the guard of callers. *)
PreviousNode(p, c, n) ==
  IF n # 0 THEN <<c, n - 1>> ELSE <<c - 1, BurnSteps(p, c - 1)>>

(* Python's steps[:n]. *)
Truncated(steps, n) == SubSeq(steps, 1, IF n < Len(steps) THEN n ELSE Len(steps))

(* The restart check that the histories of two cases agree up to node n of *)
(* cycle c; the IndexError for a cycle that one of them lacks is FALSE.    *)
SameHistory(p, q, c, n) ==
  /\ c \in CyclesOf(p) \cap CyclesOf(q)
  /\ \A k \in 0 .. c - 1 : StepLengths[p][k] = StepLengths[q][k]
  /\ Truncated(StepLengths[p][c], n) = Truncated(StepLengths[q][c], n)
=============================================================================
