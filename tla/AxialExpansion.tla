--------------------------- MODULE AxialExpansion ---------------------------
(***************************************************************************)
(* Axial expansion of one assembly (reactor/converters/                    *)
(* axialExpansionChanger) and snapping an assembly to a reference mesh     *)
(* (Assembly.setBlockMesh).                                                *)
(*                                                                         *)
(* An assembly is a stack of blocks.  A block has its bounds, its flags,   *)
(* the shape of its target component and its solid components, one of a    *)
(* shape.  Components of one shape in adjacent blocks are linked: being of *)
(* one class, in the same cells and overlapping is abstracted to the shape *)
(* (areAxiallyLinked), and a linkage that is ambiguous to an input error.  *)
(* A component has its bounds and height, which only expansion uses, its   *)
(* material and the mass its number densities amount to: those it has over *)
(* the height of the component while the assembly expands, of the block at *)
(* rest.  Lengths and masses are integers in units that every quotient     *)
(* taken here is whole in.                                                 *)
(***************************************************************************)
EXTENDS Integers, Sequences, SequencesExt, FiniteSetsExt

NoTarget == "none"

Height(b) == b.zt - b.zb

(* A part of a whole that has a share n/d of it.                           *)
Portion(whole, n, d) == IF n = d THEN whole ELSE (whole * n) \div d

LinkedAbove(a, i, s) == i < Len(a) /\ s \in DOMAIN a[i + 1].solids
LinkedBelow(a, i, s) == i > 1 /\ s \in DOMAIN a[i - 1].solids

(* A component moved to an elevation, its height kept.                     *)
AtElevation(c, z) == [c EXCEPT !.zb = z, !.zt = z + c.h]

(* Every component grows by its own change of height, by none if it has no *)
(* expansion factor; its mass is kept as its densities shrink by as much.  *)
Grown(a, change) ==
  [i \in DOMAIN a |-> [a[i] EXCEPT !.solids =
     [s \in DOMAIN a[i].solids |->
        LET e == IF <<i, s>> \in DOMAIN change THEN change[<<i, s>>] ELSE 0
        IN  AtElevation([a[i].solids[s] EXCEPT !.h = Height(a[i]) + e], a[i].zb)]]]

(* Mutant: only the linked component moves.                                *)
MovesWith_Linked(a, i) ==
  IF LinkedAbove(a, i, a[i].target) THEN {a[i].target}
  ELSE IF "dummy" \in a[i + 1].flags THEN {} ELSE {a[i + 1].target}

(* The components of the block above that move with the top of a block.    *)
MovesWith(a, i) ==
  LET b == a[i]  above == a[i + 1]
  IN  CASE LinkedAbove(a, i, b.target) /\ above.target = b.target -> {b.target}
        [] LinkedAbove(a, i, b.target) /\ above.target # b.target -> DOMAIN above.solids
        [] ~LinkedAbove(a, i, b.target) /\ i + 1 = Len(a) ->
             IF "dummy" \in above.flags THEN {} ELSE DOMAIN above.solids
        [] OTHER -> {above.target}

(* A block takes the bounds of its target component and moves what is      *)
(* above it.                                                               *)
AlignedOnTarget(a, i) ==
  LET t == a[i].solids[a[i].target]
  IN  [a EXCEPT ![i] = [@ EXCEPT !.zb = t.zb, !.zt = t.zt],
                ![i + 1] = [@ EXCEPT !.solids = [s \in DOMAIN a[i + 1].solids |->
                   IF s \in MovesWith(a, i) THEN AtElevation(a[i + 1].solids[s], t.zt)
                   ELSE a[i + 1].solids[s]]]]

(* Mutant: the one that receives stretches, of whatever material it is.    *)
Gives_Stretched(from, to, length) ==
  [from |-> from.mass - Portion(from.mass, length, from.h),
   to   |-> to.mass + Portion(to.mass, length, to.h)]

(* RedistributeMass: the one gives a length of itself to the other, which  *)
(* stretches over that length instead when it is of another material.      *)
Gives(from, to, length) ==
  LET moved == Portion(from.mass, length, from.h)
  IN  [from |-> from.mass - moved,
       to   |-> to.mass + IF from.material = to.material THEN moved
                          ELSE Portion(to.mass, length, to.h)]

Redistributed(c, above, delta) ==
  LET given == IF delta > 0 THEN Gives(above, c, delta) ELSE Gives(c, above, -delta)
  IN  IF delta = 0 THEN <<c.mass, above.mass>>
      ELSE IF delta > 0 THEN <<given.to, given.from>> ELSE <<given.from, given.to>>

(* A component that is not the target, where it is before it is fitted to  *)
(* its block.                                                              *)
Placed(a, i, s) ==
  IF LinkedBelow(a, i, s) THEN a[i].solids[s] ELSE AtElevation(a[i].solids[s], a[i].zb)

(* What it and the one above become: both meet at the top of the block,    *)
(* and mass moves between them.                                            *)
Fitted(a, i, s) ==
  LET c     == Placed(a, i, s)
      above == AtElevation(a[i + 1].solids[s], c.zt)
      delta == a[i].zt - c.zt
      mass  == Redistributed(c, above, delta)
  IN  <<[c EXCEPT !.h = @ + delta, !.zt = @ + delta, !.mass = mass[1]],
        [above EXCEPT !.h = @ - delta, !.zb = @ + delta, !.mass = mass[2]]>>

Others(a, i) == DOMAIN a[i].solids \ {a[i].target}

OthersFitted(a, i) ==
  [a EXCEPT
     ![i] = [@ EXCEPT !.solids = [s \in DOMAIN a[i].solids |->
        IF s = a[i].target              THEN a[i].solids[s]
        ELSE IF LinkedAbove(a, i, s)    THEN Fitted(a, i, s)[1]
        ELSE Placed(a, i, s)]],
     ![i + 1] = [@ EXCEPT !.solids = [s \in DOMAIN a[i + 1].solids |->
        IF s \in Others(a, i) THEN Fitted(a, i, s)[2] ELSE a[i + 1].solids[s]]]]

(* The top block keeps its top and takes up the change; what is solid in   *)
(* it is stretched over it.                                                *)
TopChopped(a) ==
  LET n == Len(a)  zb == a[n - 1].zt  h == a[n].zt - zb
  IN  [a EXCEPT ![n] = [@ EXCEPT !.zb = zb, !.solids = [s \in DOMAIN a[n].solids |->
         LET c == a[n].solids[s]
         IN  [c EXCEPT !.zb = zb, !.zt = a[n].zt, !.h = h, !.mass = Portion(@, h, c.h)]]]]

(* _checkComponentHeight and _checkBlockHeight raise ArithmeticError.      *)
NegativeHeight(a, i) ==
  \/ Height(a[i]) < 0
  \/ \E s \in Others(a, i) : LinkedAbove(a, i, s) /\ Placed(a, i, s).h < 0

(* A block aligned, when those below it are, or an error.                  *)
Aligned(below, i) ==
  LET a == below.blocks
      moved == IF i = Len(a) THEN TopChopped(a) ELSE AlignedOnTarget(a, i)
  IN  IF below.raised THEN below
      ELSE IF NegativeHeight(moved, i) THEN [blocks |-> moved, raised |-> TRUE]
      ELSE [blocks |-> IF i = Len(a) THEN moved ELSE OthersFitted(moved, i), raised |-> FALSE]

(* The blocks aligned from the bottom to the n-th.                         *)
AlignedTo(a, n) ==
  LET step[i \in 0..n] ==
        IF i = 0 THEN [blocks |-> a, raised |-> FALSE] ELSE Aligned(step[i - 1], i)
  IN  step[n]

(* At rest the mass is that over the height of the block, whatever height  *)
(* the component ended with.                                               *)
AtRest(a) ==
  [i \in DOMAIN a |-> [a[i] EXCEPT !.solids =
     [s \in DOMAIN a[i].solids |->
        [a[i].solids[s] EXCEPT !.mass = Portion(@, Height(a[i]), a[i].solids[s].h)]]]]

AxiallyExpanded(a, change) == AlignedTo(Grown(a, change), Len(a))

(***************************************************************************)
(* Assembly.setBlockMesh with conserveMassFlag "auto": the tops of the     *)
(* blocks snap to the points of a mesh.                                    *)
(***************************************************************************)
BelowFuel(a, i) == \A k \in 1..i : "fuel" \notin a[k].flags

MassConserved(a, i, c) ==
  \/ "fuel" \in a[i].flags /\ c.material = "fuel"
  \/ (\E k \in DOMAIN a : "fuel" \in a[k].flags) /\ BelowFuel(a, i)

OnMesh(a, tops) ==
  LET Top(i)    == tops[a[i].topIndex + 1]
      Bottom(i) == IF i = 1 THEN 0 ELSE Top(i - 1)
  IN  IF a[Len(a)].topIndex = 0 THEN a
      ELSE [i \in DOMAIN a |-> [a[i] EXCEPT !.zb = Bottom(i), !.zt = Top(i), !.solids =
              [s \in DOMAIN a[i].solids |->
                 LET c == a[i].solids[s]
                 IN  IF MassConserved(a, i, c) THEN c
                     ELSE [c EXCEPT !.mass = Portion(@, Top(i) - Bottom(i), Height(a[i]))]]]]

(* makeAxialSnapList: the point of the reference mesh at the top of each   *)
(* block, counted from 0.                                                  *)
Snapping(a, tops) ==
  [i \in DOMAIN a |-> [a[i] EXCEPT !.topIndex = (CHOOSE k \in DOMAIN tops : tops[k] = a[i].zt) - 1]]

TopsOf(a) == [i \in DOMAIN a |-> a[i].zt]
=============================================================================
