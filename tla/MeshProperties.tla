--------------------------- MODULE MeshProperties ---------------------------
(***************************************************************************)
(* What expansion and a uniform mesh keep of a core.                       *)
(***************************************************************************)
EXTENDS AxialMeshes

Top(blocks) == blocks[Len(blocks)].zt

AllOf(blocks, held(_)) == SumFunction([i \in DOMAIN blocks |-> held(blocks[i])])

(* The blocks of every assembly fill its height from the bottom to the top *)
(* it was built with, each beginning where the one below ends, whatever    *)
(* expanded, snapped or was made uniform                                   *)
(* ("The total height of an Assembly is preserved").                       *)
BlocksFill ==
  \A p \in Places : LET blocks == core[p].blocks IN
    /\ Top(blocks) = Top(Loading[p])
    /\ \A i \in DOMAIN blocks :
         /\ blocks[i].zb = (IF i = 1 THEN 0 ELSE blocks[i - 1].zt)
         /\ Height(blocks[i]) >= 0

(* An assembly that expansion is meant for: a dummy block on top, and in   *)
(* each block only the target component ends.                              *)
OneEndPerBlock(a) ==
  /\ "dummy" \in a[Len(a)].flags
  /\ \A i \in 1..Len(a) - 1 : \A s \in Others(a, i) : LinkedAbove(a, i, s)

MassOf(a, s) ==
  SumFunction([i \in {k \in DOMAIN a : s \in DOMAIN a[k].solids} |-> a[i].solids[s].mass])

Shapes(a) == UNION {DOMAIN a[i].solids : i \in DOMAIN a}

TargetAlone(a, i) ==
  a[i].target # NoTarget
    /\ (LinkedBelow(a, i, a[i].target) => a[i - 1].target = a[i].target)

(* Expanding such an assembly keeps the mass of every chain of linked      *)
(* components, and of every target that no other component runs into,      *)
(* however differently its components grow; and each one ends up as high   *)
(* as its block (axiallyExpandAssembly: "component mass is conserved").    *)
ExpansionKeepsMass ==
  [][\A p \in expanded' \ expanded :
       LET a == core[p].blocks  b == core'[p].blocks
       IN  OneEndPerBlock(a) =>
             /\ \A s \in Shapes(a) : MassOf(b, s) = MassOf(a, s)
             /\ \A i \in DOMAIN a : TargetAlone(a, i) =>
                  b[i].solids[b[i].target].mass = a[i].solids[a[i].target].mass
             /\ \A i \in DOMAIN b : \A s \in DOMAIN b[i].solids :
                  b[i].solids[s].zb = b[i].zb /\ b[i].solids[s].zt = b[i].zt]_vars

(* Below every elevation where both meshes have a point, the uniform       *)
(* assembly holds as much of each material as the one it stands for        *)
(* ("A conservation of number of atoms technique").                        *)
SameAtoms(a, u) ==
  \A i \in DOMAIN a, k \in DOMAIN u : a[i].zt = u[k].zt =>
    \A m \in Materials :
      SumFunction([j \in 1..i |-> MassIn(a[j], m)]) = SumFunction([j \in 1..k |-> u[j].atoms[m]])

AtomsAreKept ==
  /\ use = "copy" => \A p \in Places :
       /\ Top(copy[p].blocks) = Top(core[p].blocks)
       /\ SameAtoms(core[p].blocks, copy[p].blocks)
  /\ use = "inPlace" => \A s \in storage :
       SameAtoms(s.blocks, core[s.name[1]].blocks)

Everything(blocks) == AllOf(blocks, LAMBDA b : b.power)

Unsolved(a) ==
  [a EXCEPT !.moves = 0,
            !.blocks = [i \in DOMAIN @ |-> [a.blocks[i] EXCEPT !.power = 0, !.peak = 0]]]

(* The tables of the core list the assemblies and blocks that are in it,   *)
(* the uniform ones while they stand in for others, and nothing that was   *)
(* put aside is left behind.                                               *)
TablesFollow ==
  /\ byName = [n \in {core[p].name : p \in Places} |-> <<n[1], core[n[1]].uniform>>]
  /\ blocksByName = [n \in UNION {BlockNames(core[p]) : p \in Places} |-> <<n[1], core[n[1]].uniform>>]
  /\ use = "none" => storage = {} /\ \A p \in Places : ~core[p].uniform

(* Once a uniform core was left, every assembly is what it was before, in  *)
(* its place and under its name; it has all the power found in it, and     *)
(* peaks no lower than its average.                                        *)
ResultsComeBack ==
  [][use # use' /\ use' = "none" =>
       \A p \in Places :
         LET was == IF core[p].uniform
                    THEN CHOOSE s \in storage : s.name[1] = p ELSE core[p]
             found == IF use = "copy" THEN copy[p] ELSE core[p]
         IN  /\ Unsolved(core'[p]) = Unsolved([was EXCEPT !.name = <<p, "">>])
             /\ core' # core =>
                  /\ Everything(core'[p].blocks) = Everything(found.blocks)
                  /\ \A b \in Range(core'[p].blocks) : (b.peak * Height(b) >= b.power)]_vars

(* The blocks of a uniform core always cover those that its results are    *)
(* mapped to: one that is not is "a major bug in the uniform mesh          *)
(* converter that should be reported" (setAssemblyStateFromOverlaps).      *)
EveryBlockIsMapped == use # "unmapped"
=============================================================================
