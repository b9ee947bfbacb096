------------------------------ MODULE MCMeshes ------------------------------
(***************************************************************************)
(* Small cores for TLC.  The fuel assembly has a grid plate, two blocks of *)
(* fuel, a plenum and a dummy block; the reflector is one duct without a   *)
(* dummy block; the control assembly is a duct with a rod part of the way. *)
(***************************************************************************)
EXTENDS MeshProperties

Unit == 2880000

MCSolid(material, h) == [material |-> material, mass |-> Unit * h, zb |-> 0, zt |-> 0, h |-> 0]

(* A block from the shapes and materials in it; the target is named first. *)
MCBlock(zb, zt, flags, target, shapes) ==
  [zb |-> zb, zt |-> zt, flags |-> flags, target |-> target, topIndex |-> 0, power |-> 0, peak |-> 0,
   solids |-> [s \in DOMAIN shapes |-> MCSolid(shapes[s], zt - zb)]]

Duct     == [duct |-> "steel"]
DuctPin  == [duct |-> "steel", pin |-> "fuel"]
DuctRod  == [duct |-> "steel", rod |-> "absorber"]

MCFuel ==
  <<MCBlock(0, 8, {}, "duct", Duct), MCBlock(8, 16, {"fuel"}, "pin", DuctPin),
    MCBlock(16, 24, {"fuel"}, "pin", DuctPin), MCBlock(24, 32, {}, "duct", Duct),
    MCBlock(32, 56, {"dummy"}, NoTarget, << >>)>>

MCReflector ==
  [i \in 1..5 |-> MCBlock(IF i = 5 THEN 32 ELSE 8 * (i - 1), IF i = 5 THEN 56 ELSE 8 * i, {}, "duct", Duct)]

MCControl ==
  <<MCBlock(0, 4, {}, "duct", Duct), MCBlock(4, 20, {"control"}, "rod", DuctRod),
    MCBlock(20, 28, {}, "duct", Duct), MCBlock(28, 56, {"dummy"}, NoTarget, << >>)>>

MCLoading == [fuel |-> MCFuel, reflector |-> MCReflector, control |-> MCControl]

Solids(a) == {x \in (1..Len(a)) \X {"duct", "pin", "rod"} : x[2] \in DOMAIN a[x[1]].solids}

(* Each component of the fuel assembly grows or does not; a pin that grows *)
(* past the block above it makes the expansion fail.                       *)
MCChanges ==
  [fuel      |-> [Solids(MCFuel) -> {0, 2}] \cup {(<<2, "pin">> :> 10)},
   reflector |-> {[x \in Solids(MCReflector) |-> IF x[1] < 5 THEN 2 ELSE 0]},
   control   |-> {[x \in Solids(MCControl) |-> IF x \in S THEN 4 ELSE 0] :
                    S \in SUBSET {<<1, "duct">>, <<2, "rod">>, <<2, "duct">>}}]

MCCases == {[detailed |-> TRUE, nonUniform |-> {}], [detailed |-> TRUE, nonUniform |-> {"control"}],
            [detailed |-> FALSE, nonUniform |-> {"control"}]}

(* An absorber that ends less than the minimum size below the top.         *)
MCHighRod ==
  <<MCBlock(0, 24, {}, "duct", Duct), MCBlock(24, 48, {"control"}, "rod", DuctRod),
    MCBlock(48, 52, {}, "duct", Duct), MCBlock(52, 56, {"dummy"}, NoTarget, << >>)>>

MCHighLoading == [fuel |-> MCFuel, control |-> MCHighRod]
MCHighChanges == [p \in {"fuel", "control"} |-> {<< >>}]
MCHighCases   == {[detailed |-> TRUE, nonUniform |-> {}]}
=============================================================================
