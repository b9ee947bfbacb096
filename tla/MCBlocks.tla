------------------------------ MODULE MCBlocks ------------------------------
(***************************************************************************)
(* A fuel block: an annular fuel rich in plutonium or not, a sodium bond   *)
(* linked to the fuel and to the liner, a liner inside the cladding, a     *)
(* wire, a duct and the coolant.                                           *)
(***************************************************************************)
EXTENDS BlockVolumeProperties

Ring(inner, outer, mult) == [inner |-> inner, outer |-> outer, mult |-> mult]

MCShapes ==
  [fuel |-> Ring(0, 4, 1), bond |-> Ring(0, 0, 0), liner |-> Ring(8, 12, 1),
   clad |-> Ring(12, 16, 1), wire |-> Ring(0, 4, 1), duct |-> Ring(28, 32, 1)]

Unlinked == [d \in {"inner", "outer", "mult"} |-> NoLink]

MCLinks ==
  [c \in DOMAIN MCShapes |->
     CASE c = "bond" -> [inner |-> <<"fuel", "outer">>, outer |-> <<"liner", "inner">>, mult |-> <<"clad", "mult">>]
       [] c = "fuel" -> [Unlinked EXCEPT !.mult = <<"clad", "mult">>]
       [] OTHER -> Unlinked]

MCContents ==
  [fuel |-> [PU |-> Whole(1), U |-> Whole(3)], bond |-> [NA |-> Whole(1)], liner |-> [FE |-> Whole(2)],
   clad |-> [FE |-> Whole(1)], wire |-> [FE |-> Whole(1)], duct |-> [FE |-> Whole(1)],
   coolant |-> [NA |-> Whole(1)]]

MCSolids == {"fuel", "liner", "clad", "wire", "duct"}

MCGrowth ==
  [c \in MCSolids |-> [t \in {"cold", "hot"} |-> [rich \in BOOLEAN |->
     IF t = "cold" THEN 1 ELSE IF c = "fuel" /\ ~rich THEN 1 ELSE 2]]]

MCThinning == [t \in {"cold", "hot"} |-> IF t = "cold" THEN Whole(1) ELSE Fraction(1, 2)]

MCDensities == {Whole(4)}
MCMasses == {Whole(12)}
MCAdjustList == <<"PU", "U", "FE", "NA">>
MCSetDimensions ==
  {<<"fuel", "outer", 10>>, <<"bond", "inner", 4>>, <<"bond", "outer", 4>>, <<"fuel", "mult", 2>>}
MCSetDensities == {<<"fuel", "PU">>, <<"fuel", "U">>, <<"liner", "FE">>}
MCMergers == {<<"bond", "clad">>, <<"bond", "liner">>, <<"liner", "clad">>, <<"fuel", "clad">>, <<"wire", "coolant">>}
MCCircles == {"fuel", "bond", "liner", "clad", "wire"}
=============================================================================
