---------------------------- MODULE BlockVolumes ----------------------------
(***************************************************************************)
(* A block and its components: dimensions that may be linked to those of   *)
(* other components, temperatures that expand them, the caches of their    *)
(* volumes, the coolant that fills what they leave, and the densities that *)
(* every change adjusts so that atoms are kept (reactor/blocks/block.py,   *)
(* reactor/components/, reactor/composites.py).  A cross section is taken  *)
(* as the square of its diameter: the factor of each shape is left out.    *)
(***************************************************************************)
EXTENDS Fractions, SequencesExt, TLC

CONSTANTS
  Shapes,        \* component -> its diameters and multiplicity, as built
  Links,         \* component -> the dimensions linked, as <<component, dimension>>
  Contents,      \* component -> nuclide -> density, as built
  Solids,        \* the components of solid material; the others are fluids
  Coolant,       \* the DerivedShape
  Circles,       \* the round components
  Gaps,          \* those flagged as gaps
  Duct,          \* the component that defines the pitch
  Driver,        \* the nuclide whose share may change the expansion of a solid
  Growth,        \* solid -> temperature -> rich in the driver or not -> expansion
  Thinning,      \* temperature -> density of a fluid there, relative to cold
  SetDimensions, \* <<component, dimension, value>> that are set
  SetDensities,  \* <<component, nuclide>> that are set
  Heights, Pitches, Densities, Masses,    \* that may be given to the operations
  SymmetryFactors,
  AdjustList,    \* the nuclides, in the order heights are adjusted
  Mergers,       \* <<solute, solvent>> a converter may be asked for
  NoVolume, NoLink,
  MaxSteps       \* bound on the operations

ShapedOnes == DOMAIN Shapes
Components == ShapedOnes \cup {Coolant}
DimNames   == {"inner", "outer", "mult"}
Nuclides   == UNION {DOMAIN Contents[c] : c \in Components}
Cold       == "cold"
Temperatures == DOMAIN Thinning

VARIABLES
  block,      \* the block with its components
  symmetry,   \* its symmetry factor
  moles,      \* what its moles should be, by what was asked of it
  converted,  \* whether it is the result of a BlockConverter
  steps

vars == <<block, symmetry, moles, converted, steps>>

(***************************************************************************)
(* Dimensions.  A linked one is that of the other component, expanded as   *)
(* that one is; a multiplicity does not expand.                            *)
(***************************************************************************)
IsRich(densities) ==
  /\ Driver \in DOMAIN densities
  /\ ~\E n \in DOMAIN densities \ {Driver} : Smaller(densities[Driver], densities[n])

GetThermalExpansionFactor(b, c) ==
  IF c \in Solids THEN Growth[c][b.temperature[c]][IsRich(b.densities[c])] ELSE 1

DimensionIsLinked(b, c, d) == b.link[c][d] # NoLink

RECURSIVE GetDimension(_, _, _)
GetDimension(b, c, d) ==
  IF DimensionIsLinked(b, c, d) THEN GetDimension(b, b.link[c][d][1], b.link[c][d][2])
  ELSE b.dimension[c][d] * (IF d = "mult" THEN 1 ELSE GetThermalExpansionFactor(b, c))

(* getLinkedComponents: those linked to a component itself, and not those  *)
(* linked to them in turn.                                                 *)
LinkedComponents(b, c) ==
  {o \in b.parts \ {Coolant} : \E d \in DimNames : DimensionIsLinked(b, o, d) /\ b.link[o][d][1] = c}

(***************************************************************************)
(* Areas and volumes.                                                      *)
(***************************************************************************)
RingArea(inner, outer) == outer * outer - inner * inner

ShapeArea(b, c) ==
  GetDimension(b, c, "mult") * RingArea(GetDimension(b, c, "inner"), GetDimension(b, c, "outer"))

GetMaxArea(b) == RingArea(0, GetDimension(b, Duct, "outer"))

Siblings(b) == b.parts \ {Coolant}

(* Component.getVolume: computed when there is none. *)
FillVolume(b, c) ==
  [b EXCEPT !.volume[c] = IF @ = NoVolume THEN ShapeArea(b, c) * b.height ELSE @]

FillSiblings(b) ==
  [b EXCEPT !.volume = [c \in Components |->
     IF c \in Siblings(b) /\ @[c] = NoVolume THEN ShapeArea(b, c) * b.height ELSE @[c]]]

(* _deriveVolumeAndArea: what the others leave, by their volumes. *)
Remaining(b) == GetMaxArea(b) * b.height - MapThenSumSet(LAMBDA c : b.volume[c], Siblings(b))

WithArea(b)   == [b EXCEPT !.derivedArea = Remaining(b) \div b.height]
DeriveArea(b) == WithArea(FillSiblings(b))

(* DerivedShape.getVolume *)
WithVolume(b)   == [b EXCEPT !.volume[Coolant] = Remaining(b)]
Computed(b)     == IF b.volume[Coolant] = NoVolume THEN WithVolume(DeriveArea(b)) ELSE b
FillDerived(b)  ==
  Computed(IF b.derivedMustUpdate THEN [b EXCEPT !.volume[Coolant] = NoVolume, !.derivedMustUpdate = FALSE] ELSE b)

GetVolume(b, c) == IF c = Coolant THEN FillDerived(b) ELSE FillVolume(b, c)
FillAll(b)      == FillDerived(FillSiblings(b))

(* getComponentArea; that of a derived shape updates the area but not the  *)
(* volume, and leaves the flag.                                            *)
DerivedAreaUpdated(b) == IF b.derivedMustUpdate THEN DeriveArea(b) ELSE b
AreaRead(b, c) == IF c = Coolant THEN DerivedAreaUpdated(b) ELSE b
AreaOf(b, c)   == IF c = Coolant THEN DerivedAreaUpdated(b).derivedArea ELSE ShapeArea(b, c)

(* Block.getArea: cached, and corrected by the symmetry factor. *)
WithTotalArea(b) ==
  [b EXCEPT !.area = Fraction(b.derivedArea + MapThenSumSet(LAMBDA c : ShapeArea(b, c), Siblings(b)), symmetry)]

GetArea(b) == IF b.area # NoVolume THEN b ELSE WithTotalArea(DerivedAreaUpdated(b))

(***************************************************************************)
(* Caches.                                                                 *)
(***************************************************************************)
ClearCache(b, c) ==
  [b EXCEPT !.volume[c] = NoVolume, !.derivedMustUpdate = @ \/ c \in b.parts]

ClearLinkedCache_OnlyOwn(b, c) == [ClearCache(b, c) EXCEPT !.area = NoVolume]

ClearLinkedCache(b, c) ==
  IF c \notin b.parts THEN ClearCache(b, c)
  ELSE [ClearCache(b, c) EXCEPT
          !.area = NoVolume,
          !.volume = [o \in Components |-> IF o \in LinkedComponents(b, c) THEN NoVolume ELSE @[o]]]

ClearBlock(b) ==
  [b EXCEPT !.area = NoVolume, !.derivedMustUpdate = TRUE,
            !.volume = [c \in Components |-> IF c \in b.parts THEN NoVolume ELSE @[c]]]

(***************************************************************************)
(* Changes of dimensions and temperature.                                  *)
(***************************************************************************)
Sets(b, c, d, value, cold) ==
  [b EXCEPT !.link[c][d] = NoLink,
            !.dimension[c][d] = IF cold \/ d = "mult" THEN value ELSE value \div GetThermalExpansionFactor(b, c)]

SetOwnDimension(b, c, d, value, cold) == ClearLinkedCache(Sets(b, c, d, value, cold), c)

SetDimension(b, c, d, value, retainLink, cold) ==
  IF retainLink /\ DimensionIsLinked(b, c, d)
  THEN ClearLinkedCache(SetOwnDimension(b, b.link[c][d][1], b.link[c][d][2], value, cold), c)
  ELSE SetOwnDimension(b, c, d, value, cold)

(* Whether a hot dimension divides into a whole cold one. *)
Divides(b, c, d, value, cold) ==
  LET t == IF DimensionIsLinked(b, c, d) THEN b.link[c][d] ELSE <<c, d>>
  IN  cold \/ \A x \in {<<c, d>>, t} : value % GetThermalExpansionFactor(b, x[1]) = 0

ChangeNDensByFactor(b, c, f) ==
  [b EXCEPT !.densities[c] = [n \in DOMAIN @ |-> @[n] ** f]]

Heated(b, c, t) == [b EXCEPT !.temperature[c] = t]

Reduction(before, after) == Fraction(before * before, after * after)

DensityReduction(b, c, t) ==
  IF c \in Solids
  THEN Reduction(GetThermalExpansionFactor(b, c), GetThermalExpansionFactor(Heated(b, c, t), c))
  ELSE Thinning[t] // Thinning[b.temperature[c]]

SetTemperature(b, c, t) ==
  ClearLinkedCache(ChangeNDensByFactor(Heated(b, c, t), c, DensityReduction(b, c, t)), c)

(***************************************************************************)
(* Densities.  Those of a component are set for the volume it has before;  *)
(* if its expansion changes with its composition they are scaled.          *)
(***************************************************************************)
Rescaled(b, c, volume) == ChangeNDensByFactor(b, c, Fraction(volume, b.volume[c]))

Composed_Unscaled(b, set, c) ==
  IF GetThermalExpansionFactor(set, c) = GetThermalExpansionFactor(b, c) THEN set ELSE ClearLinkedCache(set, c)

Composed(b, set, c) ==
  IF GetThermalExpansionFactor(set, c) = GetThermalExpansionFactor(b, c) THEN set
  ELSE Rescaled(GetVolume(ClearLinkedCache(set, c), c), c, b.volume[c])

Compose(b, c, new) == Composed(b, [b EXCEPT !.densities[c] = new @@ @], c)
UpdateNumberDensities(b, c, new) == Compose(GetVolume(b, c), c, new)

ChildrenWith(b, n) == {c \in b.parts : n \in DOMAIN b.densities[c]}

(* Of a block whose volumes are filled. *)
TotalVolume(b)      == MapThenSumSet(LAMBDA c : b.volume[c], b.parts)
Atoms(b, n)         == SumOver(LAMBDA c : b.densities[c][n] ** Whole(b.volume[c]), ChildrenWith(b, n))
NumberDensity(b, n) == Atoms(b, n) // Whole(TotalVolume(b))

(* The block's: evenly to all the children that contain it. *)
Given(b, n, value, active) == FoldSet(LAMBDA c, x : UpdateNumberDensities(x, c, n :> value), b, active)

ActiveVolume(b, n)         == Whole(MapThenSumSet(LAMBDA c : b.volume[c], ChildrenWith(b, n)))
Distributed(b, n, value)   == Given(b, n, (value ** Whole(TotalVolume(b))) // ActiveVolume(b, n), ChildrenWith(b, n))
SetNumberDensity(b, n, value) == Distributed(FillAll(b), n, value)

WithMass(b, n, mass) == SetNumberDensity(b, n, mass // Fraction(TotalVolume(b), symmetry))
SetMass(b, n, mass)  == WithMass(FillAll(b), n, mass)

WithMoreMass(b, n, mass) ==
  SetNumberDensity(b, n, NumberDensity(b, n) ++ (mass // Fraction(TotalVolume(b), symmetry)))
AddMass(b, n, mass) == WithMoreMass(FillAll(b), n, mass)

(* setHeight and adjustDensity: the homogenised densities are read once.   *)
Adjusted(x, n, b, factor) ==
  IF ChildrenWith(b, n) = {} \/ Atoms(b, n) = Nothing THEN x
  ELSE SetNumberDensity(x, n, NumberDensity(b, n) ** factor)

AdjustDensity(b, factor) == FoldSeq(LAMBDA n, x : Adjusted(x, n, b, factor), b, AdjustList)

WithHeight(b, h) == ClearBlock([b EXCEPT !.height = h])

SetHeight(b, h, conserve) ==
  IF conserve /\ h # b.height THEN AdjustDensity(FillAll(WithHeight(b, h)), Fraction(b.height, h))
  ELSE WithHeight(b, h)

SetPitch(b, value) == SetDimension(b, Duct, "outer", value, FALSE, TRUE)

RemoveChild(b, c) == ClearBlock([b EXCEPT !.parts = @ \ {c}])
AddChild(b, c)    == ClearBlock([b EXCEPT !.parts = @ \cup {c}])

(***************************************************************************)
(* BlockConverter: a component dissolved into another, on a copy of the    *)
(* block.  The solvent takes the place of the solute, and the links of     *)
(* others to it.                                                           *)
(***************************************************************************)
DensityIn(b, c, n) == IF n \in DOMAIN b.densities[c] THEN b.densities[c][n] ELSE Nothing

Mixed(b, solute, solvent, part) ==
  [n \in DOMAIN b.densities[solute] \cup DOMAIN b.densities[solvent] |->
     (part ** DensityIn(b, solute, n)) ++ DensityIn(b, solvent, n)]

MergedInto(b, solute, solvent) ==
  IF AreaOf(b, solute) <= 0 THEN b
  ELSE UpdateNumberDensities(b, solvent, Mixed(b, solute, solvent, Fraction(AreaOf(b, solute), AreaOf(b, solvent))))

GrownInwards(b, c, inner) ==
  IF GetDimension(b, c, "inner") > inner THEN SetDimension(b, c, "inner", inner, FALSE, FALSE) ELSE b
GrownOutwards(b, c, outer) ==
  IF GetDimension(b, c, "outer") < outer THEN SetDimension(b, c, "outer", outer, FALSE, FALSE) ELSE b

LinkedInstead(b, solute, solvent) ==
  [b EXCEPT !.link = [c \in ShapedOnes |-> [d \in DimNames |->
     IF c \in b.parts /\ @[c][d] # NoLink /\ @[c][d][1] = solute THEN <<solvent, @[c][d][2]>> ELSE @[c][d]]]]

Grown(b, c, inner, outer) == GrownOutwards(GrownInwards(b, c, inner), c, outer)

(* A gap of negative area is where two components overlap: the solvent     *)
(* gives way on the side where it meets the gap.                           *)
Meets(b, c, d, value) == GetDimension(b, c, d) = value
Follows(b, c, d, from, to) == IF Meets(b, c, d, from) THEN SetDimension(b, c, d, to, FALSE, FALSE) ELSE b
GivenWay(b, c, inner, outer) == Follows(Follows(b, c, "inner", outer, inner), c, "outer", inner, outer)

Fitted(b, c, inner, outer, area) ==
  IF area >= 0 THEN Grown(b, c, inner, outer) ELSE GivenWay(b, c, inner, outer)

TakesPlaceOf(b, solvent, solute) ==
  IF solvent = Coolant THEN b
  ELSE LinkedInstead(Fitted(b, solvent, GetDimension(b, solute, "inner"), GetDimension(b, solute, "outer"),
                            AreaOf(b, solute)), solute, solvent)

Spread(b, c, area) == ChangeNDensByFactor(b, c, Fraction(area, AreaOf(b, c)))

Replaced(b, solute, solvent) ==
  TakesPlaceOf(RemoveChild(MergedInto(AreaRead(b, solvent), solute, solvent), solute), solvent, solute)

Dissolved(b, solute, solvent) ==
  Spread(AreaRead(Replaced(b, solute, solvent), solvent), solvent, AreaOf(b, solvent))

IsEncapsulatedBy(b, c, o) ==
  /\ GetDimension(b, o, "inner") <= GetDimension(b, c, "inner")
  /\ GetDimension(b, c, "inner") < GetDimension(b, o, "outer")
  /\ GetDimension(b, o, "inner") < GetDimension(b, c, "outer")
  /\ GetDimension(b, c, "outer") <= GetDimension(b, o, "outer")

NothingInside(b, solvent) == \A c \in (Circles \cap b.parts) \ {solvent} : ~IsEncapsulatedBy(b, c, solvent)

(* Only to a gap, and where they meet. *)
MayGiveWay(b, solute, solvent) ==
  /\ solute \in Gaps
  /\ solvent # Coolant =>
       \/ Meets(b, solvent, "inner", GetDimension(b, solute, "outer"))
       \/ Meets(b, solvent, "outer", GetDimension(b, solute, "inner"))

(* What the code raises no error for.  The least inner diameter (minID)    *)
(* that a caller may give is 0, the default.                               *)
MayDissolve(b, solute, solvent) ==
  /\ {solute, solvent} \subseteq b.parts
  /\ AreaOf(b, solute) < 0 => MayGiveWay(b, solute, solvent)
  /\ AreaOf(b, solvent) > 0
  /\ solvent # Coolant =>
       /\ LinkedComponents(b, solute) \cap (LinkedComponents(b, solvent) \cup {solvent}) = {}
       /\ AreaOf(Replaced(b, solute, solvent), solvent) > 0
       /\ NothingInside(Replaced(b, solute, solvent), solvent)

(***************************************************************************)
(* What the volumes are by the dimensions, and the moles by them.          *)
(***************************************************************************)
VolumeIs(b, c) ==
  IF c # Coolant THEN ShapeArea(b, c) * b.height
  ELSE (GetMaxArea(b) - MapThenSumSet(LAMBDA o : ShapeArea(b, o), Siblings(b))) * b.height

Moles(b, n) ==
  SumOver(LAMBDA c : b.densities[c][n] ** Fraction(VolumeIs(b, c), symmetry), ChildrenWith(b, n))

MolesOf(b) == [n \in Nuclides |-> Moles(b, n)]

(* Components that overlap raise an error; those left without any size are *)
(* not looked at.                                                          *)
Overlaps(b) == \E c \in b.parts : c \in Solids \cup {Coolant} /\ VolumeIs(b, c) <= 0

(* The nuclides whose moles nothing that happens to fluids can change, and *)
(* those of components that keep their size.                               *)
InSolids(b)   == {n \in Nuclides : ChildrenWith(b, n) \subseteq Solids}
Untouched(b, a) ==
  {n \in InSolids(b) \cap InSolids(a) :
     /\ ChildrenWith(b, n) = ChildrenWith(a, n)
     /\ \A c \in ChildrenWith(b, n) : VolumeIs(b, c) = VolumeIs(a, c)}

(* A change to b that keeps the moles of some nuclides and makes others    *)
(* what was asked; the rest becomes what it becomes.                       *)
Changes(b, kept, asked) ==
  /\ steps < MaxSteps
  /\ ~Overlaps(b)
  /\ block' = b
  /\ moles' = asked @@ [n \in Nuclides |-> IF n \in kept THEN moles[n] ELSE Moles(b, n)]
  /\ steps' = steps + 1
  /\ UNCHANGED symmetry

Alters(b, kept, asked) == ~converted /\ Changes(b, kept, asked) /\ UNCHANGED converted
NothingElse == [n \in {} |-> Nothing]

Init ==
  /\ symmetry \in SymmetryFactors
  /\ block = [temperature |-> [c \in Components |-> Cold],
               dimension |-> Shapes, link |-> Links, densities |-> Contents,
               volume |-> [c \in Components |-> NoVolume],
               derivedArea |-> NoVolume, derivedMustUpdate |-> TRUE, area |-> NoVolume,
               height |-> CHOOSE h \in Heights : \A g \in Heights : g <= h,
               parts |-> Components]
  /\ moles = MolesOf(block)
  /\ converted = FALSE
  /\ steps = 0

(***************************************************************************)
(* Actions                                                                 *)
(***************************************************************************)
ReadVolumes == Changes(FillAll(block), Nuclides, NothingElse) /\ UNCHANGED converted

ReadArea == Changes(GetArea(block), Nuclides, NothingElse) /\ UNCHANGED converted

ReadCoolantArea == Changes(DerivedAreaUpdated(block), Nuclides, NothingElse) /\ UNCHANGED converted

ChangeTemperature(c, t) ==
  /\ c \in block.parts /\ t # block.temperature[c]
  /\ LET b == SetTemperature(block, c, t) IN Alters(b, InSolids(b), NothingElse)

ChangeDimension(c, d, value, retainLink, cold) ==
  /\ c \in Siblings(block)
  /\ Divides(block, c, d, value, cold)
  /\ LET b == SetDimension(block, c, d, value, retainLink, cold) IN Alters(b, Untouched(block, b), NothingElse)

ChangePitch(value) ==
  /\ value # GetDimension(block, Duct, "outer")
  /\ LET b == SetPitch(block, value) IN Alters(b, Untouched(block, b), NothingElse)

ChangeHeight(h, conserve) ==
  LET b == SetHeight(block, h, conserve)
  IN  /\ h # block.height
      /\ Alters(b, IF conserve THEN InSolids(b) ELSE {}, NothingElse)

SetComponentDensity(c, n, value) ==
  /\ c \in block.parts \cap Solids /\ n \in DOMAIN block.densities[c]
  /\ LET b == UpdateNumberDensities(block, c, n :> value)
     IN  Alters(b, InSolids(b),
                n :> (moles[n] ++ ((value -- block.densities[c][n]) ** Fraction(VolumeIs(block, c), symmetry))))

SetBlockDensity(n, value) ==
  /\ ChildrenWith(block, n) # {}
  /\ LET b == SetNumberDensity(block, n, value)
     IN  Alters(b, InSolids(b), n :> (value ** Fraction(GetMaxArea(block) * block.height, symmetry)))

SetBlockMass(n, mass) ==
  /\ ChildrenWith(block, n) # {}
  /\ LET b == SetMass(block, n, mass) IN Alters(b, InSolids(b), n :> mass)

AddBlockMass(n, mass) ==
  /\ ChildrenWith(block, n) # {}
  /\ LET b == AddMass(block, n, mass) IN Alters(b, InSolids(b), n :> (moles[n] ++ mass))

(* Only components no other depends on, and not the duct. *)
RemoveComponent(c) ==
  /\ c \in Siblings(block) \ {Duct} /\ LinkedComponents(block, c) = {}
  /\ LET b == FillAll(RemoveChild(block, c)) IN Alters(b, Untouched(block, b), NothingElse)

AddComponent(c) ==
  /\ c \in Components \ block.parts
  /\ LET b == AddChild(block, c) IN Alters(b, Untouched(block, b), NothingElse)

(* What is lost: the coolant that gives way, and the atoms of a gap of     *)
(* negative area, which are as negative.                                   *)
LostIn(b, a, solute, solvent) ==
  (IF solvent = Coolant \/ VolumeIs(a, Coolant) = VolumeIs(b, Coolant) THEN {} ELSE DOMAIN b.densities[Coolant])
    \cup (IF AreaOf(b, solute) < 0 THEN DOMAIN b.densities[solute] ELSE {})

Dissolve(solute, solvent) ==
  /\ <<solute, solvent>> \in Mergers
  /\ MayDissolve(block, solute, solvent)
  /\ LET b == Dissolved(block, solute, solvent)
     IN  Changes(b, Nuclides \ LostIn(block, b, solute, solvent), NothingElse)
  /\ converted' = TRUE

Next ==
  \/ ReadVolumes \/ ReadArea \/ ReadCoolantArea
  \/ \E c \in Components, t \in Temperatures : ChangeTemperature(c, t)
  \/ \E x \in SetDimensions, retainLink, cold \in BOOLEAN :
       ChangeDimension(x[1], x[2], x[3], retainLink, cold)
  \/ \E value \in Pitches : ChangePitch(value)
  \/ \E h \in Heights, conserve \in BOOLEAN : ChangeHeight(h, conserve)
  \/ \E x \in SetDensities, value \in Densities : SetComponentDensity(x[1], x[2], value)
  \/ \E n \in Nuclides, value \in Densities : SetBlockDensity(n, value)
  \/ \E n \in Nuclides, mass \in Masses : SetBlockMass(n, mass) \/ AddBlockMass(n, mass)
  \/ \E c \in Components : RemoveComponent(c) \/ AddComponent(c)
  \/ \E solute, solvent \in Components : Dissolve(solute, solvent)

Spec == Init /\ [][Next]_vars
=============================================================================
