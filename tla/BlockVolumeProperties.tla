----------------------- MODULE BlockVolumeProperties -----------------------
(***************************************************************************)
(* That no cached volume or area outlives what it was computed from, and   *)
(* that the atoms in a block are those that were put there.                *)
(***************************************************************************)
EXTENDS BlockVolumes

(* Whatever was done to dimensions, temperatures, compositions, height or  *)
(* children, a volume that is stored is that of the present dimensions:    *)
(* nobody cleared too few caches, and the coolant either has what the      *)
(* others leave or is marked to be computed again; so is the block's area. *)
VolumesAreCurrent ==
  /\ \A c \in Siblings(block) : block.volume[c] \in {NoVolume, VolumeIs(block, c)}
  /\ ~block.derivedMustUpdate =>
       /\ block.volume[Coolant] = VolumeIs(block, Coolant)
       /\ block.derivedArea * block.height = VolumeIs(block, Coolant)
  /\ block.area \in {NoVolume, Fraction(GetMaxArea(block), symmetry)}

(* The moles of each nuclide are what the changes so far asked for: heating *)
(* a component, changing a height with its mass conserved, or changing the *)
(* composition of a component whose expansion depends on it does not       *)
(* create or destroy atoms of solids; a mass that is set or added is there *)
(* afterwards; dissolving a component moves its atoms.                     *)
MolesAreRight == \A n \in Nuclides : Moles(block, n) = moles[n]
=============================================================================
