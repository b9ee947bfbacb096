------------------------- MODULE GeometryProperties -------------------------
(***************************************************************************)
(* What a core promises whatever part of it is modelled.                   *)
(***************************************************************************)
EXTENDS CoreGeometry

(* Outside of a flux solve a volume-integrated parameter of a block is     *)
(* that of the part of the block that is in the model: of a third in the   *)
(* centre of a third core, of the whole anywhere else, in the pool too,    *)
(* however the assembly came there and whatever was converted meanwhile.   *)
SharesAreRight ==
  use \in {"none", "grown"} =>
    /\ \A l \in DOMAIN core, q \in Parts, x \in Params :
         LET b == core[l].block[q] IN b.p[x] \in {Unsolved, Whole(b) \div Factor(l)}
    /\ \A a \in pool, q \in Parts, x \in Params :
         a.block[q].p[x] \in {Unsolved, Whole(a.block[q])}

(* A cached area was divided by the symmetry factor that the cell has now. *)
AreaIsCurrent ==
  use # "failed" => \A l \in DOMAIN core, q \in Parts :
    core[l].block[q].area \in {NotCached, Factor(l)}

(* Of an assembly in the core the last entry of its location history is    *)
(* where it is, and the copies made for a full core have been, cycle by    *)
(* cycle, where a third and two thirds of a turn take their source.        *)
HistoriesFollow ==
  /\ use \in {"none", "grown"} => \A l \in DOMAIN core :
       core[l].hist[Len(core[l].hist)] = IndicesToRingPos(l)
  /\ use = "grown" => \A l \in DOMAIN original \ {Centre} : \A n \in DOMAIN core[l].hist :
       LET was(m) == core[m].hist[n]
           Cells(m) == IndicesFromRingAndPos(was(m)[1], was(m)[2])
       IN  IF was(l) \in NotInCore THEN {was(Turn(l)), was(Turn(Turn(l)))} = {was(l)}
           ELSE Cells(Turn(l)) = Turn(Cells(l)) /\ Cells(Turn(Turn(l))) = Turn(Turn(Cells(l)))

SameAssembly(a, b) ==
  /\ a.hist = b.hist
  /\ \A q \in Parts : /\ a.block[q].of = b.block[q].of
                     /\ a.block[q].p["mass"] = b.block[q].p["mass"]

(* Undoing a conversion leaves the cells, the assemblies, their histories  *)
(* and every parameter that was not solved for as they were before it.     *)
ConversionsAreUndone ==
  [][use' = "none" /\ use # use' /\ symmetry' = "third" =>
       /\ DOMAIN core' = DOMAIN original
       /\ \A l \in DOMAIN original : SameAssembly(core'[l], original[l])]_vars

(* Stationary blocks are not moved by a shuffle: the cell has the same     *)
(* block as before, with the same values (_transferStationaryBlocks:       *)
(* "These blocks in effect are not moved at all.").                        *)
StationaryStays ==
  [][cycle' # cycle => \A l \in DOMAIN core, q \in stationary :
       /\ core'[l].block[q].of = core[l].block[q].of
       /\ core'[l].block[q].p = core[l].block[q].p]_vars
=============================================================================
