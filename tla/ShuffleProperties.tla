-------------------------- MODULE ShuffleProperties --------------------------
(***************************************************************************)
(* What fuel management has to get right.                                  *)
(***************************************************************************)
EXTENDS Shuffle

(* Places are what they should be, and histories hold no more than one     *)
(* place for each cycle begun, whatever they held before.                  *)
TypeOK ==
  /\ at \in [Locs -> Nums] /\ loc \in [Nums -> Places]
  /\ plate \in [Nums -> Nums] /\ made \in 0 .. MaxAssems
  /\ cycle \in 0 .. NCycles
  /\ \A a \in Nums :
       /\ ringPosHist[a] \in Seq(Places \cup {NOT_CREATED_YET})
       /\ Len(ringPosHist[a]) <= cycle \/ (cycle = 0 /\ Len(ringPosHist[a]) = 1)

(* The index of the core (childrenByLocator) and the assemblies' own idea  *)
(* of where they are agree, so every assembly is in one place and every    *)
(* location holds one assembly, between any two calls; numbers not given   *)
(* out yet belong to no assembly in the model.                             *)
PlacesAgree ==
  /\ \A l \in Locs : loc[at[l]] = l
  /\ \A a \in Nums : loc[a] \in Locs => at[loc[a]] = a
  /\ \A a \in Nums : a >= made => loc[a] = LOAD_QUEUE

(* A stationary block (a grid plate) stays at its location whatever is     *)
(* swapped, discharged or reloaded over it.                                *)
PlatesStay == \A l \in Locs : plate[at[l]] = InitialCore[l]

(* The history of locations finds an assembly again: asked for a location  *)
(* and a past cycle, it gives the one assembly that ran there, wherever it *)
(* is now, and nothing when that assembly was deleted.                     *)
FoundByHistory ==
  \A c \in 1 .. Len(been), l \in Locs :
    WereAt(<<l, c - 1>>) = {been[c][l]} \ {a \in Nums : loc[a] = LOAD_QUEUE}

(* An assembly that came back from the pool before it ever ran in the core *)
(* has no past place to be found by: the report has none for it, or only   *)
(* the one that it went to by the move itself.                             *)
NeverRan(move, c) ==
  /\ move.fromLoc = SPENT_FUEL_POOL
  /\ move.ringPosCycle = NoHist \/ move.ringPosCycle[2] >= c

(* A run that repeats the report of another ends with the same assemblies, *)
(* with the same histories, in the same places; it fails only if the first *)
(* one took an assembly from the pool that had never run in the core.      *)
RepeatsExactly ==
  run = "repeat" =>
    /\ phase = "eol" => Layout = layout
    /\ phase = "failed" => \E c \in Cycles : \E move \in ToSet(report[c]) : NeverRan(move, c)
-----------------------------------------------------------------------------
(* What a YAML sequence asks for, as a map of locations. *)

CascadesOf(actions) == {action \in ToSet(actions) : action.do = "cascade"}

(* Where the assembly at l goes by the cascades alone. *)
ByCascades(actions, l) ==
  LET through == {action \in CascadesOf(actions) : l \in ToSet(action.locs)}
  IN  IF through = {} THEN l
      ELSE LET locs == (CHOOSE action \in through : TRUE).locs
               i    == SelectInSeq(locs, LAMBDA k : k = l)
           IN  IF i < Len(locs) THEN locs[i + 1] ELSE DELETE

(* Where the swaps, in turn, then take what is at l. *)
BySwaps(actions, l) ==
  FoldLeft(LAMBDA k, pair : IF k = pair[1] THEN pair[2] ELSE IF k = pair[2] THEN pair[1] ELSE k,
           l, Swaps(actions))

(* An assembly that was discharged and came back in the same outage. *)
Returned(actions, a) ==
  \E action \in CascadesOf(actions) :
    action.locs[1] = SPENT_FUEL_POOL /\ a \in WereAt(action.ringPosCycle)

(* After an outage with a YAML sequence every assembly is where the        *)
(* cascades, and then the swaps, take it from where it ran in the cycle    *)
(* before; what is discharged to the pool is there; a charged assembly is  *)
(* a new one of the type asked for, or has the history asked for; and what *)
(* ends up at the location of a rotation, nothing else, has been rotated.  *)
SequenceApplied ==
  (run = "first" /\ source = "sequence" /\ phase \in {"operate", "eol"} /\ cycle > 1) =>
    LET actions   == sequence[cycle - 1]
        Placed(l) == at[BySwaps(actions, l)]
    IN  /\ \A l \in Locs :
             LET a == been[cycle - 1][l]
                 dest == ByCascades(actions, l)
             IN  CASE dest \in Locs          -> Placed(dest) = a
                   [] dest = SPENT_FUEL_POOL -> InPool(a) \/ Returned(actions, a)
                   [] OTHER                  -> ~ InCore(a) \/ Returned(actions, a)
        /\ \A action \in CascadesOf(actions) :
             IF action.locs[1] = SPENT_FUEL_POOL
               THEN Placed(action.locs[2]) \in WereAt(action.ringPosCycle)
               ELSE LET a == Placed(action.locs[1])
                    IN  assemType[a] = action.assemType
                        /\ FirstInCore(ringPosHist[a])[2] = cycle - 1
        /\ {a \in Nums : cycle - 1 \in turned[a]} =
             {at[action.loc] : action \in {x \in ToSet(actions) : x.do = "extraRotations"}}

(* A valid YAML sequence fails only when it asks back for an assembly that *)
(* is not in the pool, or lists a rotation before a cascade that goes      *)
(* through the same location (which the documentation allows).             *)
FailsForCause ==
  (run = "first" /\ phase = "failed") =>
    LET actions == sequence[cycle]
    IN  \/ \E action \in CascadesOf(actions) :
             /\ action.locs[1] = SPENT_FUEL_POOL
             /\ \A a \in WereAt(action.ringPosCycle) : ~ InPool(a)
        \/ \E i, j \in DOMAIN actions :
             /\ i < j /\ actions[i].do = "extraRotations" /\ actions[j].do = "cascade"
             /\ actions[i].loc \in ToSet(actions[j].locs)
=============================================================================
