------------------------------ MODULE MoveList ------------------------------
(***************************************************************************)
(* Shuffle plans as lists of moves, and the chains of locations that the   *)
(* fuel handler makes of them (armi/physics/fuelCycle/fuelHandlers.py).    *)
(*                                                                         *)
(* A location is the label of a core location or one of the places outside *)
(* of the core.  The enrichments of a new assembly are part of its type.   *)
(***************************************************************************)
EXTENDS Naturals, SequencesExt

LOAD_QUEUE      == "LoadQueue"
SPENT_FUEL_POOL == "SFP"
DELETE          == "Delete"
NOT_CREATED_YET == "NotCreatedYet"
NOT_IN_CORE     == {LOAD_QUEUE, SPENT_FUEL_POOL, DELETE, NOT_CREATED_YET}
DISCHARGE_LOCS  == {SPENT_FUEL_POOL, DELETE}
Ends            == {LOAD_QUEUE} \cup DISCHARGE_LOCS

NoType == "no type"
NoHist == <<>>  \* no ringPosCycle; otherwise <<location, cycle>>

AssemblyMove(fromLoc, toLoc, type, hist) ==
  [fromLoc |-> fromLoc, toLoc |-> toLoc, assemType |-> type, ringPosCycle |-> hist,
   rotates |-> FALSE]

Rotation(loc) == [AssemblyMove(loc, loc, NoType, NoHist) EXCEPT !.rotates = TRUE]

NoMove == AssemblyMove(NOT_CREATED_YET, NOT_CREATED_YET, NoType, NoHist)

IsDummy(move) == move.toLoc \in DISCHARGE_LOCS /\ move.fromLoc = LOAD_QUEUE

First(moveList, Test(_)) ==
  LET i == SelectInSeq(moveList, Test) IN IF i = 0 THEN NoMove ELSE moveList[i]

(* The list of moves that a cycle of a YAML sequence asks for.  A cascade  *)
(* begins with the type of a new assembly, or with SFP and the history of  *)
(* the assembly that comes back; without a last place for the assembly it  *)
(* displaces, that one is deleted.                                         *)
CascadeMoves(action) ==
  LET locs  == action.locs
      start == IF locs[1] = SPENT_FUEL_POOL THEN 2 ELSE 1
      load  == IF start = 2
                 THEN AssemblyMove(SPENT_FUEL_POOL, locs[2], NoType, action.ringPosCycle)
                 ELSE AssemblyMove(LOAD_QUEUE, locs[1], action.assemType, NoHist)
      inner == [i \in 1 .. Len(locs) - start |->
                  AssemblyMove(locs[start + i - 1], locs[start + i], NoType, NoHist)]
      last  == IF Last(locs) \in DISCHARGE_LOCS THEN <<>>
               ELSE <<AssemblyMove(Last(locs), DELETE, NoType, NoHist)>>
  IN  <<load>> \o inner \o last

ActionMoves(action) ==
  CASE action.do = "cascade"        -> CascadeMoves(action)
    [] action.do = "extraRotations" -> <<Rotation(action.loc)>>
    [] action.do = "swap"           -> <<>>

Moves_Backwards(actions) == FlattenSeq(Reverse([i \in DOMAIN actions |-> ActionMoves(actions[i])]))
Moves(actions) == FlattenSeq([i \in DOMAIN actions |-> ActionMoves(actions[i])])

Swaps(actions) ==
  LET swaps == SelectSeq(actions, LAMBDA action : action.do = "swap")
  IN  [i \in DOMAIN swaps |-> swaps[i].locs]

(* The chain of locations that ends where a move starts, latest first: an  *)
(* assembly moves from each of its locations to the one before it.  It is  *)
(* complete when it gets out of the core or back to its start.  The search *)
(* gives up after 100 rounds; a chain that is not complete after as many   *)
(* rounds as there are moves never will be.                                *)
TrackChain(moveList, startingAt) ==
  LET Complete(chain) == \/ Last(chain) \in Ends
                         \/ Len(chain) > 1 /\ Last(chain) = startingAt
      Into(loc) == First(moveList, LAMBDA move : move.toLoc = loc)
      track[n \in 0 .. Len(moveList)] ==
        IF n = 0 THEN <<startingAt>>
        ELSE IF Complete(track[n - 1]) \/ Into(Last(track[n - 1])) = NoMove
          THEN track[n - 1]
          ELSE Append(track[n - 1], Into(Last(track[n - 1])).fromLoc)
      chain == track[Len(moveList)]
      load  == IF Last(chain) \in Ends THEN Into(chain[Len(chain) - 1]) ELSE NoMove
  IN  [locs |-> Front(chain), assemType |-> load.assemType,
       ringPosCycle |-> load.ringPosCycle,
       dest |-> First(moveList, LAMBDA move : ~ IsDummy(move) /\ move.fromLoc = startingAt).toLoc,
       tooLong |-> Len(chain) > 1 /\ ~ Complete(chain)]

(* The charge and discharge chains of a list of moves, then the loops of   *)
(* what is left, then the rotations.                                       *)
ProcessMoveList(moveList) ==
  LET discharges == SelectSeq(moveList, LAMBDA move :
        move.fromLoc # move.toLoc /\ move.toLoc \in DISCHARGE_LOCS /\ ~ IsDummy(move))
      loads == [i \in DOMAIN discharges |-> TrackChain(moveList, discharges[i].fromLoc)]
      Loop(found, move) ==
        IF \/ move.fromLoc = move.toLoc \/ move.toLoc \in DISCHARGE_LOCS
           \/ move.fromLoc \in Ends \/ move.fromLoc \in found.alreadyDone
          THEN found
          ELSE LET chain == TrackChain(moveList, move.fromLoc)
               IN  [alreadyDone |-> found.alreadyDone \cup ToSet(chain.locs),
                    chains |-> Append(found.chains, chain)]
      seen  == UNION {ToSet(loads[i].locs) : i \in DOMAIN loads}
      loops == FoldLeft(Loop, [alreadyDone |-> seen, chains |-> <<>>], moveList).chains
      turns == SelectSeq(moveList, LAMBDA move : move.fromLoc = move.toLoc /\ move.rotates)
  IN  [loadChains |-> loads, loopChains |-> loops,
       rotations |-> [i \in DOMAIN turns |-> turns[i].fromLoc]]

(* The pairs of assemblies that are swapped, in this order, to move each   *)
(* assembly of a chain to the place of the one before it: in a charge      *)
(* chain the first one ends up in the last place, to be discharged there;  *)
(* a loop is walked the other way.                                         *)
LoadSwaps_Forwards(chain) == [i \in 1 .. Len(chain) - 1 |-> <<chain[i], chain[i + 1]>>]
LoadSwaps(chain) ==
  LET n == Len(chain)
  IN  [i \in 1 .. n - 1 |-> <<chain[IF i = 1 THEN 1 ELSE n + 2 - i], chain[n + 1 - i]>>]

LoopSwaps_Forwards(chain) == [i \in 1 .. Len(chain) - 1 |-> <<chain[i], chain[i + 1]>>]
LoopSwaps(chain) ==
  LET n == Len(chain)
      At(i) == chain[IF i > n THEN i - n ELSE i]
  IN  [i \in 1 .. n - 1 |-> IF i = 1 THEN <<At(1), At(2)>> ELSE <<At(n + 2 - i), At(n + 3 - i)>>]
=============================================================================
