------------------------------- MODULE Shuffle -------------------------------
(***************************************************************************)
(* Fuel management: the outages in which a fuel handler moves assemblies   *)
(* between the core, the load queue and the spent fuel pool, the record it *)
(* keeps of its moves, and a second run that repeats them from that record *)
(* (armi/physics/fuelCycle/, armi/reactor/cores.py, spentFuelPool.py).     *)
(*                                                                         *)
(* The first run is driven by user shuffle logic, which may call the       *)
(* handler in any order, or by a YAML sequence; the repeating run by the   *)
(* SHUFFLES.txt file of the first.  A program of swaps that a file or a    *)
(* cascade stands for is carried out one call at a time.                   *)
(***************************************************************************)
EXTENDS MoveList

CONSTANTS
  Locs,         \* labels of the core locations
  MaxAssems,    \* bound on the assemblies ever made
  InitialCore,  \* InitialCore[l]: the number of the assembly that starts at l
  InitialPool,  \* numbers of the assemblies that start in the spent fuel pool
  BlueprintMade, \* numbers given out by the blueprints
  Types,        \* assembly designs in the blueprints
  NCycles,      \* nCycles setting
  Sequences,    \* the YAML sequences a case may be given
  TrackAssems,  \* trackAssems setting
  MaxCalls      \* bound on the calls the user's shuffle logic makes in a run

Nums   == 0 .. MaxAssems - 1
Cycles == 0 .. NCycles - 1
Places == Locs \cup {SPENT_FUEL_POOL, LOAD_QUEUE}
Loaded == {InitialCore[l] : l \in Locs} \cup InitialPool

ASSUME CoreAssumption ==
  /\ MaxAssems \in Nat /\ NCycles \in Nat \ {0} /\ MaxCalls \in Nat
  /\ Locs \cap NOT_IN_CORE = {}
  /\ InitialCore \in [Locs -> Nums]
  /\ \A k, l \in Locs : InitialCore[k] = InitialCore[l] => k = l
  /\ InitialPool \subseteq Nums
  /\ \A l \in Locs : InitialCore[l] \notin InitialPool
  /\ BlueprintMade \in 0 .. MaxAssems /\ Loaded \subseteq 0 .. BlueprintMade - 1
  /\ TrackAssems \in BOOLEAN

VARIABLES
  run,        \* "first", or "repeat" of its report
  source,     \* what drives the first run: shuffle "logic" or a "sequence"
  sequence,   \* sequence[c]: the actions of the YAML file for cycle c
  phase,      \* "operate", "outage", "eol", "ended" or "failed"
  cycle,      \* r.p.cycle
  at,         \* core.childrenByLocator
  loc,        \* place of each assembly: its parent and spatialLocator
  plate,      \* the stationary block in each assembly, by its first owner
  assemType,  \* design of each assembly
  made,       \* r.p.maxAssemNum: the number of the next new assembly
  ringPosHist,
  lastLocationLabel,
  turned,     \* cycles in which each assembly was rotated
  moved,      \* assemblies moved in this outage, in order
  moves,      \* core.moves
  todo,       \* calls left of a cascade or of performShuffle
  pendingRotations,
  report,     \* the SHUFFLES.txt file of the first run
  layout,     \* ghost: where the first run left every assembly
  been,       \* ghost: been[c + 1] is the core as operated in cycle c
  calls       \* calls of the shuffle logic so far

places   == <<at, loc, plate>>
designs  == <<assemType, made>>
records  == <<ringPosHist, lastLocationLabel, turned, moves, been>>
settings == <<run, source, sequence, report, layout>>
vars     == <<settings, phase, cycle, places, designs, records, moved, todo,
              pendingRotations, calls>>

NoMoves == [c \in Cycles |-> <<>>]

(* A reactor as the blueprints build it. *)
BlueprintLoc ==
  [a \in Nums |-> IF \E l \in Locs : InitialCore[l] = a
                   THEN CHOOSE l \in Locs : InitialCore[l] = a
                   ELSE IF a \in InitialPool THEN SPENT_FUEL_POOL ELSE LOAD_QUEUE]
BlueprintHist == [a \in Nums |-> IF a \in Loaded THEN <<BlueprintLoc[a]>> ELSE <<>>]
NoneOf(value) == [a \in Nums |-> value]

Init ==
  /\ run = "first"
  /\ \/ source = "logic" /\ sequence = NoMoves
     \/ source = "sequence" /\ sequence \in Sequences
  /\ report = NoMoves /\ layout = <<>>
  /\ phase = "operate" /\ cycle = 0
  /\ at = InitialCore /\ loc = BlueprintLoc /\ plate = [a \in Nums |-> a]
  /\ assemType = NoneOf(NoType) /\ made = BlueprintMade
  /\ ringPosHist = BlueprintHist /\ lastLocationLabel = NoneOf(LOAD_QUEUE)
  /\ turned = NoneOf({}) /\ moved = <<>> /\ moves = NoMoves
  /\ todo = <<>> /\ pendingRotations = <<>> /\ been = <<>> /\ calls = 0
-----------------------------------------------------------------------------
(* Moves of assemblies.                                                    *)

InCore(a)   == \E l \in Locs : at[l] = a
InPool(a)   == loc[a] = SPENT_FUEL_POOL
Noted(a, b) == moved \o SelectSeq(<<a, b>>, LAMBDA m : m \notin ToSet(moved))

ExchangePlates(a, b) == plate' = [plate EXCEPT ![a] = plate[b], ![b] = plate[a]]

SwapAssemblies_NotIndexed(a, b) ==
  /\ moved' = Noted(a, b)
  /\ ExchangePlates(a, b)
  /\ loc' = [loc EXCEPT ![a] = loc[b], ![b] = loc[a]]
  /\ at' = [at EXCEPT ![loc[b]] = a]

SwapAssemblies(a, b) ==
  /\ moved' = Noted(a, b)
  /\ ExchangePlates(a, b)
  /\ loc' = [loc EXCEPT ![a] = loc[b], ![b] = loc[a]]
  /\ at' = [at EXCEPT ![loc[b]] = a, ![loc[a]] = b]

(* Where removeAssembly puts an assembly; without a parent it reads as     *)
(* being in the load queue.                                                *)
Discharged(toSfp) == IF TrackAssems \/ toSfp THEN SPENT_FUEL_POOL ELSE LOAD_QUEUE

DischargeSwap_WithItsPlate(incoming, outgoing, toSfp) ==
  /\ moved' = Noted(incoming, outgoing)
  /\ loc' = [loc EXCEPT ![outgoing] = Discharged(toSfp), ![incoming] = loc[outgoing]]
  /\ at' = [at EXCEPT ![loc[outgoing]] = incoming]
  /\ UNCHANGED plate

DischargeSwap(incoming, outgoing, toSfp) ==
  /\ moved' = Noted(incoming, outgoing)
  /\ ExchangePlates(incoming, outgoing)
  /\ loc' = [loc EXCEPT ![outgoing] = Discharged(toSfp), ![incoming] = loc[outgoing]]
  /\ at' = [at EXCEPT ![loc[outgoing]] = incoming]

(* createAssemblyOfType, and the number core.add gives to the assembly. *)
LoadNew(type, outgoing, toSfp) ==
  /\ made \in Nums
  /\ assemType' = [assemType EXCEPT ![made] = type]
  /\ made' = made + 1
  /\ DischargeSwap(made, outgoing, toSfp)

(* The assemblies that _checkIfAssemAtRingPosCycle accepts. *)
WereAt(hist) ==
  {a \in Nums : /\ InCore(a) \/ InPool(a)
                /\ Len(ringPosHist[a]) > hist[2] /\ ringPosHist[a][hist[2] + 1] = hist[1]}

(* getAssemblyWithRingPosHist: the core is searched before the pool. *)
WithRingPosHist(hist) ==
  LET found == WereAt(hist)
      inCore == {a \in found : InCore(a)}
  IN  CHOOSE a \in found : inCore # {} => a \in inCore

(* An exception ends the run; nothing reads its reactor any more. *)
Fail == phase' = "failed" /\ todo' = <<>> /\ UNCHANGED <<places, designs, moved>>
-----------------------------------------------------------------------------
(* The outage.                                                             *)

SwapCalls(pairs) == [i \in DOMAIN pairs |-> [do |-> "swap", pair |-> pairs[i]]]

(* doRepeatShuffle as a program of calls.  The assemblies of all chains    *)
(* are looked up before the first call, those of the swaps when it is      *)
(* their turn.                                                             *)
Contents(chain) == [i \in DOMAIN chain.locs |-> at[chain.locs[i]]]

LoadCalls(chain) ==
  LET list == Contents(chain)
  IN  Append(SwapCalls(LoadSwaps(list)),
             [do |-> "charge", outgoing |-> list[1], assemType |-> chain.assemType,
              ringPosCycle |-> chain.ringPosCycle, toSfp |-> chain.dest = SPENT_FUEL_POOL])

Program(data, swaps) ==
  FlattenSeq([i \in DOMAIN data.loadChains |-> LoadCalls(data.loadChains[i])])
    \o FlattenSeq([i \in DOMAIN data.loopChains |->
                     SwapCalls(LoopSwaps(Contents(data.loopChains[i])))])
    \o [i \in DOMAIN swaps |-> [do |-> "swapAt", pair |-> swaps[i]]]

(* Chains that processMoveList or doRepeatShuffle cannot deal with: one    *)
(* that has no end, has a location without an assembly, or discharges      *)
(* without a charge.                                                       *)
Broken(data) ==
  \/ \E i \in DOMAIN data.loadChains :
       data.loadChains[i].tooLong \/ data.loadChains[i].locs = <<>>
  \/ \E i \in DOMAIN data.loopChains : data.loopChains[i].tooLong
  \/ \E chains \in {data.loadChains, data.loopChains} : \E i \in DOMAIN chains :
       ~ ToSet(chains[i].locs) \subseteq Locs

(* A line about an assembly from the pool without its history, which the   *)
(* pattern of readMoves does not match.                                    *)
Unreadable(move) == move.fromLoc \in DISCHARGE_LOCS /\ move.ringPosCycle = NoHist

PerformShuffle(moveList, swaps) ==
  LET data == ProcessMoveList(moveList)
  IN  IF Broken(data)
        THEN phase' = "failed" /\ UNCHANGED <<todo, pendingRotations>>
        ELSE /\ phase' = "outage"
             /\ todo' = Program(data, swaps)
             /\ pendingRotations' = data.rotations

(* manageFuel up to the calls of the outage. *)
BeginOutage ==
  /\ phase = "operate"
  /\ lastLocationLabel' = [a \in Nums |-> IF InCore(a) \/ InPool(a) THEN loc[a]
                                          ELSE lastLocationLabel[a]]
  /\ IF cycle = 0 \/ (run = "first" /\ source = "logic")
       THEN phase' = "outage" /\ UNCHANGED <<todo, pendingRotations>>
       ELSE IF run = "first" THEN PerformShuffle(Moves(sequence[cycle]), Swaps(sequence[cycle]))
       ELSE IF \E c \in Cycles : \E move \in ToSet(report[c]) : Unreadable(move)
         THEN phase' = "failed" /\ UNCHANGED <<todo, pendingRotations>>
         ELSE PerformShuffle(report[cycle], <<>>)
  /\ UNCHANGED <<settings, cycle, places, designs, ringPosHist, turned, moves, been, moved, calls>>

(* Calls of chooseSwaps; the first core of a case is left as it is. *)
Choosing ==
  /\ phase = "outage" /\ run = "first" /\ source = "logic" /\ cycle > 0
  /\ todo = <<>> /\ calls < MaxCalls
  /\ calls' = calls + 1
  /\ UNCHANGED <<settings, phase, cycle, records, pendingRotations>>

ChooseCascade ==
  \E a, b, c \in Nums :
    /\ Choosing
    /\ InCore(a) /\ InCore(b) /\ InCore(c) /\ a # b /\ a # c
    /\ todo' = SwapCalls(IF b = c THEN << <<a, b>> >> ELSE << <<a, b>>, <<a, c>> >>)
    /\ UNCHANGED <<places, designs, moved>>

ChooseFeed ==
  \E type \in Types, outgoing \in Nums, toSfp \in BOOLEAN :
    /\ Choosing
    /\ InCore(outgoing)
    /\ LoadNew(type, outgoing, toSfp)
    /\ UNCHANGED todo

ChooseReturn ==
  \E incoming, outgoing \in Nums, toSfp \in BOOLEAN :
    /\ Choosing
    /\ InPool(incoming) /\ InCore(outgoing)
    /\ DischargeSwap(incoming, outgoing, toSfp)
    /\ UNCHANGED <<designs, todo>>

(* The next call of a program. *)
CallSwap(a, b) ==
  IF InCore(a) /\ InCore(b) /\ a # b
    THEN phase' = phase /\ todo' = Tail(todo) /\ SwapAssemblies(a, b) /\ UNCHANGED designs
    ELSE Fail

CallCharge(call) ==
  IF ~ InCore(call.outgoing) THEN Fail
  ELSE IF call.ringPosCycle # NoHist THEN
    IF WereAt(call.ringPosCycle) # {} /\ InPool(WithRingPosHist(call.ringPosCycle))
      THEN /\ phase' = phase /\ todo' = Tail(todo)
           /\ DischargeSwap(WithRingPosHist(call.ringPosCycle), call.outgoing, call.toSfp)
           /\ UNCHANGED designs
      ELSE Fail
  ELSE IF call.assemType \in Types
    THEN phase' = phase /\ todo' = Tail(todo) /\ LoadNew(call.assemType, call.outgoing, call.toSfp)
    ELSE Fail

Call ==
  /\ phase = "outage" /\ todo # <<>>
  /\ LET call == Head(todo)
     IN  \/ call.do = "swap" /\ CallSwap(call.pair[1], call.pair[2])
         \/ call.do = "swapAt" /\ CallSwap(at[call.pair[1]], at[call.pair[2]])
         \/ call.do = "charge" /\ CallCharge(call)
  /\ UNCHANGED <<settings, cycle, records, pendingRotations, calls>>

(* The history of an assembly that is still in the model has one place per *)
(* cycle.                                                                  *)
Preconditioned_NotPadded(hist, n) == IF Len(hist) < n THEN hist ELSE SubSeq(hist, 1, n)

Preconditioned(hist, n) ==
  IF Len(hist) < n THEN hist \o [i \in 1 .. n - Len(hist) |-> NOT_CREATED_YET]
  ELSE SubSeq(hist, 1, n)

Located == [a \in Nums |-> IF InCore(a) \/ InPool(a)
                             THEN Append(Preconditioned(ringPosHist[a], cycle), loc[a])
                             ELSE ringPosHist[a]]

(* The first place in the core of an assembly, which identifies it. *)
FirstInCore(hist) ==
  LET i == SelectInSeq(hist, LAMBDA place : place \notin NOT_IN_CORE)
  IN  IF i = 0 THEN NoHist ELSE <<hist[i], i - 1>>

SetMoveList(list, move) == Append(SelectSeq(list, LAMBDA m : m # move), move)

(* The rest of outage: histories, rotations and the list of moves. *)
EndOutage ==
  /\ phase = "outage" /\ todo = <<>>
  /\ ringPosHist' = Located
  /\ turned' = [a \in Nums |-> IF \E l \in ToSet(pendingRotations) : at[l] = a
                                 THEN turned[a] \cup {cycle} ELSE turned[a]]
  /\ pendingRotations' = <<>>
  /\ moves' = [moves EXCEPT ![cycle] =
       FoldLeft(LAMBDA list, a : SetMoveList(list,
                  AssemblyMove(lastLocationLabel[a], loc[a], assemType[a], FirstInCore(Located[a]))),
                @, moved)]
  /\ moved' = <<>>
  /\ been' = Append(been, at)
  /\ cycle' = cycle + 1
  /\ phase' = IF cycle + 1 = NCycles THEN "eol" ELSE "operate"
  /\ UNCHANGED <<settings, places, designs, lastLocationLabel, todo, calls>>
-----------------------------------------------------------------------------
(* What the lines of the report keep of a move. *)
Reported(move) ==
  IF move.fromLoc \in DISCHARGE_LOCS THEN move ELSE [move EXCEPT !.ringPosCycle = NoHist]

(* An assembly for the comparison of two runs: numbers depend on the order *)
(* in which assemblies are made.                                           *)
Described(a) == <<assemType[a], ringPosHist[a]>>

(* The core, and the pool but for assemblies that never ran in the core. *)
Layout ==
  [core |-> [l \in Locs |-> Described(at[l])],
   pool |-> {Described(a) : a \in {b \in Nums : InPool(b) /\ FirstInCore(ringPosHist[b]) # NoHist}}]

MakeShuffleReport ==
  /\ phase = "eol" /\ run = "first"
  /\ report' = [c \in Cycles |-> [i \in DOMAIN moves[c] |-> Reported(moves[c][i])]]
  /\ layout' = Layout
  /\ phase' = "ended"
  /\ UNCHANGED <<run, source, sequence, cycle, places, designs, records, moved, todo,
                 pendingRotations, calls>>

(* Another run of the case, with explicitRepeatShuffles set. *)
Repeat ==
  /\ phase = "ended" /\ run = "first"
  /\ run' = "repeat"
  /\ phase' = "operate" /\ cycle' = 0
  /\ at' = InitialCore /\ loc' = BlueprintLoc /\ plate' = [a \in Nums |-> a]
  /\ assemType' = NoneOf(NoType) /\ made' = BlueprintMade
  /\ ringPosHist' = BlueprintHist /\ lastLocationLabel' = NoneOf(LOAD_QUEUE)
  /\ turned' = NoneOf({}) /\ moved' = <<>> /\ moves' = NoMoves
  /\ todo' = <<>> /\ pendingRotations' = <<>> /\ been' = <<>> /\ calls' = 0
  /\ UNCHANGED <<source, sequence, report, layout>>

Finished == phase = "failed" \/ (phase = "eol" /\ run = "repeat")

Next ==
  \/ BeginOutage \/ Call \/ EndOutage
  \/ ChooseCascade \/ ChooseFeed \/ ChooseReturn
  \/ MakeShuffleReport \/ Repeat
  \/ Finished /\ UNCHANGED vars

Spec == Init /\ [][Next]_vars
=============================================================================
