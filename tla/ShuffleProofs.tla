---------------------------- MODULE ShuffleProofs ----------------------------
(***************************************************************************)
(* However assemblies are moved, each location of the core has one of them *)
(* and each of them one place, and the grid plates stay where they are.    *)
(***************************************************************************)
EXTENDS ShuffleProperties, SequenceTheorems, TLAPS

(* What TypeOK says of places. *)
PlaceTypes ==
  /\ at \in [Locs -> Nums] /\ loc \in [Nums -> Places]
  /\ plate \in [Nums -> Nums] /\ made \in 0 .. MaxAssems

PlacesInv == PlaceTypes /\ PlacesAgree /\ PlatesStay

(* The names of places outside of the core are no labels of locations. *)
LEMMA Outside ==
  /\ SPENT_FUEL_POOL \notin Locs /\ LOAD_QUEUE \notin Locs
  /\ SPENT_FUEL_POOL # LOAD_QUEUE
  /\ SPENT_FUEL_POOL \in Places /\ LOAD_QUEUE \in Places /\ Locs \subseteq Places
BY CoreAssumption DEF NOT_IN_CORE, SPENT_FUEL_POOL, LOAD_QUEUE, Places

(* An assembly of the core is at its location. *)
LEMMA CoreMember ==
  ASSUME PlacesInv, NEW a, InCore(a)
  PROVE  a \in Nums /\ loc[a] \in Locs /\ at[loc[a]] = a
BY DEF PlacesInv, PlaceTypes, PlacesAgree, InCore

(* The state the blueprints build, at the start of either run. *)
LEMMA Built ==
  /\ InitialCore \in [Locs -> Nums] /\ BlueprintMade \in 0 .. MaxAssems
  /\ BlueprintLoc \in [Nums -> Places]
  /\ \A l \in Locs : BlueprintLoc[InitialCore[l]] = l
  /\ \A a \in Nums : BlueprintLoc[a] \in Locs => InitialCore[BlueprintLoc[a]] = a
  /\ \A a \in Nums : a >= BlueprintMade => BlueprintLoc[a] = LOAD_QUEUE
<1>1. InitialCore \in [Locs -> Nums] /\ BlueprintMade \in 0 .. MaxAssems
      /\ Loaded \subseteq 0 .. BlueprintMade - 1
  BY CoreAssumption
<1>2. \A l \in Locs : BlueprintLoc[InitialCore[l]] = l
  BY <1>1, CoreAssumption DEF BlueprintLoc
<1>3. \A a \in Nums : BlueprintLoc[a] \in Locs => InitialCore[BlueprintLoc[a]] = a
  BY Outside DEF BlueprintLoc
<1>4. BlueprintLoc \in [Nums -> Places]
  BY Outside DEF BlueprintLoc
<1>5. \A a \in Nums : a >= BlueprintMade => BlueprintLoc[a] = LOAD_QUEUE
  <2> SUFFICES ASSUME NEW a \in Nums, a >= BlueprintMade
               PROVE  BlueprintLoc[a] = LOAD_QUEUE
    OBVIOUS
  <2>1. a \notin Loaded
    BY <1>1, CoreAssumption DEF Nums
  <2> QED
    BY <2>1 DEF BlueprintLoc, Loaded
<1> QED
  BY <1>1, <1>2, <1>3, <1>4, <1>5

LEMMA InitPlaces == Init => PlacesInv
BY Built DEF Init, PlacesInv, PlaceTypes, PlacesAgree, PlatesStay

LEMMA RepeatPlaces == Repeat => PlacesInv'
BY Built DEF Repeat, PlacesInv, PlaceTypes, PlacesAgree, PlatesStay

(* Two assemblies of the core change places and leave their plates. *)
LEMMA SwapKeeps ==
  ASSUME PlacesInv, NEW a, NEW b, InCore(a), InCore(b), a # b, SwapAssemblies(a, b),
         UNCHANGED designs
  PROVE  PlacesInv'
<1>1. a \in Nums /\ loc[a] \in Locs /\ at[loc[a]] = a
  BY CoreMember
<1>2. b \in Nums /\ loc[b] \in Locs /\ at[loc[b]] = b
  BY CoreMember
<1>3. loc' = [loc EXCEPT ![a] = loc[b], ![b] = loc[a]]
      /\ at' = [at EXCEPT ![loc[b]] = a, ![loc[a]] = b]
      /\ plate' = [plate EXCEPT ![a] = plate[b], ![b] = plate[a]]
      /\ made' = made
  BY DEF SwapAssemblies, ExchangePlates, designs
<1>4. PlaceTypes'
  BY <1>1, <1>2, <1>3 DEF PlacesInv, PlaceTypes
<1>5. PlacesAgree'
  <2>1. \A l \in Locs : loc'[at'[l]] = l
    BY <1>1, <1>2, <1>3 DEF PlacesInv, PlaceTypes, PlacesAgree
  <2>2. \A c \in Nums : loc'[c] \in Locs => at'[loc'[c]] = c
    BY <1>1, <1>2, <1>3 DEF PlacesInv, PlaceTypes, PlacesAgree
  <2>3. \A c \in Nums : c >= made' => loc'[c] = LOAD_QUEUE
    BY <1>1, <1>2, <1>3, Outside DEF PlacesInv, PlaceTypes, PlacesAgree
  <2> QED
    BY <2>1, <2>2, <2>3 DEF PlacesAgree
<1>6. PlatesStay'
  BY <1>1, <1>2, <1>3 DEF PlacesInv, PlaceTypes, PlacesAgree, PlatesStay
<1> QED
  BY <1>4, <1>5, <1>6 DEF PlacesInv

(* An assembly from outside of the core takes the place of one in it; it   *)
(* may be the one that has just been made.                                 *)
LEMMA DischargeKeeps ==
  ASSUME PlacesInv, NEW a \in Nums, loc[a] \notin Locs, NEW b, InCore(b), NEW toSfp,
         made' \in 0 .. MaxAssems, made' >= made, a < made', DischargeSwap(a, b, toSfp)
  PROVE  PlacesInv'
<1>1. b \in Nums /\ loc[b] \in Locs /\ at[loc[b]] = b /\ a # b
  BY CoreMember
<1>2. PICK out \in {SPENT_FUEL_POOL, LOAD_QUEUE} : loc' = [loc EXCEPT ![b] = out, ![a] = loc[b]]
  BY DEF DischargeSwap, Discharged
<1>3. at' = [at EXCEPT ![loc[b]] = a]
      /\ plate' = [plate EXCEPT ![a] = plate[b], ![b] = plate[a]]
  BY DEF DischargeSwap, ExchangePlates
<1>4. out \in Places /\ out \notin Locs
  BY Outside
<1>5. PlaceTypes'
  BY <1>1, <1>2, <1>3, <1>4 DEF PlacesInv, PlaceTypes
<1>6. PlacesAgree'
  <2>1. \A l \in Locs : loc'[at'[l]] = l
    BY <1>1, <1>2, <1>3 DEF PlacesInv, PlaceTypes, PlacesAgree
  <2>2. \A c \in Nums : loc'[c] \in Locs => at'[loc'[c]] = c
    BY <1>1, <1>2, <1>3, <1>4 DEF PlacesInv, PlaceTypes, PlacesAgree
  <2>3. b < made
    BY <1>1, Outside DEF PlacesInv, PlaceTypes, PlacesAgree, Nums
  <2>4. ASSUME NEW c \in Nums, c >= made' PROVE loc'[c] = LOAD_QUEUE
    <3>1. c # a /\ c # b /\ c >= made
      BY <2>3, <2>4 DEF PlacesInv, PlaceTypes, Nums
    <3> QED
      BY <3>1, <1>1, <1>2 DEF PlacesInv, PlaceTypes, PlacesAgree
  <2> QED
    BY <2>1, <2>2, <2>4 DEF PlacesAgree
<1>7. PlatesStay'
  BY <1>1, <1>3 DEF PlacesInv, PlaceTypes, PlacesAgree, PlatesStay
<1> QED
  BY <1>5, <1>6, <1>7 DEF PlacesInv

LEMMA LoadKeeps ==
  ASSUME PlacesInv, NEW type, NEW b, InCore(b), NEW toSfp, LoadNew(type, b, toSfp)
  PROVE  PlacesInv'
<1>1. made \in Nums /\ made' = made + 1 /\ DischargeSwap(made, b, toSfp)
  BY DEF LoadNew
<1>2. made \in Int /\ made' \in 0 .. MaxAssems /\ made' >= made /\ made < made'
  BY <1>1, CoreAssumption DEF Nums
<1>3. loc[made] \notin Locs
  BY <1>1, <1>2, Outside DEF PlacesInv, PlacesAgree
<1> QED
  BY <1>1, <1>2, <1>3, DischargeKeeps

LEMMA ReturnKeeps ==
  ASSUME PlacesInv, NEW a \in Nums, InPool(a), NEW b, InCore(b), NEW toSfp,
         DischargeSwap(a, b, toSfp), UNCHANGED designs
  PROVE  PlacesInv'
<1>1. made' = made
  BY DEF designs
<1>2. loc[a] \notin Locs /\ a < made
  BY Outside DEF InPool, PlacesInv, PlaceTypes, PlacesAgree, Nums
<1>3. made' \in 0 .. MaxAssems /\ made' >= made /\ a < made'
  BY <1>1, <1>2 DEF PlacesInv, PlaceTypes
<1> QED
  BY <1>2, <1>3, DischargeKeeps

LEMMA StillKeeps ==
  ASSUME PlacesInv, UNCHANGED <<places, designs>>
  PROVE  PlacesInv'
BY DEF PlacesInv, PlaceTypes, PlacesAgree, PlatesStay, places, designs

(* What a call does to the assemblies in the model: none comes but from    *)
(* the pool or new.                                                        *)
Entered ==
  /\ made' >= made
  /\ \A a \in Nums : loc'[a] # LOAD_QUEUE => loc[a] # LOAD_QUEUE \/ a >= made

LEMMA SwapEnters ==
  ASSUME PlacesInv, NEW a, NEW b, InCore(a), InCore(b), SwapAssemblies(a, b), UNCHANGED designs
  PROVE  Entered
BY CoreMember, Outside DEF SwapAssemblies, PlacesInv, PlaceTypes, designs, Entered

LEMMA DischargeEnters ==
  ASSUME PlacesInv, NEW a \in Nums, loc[a] # LOAD_QUEUE \/ a >= made, NEW b, InCore(b),
         NEW toSfp, DischargeSwap(a, b, toSfp), made' >= made
  PROVE  Entered
BY CoreMember, Outside DEF DischargeSwap, PlacesInv, PlaceTypes, Entered

LEMMA LoadEnters ==
  ASSUME PlacesInv, NEW type, NEW b, InCore(b), NEW toSfp, LoadNew(type, b, toSfp)
  PROVE  Entered
<1>1. made \in Nums /\ made' = made + 1 /\ DischargeSwap(made, b, toSfp)
  BY DEF LoadNew
<1>2. made \in Int /\ made' >= made
  BY <1>1, CoreAssumption DEF Nums
<1> QED
  BY <1>1, <1>2, DischargeEnters

LEMMA ReturnEnters ==
  ASSUME PlacesInv, NEW a \in Nums, InPool(a), NEW b, InCore(b), NEW toSfp,
         DischargeSwap(a, b, toSfp), UNCHANGED designs
  PROVE  Entered
BY DischargeEnters, Outside DEF InPool, designs, PlacesInv, PlaceTypes

LEMMA StillEnters ==
  ASSUME PlacesInv, UNCHANGED <<places, designs>>
  PROVE  Entered
BY DEF places, designs, PlacesInv, PlaceTypes, Entered

LEMMA CallKeeps == PlacesInv /\ Call => PlacesInv' /\ Entered
<1> SUFFICES ASSUME PlacesInv, Call PROVE PlacesInv' /\ Entered
  OBVIOUS
<1> DEFINE call == Head(todo)
<1>1. CASE CallSwap(call.pair[1], call.pair[2]) \/ CallSwap(at[call.pair[1]], at[call.pair[2]])
  <2> SUFFICES ASSUME NEW a, NEW b, CallSwap(a, b) PROVE PlacesInv' /\ Entered
    BY <1>1
  <2>1. CASE InCore(a) /\ InCore(b) /\ a # b
    BY <2>1, SwapKeeps, SwapEnters DEF CallSwap
  <2>2. CASE ~ (InCore(a) /\ InCore(b) /\ a # b)
    BY <2>2, StillKeeps, StillEnters DEF CallSwap, Fail
  <2> QED
    BY <2>1, <2>2
<1>2. CASE CallCharge(call)
  <2> DEFINE b == call.outgoing
             hist == call.ringPosCycle
             a == WithRingPosHist(hist)
  <2>1. CASE Fail
    BY <2>1, StillKeeps, StillEnters DEF Fail
  <2>2. CASE InCore(b) /\ WereAt(hist) # {} /\ InPool(a)
             /\ DischargeSwap(a, b, call.toSfp) /\ UNCHANGED designs
    <3>1. a \in WereAt(hist)
      <4> DEFINE found == WereAt(hist)
                 inCore == {x \in found : InCore(x)}
      <4>1. \E x \in found : inCore # {} => x \in inCore
        BY <2>2
      <4> HIDE DEF found, inCore
      <4>2. (CHOOSE x \in found : inCore # {} => x \in inCore) \in found
        BY <4>1
      <4> QED
        BY <4>2 DEF WithRingPosHist, found, inCore
    <3>2. a \in Nums
      BY <3>1 DEF WereAt
    <3> HIDE DEF a, b
    <3> QED
      BY <2>2, <3>2, ReturnKeeps, ReturnEnters
  <2>3. CASE InCore(b) /\ LoadNew(call.assemType, b, call.toSfp)
    BY <2>3, LoadKeeps, LoadEnters
  <2> QED
    BY <1>2, <2>1, <2>2, <2>3 DEF CallCharge
<1> QED
  BY <1>1, <1>2 DEF Call

LEMMA StepPlaces == PlacesInv /\ [Next]_vars => PlacesInv'
<1> SUFFICES ASSUME PlacesInv, [Next]_vars PROVE PlacesInv'
  OBVIOUS
<1>1. CASE BeginOutage
  BY <1>1, StillKeeps DEF BeginOutage
<1>2. CASE Call
  BY <1>2, CallKeeps
<1>3. CASE EndOutage
  BY <1>3, StillKeeps DEF EndOutage
<1>4. CASE ChooseCascade
  BY <1>4, StillKeeps DEF ChooseCascade
<1>5. CASE ChooseFeed
  BY <1>5, LoadKeeps DEF ChooseFeed
<1>6. CASE ChooseReturn
  BY <1>6, ReturnKeeps DEF ChooseReturn
<1>7. CASE MakeShuffleReport
  BY <1>7, StillKeeps DEF MakeShuffleReport
<1>8. CASE Repeat
  BY <1>8, RepeatPlaces
<1>9. CASE UNCHANGED vars
  BY <1>9, StillKeeps DEF vars
<1> QED
  BY <1>1, <1>2, <1>3, <1>4, <1>5, <1>6, <1>7, <1>8, <1>9 DEF Next

(* The locations of the core and the assemblies in it correspond one to    *)
(* one, and new assemblies are new, after any calls of any outages.        *)
THEOREM LocationsCorrespond == Spec => []PlacesAgree
<1>1. PlacesInv => PlacesAgree
  BY DEF PlacesInv
<1> QED
  BY <1>1, InitPlaces, StepPlaces, PTL DEF Spec

(* A stationary block is at its location, whatever is moved over it.       *)
THEOREM StationaryBlocksStay == Spec => []PlatesStay
<1>1. PlacesInv => PlatesStay
  BY DEF PlacesInv
<1> QED
  BY <1>1, InitPlaces, StepPlaces, PTL DEF Spec
-----------------------------------------------------------------------------
(* Histories. *)

Past == Places \cup {NOT_CREATED_YET}

(* Nobody shuffles after the last cycle; histories grow with the cycles;   *)
(* numbers not given out have no past; and what is in the model was at a   *)
(* location in a cycle if and only if its history says so.                 *)
HistoryTypes ==
  /\ cycle \in 0 .. NCycles
  /\ phase \in {"operate", "outage"} => cycle < NCycles
  /\ ringPosHist \in [Nums -> Seq(Past)]
  /\ \A a \in Nums : \/ Len(ringPosHist[a]) <= cycle
                     \/ cycle = 0 /\ Len(ringPosHist[a]) = 1
  /\ been \in Seq([Locs -> Nums]) /\ Len(been) = cycle

WasAt(a, l, c) == Len(ringPosHist[a]) >= c /\ ringPosHist[a][c] = l

NoPastYet ==
  \A a \in Nums : a >= made =>
    ringPosHist[a] = <<>> /\ \A c \in 1 .. Len(been), l \in Locs : been[c][l] # a

PastIsTold ==
  \A a \in Nums, c \in 1 .. Len(been), l \in Locs :
    loc[a] # LOAD_QUEUE => (WasAt(a, l, c) <=> been[c][l] = a)

IInv == PlacesInv /\ HistoryTypes /\ NoPastYet /\ PastIsTold

LEMMA NotCreatedYet == NOT_CREATED_YET \notin Locs /\ NOT_CREATED_YET \in Past /\ Places \subseteq Past
BY CoreAssumption DEF NOT_IN_CORE, Past

(* A history is cut or padded to a length and keeps what it has up to it.  *)
LEMMA PreconditionedKeeps ==
  ASSUME NEW hist \in Seq(Past), NEW n \in Nat
  PROVE  /\ Preconditioned(hist, n) \in Seq(Past)
         /\ Len(Preconditioned(hist, n)) = n
         /\ \A i \in 1 .. n : Preconditioned(hist, n)[i] =
                              IF i <= Len(hist) THEN hist[i] ELSE NOT_CREATED_YET
<1>1. CASE Len(hist) < n
  <2> DEFINE pad == [i \in 1 .. n - Len(hist) |-> NOT_CREATED_YET]
  <2>1. n - Len(hist) \in Nat
    BY <1>1
  <2>2. pad \in Seq(Past) /\ Len(pad) = n - Len(hist)
    BY <2>1, NotCreatedYet
  <2>3. \A i \in 1 .. n - Len(hist) : pad[i] = NOT_CREATED_YET
    OBVIOUS
  <2>4. Preconditioned(hist, n) = hist \o pad
    BY <1>1 DEF Preconditioned
  <2> HIDE DEF pad
  <2>5. /\ hist \o pad \in Seq(Past)
        /\ Len(hist \o pad) = Len(hist) + Len(pad)
        /\ \A i \in 1 .. Len(hist) + Len(pad) : (hist \o pad)[i] =
                     IF i <= Len(hist) THEN hist[i] ELSE pad[i - Len(hist)]
    BY <2>2, ConcatProperties
  <2>6. Len(hist) \in Nat
    OBVIOUS
  <2>7. \A i \in 1 .. n : (hist \o pad)[i] = IF i <= Len(hist) THEN hist[i] ELSE NOT_CREATED_YET
    BY <1>1, <2>2, <2>3, <2>5, <2>6
  <2> QED
    BY <2>2, <2>4, <2>5, <2>6, <2>7
<1>2. CASE ~ (Len(hist) < n)
  <2>1. Preconditioned(hist, n) = SubSeq(hist, 1, n)
    BY <1>2 DEF Preconditioned
  <2>2. \A i \in 1 .. n : hist[i] \in Past /\ i <= Len(hist)
    BY <1>2
  <2>3. /\ SubSeq(hist, 1, n) \in Seq(Past)
        /\ Len(SubSeq(hist, 1, n)) = IF 1 <= n THEN n - 1 + 1 ELSE 0
        /\ \A i \in 1 .. n - 1 + 1 : SubSeq(hist, 1, n)[i] = hist[1 + i - 1]
    BY <2>2, SubSeqProperties
  <2> QED
    BY <2>1, <2>2, <2>3
<1> QED
  BY <1>1, <1>2

LEMMA StartsIInv ==
  /\ Init => IInv
  /\ Repeat => IInv'
<1>1. BlueprintHist \in [Nums -> Seq(Past)] /\ \A a \in Nums : Len(BlueprintHist[a]) \in {0, 1}
  BY Built, NotCreatedYet DEF BlueprintHist
<1>2. \A a \in Nums : a >= BlueprintMade => BlueprintHist[a] = <<>>
  <2> SUFFICES ASSUME NEW a \in Nums, a >= BlueprintMade
               PROVE  BlueprintHist[a] = <<>>
    OBVIOUS
  <2>1. a \notin Loaded
    BY CoreAssumption DEF Nums
  <2> QED
    BY <2>1 DEF BlueprintHist
<1>3. <<>> \in Seq([Locs -> Nums]) /\ Len(<<>>) = 0
  OBVIOUS
<1>4. 0 \in 0 .. NCycles /\ 0 < NCycles
  BY CoreAssumption
<1>5. ASSUME Init PROVE IInv
  <2>1. HistoryTypes
    BY <1>1, <1>3, <1>4, <1>5 DEF Init, HistoryTypes
  <2>2. NoPastYet /\ PastIsTold
    BY <1>2, <1>3, <1>5 DEF Init, NoPastYet, PastIsTold
  <2> QED
    BY <1>5, <2>1, <2>2, InitPlaces DEF IInv
<1>6. ASSUME Repeat PROVE IInv'
  <2>1. HistoryTypes'
    BY <1>1, <1>3, <1>4, <1>6 DEF Repeat, HistoryTypes
  <2>2. NoPastYet' /\ PastIsTold'
    BY <1>2, <1>3, <1>6 DEF Repeat, NoPastYet, PastIsTold
  <2> QED
    BY <1>6, <2>1, <2>2, RepeatPlaces DEF IInv
<1> QED
  BY <1>5, <1>6

(* Calls leave the past alone. *)
LEMMA EnteredKeeps ==
  ASSUME IInv, PlacesInv', Entered, UNCHANGED <<cycle, ringPosHist, been>>,
         phase' \in {"operate", "outage"} => cycle < NCycles
  PROVE  IInv'
<1>1. made \in Int /\ made' \in Int /\ Nums \subseteq Int
  BY CoreAssumption DEF IInv, PlacesInv, PlaceTypes, Nums
<1>2. HistoryTypes'
  BY DEF IInv, HistoryTypes
<1>3. NoPastYet'
  BY <1>1 DEF IInv, NoPastYet, Entered
<1>4. PastIsTold'
  <2> SUFFICES ASSUME NEW a \in Nums, NEW c \in 1 .. Len(been), NEW l \in Locs,
                      loc'[a] # LOAD_QUEUE
               PROVE  WasAt(a, l, c) <=> been[c][l] = a
    BY DEF PastIsTold, WasAt
  <2>1. CASE loc[a] # LOAD_QUEUE
    BY <2>1 DEF IInv, PastIsTold
  <2>2. CASE a >= made
    <3>1. ringPosHist[a] = <<>> /\ been[c][l] # a
      BY <2>2 DEF IInv, NoPastYet
    <3>2. Len(<<>>) = 0 /\ c >= 1 /\ c \in Int
      BY DEF IInv, HistoryTypes
    <3> QED
      BY <3>1, <3>2 DEF WasAt
  <2> QED
    BY <2>1, <2>2 DEF Entered
<1> QED
  BY <1>2, <1>3, <1>4 DEF IInv

(* The end of an outage adds the present to the past. *)
LEMMA EndOutageKeeps == IInv /\ EndOutage => IInv'
<1> SUFFICES ASSUME IInv, EndOutage PROVE IInv'
  OBVIOUS
<1> DEFINE In(a) == InCore(a) \/ InPool(a)
           Kept(a) == Preconditioned(ringPosHist[a], cycle)
<1>1. /\ cycle \in Nat /\ cycle < NCycles /\ NCycles \in Nat
      /\ cycle' = cycle + 1
      /\ phase' = IF cycle + 1 = NCycles THEN "eol" ELSE "operate"
      /\ ringPosHist' = Located /\ been' = Append(been, at)
      /\ UNCHANGED <<places, designs>>
  <2>1. phase = "outage" /\ cycle \in 0 .. NCycles /\ cycle < NCycles
    BY DEF EndOutage, IInv, HistoryTypes
  <2>2. NCycles \in Nat /\ cycle \in Nat
    BY <2>1, CoreAssumption
  <2>3. /\ cycle' = cycle + 1 /\ ringPosHist' = Located /\ been' = Append(been, at)
        /\ UNCHANGED <<places, designs>>
    BY DEF EndOutage
  <2>4. phase' = IF cycle + 1 = NCycles THEN "eol" ELSE "operate"
    BY DEF EndOutage
  <2> QED
    BY <2>1, <2>2, <2>3, <2>4
<1>2. PlacesInv'
  BY <1>1, StillKeeps DEF IInv
<1>3. \A a \in Nums : In(a) <=> loc[a] # LOAD_QUEUE
  BY Outside DEF InCore, InPool, IInv, PlacesInv, PlaceTypes, PlacesAgree, Places
<1>4. \A a \in Nums :
        /\ Kept(a) \in Seq(Past) /\ Len(Kept(a)) = cycle
        /\ \A i \in 1 .. cycle : Kept(a)[i] = IF i <= Len(ringPosHist[a]) THEN ringPosHist[a][i]
                                             ELSE NOT_CREATED_YET
  BY <1>1, PreconditionedKeeps DEF IInv, HistoryTypes
<1>5. \A a \in Nums : loc[a] \in Past
  BY NotCreatedYet DEF IInv, PlacesInv, PlaceTypes
<1> HIDE DEF Kept
<1>6. \A a \in Nums : In(a) =>
        /\ ringPosHist'[a] = Append(Kept(a), loc[a])
        /\ ringPosHist'[a] \in Seq(Past) /\ Len(ringPosHist'[a]) = cycle + 1
        /\ \A i \in 1 .. cycle : ringPosHist'[a][i] = Kept(a)[i]
        /\ ringPosHist'[a][cycle + 1] = loc[a]
  <2> SUFFICES ASSUME NEW a \in Nums, In(a)
               PROVE  /\ ringPosHist'[a] = Append(Kept(a), loc[a])
                      /\ Append(Kept(a), loc[a]) \in Seq(Past)
                      /\ Len(Append(Kept(a), loc[a])) = cycle + 1
                      /\ \A i \in 1 .. cycle : Append(Kept(a), loc[a])[i] = Kept(a)[i]
                      /\ Append(Kept(a), loc[a])[cycle + 1] = loc[a]
    OBVIOUS
  <2>1. ringPosHist'[a] = Append(Kept(a), loc[a])
    BY <1>1 DEF Located, Kept
  <2> QED
    BY <2>1, <1>4, <1>5, AppendProperties
<1>7. \A a \in Nums : ~ In(a) => ringPosHist'[a] = ringPosHist[a]
  BY <1>1 DEF Located
<1>8. /\ been' \in Seq([Locs -> Nums]) /\ Len(been') = cycle + 1
      /\ \A c \in 1 .. cycle : been'[c] = been[c]
      /\ been'[cycle + 1] = at
  <2>1. at \in [Locs -> Nums] /\ been \in Seq([Locs -> Nums]) /\ Len(been) = cycle
    BY DEF IInv, HistoryTypes, PlacesInv, PlaceTypes
  <2> QED
    BY <1>1, <2>1, AppendProperties
<1>9. HistoryTypes'
  <2>1. DOMAIN ringPosHist' = Nums /\ ringPosHist' = [a \in Nums |-> ringPosHist'[a]]
    BY <1>1 DEF Located
  <2>2. \A a \in Nums : ringPosHist'[a] \in Seq(Past) /\ Len(ringPosHist'[a]) <= cycle + 1
    BY <1>1, <1>6, <1>7 DEF IInv, HistoryTypes
  <2>3. ringPosHist' \in [Nums -> Seq(Past)]
    BY <2>1, <2>2
  <2>4. cycle' \in 0 .. NCycles /\ (phase' \in {"operate", "outage"} => cycle' < NCycles)
    BY <1>1
  <2> QED
    BY <1>1, <1>8, <2>2, <2>3, <2>4 DEF HistoryTypes
<1>10. NoPastYet'
  <2>1. made' = made /\ loc' = loc
    BY <1>1 DEF designs, places
  <2>2. ASSUME NEW a \in Nums, a >= made
        PROVE  ringPosHist'[a] = <<>> /\ \A c \in 1 .. cycle + 1, l \in Locs : been'[c][l] # a
    <3>1. loc[a] = LOAD_QUEUE
      BY <2>2 DEF IInv, PlacesInv, PlacesAgree
    <3>2. \A l \in Locs : at[l] # a
      BY <3>1, Outside DEF IInv, PlacesInv, PlacesAgree
    <3>3. ringPosHist[a] = <<>> /\ \A c \in 1 .. cycle, l \in Locs : been[c][l] # a
      BY <2>2 DEF IInv, NoPastYet, HistoryTypes
    <3>4. \A c \in 1 .. cycle + 1 : c \in 1 .. cycle \/ c = cycle + 1
      BY <1>1
    <3> QED
      BY <1>3, <1>7, <1>8, <3>1, <3>2, <3>3, <3>4
  <2> QED
    BY <1>8, <2>1, <2>2 DEF NoPastYet
<1>11. PastIsTold'
  <2>1. ASSUME NEW a \in Nums, NEW c \in 1 .. cycle + 1, NEW l \in Locs, loc[a] # LOAD_QUEUE
        PROVE  WasAt(a, l, c)' <=> been'[c][l] = a
    <3>1. CASE c = cycle + 1
      <4>1. WasAt(a, l, c)' <=> loc[a] = l
        BY <1>1, <1>3, <1>6, <2>1, <3>1 DEF WasAt
      <4>2. loc[a] = l <=> at[l] = a
        BY DEF IInv, PlacesInv, PlacesAgree
      <4>3. been'[c] = at
        BY <1>8, <3>1
      <4>4. been'[c][l] = at[l]
        BY <4>3
      <4> QED
        BY <4>1, <4>2, <4>4
    <3>2. CASE c \in 1 .. cycle
      <4>1. WasAt(a, l, c)' <=> Kept(a)[c] = l
        BY <1>1, <1>3, <1>6, <2>1, <3>2 DEF WasAt
      <4>2. Kept(a)[c] = l <=> WasAt(a, l, c)
        BY <1>1, <1>4, <3>2, NotCreatedYet DEF WasAt, IInv, HistoryTypes
      <4>3. been'[c] = been[c] /\ (WasAt(a, l, c) <=> been[c][l] = a)
        BY <1>8, <2>1, <3>2 DEF IInv, PastIsTold, HistoryTypes
      <4> QED
        BY <4>1, <4>2, <4>3
    <3>3. c = cycle + 1 \/ c \in 1 .. cycle
      BY <1>1
    <3> QED
      BY <3>1, <3>2, <3>3
  <2>2. loc' = loc /\ Len(been') = cycle + 1
    BY <1>1, <1>8 DEF places
  <2> QED
    BY <2>1, <2>2 DEF PastIsTold
<1> QED
  BY <1>2, <1>9, <1>10, <1>11 DEF IInv

LEMMA StepIInv == IInv /\ [Next]_vars => IInv'
<1> SUFFICES ASSUME IInv, [Next]_vars PROVE IInv'
  OBVIOUS
<1>1. PlacesInv /\ PlacesInv' /\ (phase \in {"operate", "outage"} => cycle < NCycles)
  BY StepPlaces DEF IInv, HistoryTypes
<1>2. CASE BeginOutage
  BY <1>1, <1>2, StillEnters, EnteredKeeps DEF BeginOutage
<1>3. CASE Call
  BY <1>1, <1>3, CallKeeps, EnteredKeeps DEF Call, records, settings
<1>4. CASE EndOutage
  BY <1>4, EndOutageKeeps
<1>5. CASE ChooseCascade
  BY <1>1, <1>5, StillEnters, EnteredKeeps DEF ChooseCascade, Choosing, records
<1>6. CASE ChooseFeed
  BY <1>1, <1>6, LoadEnters, EnteredKeeps DEF ChooseFeed, Choosing, records
<1>7. CASE ChooseReturn
  BY <1>1, <1>7, ReturnEnters, EnteredKeeps DEF ChooseReturn, Choosing, records
<1>8. CASE MakeShuffleReport
  BY <1>1, <1>8, StillEnters, EnteredKeeps DEF MakeShuffleReport, records
<1>9. CASE Repeat
  BY <1>9, StartsIInv
<1>10. CASE UNCHANGED vars
  BY <1>1, <1>10, StillEnters, EnteredKeeps DEF vars, records
<1> QED
  BY <1>2, <1>3, <1>4, <1>5, <1>6, <1>7, <1>8, <1>9, <1>10 DEF Next

(* Places are what they should be, and histories of the length they should *)
(* have, in every state of every run.                                      *)
THEOREM ShufflesAreTyped == Spec => []TypeOK
<1>1. IInv => TypeOK
  BY DEF IInv, HistoryTypes, PlacesInv, PlaceTypes, TypeOK, Past
<1> QED
  BY <1>1, StartsIInv, StepIInv, PTL DEF Spec

(* Whatever was moved since, a location and a past cycle find the one      *)
(* assembly that was there, unless it has been deleted.                    *)
THEOREM HistoryFindsAssemblies == Spec => []FoundByHistory
<1>1. ASSUME IInv PROVE FoundByHistory
  <2> SUFFICES ASSUME NEW c \in 1 .. Len(been), NEW l \in Locs
               PROVE  WereAt(<<l, c - 1>>) = {been[c][l]} \ {a \in Nums : loc[a] = LOAD_QUEUE}
    BY DEF FoundByHistory
  <2>1. been[c][l] \in Nums /\ c \in Nat
    BY <1>1 DEF IInv, HistoryTypes
  <2>2. \A a \in Nums : InCore(a) \/ InPool(a) <=> loc[a] # LOAD_QUEUE
    BY <1>1, Outside DEF InCore, InPool, IInv, PlacesInv, PlaceTypes, PlacesAgree, Places
  <2>3. \A a \in Nums : Len(ringPosHist[a]) > c - 1 /\ ringPosHist[a][c - 1 + 1] = l
                          <=> WasAt(a, l, c)
    BY <1>1, <2>1 DEF WasAt, IInv, HistoryTypes
  <2>4. WereAt(<<l, c - 1>>) = {a \in Nums : loc[a] # LOAD_QUEUE /\ WasAt(a, l, c)}
    BY <2>2, <2>3 DEF WereAt
  <2>5. \A a \in Nums : loc[a] # LOAD_QUEUE => (WasAt(a, l, c) <=> been[c][l] = a)
    BY <1>1 DEF IInv, PastIsTold
  <2> QED
    BY <2>1, <2>4, <2>5
<1> QED
  BY <1>1, StartsIInv, StepIInv, PTL DEF Spec
=============================================================================
