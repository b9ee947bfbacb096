------------------------------ MODULE XsProofs ------------------------------
(***************************************************************************)
(* A flux solve has current cross sections for every block, whatever the   *)
(* core, the groups and the cycles, for every latticePhysicsFrequency.     *)
(***************************************************************************)
EXTENDS XsProperties, SequenceTheorems, WellFoundedInduction, TLAPS

(* Cross sections are generated whenever latticePhysicsFrequency says so:  *)
(* there is a frequency, genXS is set, from the first cycle, and no burnup *)
(* change is tolerated.                                                    *)
AlwaysGenerated ==
  GenXS /\ Tolerance = 0 /\ SkipCycles = 0 /\ never \notin Frequencies

(* Cross sections of beginning of life are those of fresh fuel.  Fuel that *)
(* is in the blueprints only is covered unless structure of its type, but  *)
(* no fuel, is in the core (_getMissingBlueprintBlocks looks for suffixes).*)
FuelIsLoaded ==
  \A p \in Places, d \in Candidates :
    XsType[Loaded[p]] = XsType[d] =>
      \E q \in Places : Loaded[q] \in Candidates /\ XsType[Loaded[q]] = XsType[d]

Block == [design : Designs, bu : Nat, temp : Nat, group : Nat]

(* The hooks and the interfaces whose turn it is in them; the statepoint   *)
(* and the iteration that the hooks are called with.                       *)
HooksHold ==
  /\ \/ /\ event \in {"BOL", "before", "BOC", "node", "coupled", "EOC"}
        /\ step \in {"groups", "lattice"}
     \/ event = "BOC" /\ step = "shuffle"
     \/ event = "node" /\ step \in {"deplete", "flux"}
     \/ event = "coupled" /\ step = "flux"
     \/ event = "EOL" /\ step = "done"
  /\ event = "BOL" => cycle = 0
  /\ event \in {"BOL", "before", "BOC"} => node = 0
  /\ IF event = "coupled" THEN couplingIsActive /\ iter >= 1 ELSE iter = 0

BlocksHold ==
  /\ freq \in Frequencies /\ couplingIsActive \in BOOLEAN /\ before \in BOOLEAN
  /\ {cycle, node, iter} \subseteq Nat
  /\ core \in [Places -> Block]
  /\ event = "BOL" /\ step = "groups" => core = [p \in Places |-> Fresh(Loaded[p])]
  /\ lib \in {NoLib, isotxs}

MadeIn(entries, times) == \A id \in DOMAIN entries : entries[id].made \in times

(* The library in use: after its update at a node and in the coupled       *)
(* iterations of the node, or all the cycle when it is updated at its      *)
(* beginning.                                                              *)
Updated ==
  \/ freq = BOC /\ event \in {"node", "coupled"}
  \/ freq >= everyNode /\ (step = "flux" \/ event = "coupled")

GroupsMade == step = "lattice" /\ event # "EOC" /\ GroupsDue

InCycle == {cycle} \X Nat \X Nat

(* When the representative blocks, the library of the core and the file    *)
(* were made.                                                              *)
TimesHold ==
  /\ event = "BOL" => lib = NoLib
  /\ GroupsMade => MadeIn(reps, {Now})
  /\ freq = BOL /\ event # "BOL" => MadeIn(isotxs, {<<0, 0, 0>>})
  /\ freq >= BOC /\ lib # NoLib => MadeIn(isotxs, InCycle)
  /\ freq = BOC /\ lib # NoLib => MadeIn(isotxs, {<<cycle, 0, 0>>})
  /\ Updated => MadeIn(isotxs, InCycle)
  /\ Updated /\ freq = BOC => MadeIn(isotxs, {<<cycle, 0, 0>>})
  /\ Updated /\ freq = everyNode => MadeIn(isotxs, {<<cycle, node, 0>>})
  /\ Updated /\ freq > everyNode /\ ~couplingIsActive => MadeIn(isotxs, {<<cycle, node, 0>>})
  /\ freq = firstCoupledIteration /\ event = "coupled" /\ (iter > 1 \/ step = "flux")
       => MadeIn(isotxs, {<<cycle, node, 1>>})
  /\ freq = all /\ event = "coupled" /\ step = "flux" => MadeIn(isotxs, {Now})

CoveredBy(ids) ==
  \A p \in Places : \/ Suffix(core[p]) \in ids
                    \/ Type(core[p]) \in PregeneratedTypes
                    \/ ~ \E q \in Fuelled : Type(core[q]) = Type(core[p])

FreshFuel == {<<XsType[d], 0>> : d \in {c \in Candidates : XsType[c] \notin PregeneratedTypes}}

(* What the representative blocks and the file cover.  Groups that were    *)
(* just made are not in the file yet; at beginning of life they are those  *)
(* of fresh blocks, and blocks stay in them.                               *)
CoverHolds ==
  /\ GroupsMade => CoveredBy(DOMAIN reps)
  /\ Updated /\ ~GroupsMade => CoveredBy(DOMAIN isotxs)
  /\ freq = BOL => /\ \A p \in Places : core[p].group = 0
                   /\ GroupsMade => FreshFuel \subseteq DOMAIN reps
                   /\ event # "BOL" => FreshFuel \subseteq DOMAIN isotxs
-----------------------------------------------------------------------------
(* Groups. *)

LEMMA MinOfNaturals ==
  ASSUME NEW S, S \subseteq Nat, S # {}
  PROVE  Min(S) \in S /\ \A n \in S : Min(S) <= n
<1>1. \E m \in S : \A n \in S : ~ (<<n, m>> \in OpToRel(<, Nat))
  BY NatLessThanWellFounded, WFMin
<1>2. \A m, n \in S : ~ (<<n, m>> \in OpToRel(<, Nat)) => m <= n
  BY DEF OpToRel
<1>3. PICK m \in S : \A n \in S : m <= n
  BY <1>1, <1>2
<1> QED
  BY <1>3 DEF Min

LEMMA Regrouping ==
  ASSUME NEW b \in Block
  PROVE  Regrouped(b) \in Block /\ Regrouped(b).design = b.design
<1> DEFINE bounds == {i - 1 : i \in {j \in DOMAIN BuBounds : b.bu <= BuBounds[j]}}
<1>1. Len(BuBounds) \in Nat /\ DOMAIN BuBounds = 1 .. Len(BuBounds) /\ TempGroups \in Nat
  BY XsAssumption
<1>2. bounds \cup {Len(BuBounds)} \subseteq Nat
  BY <1>1
<1>3. BuGroup(b.bu) \in Nat
  <2> HIDE DEF bounds
  <2>1. Min(bounds \cup {Len(BuBounds)}) \in bounds \cup {Len(BuBounds)}
    BY <1>2, MinOfNaturals
  <2> QED
    BY <1>2, <2>1 DEF BuGroup, bounds
<1> HIDE DEF bounds
<1>4. b.temp \in Nat
  BY DEF Block
<1>5. EnvironmentGroup(b) \in Nat
  BY <1>1, <1>3, <1>4 DEF EnvironmentGroup
<1> QED
  BY <1>5 DEF Regrouped, Block

(* A fresh block is in the first group. *)
LEMMA FreshGroup ==
  ASSUME NEW d \in Designs
  PROVE  Fresh(d) \in Block /\ Regrouped(Fresh(d)).group = 0
<1> DEFINE bounds == {i - 1 : i \in {j \in DOMAIN BuBounds : 0 <= BuBounds[j]}}
<1>1. /\ Len(BuBounds) \in Nat /\ DOMAIN BuBounds = 1 .. Len(BuBounds)
      /\ BuBounds # <<>> => 1 \in DOMAIN BuBounds
      /\ \A j \in DOMAIN BuBounds : BuBounds[j] \in 1..100
  <2>1. PICK bounded : bounded = 1..100
    OBVIOUS
  <2>2. BuBounds \in Seq(bounded)
    BY <2>1, XsAssumption
  <2>3. Len(BuBounds) \in Nat /\ DOMAIN BuBounds = 1 .. Len(BuBounds)
    BY <2>2
  <2>4. \A j \in DOMAIN BuBounds : BuBounds[j] \in bounded
    BY <2>2, <2>3, ElementOfSeq
  <2>5. BuBounds # <<>> => 1 \in DOMAIN BuBounds
    BY <2>2, <2>3
  <2> QED
    BY <2>1, <2>3, <2>4, <2>5
<1>2. bounds \cup {Len(BuBounds)} \subseteq Nat
  BY <1>1
<1>3. 0 \in bounds \cup {Len(BuBounds)}
  <2>1. CASE BuBounds = <<>>
    BY <2>1
  <2>2. CASE BuBounds # <<>>
    <3>1. 1 \in DOMAIN BuBounds
      BY <1>1, <2>2
    <3>2. BuBounds[1] \in 1..100
      BY <1>1, <3>1
    <3>3. 0 <= BuBounds[1]
      BY <3>2
    <3>4. 1 \in {j \in DOMAIN BuBounds : 0 <= BuBounds[j]}
      BY <3>1, <3>3
    <3> QED
      BY <3>4
  <2> QED
    BY <2>1, <2>2
<1>4. BuGroup(0) = 0
  <2> HIDE DEF bounds
  <2>1. Min(bounds \cup {Len(BuBounds)}) \in Nat /\ Min(bounds \cup {Len(BuBounds)}) <= 0
    BY <1>2, <1>3, MinOfNaturals
  <2> QED
    BY <2>1 DEF BuGroup, bounds
<1>5. EnvironmentGroup(Fresh(d)) = 0
  BY <1>1, <1>4, XsAssumption DEF EnvironmentGroup, Fresh
<1> QED
  BY <1>5 DEF Regrouped, Fresh, Block

(* The representative blocks are of now, and every block of the core has   *)
(* one in its group, unless no fuel is of its type or its cross sections   *)
(* are given.                                                              *)
LEMMA GroupsCreated ==
  ASSUME core \in [Places -> Block], CreateRepresentativeBlocks
  PROVE  /\ core' \in [Places -> Block]
         /\ \A p \in Places : core'[p].design = core[p].design
         /\ MadeIn(reps', {Now})
         /\ CoveredBy(DOMAIN reps)'
<1> DEFINE grouped     == [p \in Places |-> Regrouped(core[p])]
           inCore      == {grouped[p] : p \in Places}
           collected   == inCore \cup MissingBlueprintBlocks(SuffixesOf(inCore))
           ids         == {id \in SuffixesOf(collected) : id[1] \notin PregeneratedTypes}
           represented == ids \cap SuffixesOf({b \in collected : IsCandidate(b)})
           others(type) == {id \in represented : id[1] = type}
           moved(p) == Suffix(grouped[p]) \in ids \ represented /\ others(Type(grouped[p])) # {}
<1>1. /\ core' = [p \in Places |->
           IF moved(p)
           THEN [grouped[p] EXCEPT !.group = AlternateEnvGroup(Type(grouped[p]), represented)]
           ELSE grouped[p]]
      /\ DOMAIN reps' = represented
      /\ \A id \in represented : reps'[id].made = Now
  BY DEF CreateRepresentativeBlocks
<1>2. \A p \in Places : grouped[p] \in Block /\ grouped[p].design = core[p].design
  BY Regrouping
<1>3. collected \subseteq Block
  <2>1. ASSUME NEW b \in MissingBlueprintBlocks(SuffixesOf(inCore)) PROVE b \in Block
    <3>1. PICK d \in Designs : b = Regrouped(Fresh(d))
      BY <2>1 DEF MissingBlueprintBlocks
    <3> QED
      BY <3>1, FreshGroup, Regrouping
  <2> QED
    BY <1>2, <2>1
<1>4. \A id \in represented : id = <<id[1], id[2]>> /\ id[2] \in Nat
  <2> SUFFICES ASSUME NEW id \in represented PROVE id = <<id[1], id[2]>> /\ id[2] \in Nat
    OBVIOUS
  <2>1. PICK b \in collected : id = <<Type(b), b.group>>
    BY DEF SuffixesOf, Suffix
  <2> QED
    BY <1>3, <2>1 DEF Block
<1>5. \A p \in Places : Suffix(grouped[p]) \in SuffixesOf(collected)
  BY DEF SuffixesOf
<1>6. \A p \in Places : IsCandidate(grouped[p]) /\ Type(grouped[p]) \notin PregeneratedTypes
                          => Suffix(grouped[p]) \in represented
  BY <1>5 DEF SuffixesOf, Suffix
<1> HIDE DEF grouped, inCore, collected, ids, represented
<1>7. ASSUME NEW type, others(type) # {}
      PROVE  /\ AlternateEnvGroup(type, represented) \in Nat
             /\ <<type, AlternateEnvGroup(type, represented)>> \in represented
  <2> DEFINE groups == {id[2] : id \in {i \in represented : i[1] = type}}
  <2>1. groups \subseteq Nat /\ groups # {}
    BY <1>4, <1>7
  <2>2. Min(groups) \in groups
    <3> HIDE DEF groups
    <3> QED
      BY <2>1, MinOfNaturals
  <2>3. PICK id \in represented : id[1] = type /\ id[2] = Min(groups)
    BY <2>2
  <2>4. id = <<type, Min(groups)>>
    BY <1>4, <2>3
  <2> QED
    BY <1>4, <2>3, <2>4 DEF AlternateEnvGroup
<1>8. \A p \in Places : /\ core'[p] \in Block
                        /\ core'[p].design = core[p].design
                        /\ ~moved(p) => core'[p] = grouped[p]
                        /\ moved(p) => core'[p].group = AlternateEnvGroup(Type(grouped[p]), represented)
  <2> SUFFICES ASSUME NEW p \in Places
               PROVE  /\ core'[p] \in Block
                      /\ core'[p].design = core[p].design
                      /\ ~moved(p) => core'[p] = grouped[p]
                      /\ moved(p) => core'[p].group = AlternateEnvGroup(Type(grouped[p]), represented)
    OBVIOUS
  <2>1. CASE moved(p)
    <3>1. PICK g \in Nat : g = AlternateEnvGroup(Type(grouped[p]), represented)
      BY <1>7, <2>1
    <3>2. core'[p] = [grouped[p] EXCEPT !.group = g]
      BY <1>1, <2>1, <3>1
    <3>3. grouped[p] \in Block /\ grouped[p].design = core[p].design
      BY <1>2
    <3> QED
      BY <2>1, <3>1, <3>2, <3>3 DEF Block
  <2>2. CASE ~moved(p)
    BY <1>1, <1>2, <2>2
  <2> QED
    BY <2>1, <2>2
<1>9. \A p \in Places : Type(core'[p]) = Type(grouped[p])
  BY <1>2, <1>8 DEF Type
<1>10. ASSUME NEW p \in Places, Type(core'[p]) \notin PregeneratedTypes,
              NEW q \in Places, IsCandidate(core'[q]), Type(core'[q]) = Type(core'[p])
       PROVE  Suffix(core'[p]) \in represented
  <2>1. IsCandidate(grouped[q])
    BY <1>2, <1>8, <1>10 DEF IsCandidate
  <2>2. Suffix(grouped[q]) \in represented
    BY <1>6, <1>9, <1>10, <2>1
  <2>3. others(Type(grouped[p])) # {}
    BY <1>9, <1>10, <2>2 DEF Suffix
  <2>4. CASE moved(p)
    <3>1. Suffix(core'[p]) = <<Type(grouped[p]), AlternateEnvGroup(Type(grouped[p]), represented)>>
      BY <1>8, <1>9, <2>4 DEF Suffix
    <3> QED
      BY <1>7, <2>3, <3>1
  <2>5. CASE ~moved(p)
    <3>1. Suffix(grouped[p])[1] = Type(grouped[p])
      BY DEF Suffix
    <3>2. Suffix(grouped[p]) \in ids
      BY <1>5, <1>9, <1>10, <3>1 DEF ids
    <3> QED
      BY <1>8, <2>3, <2>5, <3>2
  <2> QED
    BY <2>4, <2>5
<1>11. CoveredBy(DOMAIN reps)'
  BY <1>1, <1>10 DEF CoveredBy, Fuelled
<1>12. core' \in [Places -> Block]
  BY <1>1, <1>8
<1> QED
  BY <1>1, <1>8, <1>11, <1>12 DEF MadeIn

(* Fuel in its first group is covered at beginning of life.                *)
LEMMA FreshGroupsCreated ==
  ASSUME core = [p \in Places |-> Fresh(Loaded[p])], FuelIsLoaded, CreateRepresentativeBlocks
  PROVE  /\ \A p \in Places : core'[p].group = 0
         /\ FreshFuel \subseteq DOMAIN reps'
<1> DEFINE grouped     == [p \in Places |-> Regrouped(core[p])]
           inCore      == {grouped[p] : p \in Places}
           collected   == inCore \cup MissingBlueprintBlocks(SuffixesOf(inCore))
           ids         == {id \in SuffixesOf(collected) : id[1] \notin PregeneratedTypes}
           represented == ids \cap SuffixesOf({b \in collected : IsCandidate(b)})
           others(type) == {id \in represented : id[1] = type}
           moved(p) == Suffix(grouped[p]) \in ids \ represented /\ others(Type(grouped[p])) # {}
<1>1. /\ core' = [p \in Places |->
           IF moved(p)
           THEN [grouped[p] EXCEPT !.group = AlternateEnvGroup(Type(grouped[p]), represented)]
           ELSE grouped[p]]
      /\ DOMAIN reps' = represented
  BY DEF CreateRepresentativeBlocks
<1>2. \A d \in Designs : /\ Regrouped(Fresh(d)) \in Block
                         /\ Regrouped(Fresh(d)).design = d /\ Regrouped(Fresh(d)).group = 0
  BY FreshGroup, Regrouping DEF Fresh
<1>3. \A p \in Places : Loaded[p] \in Designs /\ grouped[p] = Regrouped(Fresh(Loaded[p]))
  BY XsAssumption
<1>4. \A b \in collected : b.group = 0
  BY <1>2, <1>3 DEF MissingBlueprintBlocks
<1>5. ASSUME NEW d \in Candidates, XsType[d] \notin PregeneratedTypes
      PROVE  <<XsType[d], 0>> \in represented
  <2>1. d \in Designs
    BY XsAssumption
  <2>2. \E b \in collected : IsCandidate(b) /\ Suffix(b) = <<XsType[d], 0>>
    <3>1. CASE <<XsType[d], 0>> \in SuffixesOf(inCore)
      <4>1. PICK p \in Places : Suffix(grouped[p]) = <<XsType[d], 0>>
        BY <3>1 DEF SuffixesOf
      <4>2. XsType[Loaded[p]] = XsType[d]
        BY <1>2, <1>3, <4>1 DEF Suffix, Type
      <4>3. PICK q \in Places : Loaded[q] \in Candidates /\ XsType[Loaded[q]] = XsType[d]
        BY <4>2 DEF FuelIsLoaded
      <4>4. IsCandidate(grouped[q]) /\ Suffix(grouped[q]) = <<XsType[d], 0>>
        BY <1>2, <1>3, <4>3 DEF IsCandidate, Suffix, Type
      <4> QED
        BY <4>4
    <3>2. CASE <<XsType[d], 0>> \notin SuffixesOf(inCore)
      <4>1. IsCandidate(Regrouped(Fresh(d))) /\ Suffix(Regrouped(Fresh(d))) = <<XsType[d], 0>>
        BY <1>2, <2>1 DEF IsCandidate, Suffix, Type
      <4>2. Regrouped(Fresh(d)) \in MissingBlueprintBlocks(SuffixesOf(inCore))
        BY <2>1, <3>2, <4>1 DEF MissingBlueprintBlocks
      <4> QED
        BY <4>1, <4>2
    <3> QED
      BY <3>1, <3>2
  <2> HIDE DEF collected
  <2> QED
    BY <1>5, <2>2 DEF SuffixesOf
<1>6. FreshFuel \subseteq represented
  BY <1>5 DEF FreshFuel
<1>7. ASSUME NEW p \in Places PROVE core'[p].group = 0
  <2>1. grouped[p] \in Block /\ grouped[p].group = 0
    BY <1>2, <1>3
  <2>2. CASE moved(p)
    <3>1. PICK id \in represented : id[1] = Type(grouped[p])
      BY <2>2
    <3>2. id = <<Type(grouped[p]), 0>>
      <4>1. PICK b \in collected : id = Suffix(b)
        BY <3>1 DEF SuffixesOf
      <4> QED
        BY <1>4, <3>1, <4>1 DEF Suffix
    <3>3. Suffix(grouped[p]) = id
      BY <2>1, <3>2 DEF Suffix
    <3> QED
      BY <2>2, <3>1, <3>3
  <2>3. CASE ~moved(p)
    <3> HIDE DEF moved
    <3> QED
      BY <1>1, <2>1, <2>3
  <2> QED
    BY <2>2, <2>3
<1> QED
  BY <1>1, <1>6, <1>7
-----------------------------------------------------------------------------
(* Steps. *)

(* An update leaves the library with every group that was made: it is read *)
(* from the file, which is generated anew if no library is in use.         *)
LEMMA LibraryUpdated ==
  ASSUME AlwaysGenerated, cycle \in Nat,
         NEW current, current \in {NoLib, isotxs}, UpdateXSLibrary(current)
  PROVE  /\ lib' = isotxs'
         /\ DOMAIN reps \subseteq DOMAIN isotxs'
         /\ \/ isotxs' = reps
            \/ isotxs' = isotxs /\ current = isotxs /\ current # NoLib
<1>1. CASE NewLibraryShouldBeCreated(current)
  BY <1>1 DEF UpdateXSLibrary
<1>2. CASE ~NewLibraryShouldBeCreated(current) /\ current # NoLib
  BY <1>2 DEF UpdateXSLibrary, NewLibraryShouldBeCreated
<1>3. CASE ~NewLibraryShouldBeCreated(current) /\ current = NoLib
  BY <1>3 DEF UpdateXSLibrary, NewLibraryShouldBeCreated, IdsChangedBurnup, AlwaysGenerated
<1> QED
  BY <1>1, <1>2, <1>3

LEMMA FrequencyRange ==
  ASSUME AlwaysGenerated, BlocksHold
  PROVE  /\ freq \in {BOL, BOC, everyNode, firstCoupledIteration, all}
         /\ cycle \in Nat /\ node \in Nat /\ iter \in Nat
BY XsAssumption DEF BlocksHold, AlwaysGenerated, never, BOL, BOC, everyNode, firstCoupledIteration, all

LEMMA InitHolds == Init => HooksHold /\ BlocksHold /\ TimesHold
<1> SUFFICES ASSUME Init PROVE HooksHold /\ BlocksHold /\ TimesHold
  OBVIOUS
<1>1. core \in [Places -> Block]
  BY FreshGroup, XsAssumption DEF Init
<1>2. HooksHold /\ BlocksHold
  BY <1>1 DEF Init, HooksHold, BlocksHold
<1>3. TimesHold
  BY DEF Init, TimesHold, GroupsMade, Updated
<1> QED
  BY <1>2, <1>3

LEMMA StepHooks == HooksHold /\ BlocksHold /\ [Next]_vars => HooksHold'
<1> SUFFICES ASSUME HooksHold, BlocksHold, [Next]_vars PROVE HooksHold'
  OBVIOUS
<1> USE DEF HooksHold
<1>0. cycle \in Nat /\ node \in Nat /\ iter \in Nat
  BY DEF BlocksHold
<1>1. CASE Groups
  BY <1>1 DEF Groups, settings
<1>2. CASE Lattice
  BY <1>2 DEF Lattice, AfterLattice, settings
<1>3. CASE Shuffle
  BY <1>3 DEF Shuffle, settings
<1>4. CASE Deplete
  BY <1>4 DEF Deplete, settings
<1>5. CASE Solve
  <2>1. CASE event' = "coupled" /\ couplingIsActive /\ iter' = iter + 1 /\ step' = "groups"
    BY <1>0, <1>5, <2>1 DEF Solve, settings
  <2>2. CASE NextNode
    BY <1>5, <2>2 DEF Solve, NextNode, settings
  <2> QED
    BY <1>5, <2>1, <2>2 DEF Solve, CouplesNow
<1>6. CASE GroupsEOC
  BY <1>6 DEF GroupsEOC, settings
<1>7. CASE LatticeEOC
  BY <1>7 DEF LatticeEOC, settings
<1>8. CASE UNCHANGED vars
  BY <1>8 DEF vars, settings
<1> QED
  BY <1>1, <1>2, <1>3, <1>4, <1>5, <1>6, <1>7, <1>8 DEF Next, Done

(* Fuel handling alone changes the designs in the core; depletion and the  *)
(* solvers leave the groups alone.                                         *)
LEMMA SameBlocks ==
  ASSUME BlocksHold, Deplete \/ Solve
  PROVE  /\ core' \in [Places -> Block]
         /\ \A p \in Places : core'[p].design = core[p].design /\ core'[p].group = core[p].group
<1>1. \A p \in Places : core[p] \in Block /\ BurnStep \in Nat /\ TempGroups - 1 \in Nat
  BY XsAssumption DEF BlocksHold
<1>2. CASE Deplete
  <2>1. PICK burnt \in SUBSET Fuelled : core' = [p \in Places |->
          IF p \in burnt THEN [core[p] EXCEPT !.bu = @ + BurnStep] ELSE core[p]]
    BY <1>2 DEF Deplete
  <2>2. \A p \in Places : /\ core'[p] \in Block
                          /\ core'[p].design = core[p].design /\ core'[p].group = core[p].group
    BY <1>1, <2>1 DEF Block
  <2> QED
    BY <2>1, <2>2
<1>3. CASE Solve
  <2>1. PICK hot \in SUBSET Fuelled : core' = [p \in Places |-> IF p \in Fuelled
         THEN [core[p] EXCEPT !.temp = IF p \in hot THEN TempGroups - 1 ELSE 0] ELSE core[p]]
    BY <1>3 DEF Solve
  <2>2. \A p \in Places : /\ core'[p] \in Block
                          /\ core'[p].design = core[p].design /\ core'[p].group = core[p].group
    BY <1>1, <2>1 DEF Block
  <2> QED
    BY <2>1, <2>2
<1> QED
  BY <1>2, <1>3

LEMMA StepBlocks == AlwaysGenerated /\ HooksHold /\ BlocksHold /\ [Next]_vars => BlocksHold'
<1> SUFFICES ASSUME AlwaysGenerated, HooksHold, BlocksHold, [Next]_vars PROVE BlocksHold'
  OBVIOUS
<1>0. cycle \in Nat /\ node \in Nat /\ iter \in Nat
  BY DEF BlocksHold
<1>1. CASE Groups
  <2>1. core' \in [Places -> Block]
    BY <1>1, GroupsCreated DEF Groups, BlocksHold
  <2> QED
    BY <1>1, <2>1 DEF Groups, BlocksHold, settings
<1>2. CASE Lattice
  <2>1. lib' \in {NoLib, isotxs'}
    <3>1. CASE LatticeDue
      <4>1. PICK current : current \in {NoLib, isotxs} /\ UpdateXSLibrary(current)
        BY <1>2, <3>1 DEF Lattice, BlocksHold
      <4> QED
        BY <1>0, <4>1, LibraryUpdated
    <3>2. CASE ~LatticeDue
      BY <1>2, <3>2 DEF Lattice, BlocksHold
    <3> QED
      BY <3>1, <3>2
  <2>2. event' # "BOL"
    BY <1>2 DEF Lattice, AfterLattice, HooksHold
  <2> QED
    BY <1>2, <2>1, <2>2 DEF Lattice, BlocksHold, settings
<1>3. CASE Shuffle
  <2>1. core' \in [Places -> Block]
    BY <1>3, FreshGroup DEF Shuffle, BlocksHold
  <2> QED
    BY <1>3, <2>1 DEF Shuffle, BlocksHold, HooksHold, settings
<1>4. CASE Deplete
  BY <1>4, SameBlocks DEF Deplete, BlocksHold, HooksHold, settings
<1>5. CASE Solve
  <2>1. core' \in [Places -> Block]
    BY <1>5, SameBlocks
  <2>2. event' # "BOL" /\ {cycle', node', iter'} \subseteq Nat
    BY <1>0, <1>5 DEF Solve, NextNode
  <2> QED
    BY <1>5, <2>1, <2>2 DEF Solve, BlocksHold, settings
<1>6. CASE GroupsEOC
  BY <1>6 DEF GroupsEOC, BlocksHold, settings
<1>7. CASE LatticeEOC
  <2>1. event' # "BOL" /\ {cycle', node', iter'} \subseteq Nat
    BY <1>0, <1>7 DEF LatticeEOC
  <2> QED
    BY <1>7, <2>1 DEF LatticeEOC, BlocksHold, settings
<1>8. CASE UNCHANGED vars
  BY <1>8 DEF vars, settings, BlocksHold
<1> QED
  BY <1>1, <1>2, <1>3, <1>4, <1>5, <1>6, <1>7, <1>8 DEF Next, Done

LEMMA StepTimes ==
  AlwaysGenerated /\ SkipTight = {} /\ HooksHold /\ BlocksHold /\ TimesHold /\ [Next]_vars
    => TimesHold'
<1> SUFFICES ASSUME AlwaysGenerated, SkipTight = {}, HooksHold, BlocksHold, TimesHold, [Next]_vars
             PROVE  TimesHold'
  OBVIOUS
<1> USE DEF TimesHold
<1>0. /\ freq \in {BOL, BOC, everyNode, firstCoupledIteration, all}
      /\ cycle \in Nat /\ node \in Nat /\ iter \in Nat /\ couplingIsActive \in BOOLEAN
  BY FrequencyRange DEF BlocksHold
<1> DEFINE order == BOL = 1 /\ BOC = 2 /\ everyNode = 3 /\ firstCoupledIteration = 4 /\ all = 5
<1>00. order
  BY DEF BOL, BOC, everyNode, firstCoupledIteration, all
<1>1. CASE Groups
  <2>1. GroupsMade' => MadeIn(reps', {Now'})
    BY <1>1, GroupsCreated DEF Groups, GroupsMade, GroupsDue, BlocksHold, Now, settings
  <2> QED
    BY <1>1, <2>1 DEF Groups, Updated, InCycle, settings
<1>2. CASE Lattice
  <2>1. ~GroupsMade'
    BY <1>2 DEF Lattice, AfterLattice, HooksHold, GroupsMade
  <2>2. UNCHANGED <<settings, cycle, node, iter, reps>> /\ step = "lattice" /\ event # "EOC"
    BY <1>2 DEF Lattice
  <2>3. CASE ~LatticeDue
    <3>1. ~GroupsDue
      BY <1>0, <1>00, <2>3 DEF GroupsDue, LatticeDue
    <3>2. UNCHANGED <<lib, isotxs>>
      BY <1>2, <2>3 DEF Lattice
    <3>3. event' = AfterLattice[1] /\ step' = AfterLattice[2]
      BY <1>2 DEF Lattice
    <3> QED
      BY <1>0, <1>00, <2>1, <2>2, <2>3, <3>2, <3>3
      DEF LatticeDue, AfterLattice, HooksHold, Updated, settings, InCycle
  <2>4. CASE LatticeDue
    <3>1. PICK current : /\ current = IF Kept THEN lib ELSE NoLib
                         /\ UpdateXSLibrary(current)
      BY <1>2, <2>4 DEF Lattice
    <3>2. /\ lib' = isotxs'
          /\ \/ isotxs' = reps
             \/ isotxs' = isotxs /\ Kept /\ lib = isotxs /\ lib # NoLib
      BY <1>0, <3>1, LibraryUpdated DEF BlocksHold
    <3>3. MadeIn(reps, {Now})
      BY <1>0, <1>00, <2>2, <2>4 DEF GroupsMade, GroupsDue, LatticeDue
    <3>4. event' = AfterLattice[1] /\ step' = AfterLattice[2]
      BY <1>2 DEF Lattice
    <3>5. CASE isotxs' = reps
      <4>1. MadeIn(isotxs', {<<cycle, node, iter>>}) /\ MadeIn(isotxs', InCycle)
        BY <1>0, <3>3, <3>5 DEF MadeIn, Now, InCycle
      <4>2. UNCHANGED <<freq, couplingIsActive, cycle, node, iter, InCycle>>
        BY <2>2 DEF settings, InCycle
      <4>3. CASE event = "BOL" /\ freq = BOL
        BY <1>0, <1>00, <2>1, <3>2, <3>4, <4>1, <4>2, <4>3 DEF AfterLattice, HooksHold, Updated
      <4>4. CASE event \in {"before", "BOC"} /\ freq = BOC
        BY <1>0, <1>00, <2>1, <3>2, <3>4, <4>1, <4>2, <4>4 DEF AfterLattice, HooksHold, Updated
      <4>5. CASE event = "node" /\ freq >= everyNode
        BY <1>0, <1>00, <2>1, <3>2, <3>4, <4>1, <4>2, <4>5 DEF AfterLattice, HooksHold, Updated
      <4>6. CASE /\ event = "coupled"
                 /\ freq >= (IF iter = 1 THEN firstCoupledIteration ELSE all)
        BY <1>0, <1>00, <2>1, <3>2, <3>4, <4>1, <4>2, <4>6
        DEF AfterLattice, HooksHold, Updated, Now
      <4> QED
        BY <2>4, <4>3, <4>4, <4>5, <4>6 DEF LatticeDue
    <3>6. CASE isotxs' = isotxs /\ Kept /\ lib = isotxs /\ lib # NoLib
      <4>1. event # "BOL"
        BY <3>6
      <4> QED
        BY <1>0, <1>00, <2>1, <2>2, <2>4, <3>2, <3>4, <3>6, <4>1
        DEF LatticeDue, Kept, AfterLattice, HooksHold, Updated, settings, Now, InCycle
    <3> QED
      BY <3>2, <3>5, <3>6
  <2> QED
    BY <2>3, <2>4
<1>3. CASE Shuffle
  BY <1>3 DEF Shuffle, GroupsMade, Updated, HooksHold, InCycle, settings
<1>4. CASE Deplete
  BY <1>4 DEF Deplete, GroupsMade, Updated, HooksHold, InCycle, settings
<1>5. CASE Solve
  <2>1. ~GroupsMade' /\ UNCHANGED <<settings, cycle, lib, isotxs>> /\ step = "flux"
    BY <1>5 DEF Solve, NextNode, GroupsMade
  <2>2. CASE event' = "coupled" /\ couplingIsActive /\ iter' = iter + 1 /\ step' = "groups" /\ node' = node
    BY <1>0, <1>00, <2>1, <2>2 DEF HooksHold, Updated, InCycle, settings
  <2>3. CASE NextNode
    BY <1>0, <1>00, <2>1, <2>3 DEF NextNode, HooksHold, Updated, InCycle, settings
  <2> QED
    BY <1>5, <2>2, <2>3 DEF Solve, CouplesNow
<1>6. CASE GroupsEOC
  BY <1>6 DEF GroupsEOC, GroupsMade, Updated, HooksHold, InCycle, settings
<1>7. CASE LatticeEOC
  BY <1>7 DEF LatticeEOC, GroupsMade, Updated, settings
<1>8. CASE UNCHANGED vars
  BY <1>8 DEF vars, settings, GroupsMade, GroupsDue, Updated, Now, InCycle
<1> QED
  BY <1>1, <1>2, <1>3, <1>4, <1>5, <1>6, <1>7, <1>8 DEF Next, Done

LEMMA InitCovers == Init => CoverHolds
<1> SUFFICES ASSUME Init PROVE CoverHolds
  OBVIOUS
<1>1. ~Updated /\ ~GroupsMade /\ event = "BOL" /\ \A p \in Places : core[p].group = 0
  BY DEF Init, Updated, GroupsMade, Fresh
<1> QED
  BY <1>1 DEF CoverHolds

(* Covered blocks stay covered where no design and no group changes.       *)
LEMMA StillCovered ==
  ASSUME \A p \in Places : core'[p].design = core[p].design /\ core'[p].group = core[p].group,
         NEW ids, CoveredBy(ids)
  PROVE  \A p \in Places : \/ Suffix(core'[p]) \in ids
                           \/ Type(core'[p]) \in PregeneratedTypes
                           \/ ~ \E q \in Places : /\ IsCandidate(core'[q])
                                                  /\ Type(core'[q]) = Type(core'[p])
BY DEF CoveredBy, Fuelled, Suffix, Type, IsCandidate

LEMMA StepCovers ==
  AlwaysGenerated /\ (BOL \in Frequencies => FuelIsLoaded)
    /\ HooksHold /\ BlocksHold /\ CoverHolds /\ [Next]_vars
    => CoverHolds'
<1> SUFFICES ASSUME AlwaysGenerated, BOL \in Frequencies => FuelIsLoaded,
                    HooksHold, BlocksHold, CoverHolds, [Next]_vars
             PROVE  CoverHolds'
  OBVIOUS
<1> USE DEF CoverHolds
<1>0. /\ freq \in {BOL, BOC, everyNode, firstCoupledIteration, all}
      /\ cycle \in Nat /\ node \in Nat /\ iter \in Nat /\ couplingIsActive \in BOOLEAN
      /\ freq \in Frequencies
  BY FrequencyRange DEF BlocksHold
<1> DEFINE order == BOL = 1 /\ BOC = 2 /\ everyNode = 3 /\ firstCoupledIteration = 4 /\ all = 5
<1>00. order
  BY DEF BOL, BOC, everyNode, firstCoupledIteration, all
<1>1. CASE Groups
  <2>1. UNCHANGED <<settings, lib, isotxs, event, cycle, node, iter>> /\ step = "groups" /\ step' = "lattice"
        /\ event # "EOC"
    BY <1>1 DEF Groups
  <2>2. CASE GroupsDue
    <3>1. GroupsMade' /\ CreateRepresentativeBlocks
      BY <1>1, <2>1, <2>2 DEF Groups, GroupsMade, GroupsDue, settings
    <3>2. CoveredBy(DOMAIN reps)'
      BY <3>1, GroupsCreated DEF BlocksHold
    <3>3. freq = BOL => event = "BOL"
      BY <1>0, <1>00, <2>2 DEF GroupsDue
    <3>4. freq = BOL => /\ \A p \in Places : core'[p].group = 0
                        /\ FreshFuel \subseteq DOMAIN reps'
      BY <1>0, <2>1, <3>1, <3>3, FreshGroupsCreated DEF BlocksHold
    <3> QED
      BY <2>1, <3>1, <3>2, <3>3, <3>4 DEF settings
  <2>3. CASE ~GroupsDue
    <3>1. ~GroupsMade' /\ ~GroupsMade /\ UNCHANGED <<core, reps>>
      BY <1>1, <2>1, <2>3 DEF Groups, GroupsMade, GroupsDue, settings
    <3>2. Updated' => Updated
      BY <2>1 DEF Updated, settings
    <3>3. CoveredBy(DOMAIN isotxs) => CoveredBy(DOMAIN isotxs)'
      BY <2>1, <3>1 DEF CoveredBy, Fuelled
    <3> QED
      BY <2>1, <3>1, <3>2, <3>3 DEF settings
  <2> QED
    BY <2>2, <2>3
<1>2. CASE Lattice
  <2>1. ~GroupsMade'
    BY <1>2 DEF Lattice, AfterLattice, HooksHold, GroupsMade
  <2>2. UNCHANGED <<settings, core, cycle, node, iter, reps>> /\ step = "lattice" /\ event # "EOC"
        /\ event' = AfterLattice[1] /\ step' = AfterLattice[2]
    BY <1>2 DEF Lattice
  <2>3. \A ids : CoveredBy(ids)' <=> CoveredBy(ids)
    BY <2>2 DEF CoveredBy, Fuelled
  <2>4. CASE ~LatticeDue
    <3>1. ~GroupsMade /\ UNCHANGED <<lib, isotxs>>
      BY <1>0, <1>00, <1>2, <2>4 DEF GroupsDue, LatticeDue, GroupsMade, Lattice
    <3>2. Updated' => Updated
      BY <1>0, <1>00, <2>2, <2>4 DEF Updated, LatticeDue, AfterLattice, HooksHold, settings
    <3>3. CoveredBy(DOMAIN isotxs) => CoveredBy(DOMAIN isotxs)'
      BY <2>2, <3>1 DEF CoveredBy, Fuelled
    <3>4. freq = BOL => event # "BOL"
      BY <2>4 DEF LatticeDue
    <3> QED
      BY <2>1, <2>2, <3>1, <3>2, <3>3, <3>4 DEF settings
  <2>5. CASE LatticeDue
    <3>1. PICK current : current \in {NoLib, isotxs} /\ UpdateXSLibrary(current)
      BY <1>2, <2>5 DEF Lattice, BlocksHold
    <3>2. DOMAIN reps \subseteq DOMAIN isotxs'
      BY <1>0, <3>1, LibraryUpdated
    <3>3. GroupsMade
      BY <1>0, <1>00, <2>2, <2>5 DEF GroupsMade, GroupsDue, LatticeDue
    <3>4. CoveredBy(DOMAIN isotxs)'
      BY <2>2, <3>2, <3>3 DEF CoveredBy, Fuelled
    <3> QED
      BY <2>1, <2>2, <3>2, <3>3, <3>4 DEF settings
  <2> QED
    BY <2>4, <2>5
<1>3. CASE Shuffle
  <2>1. ~GroupsMade' /\ ~Updated'
    BY <1>0, <1>00, <1>3 DEF Shuffle, GroupsMade, Updated, HooksHold, settings
  <2>2. \A p \in Places : core[p].group = 0 => core'[p].group = 0
    BY <1>3 DEF Shuffle, Fresh, BlocksHold
  <2> QED
    BY <1>3, <2>1, <2>2 DEF Shuffle, HooksHold, settings
<1>4. CASE Deplete
  <2>1. ~GroupsMade' /\ UNCHANGED <<settings, isotxs, event>> /\ step = "deplete" /\ step' = "groups"
    BY <1>4 DEF Deplete, GroupsMade
  <2>2. (Updated' => Updated) /\ ~GroupsMade
    BY <2>1 DEF Updated, GroupsMade, settings
  <2>3. \A p \in Places : core'[p].design = core[p].design /\ core'[p].group = core[p].group
    BY <1>4, SameBlocks
  <2>4. CoveredBy(DOMAIN isotxs) => CoveredBy(DOMAIN isotxs)'
    BY <2>1, <2>3, StillCovered DEF CoveredBy, Fuelled
  <2> QED
    BY <2>1, <2>2, <2>3, <2>4 DEF settings
<1>5. CASE Solve
  <2>1. ~GroupsMade' /\ UNCHANGED <<settings, isotxs>> /\ step = "flux" /\ event' # "BOL"
    BY <1>5 DEF Solve, NextNode, GroupsMade
  <2>2. (Updated' => Updated) /\ ~GroupsMade /\ event # "BOL"
    BY <1>5, <2>1 DEF Solve, NextNode, Updated, GroupsMade, HooksHold, settings
  <2>3. \A p \in Places : core'[p].design = core[p].design /\ core'[p].group = core[p].group
    BY <1>5, SameBlocks
  <2>4. CoveredBy(DOMAIN isotxs) => CoveredBy(DOMAIN isotxs)'
    BY <2>1, <2>3, StillCovered DEF CoveredBy, Fuelled
  <2> QED
    BY <2>1, <2>2, <2>3, <2>4 DEF settings
<1>6. CASE GroupsEOC
  BY <1>0, <1>00, <1>6 DEF GroupsEOC, GroupsMade, Updated, HooksHold, settings
<1>7. CASE LatticeEOC
  BY <1>0, <1>00, <1>7 DEF LatticeEOC, GroupsMade, Updated, HooksHold, settings
<1>8. CASE UNCHANGED vars
  <2>1. GroupsMade' = GroupsMade /\ Updated' = Updated /\ UNCHANGED <<core, reps, isotxs, freq, event>>
    BY <1>8 DEF vars, settings, GroupsMade, GroupsDue, Updated
  <2>2. \A ids : CoveredBy(ids)' <=> CoveredBy(ids)
    BY <2>1 DEF CoveredBy, Fuelled
  <2>3. CoveredBy(DOMAIN isotxs)' <=> CoveredBy(DOMAIN isotxs)
    BY <2>1 DEF CoveredBy, Fuelled
  <2>4. CoveredBy(DOMAIN reps)' <=> CoveredBy(DOMAIN reps)
    BY <2>1 DEF CoveredBy, Fuelled
  <2> QED
    BY <2>1, <2>3, <2>4
<1> QED
  BY <1>1, <1>2, <1>3, <1>4, <1>5, <1>6, <1>7, <1>8 DEF Next, Done
-----------------------------------------------------------------------------
(* The library in use is the file that was generated last. *)

LEMMA InUse == BlocksHold => CoreLib = isotxs
BY DEF BlocksHold, CoreLib

(* At every flux solve each block of the core has cross sections in the    *)
(* library (EveryBlockIsCovered), for every core, blueprints and groups,   *)
(* whatever burns, heats up and is replaced by what.                       *)
THEOREM BlocksAreCovered ==
  ASSUME AlwaysGenerated, BOL \in Frequencies => FuelIsLoaded
  PROVE  Spec => []EveryBlockIsCovered
<1> DEFINE Inv == HooksHold /\ BlocksHold /\ CoverHolds
<1>1. Init => Inv
  BY InitHolds, InitCovers
<1>2. Inv /\ [Next]_vars => Inv'
  BY StepHooks, StepBlocks, StepCovers
<1>3. ASSUME Inv PROVE EveryBlockIsCovered
  <2> SUFFICES ASSUME step = "flux" PROVE EveryBlockIsCovered
    BY DEF EveryBlockIsCovered
  <2>1. freq \in {BOL, BOC, everyNode, firstCoupledIteration, all} /\ CoreLib = isotxs
    BY <1>3, FrequencyRange, InUse
  <2>2. ~GroupsMade /\ event \in {"node", "coupled"}
    BY <1>3 DEF GroupsMade, HooksHold
  <2>3. CASE freq = BOL
    <3>1. (\A p \in Places : core[p].group = 0) /\ FreshFuel \subseteq DOMAIN isotxs
      BY <1>3, <2>2, <2>3 DEF CoverHolds
    <3>2. ASSUME NEW p \in Places, Type(core[p]) \notin PregeneratedTypes,
                 NEW q \in Fuelled, Type(core[q]) = Type(core[p])
          PROVE  Suffix(core[p]) \in DOMAIN isotxs
      BY <3>1, <3>2 DEF Suffix, FreshFuel, Fuelled, IsCandidate, Type
    <3> QED
      BY <2>1, <3>2 DEF EveryBlockIsCovered
  <2>4. CASE freq # BOL
    <3>1. Updated
      BY <2>1, <2>2, <2>4 DEF Updated, BOL, BOC, everyNode, firstCoupledIteration, all
    <3>2. CoveredBy(DOMAIN isotxs)
      BY <1>3, <2>2, <3>1 DEF CoverHolds
    <3> QED
      BY <2>1, <3>2 DEF CoveredBy, EveryBlockIsCovered
  <2> QED
    BY <2>3, <2>4
<1> QED
  BY <1>1, <1>2, <1>3, PTL DEF Spec

(* The cross sections of a flux solve are as recent as                     *)
(* latticePhysicsFrequency says (LibraryIsFresh), in cycles that do not    *)
(* skip coupled iterations.                                                *)
THEOREM LibrariesAreFresh ==
  ASSUME AlwaysGenerated, SkipTight = {}
  PROVE  Spec => []LibraryIsFresh
<1> DEFINE Inv == HooksHold /\ BlocksHold /\ TimesHold
<1>1. Init => Inv
  BY InitHolds
<1>2. Inv /\ [Next]_vars => Inv'
  BY StepHooks, StepBlocks, StepTimes
<1>3. ASSUME Inv PROVE LibraryIsFresh
  <2> SUFFICES ASSUME step = "flux", NEW e \in Used
               PROVE  /\ freq = BOL => e.made = <<0, 0, 0>>
                      /\ freq >= BOC => e.made[1] = cycle
                      /\ freq = BOC => e.made = <<cycle, 0, 0>>
                      /\ freq = everyNode => e.made = <<cycle, node, 0>>
                      /\ freq > everyNode /\ ~CouplesNow => e.made = <<cycle, node, 0>>
                      /\ freq = firstCoupledIteration /\ event = "coupled"
                           => e.made = <<cycle, node, 1>>
                      /\ freq = all /\ event = "coupled" => e.made = Now
    BY DEF LibraryIsFresh
  <2>1. /\ freq \in {BOL, BOC, everyNode, firstCoupledIteration, all}
        /\ CoreLib = isotxs /\ event \in {"node", "coupled"}
    BY <1>3, FrequencyRange, InUse DEF HooksHold
  <2>2. PICK id \in DOMAIN isotxs : e = isotxs[id]
    BY <2>1 DEF Used
  <2>3. \A times : MadeIn(isotxs, times) => e.made \in times
    BY <2>2 DEF MadeIn
  <2>4. BOL = 1 /\ BOC = 2 /\ everyNode = 3 /\ firstCoupledIteration = 4 /\ all = 5
    BY DEF BOL, BOC, everyNode, firstCoupledIteration, all
  <2>5. freq # BOL => Updated
    BY <2>1, <2>4 DEF Updated
  <2>6. freq # BOL => e.made[1] = cycle
    BY <1>3, <2>3, <2>5 DEF TimesHold, InCycle
  <2>7. freq = BOL => e.made = <<0, 0, 0>>
    BY <1>3, <2>1, <2>3 DEF TimesHold
  <2>8. /\ freq = BOC => e.made = <<cycle, 0, 0>>
        /\ freq = everyNode => e.made = <<cycle, node, 0>>
    BY <1>3, <2>3, <2>4, <2>5 DEF TimesHold
  <2>9. freq > everyNode /\ ~CouplesNow => e.made = <<cycle, node, 0>>
    BY <1>3, <2>1, <2>3, <2>4, <2>5 DEF TimesHold, CouplesNow
  <2>10. /\ freq = firstCoupledIteration /\ event = "coupled" => e.made = <<cycle, node, 1>>
         /\ freq = all /\ event = "coupled" => e.made = Now
    BY <1>3, <2>3 DEF TimesHold
  <2> QED
    BY <2>1, <2>4, <2>6, <2>7, <2>8, <2>9, <2>10
<1> QED
  BY <1>1, <1>2, <1>3, PTL DEF Spec
=============================================================================
