--------------------------- MODULE OperatorProofs ---------------------------
(***************************************************************************)
(* Proofs about the operator, for every plan, stack, setting and bound:    *)
(* types, shuffles, and what the files of a case hold over all its runs,   *)
(* the physics of the nodes they are named for and every node of the plan  *)
(* up to the last; and that its runs, however they are interrupted and     *)
(* restarted, implement the abstract timeline of what it has saved.        *)
(***************************************************************************)
EXTENDS OperatorProperties, WellFoundedInduction, TLAPS

Keys == Nat \X Nat \X StatepointNames

(* The file constants of the database are files. *)
LEMMA EmptyFiles ==
  /\ IsFile(NoFile) /\ IsFile(TornFile)
  /\ \A p \in Plans : IsFile(NewFile(p))
<1>1. AnyPlan \in Plans
  BY PlanAssumption DEF AnyPlan
<1>2. ASSUME NEW status \in {"none", "torn", "whole"}, NEW p \in Plans
      PROVE  IsFile(EmptyFile(status, p))
  <2>1. DOMAIN NoSteps = {} /\ NoSteps = [k \in DOMAIN NoSteps |-> NoSteps[k]]
    BY DEF NoSteps
  <2> QED
    BY <2>1 DEF IsFile, EmptyFile
<1> QED
  BY <1>1, <1>2 DEF NoFile, TornFile, NewFile

(* What the database module makes of a file is a file: a group added, the  *)
(* history merged, the outcome recorded.                                   *)
LEMMA WrittenIsFile ==
  ASSUME IsFile(fast), NEW key \in Keys, NEW state \in Reactor
  PROVE  IsFile(Written(key, state))
<1> DEFINE steps == WithStep(fast.steps, key, state)
<1>1. DOMAIN steps = DOMAIN fast.steps \cup {key}
  BY DEF WithStep
<1>2. \A k \in DOMAIN steps : k \in Keys /\ steps[k] \in Reactor
  BY DEF WithStep, IsFile, Keys
<1>3. steps = [k \in DOMAIN steps |-> steps[k]]
  BY DEF WithStep
<1>4. Written(key, state) =
        [status |-> fast.status, plan |-> fast.plan, steps |-> steps, done |-> fast.done]
  BY DEF Written, IsFile
<1> HIDE DEF steps
<1> QED
  BY <1>2, <1>3, <1>4 DEF IsFile, Keys

LEMMA MergedIsFile ==
  ASSUME IsFile(fast), IsFile(reload), NEW keys
  PROVE  IsFile([fast EXCEPT !.steps = OnlySteps(reload.steps, keys)])
<1> DEFINE steps == OnlySteps(reload.steps, keys)
<1>1. \A k \in DOMAIN steps : k \in Keys /\ steps[k] \in Reactor
  BY DEF OnlySteps, IsFile, Keys
<1>2. steps = [k \in DOMAIN steps |-> steps[k]]
  BY DEF OnlySteps
<1>3. [fast EXCEPT !.steps = steps] =
        [status |-> fast.status, plan |-> fast.plan, steps |-> steps, done |-> fast.done]
  BY DEF IsFile
<1> HIDE DEF steps
<1>4. IsFile([fast EXCEPT !.steps = steps])
  BY <1>1, <1>2, <1>3 DEF IsFile, Keys
<1> QED
  BY <1>4 DEF steps

LEMMA DoneIsFile ==
  ASSUME NEW f, IsFile(f), NEW success \in BOOLEAN
  PROVE  IsFile([f EXCEPT !.done = success])
<1>1. [f EXCEPT !.done = success] =
        [status |-> f.status, plan |-> f.plan, steps |-> f.steps, done |-> success]
  BY DEF IsFile
<1> QED
  BY <1>1 DEF IsFile

-----------------------------------------------------------------------------
(* Where each way of moving on leaves the loop. *)

LEMMA PlanTypes ==
  ASSUME NEW p \in Plans, NEW c \in CyclesOf(p)
  PROVE  /\ c \in Nat
         /\ BurnSteps(p, c) \in Nat
         /\ \A n \in 1 .. BurnSteps(p, c) : StepLengths[p][c][n] \in Nat
         /\ Outage[p][c] \in Nat
<1>1. StepLengths[p][c] \in Seq(Nat) /\ Outage[p][c] \in Nat /\ c \in Nat
  BY PlanAssumption DEF CyclesOf
<1> QED
  BY <1>1 DEF BurnSteps

LEMMA InteractType ==
  ASSUME NEW point \in InteractionPoints, NEW s \in Reactor, Interact(point, s),
         point \notin {"BOC"} \cup AtNode
  PROVE  LoopOK' /\ InPlan' /\ at' = point
BY DEF Interact, LoopOK, InPlan, InteractionPoints, Points, AtNode, Active

LEMMA GoToType ==
  ASSUME NEW place \in Points, GoTo(place), r' \in Reactor,
         place \notin {"BOC"} \cup AtNode
  PROVE  LoopOK' /\ InPlan' /\ at' = place
BY DEF GoTo, LoopOK, InPlan, AtNode

(* What the loops assign to the reactor keeps its type. *)
LEMMA AssignedReactors ==
  ASSUME NEW s \in Reactor, NEW c \in Nat, NEW n \in Nat, NEW d \in Nat
  PROVE  /\ [s EXCEPT !.cycle = c, !.node = n] \in Reactor
         /\ [s EXCEPT !.cycle = c, !.node = n, !.iter = 0, !.outage = d] \in Reactor
         /\ [s EXCEPT !.node = n, !.time = @ + d] \in Reactor
         /\ AfterOutage(s) \in Reactor
<1>1. 0 \in 0 .. MaxIters
  BY SettingAssumption
<1>2. s.time + d \in Nat /\ s.time + s.outage \in Nat
  BY DEF Reactor
<1> QED
  BY <1>1, <1>2 DEF AfterOutage, Reactor

LEMMA BeginCycleType ==
  ASSUME r \in Reactor, cs.plan \in Plans, UNCHANGED cs,
         NEW c \in Nat, NEW n \in Nat, BeginCycle(c, n)
  PROVE  LoopOK' /\ InPlan' /\ at' \in {"BOC", "EOL"}
<1>1. CASE c < NCycles[cs.plan]
  <2>1. c \in CyclesOf(cs.plan)
    BY <1>1, PlanAssumption DEF CyclesOf
  <2>2. Outage[cs.plan][c] \in Nat
    BY <2>1, PlanTypes
  <2> DEFINE s == [r EXCEPT !.cycle = c, !.node = n, !.iter = 0, !.outage = Outage[cs.plan][c]]
  <2>3. s \in Reactor /\ s.cycle = c
    BY <2>2, AssignedReactors DEF Reactor
  <2>4. Interact("BOC", s)
    BY <1>1 DEF BeginCycle
  <2> QED
    BY <2>1, <2>3, <2>4 DEF Interact, LoopOK, InPlan, InteractionPoints, Points, AtNode, Active
<1>2. CASE ~(c < NCycles[cs.plan])
  BY <1>2, InteractType DEF BeginCycle, InteractionPoints, AtNode
<1> QED
  BY <1>1, <1>2

LEMMA EnterNodeType ==
  ASSUME r \in Reactor, cs.plan \in Plans, UNCHANGED cs,
         r.cycle \in CyclesOf(cs.plan),
         NEW n \in Nat, n <= BurnSteps(cs.plan, r.cycle), EnterNode(n)
  PROVE  LoopOK' /\ InPlan' /\ at' = "EveryNode"
<1> DEFINE dt == IF n = 0 THEN 0 ELSE StepLengths[cs.plan][r.cycle][n]
           s  == [r EXCEPT !.node = n, !.time = @ + dt]
<1>1. dt \in Nat
  BY PlanTypes
<1> HIDE DEF dt
<1>2. s \in Reactor /\ s.cycle = r.cycle /\ s.node = n
  BY ZenonT(40), <1>1, AssignedReactors DEF Reactor
<1>3. Interact("EveryNode", s)
  BY DEF EnterNode, dt
<1> QED
  BY <1>2, <1>3 DEF Interact, LoopOK, InPlan, InteractionPoints, Points, AtNode, Active

LEMMA LeaveNodeType ==
  ASSUME r \in Reactor, cs.plan \in Plans, UNCHANGED cs,
         r.cycle \in CyclesOf(cs.plan), LeaveNode
  PROVE  LoopOK' /\ InPlan' /\ at' \in {"EveryNode", "EOC"}
<1>1. CASE r.node < BurnSteps(cs.plan, r.cycle)
  <2>1. r.node + 1 \in Nat /\ r.node + 1 <= BurnSteps(cs.plan, r.cycle)
    BY <1>1, PlanTypes DEF Reactor
  <2> QED
    BY <1>1, <2>1, EnterNodeType DEF LeaveNode
<1>2. CASE ~(r.node < BurnSteps(cs.plan, r.cycle))
  BY <1>2, InteractType, AssignedReactors DEF LeaveNode, InteractionPoints, AtNode
<1> QED
  BY <1>1, <1>2

-----------------------------------------------------------------------------
(* A write of the current statepoint, from whichever caller. *)

LEMMA KeyTypes ==
  ASSUME LoopOK, NEW name \in StatepointNames
  PROVE  <<r.cycle, r.node, name>> \in Keys
BY DEF LoopOK, Reactor, Keys

LEMMA CloseFileType ==
  ASSUME FilesOK, NEW f, IsFile(f), NEW success \in BOOLEAN,
         CloseFile(f, success), UNCHANGED reload
  PROVE  FilesOK' /\ (h5' = "syncing" => h5 = "syncing")
BY EmptyFiles, DoneIsFile DEF CloseFile, FilesOK

LEMMA RaiseType ==
  ASSUME LoopOK, Raise
  PROVE  LoopOK' /\ InPlan' /\ at' = "error" /\ UNCHANGED bocKeff
<1>1. r' \in Reactor
  BY DEF Raise, LoopOK
<1> QED
  BY <1>1, GoToType DEF Raise, Points, AtNode

LEMMA FaultType ==
  ASSUME CaseOK, Fault
  PROVE  faults' \in Nat
BY DEF CaseOK, Fault

(* HookReturns, with the reactor's new state as a parameter. *)
LEMMA HookReturnsType ==
  ASSUME LoopOK, InPlan, NEW i, HookReturns(i), UNCHANGED cs,
         r' \in Reactor, r'.cycle = r.cycle, r'.node = r.node,
         halt' \in BOOLEAN, halt' => at = "BOC"
  PROVE  LoopOK' /\ InPlan' /\ UNCHANGED at
BY DEF HookReturns, LoopOK, InPlan

LEMMA WriteType ==
  ASSUME TypeOK, UNCHANGED unchangedCase, h5 # "syncing",
         \/ at = "EveryNode" /\ WriteDBEveryNode(HookReturns("database"))
         \/ at = "save" /\ WriteDBEveryNode(at' = "saved" /\ UNCHANGED todo)
  PROVE  TypeOK'
<1> DEFINE key == <<r.cycle, r.node, "">>
           Returned == IF at = "save" THEN at' = "saved" /\ UNCHANGED todo
                                      ELSE HookReturns("database")
<1>1. /\ UNCHANGED <<cs, reload, runs>>
      /\ cs.plan \in Plans
      /\ at \in {"EveryNode", "save"}
  BY DEF TypeOK, CaseOK, unchangedCase
<1>2. IsFile(Written(key, r))
  BY KeyTypes, WrittenIsFile DEF TypeOK, FilesOK, LoopOK, StatepointNames
<1>3. ASSUME Returned, UNCHANGED <<halt, r, bocKeff>>
      PROVE  LoopOK' /\ InPlan' /\ at' \in {"EveryNode", "saved"}
  <2>1. CASE at = "save"
    BY <1>1, <1>3, <2>1 DEF TypeOK, LoopOK, InPlan, AtNode, Points, InteractionPoints
  <2>2. CASE at = "EveryNode"
    BY <1>1, <1>3, <2>2, HookReturnsType DEF TypeOK, LoopOK
  <2> QED
    BY <1>1, <2>1, <2>2
<1>4. CASE /\ fast' = Written(key, r)
           /\ IF SyncAfterWrite THEN BeginSync ELSE UNCHANGED <<h5, disk>>
           /\ Returned
           /\ UNCHANGED <<halt, r, bocKeff, faults>>
  <2>1. FilesOK'
    BY <1>1, <1>2, <1>4, EmptyFiles DEF TypeOK, FilesOK, BeginSync
  <2> QED
    BY <1>1, <1>3, <1>4, <2>1 DEF TypeOK, CaseOK
<1>5. CASE /\ Fault
           /\ fast' = Written(key, r)
           /\ UNCHANGED disk
           /\ IF disk.status = "none"
              THEN h5' = "shut" /\ Raise
              ELSE UNCHANGED <<h5, halt, r, bocKeff>> /\ Returned
  <2>1. FilesOK'
    BY <1>1, <1>2, <1>5 DEF TypeOK, FilesOK
  <2>2. faults' \in Nat
    BY <1>5, FaultType DEF TypeOK
  <2>3. LoopOK' /\ InPlan' /\ UNCHANGED bocKeff
    BY <1>3, <1>5, RaiseType DEF TypeOK
  <2>4. h5' = "syncing" => at' \in {"EveryNode", "saved"}
    BY <1>3, <1>5 DEF TypeOK
  <2> QED
    BY <1>1, <2>1, <2>2, <2>3, <2>4 DEF TypeOK, CaseOK
<1>6. CASE ~CanWrite(key) /\ UNCHANGED <<dbVars, faults>> /\ Raise
  <2>1. FilesOK' /\ UNCHANGED <<h5, faults>>
    BY <1>1, <1>6 DEF TypeOK, FilesOK, dbVars
  <2>2. LoopOK' /\ InPlan' /\ UNCHANGED bocKeff
    BY <1>6, RaiseType DEF TypeOK
  <2> QED
    BY <1>1, <2>1, <2>2 DEF TypeOK, CaseOK
<1> QED
  BY <1>1, <1>4, <1>5, <1>6 DEF WriteDBEveryNode

-----------------------------------------------------------------------------
(* Every action preserves the type invariant.                              *)

THEOREM TypeInvariant == Init /\ [][Next]_vars => []TypeOK
<1>1. Init => TypeOK
  <2>1. FreshReactor \in Reactor
    BY SettingAssumption DEF FreshReactor, Reactor, Unsolved, Never
  <2> SUFFICES ASSUME Init PROVE TypeOK
    OBVIOUS
  <2>2. FilesOK
    BY EmptyFiles DEF Init, FilesOK
  <2>3. LoopOK /\ InPlan
    BY <2>1 DEF Init, LoopOK, InPlan, Points, AtNode
  <2>4. CaseOK
    <3>1. PICK p \in Plans : cs = [fromDB |-> FALSE, start |-> <<0, 0>>, plan |-> p]
      BY DEF Init
    <3> QED
      BY <3>1 DEF Init, CaseOK
  <2> QED
    BY <2>2, <2>3, <2>4 DEF Init, TypeOK
<1>2. TypeOK /\ [Next]_vars => TypeOK'
  <2> SUFFICES ASSUME TypeOK, [Next]_vars PROVE TypeOK'
    OBVIOUS
  <2>a. FilesOK /\ LoopOK /\ InPlan /\ CaseOK /\ r \in Reactor /\ cs.plan \in Plans
    BY DEF TypeOK, LoopOK, CaseOK
  <2>b. ASSUME UNCHANGED <<dbVars, reload>> PROVE FilesOK' /\ UNCHANGED h5
    BY <2>a, <2>b DEF FilesOK, dbVars
  <2>c. ASSUME UNCHANGED <<bocKeff, unchangedCase, faults>> PROVE CaseOK' /\ UNCHANGED <<cs, reload>>
    BY <2>a, <2>c DEF CaseOK, unchangedCase
  <2>h. ASSUME NEW i, IsNext(i), HookReturns(i), UNCHANGED <<h5, fast, disk, unchangedCase, faults>>,
               r' \in Reactor, r'.cycle = r.cycle, r'.node = r.node,
               halt' \in BOOLEAN, halt' => at = "BOC", bocKeff' \in Nat \cup {Never}
        PROVE  TypeOK'
    <3>1. LoopOK' /\ InPlan' /\ UNCHANGED at
      BY <2>a, <2>h, HookReturnsType DEF unchangedCase
    <3>2. FilesOK' /\ CaseOK'
      BY <2>a, <2>h DEF FilesOK, CaseOK, unchangedCase
    <3> QED
      BY <2>h, <3>1, <3>2 DEF TypeOK, IsNext
  <2>m. ASSUME UNCHANGED <<dbVars, unchangedBetween>>, LoopOK', InPlan', h5 # "syncing"
        PROVE  TypeOK'
    BY <2>b, <2>c, <2>m DEF TypeOK, unchangedBetween, unchangedCase
  <2>1. CASE FuelHandlerBOC
    <3>1. r' \in Reactor /\ r'.cycle = r.cycle /\ r'.node = r.node
      BY <2>1, <2>a DEF FuelHandlerBOC, Reactor
    <3> QED
      BY <2>1, <2>a, <2>h, <3>1 DEF FuelHandlerBOC, CaseOK, LoopOK
  <2>2. CASE DatabaseEveryNode
    BY <2>2, WriteType DEF DatabaseEveryNode, IsNext
  <2>3. CASE DatabaseEOL
    <3> DEFINE key == <<r.cycle, r.node, "EOL">>
    <3>1. CASE CanWrite(key)
      <4>1. IsFile(Written(key, r))
        BY <2>a, KeyTypes, WrittenIsFile DEF FilesOK, StatepointNames
      <4>2. /\ UNCHANGED <<unchangedCase, faults>> /\ CloseFile(Written(key, r), TRUE)
            /\ HookReturns("database") /\ UNCHANGED <<halt, r, bocKeff>>
            /\ h5 # "syncing"
        BY <2>3, <3>1 DEF DatabaseEOL, IsNext
      <4>3. FilesOK' /\ h5' # "syncing"
        BY <2>a, <4>1, <4>2, CloseFileType DEF unchangedCase
      <4>4. LoopOK' /\ InPlan'
        BY <2>a, <4>2, HookReturnsType DEF unchangedCase, LoopOK
      <4> QED
        BY <2>a, <4>2, <4>3, <4>4 DEF TypeOK, CaseOK, unchangedCase
    <3>2. CASE ~CanWrite(key)
      <4>1. UNCHANGED dbVars /\ Raise /\ UNCHANGED <<unchangedCase, faults>> /\ h5 # "syncing"
        BY <2>3, <3>2 DEF DatabaseEOL, IsNext
      <4>2. LoopOK' /\ InPlan' /\ UNCHANGED bocKeff
        BY <2>a, <4>1, RaiseType
      <4> QED
        BY <2>m, <4>1, <4>2 DEF unchangedBetween
    <3> QED
      BY <3>1, <3>2
  <2>4. ASSUME NEW i \in Interfaces, HookSkipped(i) PROVE TypeOK'
    BY <2>4, <2>a, <2>h DEF HookSkipped, LoopOK, CaseOK
  <2>5. ASSUME NEW i \in Interfaces, PhysicsBOC(i) PROVE TypeOK'
    <3>1. r' \in Reactor /\ r'.cycle = r.cycle /\ r'.node = r.node
      BY <2>5, <2>a DEF PhysicsBOC, Reactor
    <3>2. halt' \in BOOLEAN /\ at = "BOC"
      BY <2>5 DEF PhysicsBOC
    <3> QED
      BY <2>5, <2>a, <2>h, <3>1, <3>2 DEF PhysicsBOC, CaseOK
  <2>6. ASSUME NEW i \in Interfaces, Solve(i) PROVE TypeOK'
    <3> DEFINE stamp == <<r.cycle, r.node, IF at = "Coupled" THEN r.iter ELSE 0>>
               keff == IF r.node = 0 THEN r.cycle ELSE bocKeff
               solved == [r EXCEPT !.solved[i] = stamp]
    <3>1. stamp \in (Nat \cup {Never}) \X (Nat \cup {Never}) \X (Nat \cup {Never})
      BY <2>a, SettingAssumption DEF Reactor
    <3>2. keff \in Nat \cup {Never}
      BY <2>a DEF Reactor, CaseOK
    <3> HIDE DEF stamp, keff
    <3>3. solved \in Reactor /\ solved.cycle = r.cycle /\ solved.node = r.node
      BY <3>1, <2>a, <2>6 DEF Reactor, Solve
    <3>4. /\ r' \in {solved, [solved EXCEPT !.swing = keff]}
          /\ bocKeff' \in {keff, bocKeff}
      BY <2>6 DEF Solve, stamp, keff
    <3> HIDE DEF solved
    <3>5. [solved EXCEPT !.swing = keff] \in Reactor
      BY <3>2, <3>3 DEF Reactor
    <3>6. r' \in Reactor /\ r'.cycle = r.cycle /\ r'.node = r.node
      BY <3>3, <3>4, <3>5 DEF Reactor
    <3> QED
      BY <2>6, <2>a, <2>h, <3>2, <3>4, <3>6 DEF Solve, CaseOK, LoopOK
  <2>7. ASSUME NEW i \in Interfaces, IdleHook(i) PROVE TypeOK'
    BY <2>7, <2>a, <2>h DEF IdleHook, LoopOK, CaseOK
  <2>8. ASSUME NEW i \in Interfaces, HookRaises(i) PROVE TypeOK'
    <3>1. LoopOK' /\ InPlan' /\ UNCHANGED bocKeff /\ faults' \in Nat
      BY <2>8, <2>a, RaiseType, FaultType DEF HookRaises
    <3>2. FilesOK' /\ UNCHANGED <<h5, unchangedCase>> /\ h5 # "syncing"
      BY <2>8, <2>b DEF HookRaises, IsNext, unchangedCase, dbVars
    <3> QED
      BY <2>a, <3>1, <3>2 DEF TypeOK, CaseOK, unchangedCase
  <2>9. CASE Synced \/ CopyCutShort
    <3>1. UNCHANGED <<at, todo, halt, r, bocKeff, unchangedCase>> /\ h5' = "open" /\ faults' \in Nat
      BY <2>9, <2>a, FaultType DEF Synced, CopyCutShort, FinishSync, ShortSync, CaseOK
    <3>2. FilesOK'
      BY <2>9, <2>a, <3>1 DEF Synced, CopyCutShort, FinishSync, ShortSync, FilesOK, unchangedCase
    <3> QED
      BY <2>a, <3>1, <3>2 DEF TypeOK, LoopOK, InPlan, CaseOK, unchangedCase
  <2>10. CASE StartRun
    <3>1. FilesOK' /\ h5' = "open" /\ UNCHANGED unchangedBetween
      BY <2>10, <2>a, EmptyFiles
      DEF StartRun, OpenForWriting, FilesOK, unchangedBetween, unchangedCase
    <3>2. LoopOK' /\ InPlan'
      BY <2>10, <2>a, InteractType, GoToType DEF StartRun, InteractionPoints, Points, AtNode
    <3> QED
      BY <2>c, <3>1, <3>2 DEF TypeOK, unchangedBetween
  <2>11. CASE PrepRestart
    <3>1. UNCHANGED unchangedBetween /\ h5 # "syncing" /\ UNCHANGED h5
      BY <2>11 DEF PrepRestart, MergeHistory, dbVars, TypeOK
    <3>2. FilesOK'
      BY <2>11, <2>a, <3>1, MergedIsFile
      DEF PrepRestart, MergeHistory, FilesOK, dbVars, unchangedBetween, unchangedCase
    <3>3. \A k \in DOMAIN reload.steps : reload.steps[k] \in Reactor
      BY <2>a DEF FilesOK, IsFile
    <3>4. LoopOK' /\ InPlan'
      BY <2>11, <2>a, <3>3, InteractType, GoToType
      DEF PrepRestart, InteractionPoints, Points, AtNode
    <3> QED
      BY <2>c, <3>1, <3>2, <3>4 DEF TypeOK, unchangedBetween
  <2>12. CASE AfterRestart \/ AfterRestartEOC
    <3>1. AtStart(r) \in Reactor /\ AfterOutage(r) \in Reactor
      BY <2>a, AssignedReactors DEF AtStart, CaseOK
    <3> QED
      BY <2>12, <2>m, <3>1, InteractType
      DEF AfterRestart, AfterRestartEOC, Interacted, InteractionPoints, AtNode
  <2>13. CASE AfterBOL
    BY <2>13, <2>a, <2>m, BeginCycleType
    DEF AfterBOL, Interacted, Reactor, unchangedBetween, unchangedCase
  <2>14. CASE AfterBOC
    <3> DEFINE last == BurnSteps(cs.plan, r.cycle)
               first == IF r.node < last THEN r.node ELSE last
    <3>1. /\ UNCHANGED <<dbVars, unchangedBetween>> /\ h5 # "syncing" /\ at = "BOC"
          /\ Interact("EOL", r) \/ EnterNode(first)
      BY <2>14 DEF AfterBOC, Interacted
    <3>2. r.cycle \in CyclesOf(cs.plan)
      BY <2>a, <3>1 DEF InPlan
    <3>3. last \in Nat
      BY <2>a, <3>2, PlanTypes
    <3>4. r.node \in Nat /\ UNCHANGED cs
      BY <2>a, <3>1 DEF Reactor, unchangedBetween, unchangedCase
    <3> HIDE DEF last
    <3>5. first \in Nat /\ first <= last
      BY <3>3, <3>4
    <3> HIDE DEF first
    <3>6. CASE Interact("EOL", r)
      BY <2>a, <2>m, <3>1, <3>6, InteractType DEF InteractionPoints, AtNode
    <3>7. CASE EnterNode(first)
      BY <2>a, <2>m, <3>1, <3>2, <3>4, <3>5, <3>7, EnterNodeType DEF last
    <3> QED
      BY <3>1, <3>6, <3>7
  <2>i. ASSUME NEW k \in 1 .. MaxIters, Iterate(k), UNCHANGED cs, at \in AtNode
        PROVE  LoopOK' /\ InPlan'
    <3>1. [r EXCEPT !.iter = k] \in Reactor
      BY <2>a, <2>i, SettingAssumption DEF Reactor
    <3> QED
      BY <2>a, <2>i, <3>1
      DEF Iterate, Interact, LoopOK, InPlan, InteractionPoints, Points, AtNode, Active, Reactor
  <2>s. ASSUME GoTo("save"), UNCHANGED <<r, cs>>, at \in AtNode
        PROVE  LoopOK' /\ InPlan'
    BY <2>a, <2>s DEF GoTo, LoopOK, InPlan, AtNode, Points
  <2>15. CASE AfterEveryNode
    <3>1. /\ UNCHANGED <<dbVars, unchangedBetween>> /\ h5 # "syncing" /\ at \in AtNode
          /\ UNCHANGED cs
          /\ LeaveNode \/ (GoTo("save") /\ UNCHANGED r) \/ Iterate(1)
      BY <2>15, SettingAssumption
      DEF AfterEveryNode, Interacted, AtNode, unchangedBetween, unchangedCase
    <3>2. 1 \in 1 .. MaxIters /\ r.cycle \in CyclesOf(cs.plan)
      BY <2>a, <3>1, SettingAssumption DEF InPlan
    <3> QED
      BY <2>a, <2>i, <2>s, <2>m, <3>1, <3>2, LeaveNodeType
  <2>16. CASE AfterCoupled
    <3>1. /\ UNCHANGED <<dbVars, unchangedBetween>> /\ h5 # "syncing" /\ at \in AtNode
          /\ UNCHANGED cs
          /\ (GoTo("save") /\ UNCHANGED r) \/ (Iterate(r.iter + 1) /\ r.iter # MaxIters)
      BY <2>16 DEF AfterCoupled, Interacted, AtNode, unchangedBetween, unchangedCase
    <3>2. r.iter # MaxIters => r.iter + 1 \in 1 .. MaxIters
      <4>1. r.iter \in 0 .. MaxIters
        BY <2>a DEF Reactor
      <4> QED
        BY <4>1, SettingAssumption
    <3> QED
      BY <2>i, <2>s, <2>m, <3>1, <3>2
  <2>17. CASE SaveAfterCoupling
    BY <2>17, WriteType DEF SaveAfterCoupling, TypeOK
  <2>18. CASE AfterSave
    <3>1. /\ UNCHANGED <<dbVars, unchangedBetween>> /\ h5 # "syncing" /\ at = "saved"
          /\ UNCHANGED cs /\ LeaveNode
      BY <2>18 DEF AfterSave, unchangedBetween, unchangedCase
    <3>2. r.cycle \in CyclesOf(cs.plan)
      BY <2>a, <3>1 DEF InPlan, AtNode
    <3> QED
      BY <2>a, <2>m, <3>1, <3>2, LeaveNodeType
  <2>19. CASE AfterEOC
    <3>1. r.cycle + 1 \in Nat
      BY <2>a DEF Reactor
    <3> QED
      BY <2>19, <2>a, <2>m, <3>1, BeginCycleType
      DEF AfterEOC, Interacted, unchangedBetween, unchangedCase
  <2>20. CASE AfterEOL
    BY <2>20, <2>a, <2>m, GoToType DEF AfterEOL, Interacted, Points, AtNode
  <2>21. CASE HandleError
    <3> DEFINE key == <<r.cycle, r.node, "error">>
    <3>1. IsFile(Written(key, r))
      BY <2>a, KeyTypes, WrittenIsFile DEF FilesOK, StatepointNames
    <3>2. /\ UNCHANGED <<r, unchangedBetween>> /\ GoTo("failed")
          /\ CloseFile(Written(key, r), FALSE) \/ UNCHANGED dbVars
          /\ h5 # "syncing" /\ UNCHANGED reload
      BY <2>21 DEF HandleError, TypeOK, unchangedBetween, unchangedCase
    <3>3. FilesOK' /\ h5' # "syncing"
      BY <2>a, <2>b, <3>1, <3>2, CloseFileType DEF dbVars
    <3>4. LoopOK' /\ InPlan'
      BY <2>a, <3>2, GoToType DEF Points, AtNode
    <3> QED
      BY <2>c, <3>2, <3>3, <3>4 DEF TypeOK, unchangedBetween
  <2>e. FreshReactor \in Reactor /\ Never \in Nat \cup {Never}
    BY SettingAssumption DEF FreshReactor, Reactor, Unsolved, Never
  <2>22. CASE ExitRun
    <3>1. FilesOK' /\ h5' = "none"
      BY <2>22, <2>a, EmptyFiles, DoneIsFile DEF ExitRun, ExitProcess, FilesOK, unchangedCase
    <3>2. LoopOK' /\ InPlan'
      BY <2>22, <2>e, GoToType DEF ExitRun, MemoryLost, Points, AtNode
    <3> QED
      BY <2>22, <2>a, <2>e, <3>1, <3>2 DEF TypeOK, ExitRun, MemoryLost, CaseOK, unchangedCase
  <2>23. CASE Kill
    <3>1. FilesOK' /\ h5' = "none"
      BY <2>23, <2>a, EmptyFiles DEF Kill, LoseProcess, FilesOK, unchangedCase
    <3>2. LoopOK' /\ InPlan'
      BY <2>23, <2>e, GoToType DEF Kill, MemoryLost, Points, AtNode
    <3>3. faults' \in Nat
      BY <2>23, <2>a, FaultType DEF Kill
    <3> QED
      BY <2>23, <2>a, <2>e, <3>1, <3>2, <3>3 DEF TypeOK, Kill, MemoryLost, CaseOK, unchangedCase
  <2>24. ASSUME NEW plan \in Plans, NEW start \in Restarts, Resubmit(plan, start) PROVE TypeOK'
    <3>1. FilesOK' /\ h5' # "syncing"
      BY <2>24, <2>a, EmptyFiles DEF Resubmit, FilesOK, TypeOK
    <3>2. LoopOK' /\ InPlan'
      BY <2>24, <2>a, GoToType DEF Resubmit, Points, AtNode
    <3>3. CaseOK'
      BY <2>24, <2>a, SettingAssumption DEF Resubmit, CaseOK
    <3> QED
      BY <3>1, <3>2, <3>3 DEF TypeOK
  <2>25. CASE UNCHANGED vars
    BY <2>25 DEF vars, TypeOK, FilesOK, LoopOK, InPlan, CaseOK
  <2> QED
    BY <2>1, <2>2, <2>3, <2>4, <2>5, <2>6, <2>7, <2>8, <2>9, <2>10, <2>11, <2>12, <2>13, <2>14,
       <2>15, <2>16, <2>17, <2>18, <2>19, <2>20, <2>21, <2>22, <2>23, <2>24, <2>25
    DEF Next, Step, Hook, Loop, Failure, Finished
<1> QED
  BY <1>1, <1>2, PTL

(* The specification keeps its variables in their types, for every case.   *)
THEOREM TypeCorrect == Spec => []TypeOK
BY TypeInvariant, PTL DEF Spec

-----------------------------------------------------------------------------
(***************************************************************************)
(* Fuel is shuffled exactly once for every cycle, over all the runs of a   *)
(* case, wherever they stop and restart.                                   *)
(***************************************************************************)

(* The property is about cases in which fuel management is on from cycle 0 *)
FuelIsManaged == "fuelHandler" \notin Disabled \cup Deferred

LEMMA ShuffledEmptyFile ==
  ASSUME NEW status, NEW p
  PROVE  ShuffledInFile(EmptyFile(status, p))
BY DEF ShuffledInFile, Saved, EmptyFile, NoSteps

(* A write keeps a file's promise if what is written under a node's name   *)
(* has been shuffled for its cycle; extra statepoints do not count.        *)
LEMMA ShuffledWritten ==
  ASSUME IsFile(fast), ShuffledInFile(fast), r \in Reactor, NEW name \in StatepointNames,
         name = "" => r.shuffles = r.cycle + 1
  PROVE  ShuffledInFile(Written(<<r.cycle, r.node, name>>, r))
<1> DEFINE key == <<r.cycle, r.node, name>>
           steps == WithStep(fast.steps, key, r)
<1>1. Written(key, r).steps = steps
  BY DEF Written, IsFile
<1>2. DOMAIN steps = DOMAIN fast.steps \cup {key}
  BY DEF WithStep
<1>3. ASSUME NEW k \in DOMAIN steps, k[3] = ""
      PROVE  steps[k].cycle = k[1] /\ steps[k].shuffles = k[1] + 1
  <2>1. CASE k = key
    BY <1>3, <2>1 DEF WithStep
  <2>2. CASE k # key
    BY <1>2, <1>3, <2>2 DEF WithStep, ShuffledInFile, Saved
  <2> QED
    BY <2>1, <2>2
<1> HIDE DEF steps
<1> QED
  BY <1>1, <1>3 DEF ShuffledInFile, Saved

LEMMA ShuffledMerged ==
  ASSUME IsFile(fast), ShuffledInFile(reload), NEW keys
  PROVE  ShuffledInFile([fast EXCEPT !.steps = OnlySteps(reload.steps, keys)])
<1> DEFINE merged == [fast EXCEPT !.steps = OnlySteps(reload.steps, keys)]
<1>1. merged.steps = OnlySteps(reload.steps, keys)
  BY DEF IsFile
<1>2. \A k \in DOMAIN merged.steps :
        k \in DOMAIN reload.steps /\ merged.steps[k] = reload.steps[k]
  BY <1>1 DEF OnlySteps
<1> HIDE DEF merged
<1>3. ShuffledInFile(merged)
  BY <1>2 DEF ShuffledInFile, Saved
<1> QED
  BY <1>3 DEF merged

LEMMA ShuffledDone ==
  ASSUME NEW f, IsFile(f), ShuffledInFile(f), NEW success \in BOOLEAN
  PROVE  ShuffledInFile([f EXCEPT !.done = success])
<1>1. [f EXCEPT !.done = success].steps = f.steps
  BY DEF IsFile
<1> QED
  BY <1>1 DEF ShuffledInFile, Saved

LEMMA ShuffledClosed ==
  ASSUME ShuffledOncePerCycle, NEW f, IsFile(f), ShuffledInFile(f), NEW success \in BOOLEAN,
         CloseFile(f, success), UNCHANGED reload
  PROVE  ShuffledOncePerCycle'
BY ShuffledEmptyFile, ShuffledDone DEF CloseFile, ShuffledOncePerCycle, Files, NoFile

LEMMA ShuffledSame ==
  ASSUME ShuffledOncePerCycle, UNCHANGED <<fast, disk, reload>>
  PROVE  ShuffledOncePerCycle'
BY DEF ShuffledOncePerCycle, Files, ShuffledInFile, Saved

(* Every step keeps what is in the files. *)
LEMMA FilesStayShuffled ==
  ASSUME TypeOK, ShufflingInvariant, [Next]_vars
  PROVE  ShuffledOncePerCycle'
<1>1. /\ FilesOK /\ LoopOK /\ r \in Reactor
      /\ ShuffledOncePerCycle /\ ShufflesMatchCycle
      /\ ShuffledInFile(fast) /\ ShuffledInFile(disk) /\ ShuffledInFile(reload)
      /\ IsFile(fast) /\ IsFile(disk) /\ IsFile(reload)
  BY DEF TypeOK, LoopOK, FilesOK, ShufflingInvariant, ShuffledOncePerCycle, Files
<1>a. ASSUME NEW f, NEW d, NEW l, fast' = f, disk' = d, reload' = l,
             ShuffledInFile(f), ShuffledInFile(d), ShuffledInFile(l)
      PROVE  ShuffledOncePerCycle'
  BY <1>a DEF ShuffledOncePerCycle, Files
<1>e. /\ ShuffledInFile(NoFile) /\ ShuffledInFile(TornFile)
      /\ \A p \in Plans : ShuffledInFile(NewFile(p))
  BY ShuffledEmptyFile DEF NoFile, TornFile, NewFile
<1>2. CASE DatabaseEveryNode \/ SaveAfterCoupling
  <2>1. UNCHANGED reload /\ at \in AtNode
    BY <1>2 DEF DatabaseEveryNode, SaveAfterCoupling, unchangedCase, AtNode
  <2>2. /\ fast' \in {fast, Written(<<r.cycle, r.node, "">>, r)}
        /\ disk' \in {disk, TornFile}
    BY <1>2 DEF DatabaseEveryNode, SaveAfterCoupling, WriteDBEveryNode, BeginSync, dbVars
  <2>3. ShuffledInFile(Written(<<r.cycle, r.node, "">>, r))
    BY <1>1, <2>1, ShuffledWritten DEF ShufflesMatchCycle, StatepointNames
  <2> QED
    BY <1>1, <1>a, <1>e, <2>1, <2>2, <2>3
<1>3. CASE DatabaseEOL \/ HandleError
  <2>1. PICK name \in {"EOL", "error"}, success \in BOOLEAN :
          \/ CloseFile(Written(<<r.cycle, r.node, name>>, r), success)
          \/ UNCHANGED dbVars
    BY <1>3 DEF DatabaseEOL, HandleError
  <2>2. UNCHANGED reload
    BY <1>3 DEF DatabaseEOL, HandleError, unchangedBetween, unchangedCase
  <2>3. /\ IsFile(Written(<<r.cycle, r.node, name>>, r))
        /\ ShuffledInFile(Written(<<r.cycle, r.node, name>>, r))
    BY <1>1, KeyTypes, WrittenIsFile, ShuffledWritten DEF StatepointNames
  <2> QED
    BY <1>1, <2>1, <2>2, <2>3, ShuffledClosed, ShuffledSame DEF dbVars
<1>4. CASE Synced \/ CopyCutShort
  BY <1>1, <1>4, <1>a DEF Synced, CopyCutShort, FinishSync, ShortSync, unchangedCase
<1>5. CASE StartRun
  <2>1. cs.plan \in Plans
    BY DEF TypeOK, CaseOK
  <2> QED
    BY <1>1, <1>5, <1>a, <1>e, <2>1 DEF StartRun, OpenForWriting, unchangedBetween, unchangedCase
<1>6. CASE PrepRestart
  BY <1>1, <1>6, <1>a, ShuffledMerged
  DEF PrepRestart, MergeHistory, dbVars, unchangedBetween, unchangedCase
<1>7. CASE ExitRun \/ Kill
  <2>1. ShuffledInFile([fast EXCEPT !.done = FALSE])
    BY <1>1, ShuffledDone
  <2> QED
    BY <1>1, <1>7, <1>a, <1>e, <2>1
    DEF ExitRun, ExitProcess, Kill, LoseProcess, unchangedCase
<1>8. ASSUME NEW plan, NEW start, Resubmit(plan, start) PROVE ShuffledOncePerCycle'
  BY <1>1, <1>8, <1>a, <1>e DEF Resubmit
<1>9. CASE UNCHANGED <<fast, disk, reload>>
  BY <1>1, <1>9, ShuffledSame
<1>10. ASSUME NEW i, HookSkipped(i) \/ PhysicsBOC(i) \/ Solve(i) \/ IdleHook(i) \/ HookRaises(i)
       PROVE  UNCHANGED <<fast, disk, reload>>
  BY <1>10 DEF HookSkipped, PhysicsBOC, Solve, IdleHook, HookRaises, dbVars, unchangedCase
<1>11. ASSUME \/ FuelHandlerBOC \/ AfterRestart \/ AfterRestartEOC \/ AfterBOL \/ AfterBOC
              \/ AfterEveryNode \/ AfterCoupled \/ AfterSave \/ AfterEOC \/ AfterEOL
       PROVE  UNCHANGED <<fast, disk, reload>>
  BY <1>11
  DEF FuelHandlerBOC, AfterRestart, AfterRestartEOC, AfterBOL, AfterBOC, AfterEveryNode,
      AfterCoupled, AfterSave, AfterEOC, AfterEOL, dbVars, unchangedBetween, unchangedCase
<1> QED
  BY <1>2, <1>3, <1>4, <1>5, <1>6, <1>7, <1>8, <1>9, <1>10, <1>11
  DEF Next, Step, Hook, Loop, Failure, Finished, vars

-----------------------------------------------------------------------------
(* The reactor in memory. *)

(* Moving on to a place with nothing to match, or to one whose shuffles    *)
(* match already. *)
LEMMA MatchAtRest ==
  ASSUME at' \in {"EOL", "error", "done", "failed"}
  PROVE  ShufflesMatchCycle'
BY DEF ShufflesMatchCycle, AtNode

LEMMA MatchInCycle ==
  ASSUME UNCHANGED cs, at' \in {"EOC"} \cup AtNode,
         r'.cycle = r.cycle, r'.shuffles = r.shuffles,
         r.shuffles = r.cycle + 1, cs.fromDB => r.cycle >= cs.start[1]
  PROVE  ShufflesMatchCycle'
BY DEF ShufflesMatchCycle, AtNode

(* Interact hands on the cycle and the shuffles of the state it is given.  *)
LEMMA EnterNodeKeepsShuffles ==
  ASSUME r \in Reactor, NEW n, EnterNode(n)
  PROVE  at' = "EveryNode" /\ r'.cycle = r.cycle /\ r'.shuffles = r.shuffles
BY DEF EnterNode, Interact, Reactor

LEMMA LeaveNodeKeepsShuffles ==
  ASSUME r \in Reactor, LeaveNode
  PROVE  at' \in {"EveryNode", "EOC"} /\ r'.cycle = r.cycle /\ r'.shuffles = r.shuffles
BY EnterNodeKeepsShuffles DEF LeaveNode, Interact, AfterOutage, Reactor

(* A cycle that begins is due for its shuffle unless the run resumes it.   *)
LEMMA BeginCycleMatches ==
  ASSUME FuelIsManaged, r \in Reactor, UNCHANGED cs, NEW c \in Nat, NEW n \in Nat,
         BeginCycle(c, n),
         r.shuffles = (IF Resumes(c) THEN c + 1 ELSE c),
         cs.fromDB => c >= cs.start[1]
  PROVE  ShufflesMatchCycle'
<1>1. CASE c < NCycles[cs.plan]
  <2> DEFINE s == [r EXCEPT !.cycle = c, !.node = n, !.iter = 0, !.outage = Outage[cs.plan][c]]
  <2>1. s.cycle = c /\ s.shuffles = r.shuffles
    BY DEF Reactor
  <2>2. Interact("BOC", s)
    BY <1>1 DEF BeginCycle
  <2> HIDE DEF s
  <2>3. at' = "BOC" /\ r' = s /\ "fuelHandler" \in todo'
    BY <2>2, StackAssumption DEF Interact, Active, FuelIsManaged
  <2> QED
    BY <2>1, <2>3 DEF ShufflesMatchCycle, Resumes, AtNode
<1>2. CASE ~(c < NCycles[cs.plan])
  BY <1>2, MatchAtRest DEF BeginCycle, Interact
<1> QED
  BY <1>1, <1>2

LEMMA ReactorStaysShuffled ==
  ASSUME FuelIsManaged, TypeOK, ShufflingInvariant, [Next]_vars
  PROVE  ShufflesMatchCycle'
<1>1. /\ r \in Reactor /\ r.cycle \in Nat /\ r.shuffles \in Nat /\ r.node \in Nat
      /\ cs.start \in Nat \X Nat /\ cs.fromDB \in BOOLEAN
      /\ ShufflesMatchCycle
  BY DEF TypeOK, LoopOK, CaseOK, ShufflingInvariant, Reactor
<1>2. ASSUME at \in {"EOC"} \cup AtNode
      PROVE  r.shuffles = r.cycle + 1 /\ (cs.fromDB => r.cycle >= cs.start[1])
  BY <1>1, <1>2 DEF ShufflesMatchCycle
<1>h. ASSUME UNCHANGED <<at, cs, halt>>, r'.cycle = r.cycle, r'.shuffles = r.shuffles,
             at = "BOC" => ("fuelHandler" \in todo' <=> "fuelHandler" \in todo)
      PROVE  ShufflesMatchCycle'
  BY <1>1, <1>h DEF ShufflesMatchCycle, Resumes, LoadedCycle, AtNode
<1>3. CASE FuelHandlerBOC
  <2>1. /\ at = "BOC" /\ ~halt /\ UNCHANGED <<at, cs, halt>> /\ "fuelHandler" \in todo
        /\ "fuelHandler" \notin todo'
    BY <1>3 DEF FuelHandlerBOC, HookReturns, IsNext, unchangedCase
  <2>2. r' = IF ~Resumes(r.cycle) THEN [r EXCEPT !.shuffles = @ + 1] ELSE r
    BY <1>1, <1>3 DEF FuelHandlerBOC, Resumes
  <2>3. /\ r'.cycle = r.cycle
        /\ r'.shuffles = (IF ~Resumes(r.cycle) THEN r.shuffles + 1 ELSE r.shuffles)
    BY <1>1, <2>2 DEF Reactor
  <2> QED
    BY <1>1, <2>1, <2>3 DEF ShufflesMatchCycle, Resumes, AtNode
<1>4. ASSUME NEW i, HookSkipped(i) PROVE ShufflesMatchCycle'
  <2>1. UNCHANGED <<at, cs, halt, r>> /\ at = "BOC" /\ halt
    BY <1>4 DEF HookSkipped, HookReturns, unchangedCase, TypeOK, LoopOK
  <2> QED
    BY <1>1, <2>1 DEF ShufflesMatchCycle, Resumes, AtNode
<1>5. ASSUME NEW i \in Interfaces, PhysicsBOC(i) PROVE ShufflesMatchCycle'
  <2>1. /\ UNCHANGED <<at, cs>> /\ at = "BOC" /\ ~halt /\ i # "fuelHandler" /\ todo' = todo \ {i}
        /\ r' = r \/ r' = [r EXCEPT !.swing = Never]
    BY <1>5, StackAssumption DEF PhysicsBOC, HookReturns, unchangedCase
  <2>2. r'.cycle = r.cycle /\ r'.shuffles = r.shuffles
    BY <1>1, <2>1 DEF Reactor
  <2> QED
    BY <1>1, <2>1, <2>2 DEF ShufflesMatchCycle, Resumes, AtNode
<1>6. ASSUME NEW i \in Interfaces, Solve(i) PROVE ShufflesMatchCycle'
  <2>1. /\ UNCHANGED <<at, cs, halt>> /\ at # "BOC"
        /\ r'.cycle = r.cycle /\ r'.shuffles = r.shuffles
    BY <1>1, <1>6 DEF Solve, HookReturns, unchangedCase, Reactor
  <2> QED
    BY <1>h, <2>1
<1>7. ASSUME NEW i \in Interfaces, IdleHook(i) PROVE ShufflesMatchCycle'
  <2>1. UNCHANGED <<at, cs, halt, r>> /\ todo' = todo \ {i} /\ Idles(i, at)
    BY <1>7 DEF IdleHook, HookReturns, unchangedCase
  <2>2. at = "BOC" => i # "fuelHandler"
    BY <2>1 DEF Idles
  <2> QED
    BY <1>h, <2>1, <2>2
<1>8. CASE DatabaseEveryNode \/ DatabaseEOL \/ SaveAfterCoupling
  <2>1. UNCHANGED cs
    BY <1>8 DEF DatabaseEveryNode, DatabaseEOL, SaveAfterCoupling, unchangedCase
  <2>2. \/ at' \in {"error", "EOL"}
        \/ at \in AtNode /\ at' \in AtNode /\ UNCHANGED r
    BY <1>8
    DEF DatabaseEveryNode, DatabaseEOL, SaveAfterCoupling, WriteDBEveryNode, Raise, GoTo,
        HookReturns, AtNode
  <2> QED
    BY <1>2, <2>1, <2>2, MatchAtRest, MatchInCycle
<1>9. ASSUME NEW i, HookRaises(i) PROVE ShufflesMatchCycle'
  BY <1>9, MatchAtRest DEF HookRaises, Raise, GoTo
<1>10. CASE Synced \/ CopyCutShort
  BY <1>10, <1>h DEF Synced, CopyCutShort, unchangedCase
<1>11. CASE StartRun
  <2>1. at = "idle" /\ UNCHANGED cs /\ r.cycle = 0 /\ r.shuffles = 0
    BY <1>1, <1>11 DEF StartRun, ShufflesMatchCycle, unchangedBetween, unchangedCase
  <2>2. \/ cs.fromDB /\ at' = "prep"
        \/ ~cs.fromDB /\ at' = "BOL" /\ r' = r
    BY <1>11 DEF StartRun, GoTo, Interact
  <2> QED
    BY <2>1, <2>2 DEF ShufflesMatchCycle, Resumes, AtNode
<1>12. CASE PrepRestart
  <2> DEFINE prev == PreviousNode(cs.plan, cs.start[1], cs.start[2])
             key == <<prev[1], prev[2], "">>
  <2>1. CASE at' = "error"
    BY <2>1, MatchAtRest
  <2>2. CASE at' # "error"
    <3>1. /\ cs.fromDB /\ UNCHANGED cs
          /\ at' = "Restart" /\ key \in DOMAIN reload.steps /\ r' = reload.steps[key]
      BY <1>1, <1>12, <2>2
      DEF PrepRestart, ShufflesMatchCycle, GoTo, Interact, unchangedBetween, unchangedCase
    <3>2. key[1] = LoadedCycle /\ key[3] = ""
      BY <1>1 DEF PreviousNode, LoadedCycle
    <3>3. ShuffledInFile(reload)
      BY DEF ShufflingInvariant, ShuffledOncePerCycle, Files
    <3>4. r'.cycle = LoadedCycle /\ r'.shuffles = LoadedCycle + 1
      BY <3>1, <3>2, <3>3 DEF ShuffledInFile, Saved
    <3> QED
      BY <3>1, <3>4 DEF ShufflesMatchCycle, LoadedCycle, AtNode
  <2> QED
    BY <2>1, <2>2
<1>13. CASE AfterRestart
  <2>1. at = "Restart" /\ UNCHANGED cs
    BY <1>13 DEF AfterRestart, Interacted, unchangedBetween, unchangedCase
  <2>2. cs.fromDB /\ r.cycle = LoadedCycle /\ r.shuffles = r.cycle + 1
    BY <1>1, <2>1 DEF ShufflesMatchCycle
  <2>3. CASE cs.start[2] = 0
    <3>1. at' = "RestartEOC" /\ r'.cycle = r.cycle /\ r'.shuffles = r.shuffles
      BY <1>1, <1>13, <2>3 DEF AfterRestart, Interact, AfterOutage, Reactor
    <3> QED
      BY <2>1, <2>2, <2>3, <3>1 DEF ShufflesMatchCycle, LoadedCycle, AtNode
  <2>4. CASE cs.start[2] # 0
    <3>1. at' = "BOL" /\ r'.cycle = cs.start[1] /\ r'.shuffles = r.shuffles
      BY <1>1, <1>13, <2>4 DEF AfterRestart, Interact, AtStart, Reactor
    <3> QED
      BY <1>1, <2>1, <2>2, <2>4, <3>1 DEF ShufflesMatchCycle, LoadedCycle, Resumes, AtNode
  <2> QED
    BY <2>3, <2>4
<1>14. CASE AfterRestartEOC
  <2>1. at = "RestartEOC" /\ UNCHANGED cs
    BY <1>14 DEF AfterRestartEOC, Interacted, unchangedBetween, unchangedCase
  <2>2. cs.fromDB /\ r.cycle = LoadedCycle /\ r.shuffles = r.cycle + 1 /\ cs.start[2] = 0
    BY <1>1, <2>1 DEF ShufflesMatchCycle
  <2>3. at' = "BOL" /\ r'.cycle = cs.start[1] /\ r'.shuffles = r.shuffles
    BY <1>1, <1>14 DEF AfterRestartEOC, Interact, AtStart, Reactor
  <2> QED
    BY <1>1, <2>1, <2>2, <2>3 DEF ShufflesMatchCycle, LoadedCycle, Resumes, AtNode
<1>15. CASE AfterBOL
  <2>1. at = "BOL" /\ UNCHANGED cs /\ BeginCycle(r.cycle, r.node)
    BY <1>15 DEF AfterBOL, Interacted, unchangedBetween, unchangedCase
  <2>2. /\ r.shuffles = (IF Resumes(r.cycle) THEN r.cycle + 1 ELSE r.cycle)
        /\ cs.fromDB => r.cycle >= cs.start[1]
    BY <1>1, <2>1 DEF ShufflesMatchCycle
  <2> QED
    BY <1>1, <2>1, <2>2, BeginCycleMatches
<1>16. CASE AfterBOC
  <2>1. /\ at = "BOC" /\ UNCHANGED cs /\ todo = {}
        /\ IF halt THEN Interact("EOL", r) ELSE \E n : EnterNode(n)
    BY <1>16 DEF AfterBOC, Interacted, unchangedBetween, unchangedCase
  <2>2. CASE halt
    BY <2>1, <2>2, MatchAtRest DEF Interact
  <2>3. CASE ~halt
    <3>1. r.shuffles = r.cycle + 1 /\ (cs.fromDB => r.cycle >= cs.start[1])
      BY <1>1, <2>1, <2>3 DEF ShufflesMatchCycle
    <3> QED
      BY <1>1, <2>1, <2>3, <3>1, EnterNodeKeepsShuffles, MatchInCycle DEF AtNode
  <2> QED
    BY <2>2, <2>3
<1>17. CASE AfterEveryNode \/ AfterCoupled \/ AfterSave
  <2>1. /\ at \in AtNode /\ UNCHANGED cs
        /\ \/ LeaveNode
           \/ GoTo("save") /\ UNCHANGED r
           \/ \E k : Iterate(k)
    BY <1>17
    DEF AfterEveryNode, AfterCoupled, AfterSave, Interacted, AtNode, unchangedBetween,
        unchangedCase
  <2>2. /\ at' \in {"EOC"} \cup AtNode
        /\ r'.cycle = r.cycle /\ r'.shuffles = r.shuffles
    <3>1. CASE LeaveNode
      BY <1>1, <3>1, LeaveNodeKeepsShuffles DEF AtNode
    <3>2. CASE GoTo("save") /\ UNCHANGED r
      BY <3>2 DEF GoTo, AtNode
    <3>3. ASSUME NEW k, Iterate(k)
          PROVE  at' \in AtNode /\ r'.cycle = r.cycle /\ r'.shuffles = r.shuffles
      BY <1>1, <3>3 DEF Iterate, Interact, AtNode, Reactor
    <3> QED
      BY <2>1, <3>1, <3>2, <3>3
  <2> QED
    BY <1>2, <2>1, <2>2, MatchInCycle
<1>18. CASE AfterEOC
  <2>1. at = "EOC" /\ UNCHANGED cs /\ BeginCycle(r.cycle + 1, 0)
    BY <1>18 DEF AfterEOC, Interacted, unchangedBetween, unchangedCase
  <2>2. ~Resumes(r.cycle + 1) /\ r.shuffles = r.cycle + 1
        /\ (cs.fromDB => r.cycle + 1 >= cs.start[1])
    BY <1>1, <1>2, <2>1 DEF Resumes
  <2> QED
    BY <1>1, <2>1, <2>2, BeginCycleMatches
<1>19. CASE AfterEOL \/ HandleError
  BY <1>19, MatchAtRest DEF AfterEOL, HandleError, GoTo
<1>20. CASE ExitRun \/ Kill
  <2>1. at' \in {"exited", "killed"} /\ r' = FreshReactor
    BY <1>20 DEF ExitRun, Kill, GoTo, MemoryLost
  <2> QED
    BY <2>1 DEF FreshReactor, ShufflesMatchCycle, AtNode
<1>21. ASSUME NEW plan, NEW start, Resubmit(plan, start) PROVE ShufflesMatchCycle'
  <2>1. at' = "idle" /\ UNCHANGED r /\ r.cycle = 0 /\ r.shuffles = 0
    BY <1>1, <1>21 DEF Resubmit, GoTo, ShufflesMatchCycle
  <2> QED
    BY <2>1 DEF ShufflesMatchCycle, AtNode
<1>22. CASE UNCHANGED vars
  BY <1>h, <1>22 DEF vars
<1> QED
  BY <1>3, <1>4, <1>5, <1>6, <1>7, <1>8, <1>9, <1>10, <1>11, <1>12, <1>13, <1>14, <1>15,
     <1>16, <1>17, <1>18, <1>19, <1>20, <1>21, <1>22
  DEF Next, Step, Hook, Loop, Failure, Finished

-----------------------------------------------------------------------------
LEMMA ShufflingIsInvariant ==
  ASSUME FuelIsManaged
  PROVE  Spec => []ShufflingInvariant
<1>1. Init => ShufflingInvariant
  <2> SUFFICES ASSUME Init PROVE ShufflingInvariant
    OBVIOUS
  <2>1. ShuffledOncePerCycle
    BY ShuffledEmptyFile DEF Init, ShuffledOncePerCycle, Files, NoFile
  <2>2. ShufflesMatchCycle
    BY DEF Init, ShufflesMatchCycle, FreshReactor, AtNode
  <2> QED
    BY <2>1, <2>2 DEF ShufflingInvariant
<1>2. TypeOK /\ ShufflingInvariant /\ [Next]_vars => ShufflingInvariant'
  BY FilesStayShuffled, ReactorStaysShuffled DEF ShufflingInvariant
<1> QED
  BY <1>1, <1>2, TypeCorrect, PTL DEF Spec

(* In every file of every case that manages its fuel, each state saved for *)
(* a node of cycle c has been shuffled exactly c + 1 times.                *)
THEOREM FuelShuffledOncePerCycle ==
  ASSUME FuelIsManaged
  PROVE  Spec => []ShuffledOncePerCycle
<1>1. ShufflingInvariant => ShuffledOncePerCycle
  BY DEF ShufflingInvariant
<1> QED
  BY <1>1, ShufflingIsInvariant, PTL
-----------------------------------------------------------------------------
(* Saving. *)

NodeKey(node) == <<node[1], node[2], "">>

Here == <<r.cycle, r.node>>

(* The state of the current node has been written. *)
IsWritten ==
  \/ at \in {"saved", "EOC"}
  \/ at = "EveryNode" /\ ~TightCoupling /\ "database" \notin todo

(* The interface stack puts bookkeeping after the physics (STACK_ORDER).   *)
DatabaseIsLast == \A i \in Physics : Position[i] < Position["database"]
-----------------------------------------------------------------------------
(* What is in a file after a write or a merge. *)

LEMMA WrittenSteps ==
  ASSUME IsFile(fast), NEW key, NEW state
  PROVE  /\ DOMAIN Written(key, state).steps = DOMAIN fast.steps \cup {key}
         /\ \A k \in DOMAIN fast.steps \cup {key} :
              Written(key, state).steps[k] = IF k = key THEN state ELSE fast.steps[k]
         /\ Written(key, state).plan = fast.plan
         /\ Written(key, state).done = fast.done
<1> DEFINE steps == WithStep(fast.steps, key, state)
<1>1. /\ DOMAIN steps = DOMAIN fast.steps \cup {key}
      /\ \A k \in DOMAIN fast.steps \cup {key} :
           steps[k] = IF k = key THEN state ELSE fast.steps[k]
  BY DEF WithStep
<1> HIDE DEF steps
<1>2. /\ Written(key, state).steps = steps
      /\ Written(key, state).plan = fast.plan
      /\ Written(key, state).done = fast.done
  BY DEF Written, IsFile, steps
<1> QED
  BY <1>1, <1>2

Merged(keys) == [fast EXCEPT !.steps = OnlySteps(reload.steps, keys)]

LEMMA MergedSteps ==
  ASSUME IsFile(fast), NEW keys
  PROVE  /\ DOMAIN Merged(keys).steps = DOMAIN reload.steps \cap keys
         /\ \A k \in DOMAIN reload.steps \cap keys : Merged(keys).steps[k] = reload.steps[k]
         /\ Merged(keys).plan = fast.plan
         /\ Merged(keys).done = fast.done
<1> DEFINE steps == OnlySteps(reload.steps, keys)
<1>1. /\ DOMAIN steps = DOMAIN reload.steps \cap keys
      /\ \A k \in DOMAIN reload.steps \cap keys : steps[k] = reload.steps[k]
  BY DEF OnlySteps
<1> HIDE DEF steps
<1>2. /\ Merged(keys).steps = steps
      /\ Merged(keys).plan = fast.plan
      /\ Merged(keys).done = fast.done
  BY DEF Merged, IsFile, steps
<1> QED
  BY <1>1, <1>2

LEMMA DoneSteps ==
  ASSUME NEW f, IsFile(f), NEW success
  PROVE  /\ [f EXCEPT !.done = success].steps = f.steps
         /\ [f EXCEPT !.done = success].plan = f.plan
         /\ [f EXCEPT !.done = success].done = success
BY DEF IsFile

LEMMA EmptySteps ==
  ASSUME NEW status, NEW p
  PROVE  DOMAIN EmptyFile(status, p).steps = {} /\ EmptyFile(status, p).plan = p
BY DEF EmptyFile, NoSteps
-----------------------------------------------------------------------------
(* The ways in which a step may change the files, and the place it may be  *)
(* taken from.                                                             *)

SavesNode ==
  /\ at = "save" \/ (at = "EveryNode" /\ IsNext("database") /\ ~TightCoupling)
  /\ CanWrite(NodeKey(Here))
  /\ fast' = Written(NodeKey(Here), r)
  /\ disk' \in {disk, TornFile}
  /\ UNCHANGED <<r, cs, reload>>

ClosesFile(name) ==
  LET key == <<r.cycle, r.node, name>>
  IN /\ at = name
     /\ CanWrite(key)
     /\ disk' = [Written(key, r) EXCEPT !.done = name = "EOL"]
     /\ fast' = NoFile
     /\ UNCHANGED <<r, cs, reload>>

CopiesFile ==
  /\ h5 = "syncing"
  /\ disk' = fast
  /\ UNCHANGED <<fast, r, cs, reload>>

OpensFile == at = "idle" /\ fast' = NewFile(cs.plan) /\ UNCHANGED <<disk, cs, reload>>

MergesFile ==
  /\ at = "prep"
  /\ fast' = Merged(MergedKeys(reload.steps, cs.start))
  /\ LET prev == PreviousNode(cs.plan, cs.start[1], cs.start[2])
     IN SameHistory(reload.plan, cs.plan, prev[1], prev[2])
  /\ UNCHANGED <<disk, cs, reload>>

LeavesFile ==
  /\ fast' = NoFile
  /\ disk' = disk \/ (h5 = "open" /\ disk' = [fast EXCEPT !.done = FALSE])
  /\ UNCHANGED <<cs, reload>>

HandsOverFile ==
  /\ at \in {"exited", "killed"}
  /\ reload' = disk
  /\ disk' = NoFile
  /\ UNCHANGED fast

(* What writeDBEveryNode may do for either of its callers. *)
LEMMA WriteOutcomes ==
  ASSUME DatabaseEveryNode \/ SaveAfterCoupling
  PROVE  /\ UNCHANGED <<r, cs, reload, runs>>
         /\ \/ at = "save"
            \/ at = "EveryNode" /\ IsNext("database") /\ ~TightCoupling
         /\ \/ /\ SavesNode
               /\ UNCHANGED halt
               /\ \/ at = "save" /\ at' = "saved" /\ UNCHANGED todo
                  \/ at = "EveryNode" /\ at' = "EveryNode" /\ todo' = todo \ {"database"}
               /\ \/ h5' = "syncing" /\ disk' = TornFile
                  \/ h5' = "open" /\ disk' = disk /\ (SyncAfterWrite => CopyMayFail)
            \/ /\ SavesNode
               /\ CopyMayFail /\ faults' = faults + 1
               /\ h5' = "shut" /\ at' = "error" /\ todo' = {} /\ ~halt' /\ disk' = disk
            \/ /\ ~CanWrite(NodeKey(Here))
               /\ UNCHANGED <<h5, fast, disk>> /\ at' = "error" /\ todo' = {} /\ ~halt'
<1>1. NodeKey(Here) = <<r.cycle, r.node, "">>
  BY DEF NodeKey, Here
<1> DEFINE key == NodeKey(Here)
           Returned == \/ at = "save" /\ at' = "saved" /\ UNCHANGED todo
                       \/ at = "EveryNode" /\ HookReturns("database")
<1> HIDE DEF key
<1>2. /\ UNCHANGED <<cs, reload, runs>>
      /\ at = "save" \/ (at = "EveryNode" /\ IsNext("database") /\ ~TightCoupling)
  BY DEF DatabaseEveryNode, SaveAfterCoupling, unchangedCase
<1>3. \/ /\ CanWrite(key)
         /\ fast' = Written(key, r)
         /\ IF SyncAfterWrite THEN BeginSync ELSE UNCHANGED <<h5, disk>>
         /\ Returned
         /\ UNCHANGED <<halt, r, bocKeff, faults>>
      \/ /\ CanWrite(key) /\ SyncAfterWrite /\ CopyMayFail
         /\ Fault
         /\ fast' = Written(key, r)
         /\ UNCHANGED disk
         /\ IF disk.status = "none"
            THEN h5' = "shut" /\ Raise
            ELSE UNCHANGED <<h5, halt, r, bocKeff>> /\ Returned
      \/ ~CanWrite(key) /\ UNCHANGED <<dbVars, faults>> /\ Raise
  BY <1>1 DEF DatabaseEveryNode, SaveAfterCoupling, WriteDBEveryNode, key
<1>4. Returned => \/ at = "save" /\ at' = "saved" /\ UNCHANGED todo
                  \/ at = "EveryNode" /\ at' = "EveryNode" /\ todo' = todo \ {"database"}
  BY DEF HookReturns
<1>5. CanWrite(key) => h5 = "open"
  BY DEF CanWrite
<1> HIDE DEF Returned
<1>6. CASE /\ CanWrite(key)
           /\ fast' = Written(key, r)
           /\ IF SyncAfterWrite THEN BeginSync ELSE UNCHANGED <<h5, disk>>
           /\ Returned
           /\ UNCHANGED <<halt, r, bocKeff, faults>>
  BY <1>2, <1>4, <1>5, <1>6 DEF SavesNode, BeginSync, key
<1>7. CASE /\ CanWrite(key) /\ SyncAfterWrite /\ CopyMayFail
           /\ Fault
           /\ fast' = Written(key, r)
           /\ UNCHANGED disk
           /\ IF disk.status = "none"
              THEN h5' = "shut" /\ Raise
              ELSE UNCHANGED <<h5, halt, r, bocKeff>> /\ Returned
  BY <1>2, <1>4, <1>5, <1>7 DEF SavesNode, Raise, GoTo, Fault, key
<1>8. CASE ~CanWrite(key) /\ UNCHANGED <<dbVars, faults>> /\ Raise
  BY <1>2, <1>8 DEF Raise, GoTo, dbVars, key
<1> QED
  BY <1>3, <1>6, <1>7, <1>8

LEMMA FileMoves ==
  ASSUME [Next]_vars
  PROVE  \/ UNCHANGED <<fast, disk, reload>>
         \/ SavesNode \/ ClosesFile("EOL") \/ ClosesFile("error") \/ CopiesFile
         \/ OpensFile \/ MergesFile \/ LeavesFile \/ HandsOverFile
<1>2. CASE DatabaseEveryNode \/ SaveAfterCoupling
  BY <1>2, WriteOutcomes
<1>3. CASE DatabaseEOL
  <2>1. CanWrite(<<r.cycle, r.node, "EOL">>) => h5 = "open"
    BY DEF CanWrite
  <2> QED
    BY <1>3, <2>1 DEF DatabaseEOL, ClosesFile, CloseFile, dbVars, unchangedCase
<1>4. CASE HandleError
  <2>1. CanWrite(<<r.cycle, r.node, "error">>) => h5 = "open"
    BY DEF CanWrite
  <2> QED
    BY <1>4, <2>1 DEF HandleError, ClosesFile, CloseFile, dbVars, unchangedBetween, unchangedCase
<1>5. CASE Synced \/ CopyCutShort
  BY <1>5 DEF Synced, CopyCutShort, FinishSync, ShortSync, CopiesFile, unchangedCase
<1>6. CASE StartRun
  BY <1>6 DEF StartRun, OpenForWriting, OpensFile, unchangedBetween, unchangedCase
<1>7. CASE PrepRestart
  BY <1>7 DEF PrepRestart, MergeHistory, MergesFile, Merged, dbVars, unchangedBetween, unchangedCase
<1>8. CASE ExitRun \/ Kill
  BY <1>8 DEF ExitRun, ExitProcess, Kill, LoseProcess, LeavesFile, unchangedCase
<1>9. ASSUME NEW plan, NEW start, Resubmit(plan, start) PROVE HandsOverFile
  BY <1>9 DEF Resubmit, HandsOverFile
<1>10. ASSUME NEW i, HookSkipped(i) \/ PhysicsBOC(i) \/ Solve(i) \/ IdleHook(i) \/ HookRaises(i)
       PROVE  UNCHANGED <<fast, disk, reload>>
  BY <1>10 DEF HookSkipped, PhysicsBOC, Solve, IdleHook, HookRaises, dbVars, unchangedCase
<1>11. ASSUME \/ FuelHandlerBOC \/ AfterRestart \/ AfterRestartEOC \/ AfterBOL \/ AfterBOC
              \/ AfterEveryNode \/ AfterCoupled \/ AfterSave \/ AfterEOC \/ AfterEOL
       PROVE  UNCHANGED <<fast, disk, reload>>
  BY <1>11
  DEF FuelHandlerBOC, AfterRestart, AfterRestartEOC, AfterBOL, AfterBOC, AfterEveryNode,
      AfterCoupled, AfterSave, AfterEOC, AfterEOL, dbVars, unchangedBetween, unchangedCase
<1>12. CASE UNCHANGED vars
  BY <1>12 DEF vars
<1> QED
  BY <1>2, <1>3, <1>4, <1>5, <1>6, <1>7, <1>8, <1>9, <1>10, <1>11, <1>12
  DEF Next, Step, Hook, Loop, Failure, Finished
-----------------------------------------------------------------------------
(* No stale physics is saved: the results in memory are those of the node  *)
(* and the iteration as far as the hooks have run.                         *)

PhysicsOn == Physics \ Disabled

Iterated == TightCoupling /\ r.cycle \notin SkipCycles

SolvedState(state, c, n) ==
  /\ \A i \in PhysicsOn : state.solved[i] = <<c, n, state.iter>>
  /\ TightCoupling /\ c \notin SkipCycles => state.iter > 0

SolvedInFile(f) == \A k \in Saved(f) : SolvedState(f.steps[k], k[1], k[2])

SolvesMatch ==
  /\ at \in {"BOC"} \cup AtNode /\ ~Iterated => r.iter = 0
  /\ at = "EveryNode" =>
       /\ \A i \in PhysicsOn \ todo : r.solved[i] = <<r.cycle, r.node, 0>>
       /\ IsWritten => todo \cap Physics = {}
  /\ at = "Coupled" =>
       /\ Iterated /\ r.iter > 0
       /\ \A i \in PhysicsOn \ todo : r.solved[i] = <<r.cycle, r.node, r.iter>>
  /\ at \in {"save", "saved"} => TightCoupling /\ SolvedState(r, r.cycle, r.node)

WrittenAsLeft ==
  at \in AtNode /\ IsWritten =>
    NodeKey(Here) \in DOMAIN fast.steps /\ fast.steps[NodeKey(Here)] = r

SolvingInvariant ==
  /\ \A f \in Files : SolvedInFile(f)
  /\ SolvesMatch
  /\ WrittenAsLeft

LEMMA SolvedByFile == SolvedAtNode <=> \A f \in Files : SolvedInFile(f)
BY DEF SolvedAtNode, SolvedInFile, SolvedState, PhysicsOn

LEMMA SolvedEmptyFile == ASSUME NEW status, NEW p PROVE SolvedInFile(EmptyFile(status, p))
BY EmptySteps DEF SolvedInFile, Saved

(* Whatever file a step makes out of a file keeps the file's promise. *)
LEMMA SolvedSubfile ==
  ASSUME NEW f, SolvedInFile(f), NEW g,
         \A k \in DOMAIN g.steps : k \in DOMAIN f.steps /\ g.steps[k] = f.steps[k]
  PROVE  SolvedInFile(g)
BY DEF SolvedInFile, Saved

LEMMA SolvedWritten ==
  ASSUME IsFile(fast), SolvedInFile(fast), NEW name,
         name = "" => SolvedState(r, r.cycle, r.node)
  PROVE  SolvedInFile(Written(<<r.cycle, r.node, name>>, r))
<1> DEFINE key == <<r.cycle, r.node, name>>
           file == Written(key, r)
<1>1. key[1] = r.cycle /\ key[2] = r.node /\ key[3] = name
  OBVIOUS
<1> HIDE DEF key
<1>2. /\ DOMAIN file.steps = DOMAIN fast.steps \cup {key}
      /\ \A k \in DOMAIN fast.steps \cup {key} :
           file.steps[k] = IF k = key THEN r ELSE fast.steps[k]
  BY WrittenSteps
<1> HIDE DEF file
<1>3. SolvedInFile(file)
  BY <1>1, <1>2 DEF SolvedInFile, Saved
<1> QED
  BY <1>3 DEF file, key

(* When the database's hook has its turn at a node, all physics has run.   *)
LEMMA PhysicsRanBefore ==
  ASSUME DatabaseIsLast, IsNext("database"), at = "EveryNode"
  PROVE  todo \cap Physics = {}
<1> SUFFICES ASSUME NEW i \in todo \cap Physics PROVE FALSE
  OBVIOUS
<1>1. i # "database" /\ i \in Interfaces
  BY StackAssumption
<1>2. Position["database"] < Position[i] /\ Position[i] < Position["database"]
  BY <1>1 DEF IsNext, Precedes, DatabaseIsLast
<1>3. Position["database"] \in Nat /\ Position[i] \in Nat
  BY <1>1, StackAssumption
<1> QED
  BY <1>2, <1>3

(* At a write of a node, the reactor holds that node's solution. *)
LEMMA SavedAsSolved ==
  ASSUME DatabaseIsLast, TypeOK, SolvesMatch, SavesNode
  PROVE  SolvedState(r, r.cycle, r.node)
<1>1. CASE at = "save"
  BY <1>1 DEF SolvesMatch
<1>2. CASE at = "EveryNode" /\ IsNext("database") /\ ~TightCoupling
  <2>1. todo \cap Physics = {}
    BY <1>2, PhysicsRanBefore
  <2>2. r.iter = 0 /\ \A i \in PhysicsOn \ todo : r.solved[i] = <<r.cycle, r.node, 0>>
    BY <1>2 DEF SolvesMatch, Iterated, AtNode
  <2> QED
    BY <1>2, <2>1, <2>2 DEF SolvedState, PhysicsOn
<1> QED
  BY <1>1, <1>2 DEF SavesNode

LEMMA FilesStaySolved ==
  ASSUME DatabaseIsLast, TypeOK, SolvingInvariant, [Next]_vars
  PROVE  \A f \in Files' : SolvedInFile(f)
<1>1. /\ IsFile(fast) /\ IsFile(disk) /\ IsFile(reload)
      /\ SolvedInFile(fast) /\ SolvedInFile(disk) /\ SolvedInFile(reload)
      /\ SolvesMatch
  BY DEF TypeOK, FilesOK, SolvingInvariant, Files
<1>2. /\ SolvedInFile(NoFile) /\ SolvedInFile(TornFile)
      /\ \A p \in Plans : SolvedInFile(NewFile(p))
  BY SolvedEmptyFile DEF NoFile, TornFile, NewFile
<1> SUFFICES SolvedInFile(fast') /\ SolvedInFile(disk') /\ SolvedInFile(reload')
  BY DEF Files
<1>3. CASE UNCHANGED <<fast, disk, reload>> \/ CopiesFile \/ HandsOverFile
  BY <1>1, <1>2, <1>3 DEF CopiesFile, HandsOverFile
<1>4. CASE SavesNode
  <2>1. SolvedInFile(Written(NodeKey(Here), r))
    BY <1>1, <1>4, SavedAsSolved, SolvedWritten DEF NodeKey, Here
  <2> QED
    BY <1>1, <1>2, <1>4, <2>1 DEF SavesNode
<1>5. ASSUME NEW name \in {"EOL", "error"}, ClosesFile(name)
      PROVE  SolvedInFile(fast') /\ SolvedInFile(disk') /\ SolvedInFile(reload')
  <2> DEFINE file == Written(<<r.cycle, r.node, name>>, r)
  <2>1. SolvedInFile(file) /\ IsFile(file)
    BY <1>1, SolvedWritten, WrittenIsFile, KeyTypes DEF StatepointNames, TypeOK, LoopOK
  <2>2. disk' = [file EXCEPT !.done = name = "EOL"] /\ fast' = NoFile /\ reload' = reload
    BY <1>5 DEF ClosesFile
  <2> HIDE DEF file
  <2>4. disk'.steps = file.steps
    BY <2>1, <2>2, DoneSteps
  <2>3. SolvedInFile(disk')
    BY <2>1, <2>4, SolvedSubfile
  <2> QED
    BY <1>1, <1>2, <2>2, <2>3
<1>6. CASE OpensFile
  BY <1>1, <1>2, <1>6 DEF OpensFile, TypeOK, CaseOK
<1>7. CASE MergesFile
  <2> DEFINE file == Merged(MergedKeys(reload.steps, cs.start))
  <2>2. \A k \in DOMAIN file.steps : k \in DOMAIN reload.steps /\ file.steps[k] = reload.steps[k]
    BY <1>1, MergedSteps
  <2>3. fast' = file
    BY <1>7 DEF MergesFile
  <2> HIDE DEF file
  <2>1. SolvedInFile(fast')
    BY <1>1, <2>2, <2>3, SolvedSubfile
  <2> QED
    BY <1>1, <1>7, <2>1 DEF MergesFile
<1>8. CASE LeavesFile
  <2>2. [fast EXCEPT !.done = FALSE].steps = fast.steps
    BY <1>1, DoneSteps
  <2>1. SolvedInFile([fast EXCEPT !.done = FALSE])
    BY <1>1, <2>2, SolvedSubfile
  <2> QED
    BY <1>1, <1>2, <1>8, <2>1 DEF LeavesFile
<1> QED
  BY <1>3, <1>4, <1>5, <1>6, <1>7, <1>8, FileMoves
-----------------------------------------------------------------------------
(* Moving on to a place that promises nothing of the solution. *)
LEMMA SolvesElsewhere ==
  ASSUME at' \notin {"BOC"} \cup AtNode
  PROVE  SolvesMatch' /\ WrittenAsLeft'
BY DEF SolvesMatch, WrittenAsLeft, AtNode

LEMMA SolvesEnterNode ==
  ASSUME r \in Reactor, ~Iterated => r.iter = 0, NEW n, EnterNode(n)
  PROVE  SolvesMatch' /\ WrittenAsLeft'
<1> DEFINE dt == IF n = 0 THEN 0 ELSE StepLengths[cs.plan][r.cycle][n]
<1>1. /\ at' = "EveryNode" /\ r' = [r EXCEPT !.node = n, !.time = @ + dt]
      /\ todo' = Active("EveryNode", r'.cycle)
  BY DEF EnterNode, Interact
<1>2. r'.cycle = r.cycle /\ r'.iter = r.iter
  BY <1>1 DEF Reactor
<1>3. PhysicsOn \subseteq todo' /\ "database" \in todo'
  BY <1>1, StackAssumption DEF PhysicsOn, Active
<1> QED
  BY <1>1, <1>2, <1>3 DEF SolvesMatch, WrittenAsLeft, IsWritten, Iterated, AtNode

LEMMA SolvesLeaveNode ==
  ASSUME r \in Reactor, ~Iterated => r.iter = 0, LeaveNode
  PROVE  SolvesMatch' /\ WrittenAsLeft'
BY SolvesEnterNode, SolvesElsewhere DEF LeaveNode, Interact, AtNode

LEMMA SolvesBeginCycle ==
  ASSUME r \in Reactor, NEW c, NEW n, BeginCycle(c, n)
  PROVE  SolvesMatch' /\ WrittenAsLeft'
<1>1. CASE at' = "BOC"
  <2>1. r' = [r EXCEPT !.cycle = c, !.node = n, !.iter = 0, !.outage = Outage[cs.plan][c]]
    BY <1>1 DEF BeginCycle, Interact
  <2>2. r'.iter = 0
    BY <2>1 DEF Reactor
  <2> QED
    BY <1>1, <2>2 DEF SolvesMatch, WrittenAsLeft, AtNode
<1>2. CASE at' # "BOC"
  BY <1>2, SolvesElsewhere DEF BeginCycle, Interact, AtNode
<1> QED
  BY <1>1, <1>2

LEMMA SolvesIterate ==
  ASSUME r \in Reactor, Iterated, NEW k, k > 0, Iterate(k)
  PROVE  SolvesMatch' /\ WrittenAsLeft'
<1>1. /\ at' = "Coupled" /\ r' = [r EXCEPT !.iter = k]
      /\ todo' = Active("Coupled", r'.cycle)
  BY DEF Iterate, Interact
<1>2. r'.cycle = r.cycle /\ r'.iter = k
  BY <1>1 DEF Reactor
<1>3. PhysicsOn \subseteq todo'
  BY <1>1, StackAssumption DEF PhysicsOn, Active
<1> QED
  BY <1>1, <1>2, <1>3 DEF SolvesMatch, WrittenAsLeft, IsWritten, Iterated, AtNode

(* A hook that leaves the solution alone, and does not write, keeps what   *)
(* is known of it.                                                         *)
LEMMA SolvesHook ==
  ASSUME SolvesMatch, WrittenAsLeft, NEW i, todo' = todo \ {i}, UNCHANGED <<at, fast>>,
         i \notin PhysicsOn \/ at \notin AtNode \/ r # r',
         at \in AtNode => r' = r,
         r'.cycle = r.cycle /\ r'.iter = r.iter,
         i = "database" => ~(at = "EveryNode" /\ ~TightCoupling)
  PROVE  SolvesMatch' /\ WrittenAsLeft'
<1>1. IsWritten' <=> IsWritten
  BY DEF IsWritten
<1>2. Iterated' <=> Iterated
  BY DEF Iterated
<1>3. CASE at \in AtNode
  <2>1. r' = r /\ PhysicsOn \ todo' = PhysicsOn \ todo
    BY <1>3
  <2>2. SolvesMatch'
    BY <1>1, <1>2, <2>1 DEF SolvesMatch, AtNode
  <2>3. WrittenAsLeft'
    BY <1>1, <2>1 DEF WrittenAsLeft, Here
  <2> QED
    BY <2>2, <2>3
<1>4. CASE at \notin AtNode
  BY <1>2, <1>4 DEF SolvesMatch, WrittenAsLeft, AtNode
<1> QED
  BY <1>3, <1>4

LEMMA SolutionStays ==
  ASSUME DatabaseIsLast, TypeOK, SolvingInvariant, [Next]_vars
  PROVE  SolvesMatch' /\ WrittenAsLeft'
<1>1. r \in Reactor /\ IsFile(fast) /\ SolvesMatch /\ WrittenAsLeft
  BY DEF TypeOK, LoopOK, FilesOK, SolvingInvariant
<1>2. at \in AtNode /\ ~Iterated => r.iter = 0
  BY <1>1 DEF SolvesMatch
<1>3. CASE FuelHandlerBOC
  <2>1. /\ at = "BOC" /\ todo' = todo \ {"fuelHandler"} /\ UNCHANGED <<at, fast>>
        /\ r' = r \/ r' = [r EXCEPT !.shuffles = @ + 1]
    BY <1>3 DEF FuelHandlerBOC, HookReturns
  <2>2. r'.cycle = r.cycle /\ r'.iter = r.iter
    BY <1>1, <2>1 DEF Reactor
  <2> QED
    BY <1>1, <2>1, <2>2, SolvesHook DEF AtNode
<1>4. ASSUME NEW i, HookSkipped(i) PROVE SolvesMatch' /\ WrittenAsLeft'
  <2>1. at = "BOC" /\ todo' = todo \ {i} /\ UNCHANGED <<at, fast, r>>
    BY <1>4 DEF HookSkipped, HookReturns, TypeOK, LoopOK
  <2> QED
    BY <1>1, <2>1, SolvesHook DEF AtNode
<1>5. ASSUME NEW i, PhysicsBOC(i) PROVE SolvesMatch' /\ WrittenAsLeft'
  <2>1. /\ at = "BOC" /\ todo' = todo \ {i} /\ UNCHANGED <<at, fast>>
        /\ r' = r \/ r' = [r EXCEPT !.swing = Never]
    BY <1>5 DEF PhysicsBOC, HookReturns
  <2>2. r'.cycle = r.cycle /\ r'.iter = r.iter
    BY <1>1, <2>1 DEF Reactor
  <2> QED
    BY <1>1, <2>1, <2>2, SolvesHook DEF AtNode
<1>6. ASSUME NEW i, IdleHook(i) PROVE SolvesMatch' /\ WrittenAsLeft'
  <2>1. todo' = todo \ {i} /\ UNCHANGED <<at, fast, r>> /\ Idles(i, at)
    BY <1>6 DEF IdleHook, HookReturns
  <2>2. i = "database" => ~(at = "EveryNode" /\ ~TightCoupling)
    BY <2>1 DEF Idles
  <2>3. i \notin PhysicsOn \/ at \notin AtNode
    <3>1. CASE i \in Physics
      <4>1. i # "fuelHandler" /\ i # "database"
        BY <3>1, StackAssumption
      <4>2. at \notin {"EveryNode", "Coupled"}
        BY <2>1, <3>1, <4>1 DEF Idles
      <4>3. at \in InteractionPoints
        BY <1>6 DEF IdleHook, IsNext
      <4> QED
        BY <4>2, <4>3 DEF InteractionPoints, AtNode
    <3>2. CASE i \notin Physics
      BY <3>2 DEF PhysicsOn
    <3> QED
      BY <3>1, <3>2
  <2> QED
    BY <1>1, <2>1, <2>2, <2>3, SolvesHook
<1>7. ASSUME NEW i \in Interfaces, Solve(i) PROVE SolvesMatch' /\ WrittenAsLeft'
  <2> DEFINE stamp == <<r.cycle, r.node, IF at = "Coupled" THEN r.iter ELSE 0>>
             solved == [r EXCEPT !.solved[i] = stamp]
  <2>1. /\ at \in {"EveryNode", "Coupled"} /\ i \in Physics /\ todo' = todo \ {i} /\ i \in todo
        /\ UNCHANGED <<at, fast>>
    BY <1>7 DEF Solve, HookReturns, IsNext
  <2>2. \/ r' = solved
        \/ \E keff : r' = [solved EXCEPT !.swing = keff]
    BY <1>7 DEF Solve
  <2>3. /\ r'.cycle = r.cycle /\ r'.node = r.node /\ r'.iter = r.iter
        /\ r'.solved = [r.solved EXCEPT ![i] = stamp]
    BY <1>1, <2>2 DEF Reactor
  <2>4. r.solved \in [Physics -> (Nat \cup {Never}) \X (Nat \cup {Never}) \X (Nat \cup {Never})]
    BY <1>1 DEF Reactor
  <2> HIDE DEF stamp
  <2>5. \A j \in Physics : r'.solved[j] = IF j = i THEN stamp ELSE r.solved[j]
    BY <2>3, <2>4
  <2>6. PhysicsOn \subseteq Physics
    BY DEF PhysicsOn
  <2>7. Iterated' <=> Iterated
    BY <2>3 DEF Iterated
  <2>8. at = "EveryNode" => ~IsWritten /\ ~IsWritten'
    <3>1. i # "database"
      BY <2>1, StackAssumption
    <3> QED
      BY <1>1, <2>1, <3>1 DEF SolvesMatch, IsWritten
  <2>9. SolvesMatch'
    <3>1. CASE at = "EveryNode"
      <4>1. stamp = <<r'.cycle, r'.node, 0>>
        BY <2>3, <3>1 DEF stamp
      <4>2. \A j \in PhysicsOn \ todo' : r'.solved[j] = <<r'.cycle, r'.node, 0>>
        BY <1>1, <2>1, <2>3, <2>5, <2>6, <3>1, <4>1 DEF SolvesMatch
      <4> QED
        BY <1>1, <2>1, <2>3, <2>7, <2>8, <3>1, <4>2 DEF SolvesMatch, AtNode
    <3>2. CASE at = "Coupled"
      <4>1. stamp = <<r'.cycle, r'.node, r'.iter>>
        BY <2>3, <3>2 DEF stamp
      <4>2. \A j \in PhysicsOn \ todo' : r'.solved[j] = <<r'.cycle, r'.node, r'.iter>>
        BY <1>1, <2>1, <2>3, <2>5, <2>6, <3>2, <4>1 DEF SolvesMatch
      <4> QED
        BY <1>1, <2>1, <2>3, <2>7, <3>2, <4>2 DEF SolvesMatch, AtNode
    <3> QED
      BY <2>1, <3>1, <3>2
  <2>10. WrittenAsLeft'
    BY <2>1, <2>8 DEF WrittenAsLeft, IsWritten
  <2> QED
    BY <2>9, <2>10
<1>8. CASE DatabaseEveryNode \/ SaveAfterCoupling
  <2>1. CASE at' = "error"
    BY <2>1, SolvesElsewhere DEF AtNode
  <2>2. CASE at' # "error"
    <3>1. /\ SavesNode
          /\ \/ at = "save" /\ at' = "saved"
             \/ /\ at = "EveryNode" /\ at' = "EveryNode" /\ todo' = todo \ {"database"}
                /\ IsNext("database") /\ ~TightCoupling
      BY <1>8, <2>2, WriteOutcomes
    <3>2. r' = r /\ fast' = Written(NodeKey(Here), r)
      BY <3>1 DEF SavesNode
    <3>3. NodeKey(Here) \in DOMAIN fast'.steps /\ fast'.steps[NodeKey(Here)] = r
      BY <1>1, <3>2, WrittenSteps
    <3>4. WrittenAsLeft'
      BY <3>2, <3>3 DEF WrittenAsLeft, Here
    <3>5. SolvedState(r, r.cycle, r.node)
      BY <1>1, <3>1, SavedAsSolved
    <3>6. SolvesMatch'
      <4>1. CASE at = "save"
        BY <1>1, <1>2, <3>1, <3>2, <3>5, <4>1 DEF SolvesMatch, Iterated, AtNode
      <4>2. CASE at = "EveryNode"
        <5>1. todo \cap Physics = {}
          BY <3>1, <4>2, PhysicsRanBefore
        <5>2. PhysicsOn \ todo' = PhysicsOn \ todo /\ todo' \cap Physics = {}
          BY <3>1, <4>2, <5>1, StackAssumption DEF PhysicsOn
        <5> QED
          BY <1>1, <1>2, <3>1, <3>2, <4>2, <5>2 DEF SolvesMatch, Iterated, AtNode
      <4> QED
        BY <3>1, <4>1, <4>2
    <3> QED
      BY <3>4, <3>6
  <2> QED
    BY <2>1, <2>2
<1>9. CASE DatabaseEOL
  BY <1>9, SolvesElsewhere DEF DatabaseEOL, HookReturns, Raise, GoTo, AtNode
<1>10. ASSUME NEW i, HookRaises(i) PROVE SolvesMatch' /\ WrittenAsLeft'
  BY <1>10, SolvesElsewhere DEF HookRaises, Raise, GoTo, AtNode
<1>11. CASE Synced \/ CopyCutShort
  <2>1. UNCHANGED <<at, todo, r, fast>>
    BY <1>11 DEF Synced, CopyCutShort, FinishSync, ShortSync
  <2> QED
    BY <1>1, <2>1 DEF SolvesMatch, WrittenAsLeft, IsWritten, Iterated, Here
<1>12. CASE \/ StartRun \/ PrepRestart \/ AfterRestart \/ AfterRestartEOC \/ AfterEOL
            \/ HandleError \/ ExitRun \/ Kill
  BY <1>12, SolvesElsewhere
  DEF StartRun, PrepRestart, AfterRestart, AfterRestartEOC, AfterEOL, HandleError, ExitRun, Kill,
      Interact, GoTo, AtNode
<1>13. ASSUME NEW plan, NEW start, Resubmit(plan, start) PROVE SolvesMatch' /\ WrittenAsLeft'
  BY <1>13, SolvesElsewhere DEF Resubmit, GoTo, AtNode
<1>14. CASE AfterBOL \/ AfterEOC
  BY <1>1, <1>14, SolvesBeginCycle DEF AfterBOL, AfterEOC
<1>15. CASE AfterBOC
  <2>1. at = "BOC" /\ (Interact("EOL", r) \/ \E n : EnterNode(n))
    BY <1>15 DEF AfterBOC, Interacted
  <2>2. ~Iterated => r.iter = 0
    BY <1>1, <2>1 DEF SolvesMatch
  <2>3. CASE Interact("EOL", r)
    BY <2>3, SolvesElsewhere DEF Interact, AtNode
  <2> QED
    BY <1>1, <2>1, <2>2, <2>3, SolvesEnterNode
<1>16. CASE AfterEveryNode
  <2>1. /\ at = "EveryNode" /\ todo = {}
        /\ \/ ~TightCoupling /\ LeaveNode
           \/ TightCoupling /\ r.cycle \in SkipCycles /\ GoTo("save") /\ UNCHANGED r
           \/ TightCoupling /\ r.cycle \notin SkipCycles /\ Iterate(1)
    BY <1>16 DEF AfterEveryNode, Interacted
  <2>2. CASE ~TightCoupling /\ LeaveNode
    BY <1>1, <1>2, <2>1, <2>2, SolvesLeaveNode DEF AtNode
  <2>3. CASE TightCoupling /\ r.cycle \in SkipCycles /\ GoTo("save") /\ UNCHANGED r
    <3>1. r.iter = 0 /\ \A i \in PhysicsOn : r.solved[i] = <<r.cycle, r.node, 0>>
      BY <1>1, <1>2, <2>1, <2>3 DEF SolvesMatch, Iterated, AtNode
    <3>2. SolvedState(r, r.cycle, r.node)
      BY <2>3, <3>1 DEF SolvedState
    <3> QED
      BY <2>3, <3>1, <3>2 DEF SolvesMatch, WrittenAsLeft, IsWritten, GoTo, AtNode
  <2>4. CASE TightCoupling /\ r.cycle \notin SkipCycles /\ Iterate(1)
    BY <1>1, <2>4, SolvesIterate DEF Iterated
  <2> QED
    BY <2>1, <2>2, <2>3, <2>4
<1>17. CASE AfterCoupled
  <2>1. /\ at = "Coupled" /\ todo = {}
        /\ (GoTo("save") /\ UNCHANGED r) \/ Iterate(r.iter + 1)
    BY <1>17 DEF AfterCoupled, Interacted
  <2>2. Iterated /\ r.iter > 0 /\ SolvedState(r, r.cycle, r.node)
    BY <1>1, <2>1 DEF SolvesMatch, SolvedState
  <2>3. r.iter + 1 > 0
    BY <1>1, <2>2, SettingAssumption DEF Reactor
  <2>4. CASE GoTo("save") /\ UNCHANGED r
    BY <2>2, <2>4 DEF SolvesMatch, WrittenAsLeft, IsWritten, Iterated, GoTo, AtNode
  <2> QED
    BY <1>1, <2>1, <2>2, <2>3, <2>4, SolvesIterate
<1>18. CASE AfterSave
  BY <1>1, <1>2, <1>18, SolvesLeaveNode DEF AfterSave, AtNode
<1>19. CASE UNCHANGED vars
  BY <1>1, <1>19 DEF vars, SolvesMatch, WrittenAsLeft, IsWritten, Iterated, Here
<1> QED
  BY <1>3, <1>4, <1>5, <1>6, <1>7, <1>8, <1>9, <1>10, <1>11, <1>12, <1>13, <1>14, <1>15,
     <1>16, <1>17, <1>18, <1>19
  DEF Next, Step, Hook, Loop, Failure, Finished
-----------------------------------------------------------------------------
LEMMA SolvingIsInvariant ==
  ASSUME DatabaseIsLast
  PROVE  Spec => []SolvingInvariant
<1>1. Init => SolvingInvariant
  <2> SUFFICES ASSUME Init PROVE SolvingInvariant
    OBVIOUS
  <2>1. \A f \in Files : SolvedInFile(f)
    BY SolvedEmptyFile DEF Init, Files, NoFile
  <2>2. SolvesMatch /\ WrittenAsLeft
    BY DEF Init, SolvesMatch, WrittenAsLeft, AtNode
  <2> QED
    BY <2>1, <2>2 DEF SolvingInvariant
<1>2. TypeOK /\ SolvingInvariant /\ [Next]_vars => SolvingInvariant'
  <2> SUFFICES ASSUME TypeOK, SolvingInvariant, [Next]_vars PROVE SolvingInvariant'
    OBVIOUS
  <2>1. \A f \in Files' : SolvedInFile(f)
    BY FilesStaySolved
  <2>2. (\A f \in Files : SolvedInFile(f))'
    BY <2>1 DEF SolvedInFile, SolvedState, Saved
  <2> QED
    BY <2>2, SolutionStays DEF SolvingInvariant
<1> QED
  BY <1>1, <1>2, TypeCorrect, PTL DEF Spec

(* In every file, the state saved for a node holds the results that every  *)
(* enabled physics interface computed at that node, in its last iteration. *)
THEOREM PhysicsIsCurrent ==
  ASSUME DatabaseIsLast
  PROVE  Spec => []SolvedAtNode
<1>1. SolvingInvariant => SolvedAtNode
  BY SolvedByFile DEF SolvingInvariant
<1> QED
  BY <1>1, SolvingIsInvariant, PTL

(* A run that leaves a node has saved it exactly as it leaves it. *)
THEOREM NodesAreSaved ==
  ASSUME DatabaseIsLast
  PROVE  Spec => LeftNodesAreSaved
<1> DEFINE left == at \in AtNode /\ at' \in AtNode \cup {"EOC"}
                   /\ (at' = "EOC" \/ r'.node # r.node)
           key == <<r.cycle, r.node, "">>
           Kept == left => key \in Saved(fast) /\ fast.steps[key] = r
<1>1. ASSUME TypeOK, SolvingInvariant, [Next]_vars PROVE Kept
  <2> SUFFICES ASSUME left PROVE key \in Saved(fast) /\ fast.steps[key] = r
    OBVIOUS
  <2>1. r \in Reactor
    BY <1>1 DEF TypeOK, LoopOK
  <2>2. ASSUME r' = r, at' = at PROVE FALSE
    BY <2>2 DEF AtNode
  <2>3. LeaveNode /\ IsWritten
    <3>1. CASE AfterSave
      BY <3>1 DEF AfterSave, IsWritten
    <3>2. CASE AfterEveryNode
      <4>1. TightCoupling => r'.node = r.node /\ at' # "EOC"
        BY <2>1, <3>2 DEF AfterEveryNode, Iterate, Interact, GoTo, Reactor
      <4> QED
        BY <3>2, <4>1 DEF AfterEveryNode, Interacted, IsWritten
    <3>3. CASE AfterCoupled
      <4>1. r'.node = r.node /\ at' # "EOC"
        BY <2>1, <3>3 DEF AfterCoupled, Iterate, Interact, GoTo, Reactor
      <4> QED
        BY <4>1
    <3>4. ASSUME NEW i \in Interfaces, Solve(i) PROVE FALSE
      BY <2>1, <3>4 DEF Solve, HookReturns, Reactor, AtNode
    <3>5. ASSUME NEW i \in Interfaces, HookSkipped(i) \/ IdleHook(i) PROVE FALSE
      BY <2>2, <3>5 DEF HookSkipped, IdleHook, HookReturns
    <3>6. ASSUME NEW i \in Interfaces, PhysicsBOC(i) PROVE FALSE
      BY <3>6 DEF PhysicsBOC, AtNode
    <3>7. CASE DatabaseEveryNode \/ SaveAfterCoupling
      BY <3>7, WriteOutcomes DEF AtNode
    <3>8. CASE FuelHandlerBOC \/ DatabaseEOL
      BY <3>8 DEF FuelHandlerBOC, DatabaseEOL, AtNode
    <3>9. CASE Synced \/ CopyCutShort \/ UNCHANGED vars
      BY <2>2, <3>9 DEF Synced, CopyCutShort, vars
    <3>10. CASE \/ StartRun \/ PrepRestart \/ AfterRestart \/ AfterRestartEOC \/ AfterBOL \/ AfterBOC
                \/ AfterEOC \/ AfterEOL \/ HandleError \/ ExitRun
      BY <3>10
      DEF StartRun, PrepRestart, AfterRestart, AfterRestartEOC, AfterBOL, AfterBOC, AfterEOC,
          AfterEOL, HandleError, ExitRun, Interacted, AtNode
    <3>11. CASE Kill \/ \E i \in Interfaces : HookRaises(i)
      BY <3>11 DEF Kill, HookRaises, Raise, GoTo, AtNode
    <3>12. ASSUME NEW plan, NEW start, Resubmit(plan, start) PROVE FALSE
      BY <3>12 DEF Resubmit, AtNode
    <3> QED
      BY <1>1, <3>1, <3>2, <3>3, <3>4, <3>5, <3>6, <3>7, <3>8, <3>9, <3>10, <3>11, <3>12
      DEF Next, Step, Hook, Loop, Failure, Finished
  <2>4. key = NodeKey(Here) /\ key[3] = ""
    BY DEF NodeKey, Here
  <2> HIDE DEF key
  <2> QED
    BY <1>1, <2>3, <2>4 DEF SolvingInvariant, WrittenAsLeft, Saved
<1>2. TypeOK /\ SolvingInvariant /\ [Next]_vars => [Kept]_vars
  BY <1>1
<1>3. Spec => [][Kept]_vars
  BY <1>2, TypeCorrect, SolvingIsInvariant, PTL DEF Spec
<1> QED
  BY <1>3 DEF LeftNodesAreSaved
-----------------------------------------------------------------------------
(* The chronological order, and the nodes of a plan. *)

LEMMA BeforeIsOrder ==
  ASSUME NEW a \in Nat \X Nat, NEW b \in Nat \X Nat
  PROVE  /\ Before(a, b) \/ a = b \/ Before(b, a)
         /\ ~Before(a, a)
         /\ ~(Before(a, b) /\ Before(b, a))
         /\ \A c \in Nat \X Nat : Before(a, b) /\ Before(b, c) => Before(a, c)
<1>1. \A c \in Nat \X Nat : c[1] \in Nat /\ c[2] \in Nat /\ c = <<c[1], c[2]>>
  OBVIOUS
<1>2. a = <<a[1], a[2]>> /\ b = <<b[1], b[2]>>
  BY <1>1
<1>3. a[1] = b[1] /\ a[2] = b[2] => a = b
  BY ONLY <1>2
<1> QED
  BY <1>1, <1>3 DEF Before

LEMMA NodeTypes ==
  ASSUME NEW p \in Plans, NEW a \in Nodes(p)
  PROVE  /\ a \in Nat \X Nat
         /\ a[1] \in CyclesOf(p) /\ a[2] <= BurnSteps(p, a[1])
<1>1. PICK c \in CyclesOf(p) : a \in {c} \X (0 .. BurnSteps(p, c))
  BY DEF Nodes
<1>2. c \in Nat /\ BurnSteps(p, c) \in Nat
  BY PlanTypes
<1> QED
  BY <1>1, <1>2

LEMMA NodeIntro ==
  ASSUME NEW p \in Plans, NEW c \in CyclesOf(p), NEW n \in Nat, n <= BurnSteps(p, c)
  PROVE  <<c, n>> \in Nodes(p)
<1>1. BurnSteps(p, c) \in Nat
  BY PlanTypes
<1>2. n \in 0 .. BurnSteps(p, c)
  BY <1>1
<1>3. <<c, n>> \in {c} \X (0 .. BurnSteps(p, c))
  BY <1>2
<1> QED
  BY <1>3 DEF Nodes

LEMMA OriginIsNode == ASSUME NEW p \in Plans PROVE <<0, 0>> \in Nodes(p)
<1>1. 0 \in CyclesOf(p)
  BY PlanAssumption DEF CyclesOf
<1>2. BurnSteps(p, 0) \in Nat
  BY <1>1, PlanTypes
<1> QED
  BY <1>1, <1>2, NodeIntro

(* getPreviousTimeNode finds the node of the plan just before this one.    *)
LEMMA PreviousIsLast ==
  ASSUME NEW p \in Plans, NEW b \in Nodes(p), b # <<0, 0>>,
         NEW prev, prev = PreviousNode(p, b[1], b[2])
  PROVE  /\ prev \in Nodes(p)
         /\ Before(prev, b)
         /\ \A a \in Nodes(p) : Before(a, b) => a = prev \/ Before(a, prev)
<1>1. b \in Nat \X Nat /\ b[1] \in CyclesOf(p) /\ b[2] <= BurnSteps(p, b[1])
  BY NodeTypes
<1>2. b[1] \in Nat /\ b[2] \in Nat /\ b = <<b[1], b[2]>>
  BY <1>1
<1>3. CASE b[2] # 0
  <2>1. prev = <<b[1], b[2] - 1>> /\ b[2] - 1 \in Nat
    BY <1>2, <1>3 DEF PreviousNode
  <2>2. BurnSteps(p, b[1]) \in Nat
    BY <1>1, PlanTypes
  <2>3. prev \in Nodes(p)
    BY <1>1, <1>2, <2>1, <2>2, NodeIntro
  <2>4. ASSUME NEW a \in Nodes(p), Before(a, b) PROVE a = prev \/ Before(a, prev)
    <3>1. a \in Nat \X Nat
      BY NodeTypes
    <3>2. a[1] \in Nat /\ a[2] \in Nat /\ a = <<a[1], a[2]>>
      BY <3>1
    <3>3. a[1] < b[1] \/ (a[1] = b[1] /\ a[2] <= b[2] - 1)
      BY <1>2, <2>4, <3>2 DEF Before
    <3> QED
      BY <1>2, <2>1, <3>2, <3>3 DEF Before
  <2> QED
    BY <1>2, <2>1, <2>3, <2>4 DEF Before
<1>4. CASE b[2] = 0
  <2>1. b[1] # 0
    BY <1>2, <1>4
  <2>2. b[1] - 1 \in CyclesOf(p) /\ b[1] - 1 \in Nat
    BY <1>1, <1>2, <2>1, PlanAssumption DEF CyclesOf
  <2>3. BurnSteps(p, b[1] - 1) \in Nat
    BY <2>2, PlanTypes
  <2>4. prev = <<b[1] - 1, BurnSteps(p, b[1] - 1)>>
    BY <1>4 DEF PreviousNode
  <2>5. prev \in Nodes(p)
    BY <2>2, <2>3, <2>4, NodeIntro
  <2>6. ASSUME NEW a \in Nodes(p), Before(a, b) PROVE a = prev \/ Before(a, prev)
    <3>1. a \in Nat \X Nat /\ a[2] <= BurnSteps(p, a[1])
      BY NodeTypes
    <3>2. a[1] \in Nat /\ a[2] \in Nat /\ a = <<a[1], a[2]>>
      BY <3>1
    <3>3. a[1] <= b[1] - 1
      BY <1>2, <1>4, <2>6, <3>2 DEF Before
    <3>4. CASE a[1] < b[1] - 1
      BY <2>4, <3>4 DEF Before
    <3>5. CASE a[1] = b[1] - 1
      BY <2>3, <2>4, <3>1, <3>2, <3>5 DEF Before
    <3> QED
      BY <1>2, <3>2, <3>3, <3>4, <3>5
  <2> QED
    BY <1>2, <2>4, <2>5, <2>6 DEF Before
<1> QED
  BY <1>3, <1>4

LEMMA TruncatedLength ==
  ASSUME NEW s \in Seq(Nat), NEW n \in Nat
  PROVE  Len(Truncated(s, n)) = IF n < Len(s) THEN n ELSE Len(s)
<1>1. Len(s) \in Nat
  OBVIOUS
<1> DEFINE m == IF n < Len(s) THEN n ELSE Len(s)
<1>2. m \in Nat /\ m <= Len(s)
  BY <1>1
<1> HIDE DEF m
<1>3. Len(SubSeq(s, 1, m)) = m
  BY <1>2
<1> QED
  BY <1>3 DEF Truncated, m

(* The restart check makes every node before the start one of both plans.  *)
LEMMA SharedNodes ==
  ASSUME NEW p \in Plans, NEW q \in Plans, NEW start \in Nodes(q), start # <<0, 0>>,
         NEW prev, prev = PreviousNode(q, start[1], start[2]),
         SameHistory(p, q, prev[1], prev[2]),
         NEW a \in Nodes(q), Before(a, start)
  PROVE  a \in Nodes(p)
<1>1. prev \in Nodes(q) /\ (a = prev \/ Before(a, prev))
  BY PreviousIsLast
<1>2. /\ prev \in Nat \X Nat /\ prev[2] <= BurnSteps(q, prev[1])
      /\ a \in Nat \X Nat /\ a[2] <= BurnSteps(q, a[1])
  BY <1>1, NodeTypes
<1>3. /\ prev[1] \in Nat /\ prev[2] \in Nat
      /\ a[1] \in Nat /\ a[2] \in Nat /\ a = <<a[1], a[2]>>
  BY <1>2
<1>4. a[1] < prev[1] \/ (a[1] = prev[1] /\ a[2] <= prev[2])
  BY <1>1, <1>3 DEF Before
<1>5. /\ prev[1] \in CyclesOf(p) \cap CyclesOf(q)
      /\ \A k \in 0 .. prev[1] - 1 : StepLengths[p][k] = StepLengths[q][k]
      /\ Truncated(StepLengths[p][prev[1]], prev[2]) = Truncated(StepLengths[q][prev[1]], prev[2])
  BY DEF SameHistory
<1>6. a[1] \in CyclesOf(p)
  BY <1>3, <1>4, <1>5, PlanAssumption DEF CyclesOf
<1>7. a[2] <= BurnSteps(p, a[1])
  <2>1. CASE a[1] < prev[1]
    <3>1. a[1] \in 0 .. prev[1] - 1
      BY <1>3, <2>1
    <3>2. StepLengths[p][a[1]] = StepLengths[q][a[1]]
      BY <1>5, <3>1
    <3> QED
      BY <1>2, <3>2 DEF BurnSteps
  <2>2. CASE a[1] = prev[1] /\ a[2] <= prev[2]
    <3> DEFINE s == StepLengths[p][prev[1]]
               t == StepLengths[q][prev[1]]
    <3>1. s \in Seq(Nat) /\ t \in Seq(Nat)
      BY <1>5, PlanAssumption
    <3>2. Len(s) \in Nat /\ Len(t) \in Nat /\ prev[2] <= Len(t)
      BY <1>2, <3>1 DEF BurnSteps
    <3>3. Truncated(s, prev[2]) = Truncated(t, prev[2])
      BY <1>5
    <3> HIDE DEF s, t
    <3>4. Len(Truncated(t, prev[2])) = prev[2]
      BY <1>3, <3>1, <3>2, TruncatedLength
    <3>5. Len(Truncated(s, prev[2])) = IF prev[2] < Len(s) THEN prev[2] ELSE Len(s)
      BY <1>3, <3>1, TruncatedLength
    <3>6. prev[2] <= Len(s)
      BY <1>3, <3>2, <3>3, <3>4, <3>5
    <3> QED
      BY <1>3, <2>2, <3>2, <3>6 DEF BurnSteps, s
  <2> QED
    BY <1>4, <2>1, <2>2
<1>8. <<a[1], a[2]>> \in Nodes(p)
  BY <1>3, <1>6, <1>7, NodeIntro
<1> QED
  BY <1>3, <1>8
-----------------------------------------------------------------------------
(* Histories without gaps. *)

(* A restart may change the plan from the start node on, but it does not   *)
(* start at a node that the old plan lacks and goes on after: mergeHistory *)
(* stops only at a group of the start node.                                *)
NoGap ==
  \A p, q \in Plans, start \in Restarts :
    LET prev == PreviousNode(q, start[1], start[2])
    IN start \in Nodes(q) /\ SameHistory(p, q, prev[1], prev[2]) =>
         start \in Nodes(p) \/ \A a \in Nodes(p) : Before(a, start)

SavesBefore(f, node) ==
  \A a \in Nodes(f.plan) : Before(a, node) => NodeKey(a) \in DOMAIN f.steps

WithinPlan(f, node) == \E a \in Nodes(f.plan) : ~Before(a, node)

(* Whatever statepoint a file has, it has all earlier nodes of its plan.   *)
HistoryInFile(f) ==
  \A k \in DOMAIN f.steps :
    /\ SavesBefore(f, At(k))
    /\ WithinPlan(f, At(k))
    /\ k[3] = "" => At(k) = <<f.steps[k].cycle, f.steps[k].node>>

NotYet(node) == \A k \in DOMAIN fast.steps : Before(At(k), node)

JustSaved ==
  /\ NodeKey(Here) \in DOMAIN fast.steps
  /\ \A k \in DOMAIN fast.steps : Before(At(k), Here) \/ k = NodeKey(Here)

LastNode == <<NCycles[cs.plan] - 1, BurnSteps(cs.plan, NCycles[cs.plan] - 1)>>

FilesHold == HistoryInFile(fast) /\ HistoryInFile(disk) /\ HistoryInFile(reload)

(* The file being written is complete up to where the run is. *)
RunHolds ==
  h5 \in {"open", "syncing"} =>
    /\ fast.plan = cs.plan /\ ~fast.done
    /\ SavesBefore(fast, Here) /\ WithinPlan(fast, Here)

Resting == at \in {"idle", "exited", "killed"} => h5 = "none" /\ Here = <<0, 0>>

Restarting ==
  /\ at \in {"idle", "prep"} /\ cs.fromDB =>
       cs.start \in Nodes(cs.plan) /\ cs.start \in Restarts
  /\ at = "prep" => h5 = "open" /\ cs.fromDB /\ DOMAIN fast.steps = {} /\ Here = <<0, 0>>
  /\ at \in {"Restart", "RestartEOC"} =>
       /\ h5 = "open" /\ cs.start \in Nodes(cs.plan)
       /\ SavesBefore(fast, cs.start) /\ NotYet(cs.start)

(* In the loops, no statepoint of the current node is there before its     *)
(* state is written, and only that one after it.                           *)
Cycling ==
  at \in {"BOL", "BOC", "EOC"} \cup AtNode =>
    /\ h5 \in {"open", "syncing"}
    /\ Here \in Nodes(cs.plan)
    /\ IF IsWritten THEN JustSaved ELSE NotYet(Here)
    /\ at = "EOC" => r.node = BurnSteps(cs.plan, r.cycle)

Ending ==
  /\ halt => Halters # {}
  /\ at = "EOL" /\ "database" \in todo =>
       /\ h5 = "open"
       /\ NotYet(Here) \/ JustSaved
       /\ Halters = {} => JustSaved /\ Here = LastNode
  /\ at = "EOL" /\ "database" \notin todo => h5 = "shut"
  /\ at = "done" => h5 = "shut"

PlacesHold == RunHolds /\ Resting /\ Restarting /\ Cycling /\ Ending

HistoryInvariant == FilesHold /\ PlacesHold

LEMMA HistoryEmptyFile == ASSUME NEW status, NEW p PROVE HistoryInFile(EmptyFile(status, p))
BY EmptySteps DEF HistoryInFile

LEMMA HistorySame ==
  ASSUME NEW f, HistoryInFile(f), NEW g, g.steps = f.steps, g.plan = f.plan
  PROVE  HistoryInFile(g)
BY DEF HistoryInFile, SavesBefore, WithinPlan

LEMMA HereAndThere ==
  ASSUME r \in Reactor
  PROVE  /\ Here \in Nat \X Nat
         /\ \A name : At(<<r.cycle, r.node, name>>) = Here
         /\ NodeKey(Here) = <<r.cycle, r.node, "">>
         /\ \A a \in Nat \X Nat : At(NodeKey(a)) = a
<1>1. r.cycle \in Nat /\ r.node \in Nat
  BY DEF Reactor
<1>2. \A a \in Nat \X Nat : a = <<a[1], a[2]>>
  OBVIOUS
<1> QED
  BY <1>1, <1>2 DEF Here, At, NodeKey

LEMMA KeyOfFile ==
  ASSUME NEW f, IsFile(f), NEW k \in DOMAIN f.steps
  PROVE  At(k) \in Nat \X Nat
BY DEF IsFile, At

(* Writing where the file is complete leaves no gap, under whatever name.  *)
LEMMA HistoryWritten ==
  ASSUME IsFile(fast), HistoryInFile(fast), r \in Reactor,
         SavesBefore(fast, Here), WithinPlan(fast, Here),
         NEW name, NEW file, file = Written(<<r.cycle, r.node, name>>, r)
  PROVE  HistoryInFile(file) /\ SavesBefore(file, Here) /\ WithinPlan(file, Here)
<1> DEFINE key == <<r.cycle, r.node, name>>
<1>1. key[3] = name /\ At(key) = Here
  BY HereAndThere
<1>2. /\ DOMAIN file.steps = DOMAIN fast.steps \cup {key}
      /\ \A k \in DOMAIN fast.steps \cup {key} :
           file.steps[k] = IF k = key THEN r ELSE fast.steps[k]
      /\ file.plan = fast.plan
  BY WrittenSteps
<1> HIDE DEF key
<1>3. ASSUME NEW node, SavesBefore(fast, node) PROVE SavesBefore(file, node)
  BY <1>2, <1>3 DEF SavesBefore
<1>4. ASSUME NEW node, WithinPlan(fast, node) PROVE WithinPlan(file, node)
  BY <1>2, <1>4 DEF WithinPlan
<1>5. ASSUME NEW k \in DOMAIN file.steps
      PROVE  /\ SavesBefore(file, At(k)) /\ WithinPlan(file, At(k))
             /\ k[3] = "" => At(k) = <<file.steps[k].cycle, file.steps[k].node>>
  <2>1. CASE k = key
    BY <1>1, <1>2, <1>3, <1>4, <2>1 DEF Here
  <2>2. CASE k # key
    BY <1>2, <1>3, <1>4, <1>5, <2>2 DEF HistoryInFile
  <2> QED
    BY <2>1, <2>2
<1> QED
  BY <1>3, <1>4, <1>5 DEF HistoryInFile

(* What mergeHistory copies: a history up to the start node. *)
LEMMA MergedHistory ==
  ASSUME NoGap, TypeOK, HistoryInFile(reload), at = "prep",
         cs.start \in Nodes(cs.plan), cs.start \in Restarts, fast.plan = cs.plan,
         MergesFile,
         NEW prev, prev = PreviousNode(cs.plan, cs.start[1], cs.start[2])
  PROVE  /\ \A k \in DOMAIN fast'.steps : k \in DOMAIN reload.steps /\ Before(At(k), cs.start)
         /\ HistoryInFile(fast')
         /\ fast'.plan = cs.plan /\ fast'.done = fast.done
         /\ NodeKey(prev) \in DOMAIN reload.steps => SavesBefore(fast', cs.start)
<1> DEFINE p == reload.plan
           q == cs.plan
           start == cs.start
           keys == MergedKeys(reload.steps, start)
<1>1. /\ p \in Plans /\ q \in Plans /\ IsFile(fast) /\ IsFile(reload)
  BY DEF TypeOK, FilesOK, CaseOK, IsFile
<1>2. /\ start \in Nodes(q) /\ start \in Restarts /\ SameHistory(p, q, prev[1], prev[2])
      /\ fast' = Merged(keys)
  BY DEF MergesFile
<1>3. start # <<0, 0>> /\ start \in Nat \X Nat
  BY <1>2, SettingAssumption
<1>4. /\ DOMAIN fast'.steps = DOMAIN reload.steps \cap keys
      /\ \A k \in DOMAIN reload.steps \cap keys : fast'.steps[k] = reload.steps[k]
      /\ fast'.plan = q /\ fast'.done = fast.done
  BY <1>1, <1>2, MergedSteps
<1>5. start \in Nodes(p) \/ \A a \in Nodes(p) : Before(a, start)
  BY <1>1, <1>2 DEF NoGap
<1>p. p = reload.plan
  OBVIOUS
<1>q. prev = PreviousNode(q, start[1], start[2])
  OBVIOUS
<1>k. keys = IF \E k \in DOMAIN reload.steps : At(k) = start
             THEN {k \in DOMAIN reload.steps : Before(At(k), start)}
             ELSE DOMAIN reload.steps
  BY DEF MergedKeys
<1> HIDE DEF p, q, start, keys
<1>6. ASSUME NEW k \in DOMAIN reload.steps \cap keys PROVE Before(At(k), start)
  <2>0. At(k) \in Nat \X Nat
    BY <1>1, <1>6, KeyOfFile
  <2>1. CASE \E j \in DOMAIN reload.steps : At(j) = start
    BY <1>6, <1>k, <2>1
  <2>2. CASE ~\E j \in DOMAIN reload.steps : At(j) = start
    <3>1. SavesBefore(reload, At(k)) /\ WithinPlan(reload, At(k))
      BY <1>6 DEF HistoryInFile
    <3>2. CASE start \in Nodes(p)
      <4>1. Before(start, At(k)) => NodeKey(start) \in DOMAIN reload.steps
        BY <1>p, <3>1, <3>2 DEF SavesBefore
      <4>2. At(NodeKey(start)) = start
        BY <1>3, HereAndThere DEF TypeOK, LoopOK
      <4>3. ~Before(start, At(k)) /\ At(k) # start
        BY <1>6, <2>2, <4>1, <4>2
      <4> QED
        BY <1>3, <2>0, <4>3, BeforeIsOrder
    <3>3. CASE \A a \in Nodes(p) : Before(a, start)
      <4>1. PICK a \in Nodes(p) : ~Before(a, At(k))
        BY <1>p, <3>1 DEF WithinPlan
      <4>2. Before(a, start) /\ a \in Nat \X Nat
        BY <1>1, <3>3, NodeTypes
      <4>3. At(k) = a \/ Before(At(k), a)
        BY <2>0, <4>1, <4>2, BeforeIsOrder
      <4> QED
        BY <1>3, <2>0, <4>2, <4>3, BeforeIsOrder
    <3> QED
      BY <1>5, <3>2, <3>3
  <2> QED
    BY <2>1, <2>2
<1>7. ASSUME NEW a \in Nodes(q), Before(a, start), NodeKey(a) \in DOMAIN reload.steps
      PROVE  NodeKey(a) \in DOMAIN fast'.steps
  <2>1. At(NodeKey(a)) = a
    BY <1>1, NodeTypes, HereAndThere DEF TypeOK, LoopOK
  <2> QED
    BY <1>4, <1>7, <1>k, <2>1
<1>8. ASSUME NEW a \in Nodes(q), Before(a, start) PROVE a \in Nodes(p)
  BY <1>1, <1>2, <1>3, <1>8, <1>q, SharedNodes
<1>9. HistoryInFile(fast')
  <2> SUFFICES ASSUME NEW k \in DOMAIN fast'.steps
               PROVE  /\ SavesBefore(fast', At(k)) /\ WithinPlan(fast', At(k))
                      /\ k[3] = "" => At(k) = <<fast'.steps[k].cycle, fast'.steps[k].node>>
    BY DEF HistoryInFile
  <2>1. k \in DOMAIN reload.steps \cap keys /\ fast'.steps[k] = reload.steps[k]
    BY <1>4
  <2>2. Before(At(k), start) /\ At(k) \in Nat \X Nat
    BY <1>1, <1>6, <2>1, KeyOfFile
  <2>3. /\ SavesBefore(reload, At(k))
        /\ k[3] = "" => At(k) = <<reload.steps[k].cycle, reload.steps[k].node>>
    BY <2>1 DEF HistoryInFile
  <2>4. SavesBefore(fast', At(k))
    <3> SUFFICES ASSUME NEW a \in Nodes(q), Before(a, At(k)) PROVE NodeKey(a) \in DOMAIN fast'.steps
      BY <1>4 DEF SavesBefore
    <3>1. a \in Nat \X Nat
      BY <1>1, NodeTypes
    <3>2. Before(a, start)
      BY <1>3, <2>2, <3>1, BeforeIsOrder
    <3>3. NodeKey(a) \in DOMAIN reload.steps
      BY <1>8, <1>p, <2>3, <3>2 DEF SavesBefore
    <3> QED
      BY <1>7, <3>2, <3>3
  <2>5. ~Before(start, At(k))
    BY <1>3, <2>2, BeforeIsOrder
  <2>6. WithinPlan(fast', At(k))
    BY <1>2, <1>4, <2>5 DEF WithinPlan
  <2> QED
    BY <2>1, <2>3, <2>4, <2>6
<1>10. ASSUME NodeKey(prev) \in DOMAIN reload.steps PROVE SavesBefore(fast', start)
  <2> SUFFICES ASSUME NEW a \in Nodes(q), Before(a, start) PROVE NodeKey(a) \in DOMAIN fast'.steps
    BY <1>4 DEF SavesBefore
  <2>1. a = prev \/ Before(a, prev)
    BY <1>1, <1>2, <1>3, <1>q, PreviousIsLast
  <2>2. prev \in Nodes(q)
    BY <1>1, <1>2, <1>3, <1>q, PreviousIsLast
  <2>3. At(NodeKey(prev)) = prev
    BY <1>1, <2>2, NodeTypes, HereAndThere DEF TypeOK, LoopOK
  <2>4. SavesBefore(reload, prev)
    BY <1>10, <2>3 DEF HistoryInFile
  <2>5. NodeKey(a) \in DOMAIN reload.steps
    BY <1>8, <1>10, <1>p, <2>1, <2>4 DEF SavesBefore
  <2> QED
    BY <1>7, <2>5
<1> QED
  BY <1>4, <1>6, <1>9, <1>10 DEF start, q
-----------------------------------------------------------------------------
(* Every step keeps the histories in the files. *)

LEMMA FilesStayHeld ==
  ASSUME NoGap, TypeOK, HistoryInvariant, [Next]_vars
  PROVE  FilesHold'
<1>1. /\ IsFile(fast) /\ IsFile(disk) /\ IsFile(reload) /\ r \in Reactor
      /\ HistoryInFile(fast) /\ HistoryInFile(disk) /\ HistoryInFile(reload)
      /\ RunHolds /\ Restarting
  BY DEF TypeOK, FilesOK, LoopOK, HistoryInvariant, FilesHold, PlacesHold
<1>2. /\ HistoryInFile(NoFile) /\ HistoryInFile(TornFile)
      /\ \A p \in Plans : HistoryInFile(NewFile(p))
  BY HistoryEmptyFile DEF NoFile, TornFile, NewFile
<1>3. ASSUME HistoryInFile(fast'), HistoryInFile(disk'), HistoryInFile(reload') PROVE FilesHold'
  BY <1>3 DEF FilesHold, HistoryInFile, SavesBefore, WithinPlan
<1>4. CASE UNCHANGED <<fast, disk, reload>> \/ CopiesFile \/ HandsOverFile
  BY <1>1, <1>2, <1>3, <1>4 DEF CopiesFile, HandsOverFile
<1>5. ASSUME NEW name, CanWrite(<<r.cycle, r.node, name>>)
      PROVE  HistoryInFile(Written(<<r.cycle, r.node, name>>, r))
  <2>1. SavesBefore(fast, Here) /\ WithinPlan(fast, Here)
    BY <1>1, <1>5 DEF RunHolds, CanWrite
  <2> QED
    BY <1>1, <2>1, HistoryWritten
<1>6. CASE SavesNode
  <2>1. HistoryInFile(Written(NodeKey(Here), r))
    BY <1>1, <1>5, <1>6, HereAndThere DEF SavesNode
  <2> QED
    BY <1>1, <1>2, <1>3, <1>6, <2>1 DEF SavesNode
<1>7. ASSUME NEW name \in {"EOL", "error"}, ClosesFile(name) PROVE FilesHold'
  <2> DEFINE file == Written(<<r.cycle, r.node, name>>, r)
  <2>1. HistoryInFile(file) /\ IsFile(file)
    BY <1>1, <1>5, <1>7, WrittenIsFile, KeyTypes DEF ClosesFile, StatepointNames, TypeOK, LoopOK
  <2>2. disk' = [file EXCEPT !.done = name = "EOL"] /\ fast' = NoFile /\ reload' = reload
    BY <1>7 DEF ClosesFile
  <2> HIDE DEF file
  <2>3. disk'.steps = file.steps /\ disk'.plan = file.plan
    BY <2>1, <2>2, DoneSteps
  <2>4. HistoryInFile(disk')
    BY <2>1, <2>3, HistorySame
  <2> QED
    BY <1>1, <1>2, <1>3, <2>2, <2>4
<1>8. CASE OpensFile
  BY <1>1, <1>2, <1>3, <1>8 DEF OpensFile, TypeOK, CaseOK
<1>9. CASE MergesFile
  <2>1. at = "prep" /\ UNCHANGED <<disk, cs, reload>>
    BY <1>9 DEF MergesFile
  <2>2. cs.start \in Nodes(cs.plan) /\ cs.start \in Restarts /\ fast.plan = cs.plan
    BY <1>1, <2>1 DEF Restarting, RunHolds
  <2>3. HistoryInFile(fast')
    BY <1>1, <1>9, <2>1, <2>2, MergedHistory
  <2> QED
    BY <1>1, <1>3, <2>1, <2>3
<1>10. CASE LeavesFile
  <2>1. /\ [fast EXCEPT !.done = FALSE].steps = fast.steps
        /\ [fast EXCEPT !.done = FALSE].plan = fast.plan
    BY <1>1, DoneSteps
  <2>2. HistoryInFile([fast EXCEPT !.done = FALSE])
    BY <1>1, <2>1, HistorySame
  <2> QED
    BY <1>1, <1>2, <1>3, <1>10, <2>2 DEF LeavesFile
<1> QED
  BY <1>4, <1>6, <1>7, <1>8, <1>9, <1>10, FileMoves
-----------------------------------------------------------------------------
(* Where a step leaves the run. *)

(* At the end of a run, or in its error handling, only the file matters.   *)
LEMMA HoldsAtEnd ==
  ASSUME at' \in {"error", "failed"}, ~halt', RunHolds'
  PROVE  PlacesHold'
BY DEF PlacesHold, Resting, Restarting, Cycling, Ending, AtNode

LEMMA SameRun ==
  ASSUME RunHolds, UNCHANGED <<h5, fast, cs>>, Here' = Here
  PROVE  RunHolds'
BY DEF RunHolds, SavesBefore, WithinPlan

LEMMA SameFast ==
  ASSUME UNCHANGED fast, Here' = Here
  PROVE  /\ NotYet(Here)' <=> NotYet(Here)
         /\ JustSaved' <=> JustSaved
BY DEF NotYet, JustSaved

(* A hook that neither writes nor moves the run keeps all of it. *)
LEMMA HoldsAfterHook ==
  ASSUME PlacesHold, NEW i, todo' = todo \ {i}, UNCHANGED <<at, h5, fast, cs>>, Here' = Here,
         halt' => halt \/ Halters # {},
         i = "database" => at # "EOL" /\ ~(at = "EveryNode" /\ ~TightCoupling)
  PROVE  PlacesHold'
<1>1. RunHolds'
  BY SameRun DEF PlacesHold
<1>2. /\ NotYet(Here)' <=> NotYet(Here)
      /\ JustSaved' <=> JustSaved
      /\ IsWritten' <=> IsWritten
      /\ r'.cycle = r.cycle /\ r'.node = r.node
  BY SameFast DEF IsWritten, Here
<1>3. Resting' /\ Cycling'
  BY <1>2 DEF PlacesHold, Resting, Cycling
<1>4. Restarting'
  BY DEF PlacesHold, Restarting, SavesBefore, NotYet
<1>5. Ending'
  BY <1>2 DEF PlacesHold, Ending, LastNode
<1> QED
  BY <1>1, <1>3, <1>4, <1>5 DEF PlacesHold

LEMMA HoldsAtNextNode ==
  ASSUME TypeOK, PlacesHold, at \in AtNode, IsWritten, LeaveNode, ~halt',
         UNCHANGED <<dbVars, cs>>, h5 # "syncing"
  PROVE  PlacesHold'
<1>1. /\ h5 = "open" /\ UNCHANGED <<h5, fast>> /\ JustSaved /\ Here \in Nodes(cs.plan)
      /\ fast.plan = cs.plan /\ ~fast.done
      /\ SavesBefore(fast, Here) /\ WithinPlan(fast, Here)
  BY DEF PlacesHold, Cycling, RunHolds, dbVars
<1>2. /\ r \in Reactor /\ r.cycle \in Nat /\ r.node \in Nat
      /\ cs.plan \in Plans /\ IsFile(fast)
  BY DEF TypeOK, LoopOK, CaseOK, FilesOK, Reactor
<1>3. r.cycle \in CyclesOf(cs.plan) /\ r.node <= BurnSteps(cs.plan, r.cycle)
  BY <1>1, <1>2, NodeTypes DEF Here
<1>4. BurnSteps(cs.plan, r.cycle) \in Nat
  BY <1>2, <1>3, PlanTypes
<1>5. CASE r.node < BurnSteps(cs.plan, r.cycle)
  <2> DEFINE next == <<r.cycle, r.node + 1>>
  <2>1. EnterNode(r.node + 1)
    BY <1>5 DEF LeaveNode
  <2>2. /\ at' = "EveryNode" /\ "database" \in todo'
        /\ r'.cycle = r.cycle /\ r'.node = r.node + 1
    BY <1>2, <2>1, StackAssumption DEF EnterNode, Interact, Reactor, Active
  <2>3. next \in Nodes(cs.plan) /\ Here' = next
    BY <1>2, <1>3, <1>4, <1>5, <2>2, NodeIntro DEF Here
  <2>4. \A a \in Nat \X Nat : Before(a, Here) \/ a = Here <=> Before(a, next)
    <3>1. \A a \in Nat \X Nat : a[1] \in Nat /\ a[2] \in Nat /\ a = <<a[1], a[2]>>
      OBVIOUS
    <3> QED
      BY <1>2, <3>1 DEF Here, Before
  <2> HIDE DEF next
  <2>5. NotYet(next)
    <3> SUFFICES ASSUME NEW k \in DOMAIN fast.steps PROVE Before(At(k), next)
      BY DEF NotYet
    <3>1. At(k) \in Nat \X Nat
      BY <1>2, KeyOfFile
    <3>2. Before(At(k), Here) \/ At(k) = Here
      BY <1>1, <1>2, HereAndThere DEF JustSaved
    <3> QED
      BY <2>4, <3>1, <3>2
  <2>6. SavesBefore(fast, next)
    <3> SUFFICES ASSUME NEW a \in Nodes(cs.plan), Before(a, next)
                 PROVE  NodeKey(a) \in DOMAIN fast.steps
      BY <1>1 DEF SavesBefore
    <3>1. Before(a, Here) \/ a = Here
      BY <1>2, <2>4, NodeTypes
    <3> QED
      BY <1>1, <3>1 DEF SavesBefore, JustSaved
  <2>7. WithinPlan(fast, next)
    <3>1. next \in Nodes(fast.plan) /\ ~Before(next, next)
      BY <1>1, <1>2, <2>3, NodeTypes, BeforeIsOrder
    <3> QED
      BY <3>1 DEF WithinPlan
  <2>8. RunHolds'
    BY <1>1, <2>3, <2>6, <2>7 DEF RunHolds, SavesBefore, WithinPlan
  <2>9. NotYet(Here)'
    BY <1>1, <2>3, <2>5 DEF NotYet
  <2> QED
    BY <1>1, <2>2, <2>3, <2>8, <2>9
    DEF PlacesHold, Resting, Restarting, Cycling, Ending, IsWritten, AtNode
<1>6. CASE ~(r.node < BurnSteps(cs.plan, r.cycle))
  <2>1. at' = "EOC" /\ r' = AfterOutage(r)
    BY <1>6 DEF LeaveNode, Interact
  <2>2. r'.cycle = r.cycle /\ r'.node = r.node
    BY <1>2, <2>1 DEF AfterOutage, Reactor
  <2>3. Here' = Here
    BY <2>2 DEF Here
  <2>4. RunHolds' /\ JustSaved'
    BY <1>1, <2>3, SameRun, SameFast DEF PlacesHold
  <2>5. r.node = BurnSteps(cs.plan, r.cycle)
    BY <1>2, <1>3, <1>4, <1>6
  <2> QED
    BY <1>1, <2>1, <2>2, <2>3, <2>4, <2>5
    DEF PlacesHold, Resting, Restarting, Cycling, Ending, IsWritten, AtNode
<1> QED
  BY <1>5, <1>6

(* Into the next cycle, or out of the loop over cycles. *)
LEMMA HoldsAtNextCycle ==
  ASSUME TypeOK, PlacesHold, at = "EOC", BeginCycle(r.cycle + 1, 0),
         UNCHANGED <<dbVars, cs>>, h5 # "syncing"
  PROVE  PlacesHold'
<1>1. /\ h5 = "open" /\ UNCHANGED <<h5, fast>> /\ JustSaved /\ Here \in Nodes(cs.plan)
      /\ fast.plan = cs.plan /\ ~fast.done /\ r.node = BurnSteps(cs.plan, r.cycle)
      /\ SavesBefore(fast, Here) /\ WithinPlan(fast, Here)
  BY DEF PlacesHold, Cycling, RunHolds, IsWritten, dbVars
<1>2. /\ r \in Reactor /\ r.cycle \in Nat /\ r.node \in Nat
      /\ cs.plan \in Plans /\ IsFile(fast)
  BY DEF TypeOK, LoopOK, CaseOK, FilesOK, Reactor
<1>3. r.cycle \in CyclesOf(cs.plan)
  BY <1>1, <1>2, NodeTypes DEF Here
<1>4. ~halt'
  BY DEF BeginCycle, Interact
<1>5. CASE r.cycle + 1 < NCycles[cs.plan]
  <2> DEFINE next == <<r.cycle + 1, 0>>
  <2>1. Interact("BOC", [r EXCEPT !.cycle = r.cycle + 1, !.node = 0, !.iter = 0,
                                  !.outage = Outage[cs.plan][r.cycle + 1]])
    BY <1>5 DEF BeginCycle
  <2>2. at' = "BOC" /\ r'.cycle = r.cycle + 1 /\ r'.node = 0
    BY <1>2, <2>1 DEF Interact, Reactor
  <2>3. next \in Nodes(cs.plan) /\ Here' = next
    <3>1. r.cycle + 1 \in CyclesOf(cs.plan)
      BY <1>2, <1>5, PlanAssumption DEF CyclesOf
    <3>2. BurnSteps(cs.plan, r.cycle + 1) \in Nat
      BY <1>2, <3>1, PlanTypes
    <3> QED
      BY <1>2, <2>2, <3>1, <3>2, NodeIntro DEF Here
  <2>4. /\ \A a \in Nat \X Nat : Before(a, Here) \/ a = Here => Before(a, next)
        /\ \A a \in Nodes(cs.plan) : Before(a, next) => Before(a, Here) \/ a = Here
    <3>1. \A a \in Nat \X Nat : a[1] \in Nat /\ a[2] \in Nat /\ a = <<a[1], a[2]>>
      OBVIOUS
    <3>2. \A a \in Nodes(cs.plan) : a \in Nat \X Nat /\ a[2] <= BurnSteps(cs.plan, a[1])
      BY <1>2, NodeTypes
    <3>3. BurnSteps(cs.plan, r.cycle) \in Nat
      BY <1>2, <1>3, PlanTypes
    <3>4. ASSUME NEW a \in Nodes(cs.plan), Before(a, next) PROVE Before(a, Here) \/ a = Here
      <4>1. a[1] \in Nat /\ a[2] \in Nat /\ a = <<a[1], a[2]>> /\ a[1] <= r.cycle
        BY <1>2, <3>1, <3>2, <3>4 DEF Before
      <4>2. a[1] = r.cycle => a[2] <= r.node
        BY <1>1, <3>2
      <4> QED
        BY <1>2, <4>1, <4>2 DEF Before, Here
    <3> QED
      BY <1>2, <3>1, <3>4 DEF Here, Before
  <2> HIDE DEF next
  <2>5. NotYet(next)
    <3> SUFFICES ASSUME NEW k \in DOMAIN fast.steps PROVE Before(At(k), next)
      BY DEF NotYet
    <3>1. At(k) \in Nat \X Nat
      BY <1>2, KeyOfFile
    <3>2. Before(At(k), Here) \/ At(k) = Here
      BY <1>1, <1>2, HereAndThere DEF JustSaved
    <3> QED
      BY <2>4, <3>1, <3>2
  <2>6. SavesBefore(fast, next)
    <3> SUFFICES ASSUME NEW a \in Nodes(cs.plan), Before(a, next)
                 PROVE  NodeKey(a) \in DOMAIN fast.steps
      BY <1>1 DEF SavesBefore
    <3>1. Before(a, Here) \/ a = Here
      BY <2>4
    <3> QED
      BY <1>1, <3>1 DEF SavesBefore, JustSaved
  <2>7. WithinPlan(fast, next)
    <3>1. next \in Nodes(fast.plan) /\ ~Before(next, next)
      BY <1>1, <1>2, <2>3, NodeTypes, BeforeIsOrder
    <3> QED
      BY <3>1 DEF WithinPlan
  <2>8. RunHolds' /\ NotYet(Here)'
    BY <1>1, <2>3, <2>5, <2>6, <2>7 DEF RunHolds, SavesBefore, WithinPlan, NotYet
  <2> QED
    BY <1>1, <1>4, <2>2, <2>3, <2>8
    DEF PlacesHold, Resting, Restarting, Cycling, Ending, IsWritten, AtNode
<1>6. CASE ~(r.cycle + 1 < NCycles[cs.plan])
  <2>1. at' = "EOL" /\ r' = r /\ "database" \in todo'
    BY <1>6, StackAssumption DEF BeginCycle, Interact, Active
  <2>2. Here' = Here
    BY <2>1 DEF Here
  <2>3. RunHolds' /\ JustSaved'
    BY <1>1, <2>2, SameRun, SameFast DEF PlacesHold
  <2>6. NCycles[cs.plan] \in Nat
    BY <1>2, PlanAssumption
  <2>4. r.cycle = NCycles[cs.plan] - 1
    BY <1>2, <1>3, <1>6, <2>6 DEF CyclesOf
  <2>5. Here' = LastNode'
    BY <1>1, <2>1, <2>4 DEF Here, LastNode
  <2> QED
    BY <1>1, <1>4, <2>1, <2>3, <2>5
    DEF PlacesHold, Resting, Restarting, Cycling, Ending, AtNode
<1> QED
  BY <1>5, <1>6
-----------------------------------------------------------------------------
LEMMA PlacesStayHeld ==
  ASSUME NoGap, TypeOK, HistoryInvariant, [Next]_vars
  PROVE  PlacesHold'
<1>1. /\ r \in Reactor /\ r.cycle \in Nat /\ r.node \in Nat
      /\ cs.plan \in Plans /\ cs.fromDB \in BOOLEAN /\ cs.start \in Nat \X Nat
      /\ IsFile(fast) /\ IsFile(reload) /\ Here \in Nat \X Nat
      /\ HistoryInFile(fast) /\ HistoryInFile(reload)
      /\ PlacesHold /\ RunHolds /\ Resting /\ Restarting /\ Cycling /\ Ending
  BY HereAndThere
  DEF TypeOK, LoopOK, CaseOK, FilesOK, HistoryInvariant, FilesHold, PlacesHold, Reactor
<1>2. halt => at = "BOC"
  BY DEF TypeOK, LoopOK
<1>3. CASE FuelHandlerBOC
  <2>1. /\ todo' = todo \ {"fuelHandler"} /\ UNCHANGED <<at, h5, fast, cs, halt>>
        /\ r' = r \/ r' = [r EXCEPT !.shuffles = @ + 1]
    BY <1>3 DEF FuelHandlerBOC, HookReturns, unchangedCase
  <2>2. Here' = Here
    BY <1>1, <2>1 DEF Here, Reactor
  <2> QED
    BY <1>1, <2>1, <2>2, HoldsAfterHook
<1>4. ASSUME NEW i, HookSkipped(i) PROVE PlacesHold'
  <2>1. /\ todo' = todo \ {i} /\ UNCHANGED <<at, h5, fast, cs, halt, r>> /\ at = "BOC"
    BY <1>2, <1>4 DEF HookSkipped, HookReturns, unchangedCase
  <2>2. Here' = Here
    BY <2>1 DEF Here
  <2> QED
    BY <1>1, <2>1, <2>2, HoldsAfterHook
<1>5. ASSUME NEW i, PhysicsBOC(i) PROVE PlacesHold'
  <2>1. /\ todo' = todo \ {i} /\ UNCHANGED <<at, h5, fast, cs>> /\ at = "BOC"
        /\ r' = r \/ r' = [r EXCEPT !.swing = Never]
        /\ halt' => i \in Halters
    BY <1>5 DEF PhysicsBOC, HookReturns, unchangedCase
  <2>2. Here' = Here
    BY <1>1, <2>1 DEF Here, Reactor
  <2> QED
    BY <1>1, <2>1, <2>2, HoldsAfterHook
<1>6. ASSUME NEW i \in Interfaces, Solve(i) PROVE PlacesHold'
  <2>1. /\ todo' = todo \ {i} /\ UNCHANGED <<at, h5, fast, cs, halt>> /\ i \in Physics
        /\ r'.cycle = r.cycle /\ r'.node = r.node
    BY <1>1, <1>6 DEF Solve, HookReturns, unchangedCase, Reactor
  <2>2. Here' = Here
    BY <2>1 DEF Here
  <2>3. i # "database"
    BY <2>1, StackAssumption
  <2> QED
    BY <1>1, <2>1, <2>2, <2>3, HoldsAfterHook
<1>7. ASSUME NEW i, IdleHook(i) PROVE PlacesHold'
  <2>1. todo' = todo \ {i} /\ UNCHANGED <<at, h5, fast, cs, halt, r>> /\ Idles(i, at)
    BY <1>7 DEF IdleHook, HookReturns, unchangedCase
  <2>2. Here' = Here
    BY <2>1 DEF Here
  <2>3. i = "database" => at # "EOL" /\ ~(at = "EveryNode" /\ ~TightCoupling)
    <3> SUFFICES ASSUME i = "database" PROVE at # "EOL" /\ ~(at = "EveryNode" /\ ~TightCoupling)
      OBVIOUS
    <3>1. i \notin Physics
      BY StackAssumption
    <3>2. Idles("database", at)
      BY <2>1
    <3> QED
      BY <3>1, <3>2 DEF Idles
  <2> QED
    BY <1>1, <2>1, <2>2, <2>3, HoldsAfterHook
<1>8. CASE DatabaseEveryNode \/ SaveAfterCoupling
  <2>1. UNCHANGED <<r, cs>> /\ Here' = Here
    BY <1>8, WriteOutcomes DEF Here
  <2>2. CASE ~CanWrite(NodeKey(Here)) /\ UNCHANGED <<h5, fast, disk>> /\ at' = "error" /\ ~halt'
    BY <1>1, <2>1, <2>2, SameRun, HoldsAtEnd
  <2>3. CASE h5' = "shut" /\ at' = "error" /\ ~halt'
    BY <2>3, HoldsAtEnd DEF RunHolds
  <2>4. CASE /\ SavesNode /\ UNCHANGED halt /\ h5' \in {"syncing", "open"}
             /\ \/ at = "save" /\ at' = "saved" /\ UNCHANGED todo
                \/ at = "EveryNode" /\ at' = "EveryNode" /\ todo' = todo \ {"database"}
    <3>1. (~IsWritten /\ ~TightCoupling) \/ at = "save"
      BY <1>8, <2>4 DEF SavesNode, CanWrite, IsNext, IsWritten
    <3>2. h5 = "open" /\ NotYet(Here) /\ Here \in Nodes(cs.plan)
      BY <1>1, <2>4, <3>1 DEF SavesNode, CanWrite, Cycling, IsWritten, AtNode
    <3>3. /\ fast.plan = cs.plan /\ ~fast.done
          /\ SavesBefore(fast, Here) /\ WithinPlan(fast, Here)
      BY <1>1, <3>2 DEF RunHolds
    <3>4. fast' = Written(<<r.cycle, r.node, "">>, r)
      BY <1>1, <2>4, HereAndThere DEF SavesNode
    <3>5. SavesBefore(fast', Here) /\ WithinPlan(fast', Here)
      BY <1>1, <3>3, <3>4, HistoryWritten
    <3>6. /\ DOMAIN fast'.steps = DOMAIN fast.steps \cup {NodeKey(Here)}
          /\ fast'.plan = fast.plan /\ fast'.done = fast.done
      <4>1. NodeKey(Here) = <<r.cycle, r.node, "">>
        BY <1>1, HereAndThere
      <4>2. IsFile(fast)
        BY <1>1
      <4> DEFINE written == Written(NodeKey(Here), r)
      <4>3. /\ DOMAIN written.steps = DOMAIN fast.steps \cup {NodeKey(Here)}
            /\ written.plan = fast.plan /\ written.done = fast.done
        BY <4>2, WrittenSteps
      <4>4. fast' = written
        BY <3>4, <4>1
      <4> HIDE DEF written
      <4> QED
        BY <4>3, <4>4
    <3>7. RunHolds'
      BY <2>1, <3>3, <3>5, <3>6 DEF RunHolds, SavesBefore, WithinPlan
    <3>8. JustSaved'
      BY <2>1, <3>2, <3>6 DEF JustSaved, NotYet
    <3>9. IsWritten' /\ at' \in AtNode /\ at' # "EOC"
      BY <2>4, <3>1, <3>2 DEF IsWritten, AtNode
    <3> QED
      BY <1>1, <1>2, <2>1, <2>4, <3>2, <3>7, <3>8, <3>9
      DEF PlacesHold, Resting, Restarting, Cycling, Ending, AtNode
  <2> QED
    BY <1>8, <2>2, <2>3, <2>4, WriteOutcomes
<1>9. CASE DatabaseEOL
  <2>1. /\ at = "EOL" /\ UNCHANGED <<r, cs>> /\ Here' = Here
    BY <1>9 DEF DatabaseEOL, Raise, unchangedCase, Here
  <2>2. CASE CanWrite(<<r.cycle, r.node, "EOL">>)
    <3>1. /\ h5' = "shut" /\ UNCHANGED <<at, halt>> /\ todo' = todo \ {"database"}
      BY <1>9, <2>2 DEF DatabaseEOL, CloseFile, CanWrite, HookReturns
    <3> QED
      BY <1>1, <2>1, <3>1 DEF PlacesHold, RunHolds, Resting, Restarting, Cycling, Ending, AtNode
  <2>3. CASE ~CanWrite(<<r.cycle, r.node, "EOL">>)
    <3>1. UNCHANGED <<h5, fast>> /\ at' = "error" /\ ~halt'
      BY <1>9, <2>3 DEF DatabaseEOL, Raise, GoTo, dbVars
    <3> QED
      BY <1>1, <2>1, <3>1, SameRun, HoldsAtEnd
  <2> QED
    BY <2>2, <2>3
<1>10. ASSUME NEW i, HookRaises(i) PROVE PlacesHold'
  <2>1. UNCHANGED <<h5, fast, cs, r>> /\ at' = "error" /\ ~halt' /\ Here' = Here
    BY <1>10 DEF HookRaises, Raise, GoTo, dbVars, unchangedCase, Here
  <2> QED
    BY <1>1, <2>1, SameRun, HoldsAtEnd
<1>11. CASE Synced \/ CopyCutShort
  <2>1. /\ UNCHANGED <<at, todo, halt, r, cs, fast>> /\ h5 = "syncing" /\ h5' = "open"
        /\ Here' = Here /\ (IsWritten' <=> IsWritten)
    BY <1>11 DEF Synced, CopyCutShort, FinishSync, ShortSync, unchangedCase, Here, IsWritten
  <2>2. /\ NotYet(Here)' <=> NotYet(Here)
        /\ JustSaved' <=> JustSaved
    BY <2>1, SameFast
  <2>3. RunHolds'
    BY <1>1, <2>1 DEF RunHolds, SavesBefore, WithinPlan
  <2>4. at \in {"EveryNode", "saved"}
    BY <2>1 DEF TypeOK
  <2> QED
    BY <1>1, <2>1, <2>2, <2>3, <2>4 DEF PlacesHold, Resting, Restarting, Cycling, Ending, AtNode
<1>12. CASE StartRun
  <2>1. /\ at = "idle" /\ UNCHANGED <<cs, r>> /\ ~halt'
        /\ h5' = "open" /\ fast' = NewFile(cs.plan)
        /\ IF cs.fromDB THEN at' = "prep" ELSE at' = "BOL"
    BY <1>12
    DEF StartRun, OpenForWriting, GoTo, Interact, unchangedBetween, unchangedCase
  <2>2. Here' = Here /\ Here = <<0, 0>>
    BY <1>1, <2>1 DEF Resting, Here
  <2>3. DOMAIN fast'.steps = {} /\ fast'.plan = cs.plan /\ ~fast'.done
    BY <2>1, EmptySteps DEF NewFile, EmptyFile
  <2>4. <<0, 0>> \in Nodes(cs.plan)
    BY <1>1, OriginIsNode
  <2>5. RunHolds'
    <3>1. SavesBefore(fast', <<0, 0>>)
      <4>1. \A a \in Nodes(cs.plan) : ~Before(a, <<0, 0>>)
        <5>1. \A a \in Nodes(cs.plan) : a[1] \in Nat /\ a[2] \in Nat
          BY <1>1, NodeTypes
        <5> QED
          BY <5>1 DEF Before
      <4> QED
        BY <2>3, <4>1 DEF SavesBefore
    <3>2. WithinPlan(fast', <<0, 0>>)
      BY <2>3, <2>4 DEF WithinPlan, Before
    <3> QED
      BY <2>1, <2>2, <2>3, <3>1, <3>2 DEF RunHolds, SavesBefore, WithinPlan
  <2>6. NotYet(Here)' /\ ~IsWritten'
    BY <2>1, <2>3 DEF NotYet, IsWritten
  <2> QED
    BY <1>1, <2>1, <2>2, <2>3, <2>4, <2>5, <2>6
    DEF PlacesHold, Resting, Restarting, Cycling, Ending, AtNode
<1>13. CASE PrepRestart
  <2> DEFINE prev == PreviousNode(cs.plan, cs.start[1], cs.start[2])
             key == <<prev[1], prev[2], "">>
  <2>1. /\ at = "prep" /\ UNCHANGED <<cs, h5>> /\ h5 = "open" /\ cs.fromDB /\ ~halt'
        /\ cs.start \in Nodes(cs.plan) /\ cs.start \in Restarts /\ Here = <<0, 0>>
        /\ fast.plan = cs.plan /\ ~fast.done
    BY <1>1, <1>13
    DEF PrepRestart, MergeHistory, Restarting, RunHolds, GoTo, Interact, dbVars, unchangedBetween,
        unchangedCase
  <2>2. CASE ~SameHistory(reload.plan, cs.plan, prev[1], prev[2])
    <3>1. UNCHANGED fast /\ at' = "error" /\ Here' = Here
      BY <1>13, <2>2 DEF PrepRestart, GoTo, dbVars, Here
    <3> QED
      BY <1>1, <2>1, <3>1, SameRun, HoldsAtEnd
  <2>3. CASE SameHistory(reload.plan, cs.plan, prev[1], prev[2])
    <3>1. MergesFile
      BY <1>13, <2>1, <2>3
      DEF PrepRestart, MergeHistory, MergesFile, Merged, unchangedBetween, unchangedCase
    <3>2. /\ \A k \in DOMAIN fast'.steps : Before(At(k), cs.start)
          /\ fast'.plan = cs.plan /\ ~fast'.done
          /\ NodeKey(prev) \in DOMAIN reload.steps => SavesBefore(fast', cs.start)
      BY <1>1, <2>1, <3>1, MergedHistory
    <3>3. NodeKey(prev) = key
      BY DEF NodeKey
    <3>4. cs.start # <<0, 0>>
      BY <2>1, SettingAssumption
    <3>5. prev \in Nodes(cs.plan) /\ Before(prev, cs.start)
      BY <1>1, <2>1, <3>4, PreviousIsLast
    <3>6. prev \in Nat \X Nat
      BY <1>1, <3>5, NodeTypes
    <3> HIDE DEF prev
    <3>7. CASE key \in DOMAIN reload.steps
      <4>1. at' = "Restart" /\ r' = reload.steps[key]
        BY <1>13, <2>3, <3>7 DEF PrepRestart, Interact, prev
      <4>2. At(key) = <<reload.steps[key].cycle, reload.steps[key].node>>
        BY <1>1, <3>7 DEF HistoryInFile
      <4>3. At(key) = prev
        BY <1>1, <3>3, <3>6, HereAndThere
      <4>4. Here' = prev
        BY <4>1, <4>2, <4>3 DEF Here
      <4>5. SavesBefore(fast', cs.start) /\ NotYet(cs.start)'
        BY <2>1, <3>2, <3>3, <3>7 DEF NotYet
      <4>6. SavesBefore(fast', prev)
        <5> SUFFICES ASSUME NEW a \in Nodes(cs.plan), Before(a, prev)
                     PROVE  NodeKey(a) \in DOMAIN fast'.steps
          BY <3>2 DEF SavesBefore
        <5>1. Before(a, cs.start)
          BY <1>1, <3>5, <3>6, NodeTypes, BeforeIsOrder
        <5> QED
          BY <3>2, <4>5, <5>1 DEF SavesBefore
      <4>7. WithinPlan(fast', prev)
        BY <3>2, <3>5, <3>6, BeforeIsOrder DEF WithinPlan
      <4>8. RunHolds'
        BY <2>1, <3>2, <4>4, <4>6, <4>7 DEF RunHolds, SavesBefore, WithinPlan
      <4>9. Restarting'
        BY <2>1, <4>1, <4>5 DEF Restarting, SavesBefore
      <4> QED
        BY <2>1, <4>1, <4>8, <4>9 DEF PlacesHold, Resting, Cycling, Ending, AtNode
    <3>8. CASE key \notin DOMAIN reload.steps
      <4>1. at' = "error" /\ UNCHANGED r
        BY <1>13, <2>3, <3>8 DEF PrepRestart, GoTo, prev
      <4>2. Here' = <<0, 0>>
        BY <2>1, <4>1 DEF Here
      <4>3. \A a \in Nodes(cs.plan) : ~Before(a, <<0, 0>>)
        <5>1. \A a \in Nodes(cs.plan) : a[1] \in Nat /\ a[2] \in Nat
          BY <1>1, NodeTypes
        <5> QED
          BY <5>1 DEF Before
      <4>4. SavesBefore(fast', <<0, 0>>) /\ WithinPlan(fast', <<0, 0>>)
        BY <1>1, <3>2, <4>3, OriginIsNode DEF SavesBefore, WithinPlan
      <4>5. RunHolds'
        BY <2>1, <3>2, <4>2, <4>4 DEF RunHolds, SavesBefore, WithinPlan
      <4> QED
        BY <2>1, <4>1, <4>5, HoldsAtEnd
    <3> QED
      BY <3>7, <3>8
  <2> QED
    BY <2>2, <2>3
<1>14. CASE AfterRestart \/ AfterRestartEOC
  <2>1. /\ at \in {"Restart", "RestartEOC"} /\ UNCHANGED <<cs, h5, fast>> /\ ~halt' /\ h5 = "open"
        /\ \/ at' = "RestartEOC" /\ r' = AfterOutage(r)
           \/ at' = "BOL" /\ r' = AtStart(r)
    BY <1>1, <1>14
    DEF AfterRestart, AfterRestartEOC, Interacted, Interact, Restarting, dbVars, unchangedBetween,
        unchangedCase
  <2>2. /\ cs.start \in Nodes(cs.plan) /\ SavesBefore(fast, cs.start) /\ NotYet(cs.start)
        /\ fast.plan = cs.plan /\ ~fast.done
    BY <1>1, <2>1 DEF Restarting, RunHolds
  <2>3. CASE at' = "RestartEOC" /\ r' = AfterOutage(r)
    <3>1. Here' = Here
      BY <1>1, <2>3 DEF AfterOutage, Here, Reactor
    <3>2. RunHolds'
      BY <1>1, <2>1, <3>1, SameRun
    <3>3. Restarting'
      BY <2>1, <2>2, <2>3 DEF Restarting, SavesBefore, NotYet
    <3> QED
      BY <2>1, <2>3, <3>2, <3>3 DEF PlacesHold, Resting, Cycling, Ending, AtNode
  <2>4. CASE at' = "BOL" /\ r' = AtStart(r)
    <3>1. Here' = cs.start
      BY <1>1, <2>4 DEF AtStart, Here, Reactor
    <3>2. WithinPlan(fast, cs.start)
      BY <1>1, <2>2, BeforeIsOrder DEF WithinPlan
    <3>3. RunHolds' /\ NotYet(Here)' /\ ~IsWritten'
      BY <2>1, <2>2, <2>4, <3>1, <3>2 DEF RunHolds, SavesBefore, WithinPlan, NotYet, IsWritten
    <3> QED
      BY <2>1, <2>2, <2>4, <3>1, <3>3 DEF PlacesHold, Resting, Restarting, Cycling, Ending, AtNode
  <2> QED
    BY <2>1, <2>3, <2>4
<1>15. CASE AfterBOL
  <2>1. /\ at = "BOL" /\ UNCHANGED <<cs, h5, fast>> /\ BeginCycle(r.cycle, r.node)
    BY <1>15 DEF AfterBOL, Interacted, dbVars, unchangedBetween, unchangedCase
  <2>2. h5 \in {"open", "syncing"} /\ Here \in Nodes(cs.plan) /\ NotYet(Here)
    BY <1>1, <2>1 DEF Cycling, IsWritten
  <2>3. r.cycle < NCycles[cs.plan]
    <3>1. r.cycle \in CyclesOf(cs.plan) /\ NCycles[cs.plan] \in Nat
      BY <1>1, <2>2, NodeTypes, PlanAssumption DEF Here
    <3> QED
      BY <1>1, <3>1 DEF CyclesOf
  <2>4. Interact("BOC", [r EXCEPT !.cycle = r.cycle, !.node = r.node, !.iter = 0,
                                  !.outage = Outage[cs.plan][r.cycle]])
    BY <2>1, <2>3 DEF BeginCycle
  <2>5. at' = "BOC" /\ ~halt' /\ r'.cycle = r.cycle /\ r'.node = r.node
    BY <1>1, <2>4 DEF Interact, Reactor
  <2>6. Here' = Here
    BY <2>5 DEF Here
  <2>7. RunHolds' /\ NotYet(Here)' /\ ~IsWritten'
    BY <1>1, <2>1, <2>2, <2>5, <2>6, SameRun, SameFast DEF IsWritten
  <2> QED
    BY <2>1, <2>2, <2>5, <2>6, <2>7
    DEF PlacesHold, Resting, Restarting, Cycling, Ending, AtNode
<1>16. CASE AfterBOC
  <2> DEFINE last == BurnSteps(cs.plan, r.cycle)
             first == IF r.node < last THEN r.node ELSE last
  <2>1. /\ at = "BOC" /\ UNCHANGED <<cs, h5, fast>> /\ h5 # "syncing"
        /\ IF halt THEN Interact("EOL", r) ELSE EnterNode(first)
    BY <1>16 DEF AfterBOC, Interacted, dbVars, unchangedBetween, unchangedCase
  <2>2. h5 = "open" /\ Here \in Nodes(cs.plan) /\ NotYet(Here)
    BY <1>1, <2>1 DEF Cycling, IsWritten
  <2>3. first = r.node
    <3>1. r.cycle \in CyclesOf(cs.plan) /\ r.node <= last
      BY <1>1, <2>2, NodeTypes DEF Here
    <3>2. last \in Nat
      BY <1>1, <3>1, PlanTypes
    <3> QED
      BY <1>1, <3>1, <3>2
  <2>4. CASE halt
    <3>1. at' = "EOL" /\ r' = r /\ ~halt' /\ "database" \in todo'
      BY <2>1, <2>4, StackAssumption DEF Interact, Active
    <3>2. Here' = Here
      BY <3>1 DEF Here
    <3>3. RunHolds' /\ NotYet(Here)' /\ Halters # {}
      BY <1>1, <2>1, <2>2, <2>4, <3>2, SameRun, SameFast DEF Ending
    <3> QED
      BY <2>1, <2>2, <3>1, <3>3 DEF PlacesHold, Resting, Restarting, Cycling, Ending, AtNode
  <2>5. CASE ~halt
    <3>1. EnterNode(r.node)
      BY <2>1, <2>3, <2>5
    <3>2. /\ at' = "EveryNode" /\ ~halt' /\ "database" \in todo'
          /\ r'.cycle = r.cycle /\ r'.node = r.node
      BY <1>1, <3>1, StackAssumption DEF EnterNode, Interact, Active, Reactor
    <3>3. Here' = Here
      BY <3>2 DEF Here
    <3>4. RunHolds' /\ NotYet(Here)' /\ ~IsWritten'
      BY <1>1, <2>1, <2>2, <3>2, <3>3, SameRun, SameFast DEF IsWritten
    <3> QED
      BY <2>1, <2>2, <3>2, <3>3, <3>4
      DEF PlacesHold, Resting, Restarting, Cycling, Ending, AtNode
  <2> QED
    BY <2>4, <2>5
<1>17. CASE AfterEveryNode \/ AfterCoupled \/ AfterSave
  <2>1. /\ at \in {"EveryNode", "Coupled", "saved"} /\ UNCHANGED <<dbVars, cs>> /\ h5 # "syncing"
        /\ \/ LeaveNode /\ IsWritten
           \/ /\ at \in {"EveryNode", "Coupled"} /\ (at = "EveryNode" => TightCoupling)
              /\ (GoTo("save") /\ UNCHANGED r) \/ \E k : Iterate(k)
    BY <1>17
    DEF AfterEveryNode, AfterCoupled, AfterSave, Interacted, IsWritten, unchangedBetween,
        unchangedCase
  <2>2. CASE LeaveNode /\ IsWritten
    <3>1. ~halt'
      BY <2>2 DEF LeaveNode, EnterNode, Interact
    <3> QED
      BY <1>1, <2>1, <2>2, <3>1, HoldsAtNextNode DEF AtNode
  <2>3. CASE /\ at \in {"EveryNode", "Coupled"} /\ (at = "EveryNode" => TightCoupling)
             /\ (GoTo("save") /\ UNCHANGED r) \/ \E k : Iterate(k)
    <3>1. /\ at' \in {"save", "Coupled"} /\ ~halt' /\ UNCHANGED <<h5, fast, cs>>
          /\ r'.cycle = r.cycle /\ r'.node = r.node
      BY <1>1, <2>1, <2>3 DEF GoTo, Iterate, Interact, Reactor, dbVars
    <3>2. h5 = "open" /\ Here \in Nodes(cs.plan) /\ NotYet(Here)
      BY <1>1, <2>1, <2>3 DEF Cycling, IsWritten, AtNode
    <3>3. Here' = Here
      BY <3>1 DEF Here
    <3>4. RunHolds' /\ NotYet(Here)' /\ ~IsWritten'
      BY <1>1, <3>1, <3>2, <3>3, SameRun, SameFast DEF IsWritten
    <3> QED
      BY <3>1, <3>2, <3>3, <3>4 DEF PlacesHold, Resting, Restarting, Cycling, Ending, AtNode
  <2> QED
    BY <2>1, <2>2, <2>3
<1>18. CASE AfterEOC
  <2>1. at = "EOC" /\ BeginCycle(r.cycle + 1, 0) /\ UNCHANGED <<dbVars, cs>> /\ h5 # "syncing"
    BY <1>18 DEF AfterEOC, Interacted, unchangedBetween, unchangedCase
  <2> QED
    BY <1>1, <2>1, HoldsAtNextCycle
<1>19. CASE AfterEOL
  <2>1. /\ at = "EOL" /\ todo = {} /\ at' = "done" /\ ~halt' /\ UNCHANGED <<h5, fast, cs, r>>
        /\ Here' = Here
    BY <1>19 DEF AfterEOL, Interacted, GoTo, dbVars, unchangedBetween, unchangedCase, Here
  <2> QED
    BY <1>1, <2>1, SameRun DEF PlacesHold, Resting, Restarting, Cycling, Ending, AtNode
<1>20. CASE HandleError
  <2>1. at' = "failed" /\ ~halt' /\ UNCHANGED <<cs, r>> /\ Here' = Here
    BY <1>20 DEF HandleError, GoTo, unchangedBetween, unchangedCase, Here
  <2>2. h5' = "shut" \/ UNCHANGED <<h5, fast>>
    BY <1>20 DEF HandleError, CloseFile, CanWrite, dbVars
  <2>3. RunHolds'
    BY <1>1, <2>1, <2>2, SameRun DEF RunHolds
  <2> QED
    BY <2>1, <2>3, HoldsAtEnd
<1>21. CASE ExitRun \/ Kill
  <2>1. at' \in {"exited", "killed"} /\ ~halt' /\ h5' = "none" /\ r' = FreshReactor
    BY <1>21 DEF ExitRun, Kill, ExitProcess, LoseProcess, GoTo, MemoryLost
  <2>2. Here' = <<0, 0>>
    BY <2>1 DEF Here, FreshReactor
  <2> QED
    BY <2>1, <2>2 DEF PlacesHold, RunHolds, Resting, Restarting, Cycling, Ending, AtNode
<1>22. ASSUME NEW plan \in Plans, NEW start \in Restarts, Resubmit(plan, start)
       PROVE  PlacesHold'
  <2>1. /\ at' = "idle" /\ ~halt' /\ UNCHANGED <<h5, r>> /\ at \in {"exited", "killed"}
        /\ cs' = [fromDB |-> TRUE, start |-> start, plan |-> plan] /\ start \in Nodes(plan)
    BY <1>22 DEF Resubmit, GoTo
  <2>2. h5 = "none" /\ Here' = <<0, 0>>
    BY <1>1, <2>1 DEF Resting, Here
  <2> QED
    BY <2>1, <2>2 DEF PlacesHold, RunHolds, Resting, Restarting, Cycling, Ending, AtNode
<1>23. CASE UNCHANGED vars
  <2>1. UNCHANGED <<at, todo, halt, r, h5, fast, cs>> /\ Here' = Here
    BY <1>23 DEF vars, Here
  <2> QED
    BY <1>1, <2>1, SameRun, SameFast
    DEF PlacesHold, Resting, Restarting, Cycling, Ending, IsWritten, NotYet, SavesBefore, LastNode
<1> QED
  BY <1>3, <1>4, <1>5, <1>6, <1>7, <1>8, <1>9, <1>10, <1>11, <1>12, <1>13, <1>14, <1>15,
     <1>16, <1>17, <1>18, <1>19, <1>20, <1>21, <1>22, <1>23
  DEF Next, Step, Hook, Loop, Failure, Finished

LEMMA HistoryIsInvariant ==
  ASSUME NoGap
  PROVE  Spec => []HistoryInvariant
<1>1. Init => HistoryInvariant
  <2> SUFFICES ASSUME Init PROVE HistoryInvariant
    OBVIOUS
  <2>1. FilesHold
    BY HistoryEmptyFile DEF Init, FilesHold, NoFile
  <2>2. /\ h5 = "none" /\ at = "idle" /\ ~halt /\ ~cs.fromDB
    BY DEF Init
  <2>3. Here = <<0, 0>>
    BY DEF Init, FreshReactor, Here
  <2> QED
    BY <2>1, <2>2, <2>3
    DEF HistoryInvariant, PlacesHold, RunHolds, Resting, Restarting, Cycling, Ending, AtNode
<1>2. TypeOK /\ HistoryInvariant /\ [Next]_vars => HistoryInvariant'
  BY FilesStayHeld, PlacesStayHeld DEF HistoryInvariant
<1> QED
  BY <1>1, <1>2, TypeCorrect, PTL DEF Spec
-----------------------------------------------------------------------------
(* The theorems. *)

(* At each of the places from which a statepoint is written, it can be.    *)
LEMMA CanSaveNode ==
  ASSUME TypeOK, HistoryInvariant,
         at = "save" \/ (at = "EveryNode" /\ IsNext("database") /\ ~TightCoupling)
  PROVE  CanWrite(NodeKey(Here))
<1>1. /\ NotYet(Here) /\ h5 \in {"open", "syncing"}
  BY DEF HistoryInvariant, PlacesHold, Cycling, IsWritten, IsNext, AtNode
<1>2. h5 # "syncing"
  BY DEF TypeOK, IsNext
<1>3. Here \in Nat \X Nat /\ At(NodeKey(Here)) = Here
  BY HereAndThere DEF TypeOK, LoopOK
<1>4. NodeKey(Here) \notin DOMAIN fast.steps
  BY <1>1, <1>3, BeforeIsOrder DEF NotYet
<1> QED
  BY <1>1, <1>2, <1>4 DEF CanWrite

LEMMA CanSaveAtEOL ==
  ASSUME TypeOK, HistoryInvariant, at = "EOL", IsNext("database")
  PROVE  CanWrite(<<r.cycle, r.node, "EOL">>)
<1> DEFINE key == <<r.cycle, r.node, "EOL">>
<1>1. h5 = "open" /\ (NotYet(Here) \/ JustSaved)
  BY DEF HistoryInvariant, PlacesHold, Ending, IsNext
<1>2. /\ Here \in Nat \X Nat /\ At(key) = Here /\ NodeKey(Here) = <<r.cycle, r.node, "">>
  BY HereAndThere DEF TypeOK, LoopOK
<1>3. key # NodeKey(Here)
  <2>1. key[3] = "EOL"
    OBVIOUS
  <2>3. NodeKey(Here)[3] = ""
    BY DEF NodeKey
  <2>2. "EOL" # ""
    OBVIOUS
  <2> QED
    BY <2>1, <2>2, <2>3
<1> HIDE DEF key
<1>4. key \notin DOMAIN fast.steps
  BY <1>1, <1>2, <1>3, BeforeIsOrder DEF NotYet, JustSaved
<1> QED
  BY <1>1, <1>4 DEF CanWrite, key

(* Whatever statepoint a file has, it has all the nodes before it. *)
THEOREM HistoriesHaveNoGaps ==
  ASSUME NoGap
  PROVE  Spec => [](\A f \in Files : HistoryInFile(f))
<1>1. HistoryInvariant => \A f \in Files : HistoryInFile(f)
  BY DEF HistoryInvariant, FilesHold, Files
<1> QED
  BY <1>1, HistoryIsInvariant, PTL

(* As long as no restart leaves a gap, nothing but a fault, or a restart   *)
(* without its state, makes a run fail: no statepoint is written twice.    *)
THEOREM OnlyFaultsFail ==
  ASSUME NoGap
  PROVE  Spec => OnlyFaultsFailARun
<1> DEFINE Allowed == at' = "error" /\ at # "error" => at = "prep" \/ faults' = faults + 1
<1>1. ASSUME TypeOK, HistoryInvariant, [Next]_vars PROVE Allowed
  <2> SUFFICES ASSUME at' = "error", at # "error" PROVE at = "prep" \/ faults' = faults + 1
    OBVIOUS
  <2>1. CASE DatabaseEveryNode \/ SaveAfterCoupling
    BY <1>1, <2>1, WriteOutcomes, CanSaveNode
  <2>2. CASE DatabaseEOL
    BY <1>1, <2>2, CanSaveAtEOL DEF DatabaseEOL, HookReturns
  <2>3. ASSUME NEW i, HookSkipped(i) \/ PhysicsBOC(i) \/ Solve(i) \/ IdleHook(i) PROVE FALSE
    BY <2>3 DEF HookSkipped, PhysicsBOC, Solve, IdleHook, HookReturns
  <2>4. ASSUME NEW i, HookRaises(i) PROVE faults' = faults + 1
    BY <2>4 DEF HookRaises, Fault
  <2>5. CASE FuelHandlerBOC \/ Synced \/ CopyCutShort \/ UNCHANGED vars
    BY <2>5 DEF FuelHandlerBOC, HookReturns, Synced, CopyCutShort, vars
  <2>6. CASE StartRun \/ PrepRestart
    BY <2>6 DEF StartRun, PrepRestart, GoTo, Interact
  <2>7. CASE AfterRestart \/ AfterRestartEOC \/ AfterBOL \/ AfterBOC \/ AfterSave \/ AfterEOC
    BY <2>7
    DEF AfterRestart, AfterRestartEOC, AfterBOL, AfterBOC, AfterSave, AfterEOC, BeginCycle,
        EnterNode, LeaveNode, Interact
  <2>8. CASE AfterEveryNode \/ AfterCoupled
    <3>1. LeaveNode \/ GoTo("save") \/ \E k : Iterate(k)
      BY <2>8 DEF AfterEveryNode, AfterCoupled
    <3> QED
      BY <3>1 DEF LeaveNode, EnterNode, Iterate, Interact, GoTo
  <2>9. CASE AfterEOL \/ HandleError \/ ExitRun \/ Kill
    BY <2>9 DEF AfterEOL, HandleError, ExitRun, Kill, GoTo
  <2>10. ASSUME NEW plan, NEW start, Resubmit(plan, start) PROVE FALSE
    BY <2>10 DEF Resubmit, GoTo
  <2> QED
    BY <1>1, <2>1, <2>2, <2>3, <2>4, <2>5, <2>6, <2>7, <2>8, <2>9, <2>10
    DEF Next, Step, Hook, Loop, Failure, Finished
<1>2. TypeOK /\ HistoryInvariant /\ [Next]_vars => [Allowed]_vars
  BY <1>1
<1>3. Spec => [][Allowed]_vars
  BY <1>2, TypeCorrect, HistoryIsInvariant, PTL DEF Spec
<1> QED
  BY <1>3 DEF OnlyFaultsFailARun

(* As long as no restart leaves a gap, what it takes over ends before the  *)
(* node it starts at.                                                      *)
THEOREM MergeStopsAtStart ==
  ASSUME NoGap
  PROVE  Spec => HistoryStopsAtStart
<1> DEFINE Stops == at = "prep" => \A k \in DOMAIN fast'.steps : Before(At(k), cs.start)
<1>1. ASSUME TypeOK, HistoryInvariant, [Next]_vars PROVE Stops
  <2> SUFFICES ASSUME at = "prep" PROVE \A k \in DOMAIN fast'.steps : Before(At(k), cs.start)
    OBVIOUS
  <2>1. /\ cs.start \in Nodes(cs.plan) /\ cs.start \in Restarts
        /\ DOMAIN fast.steps = {} /\ fast.plan = cs.plan /\ HistoryInFile(reload)
        /\ h5 = "open"
    BY <1>1 DEF HistoryInvariant, PlacesHold, FilesHold, Restarting, RunHolds
  <2>2. CASE MergesFile
    BY <1>1, <2>1, <2>2, MergedHistory
  <2>3. CASE UNCHANGED <<fast, disk, reload>> \/ HandsOverFile
    BY <2>1, <2>3 DEF HandsOverFile
  <2>4. CASE LeavesFile
    BY <2>4, EmptySteps DEF LeavesFile, NoFile
  <2> QED
    BY <1>1, <2>1, <2>2, <2>3, <2>4, FileMoves DEF SavesNode, ClosesFile, CopiesFile, OpensFile
<1>2. TypeOK /\ HistoryInvariant /\ [Next]_vars => [Stops]_vars
  BY <1>1
<1>3. Spec => [][Stops]_vars
  BY <1>2, TypeCorrect, HistoryIsInvariant, PTL DEF Spec
<1> QED
  BY <1>3 DEF HistoryStopsAtStart

(* If copies do not fail, the copy in the working directory has everything *)
(* that the run has saved as soon as the write has returned.               *)
THEOREM CopyIsCurrent ==
  ASSUME NoGap, ~CopyMayFail
  PROVE  Spec => []CopyKeepsUp
<1>1. Init => CopyKeepsUp
  BY DEF Init, CopyKeepsUp
<1>2. TypeOK /\ HistoryInvariant /\ CopyKeepsUp /\ [Next]_vars => CopyKeepsUp'
  <2> SUFFICES ASSUME TypeOK, HistoryInvariant, CopyKeepsUp, [Next]_vars, SyncAfterWrite, h5' = "open"
               PROVE  \/ disk' = fast'
                      \/ \A k \in DOMAIN fast'.steps : cs'.fromDB /\ Before(At(k), cs'.start)
    BY DEF CopyKeepsUp
  <2>1. CASE UNCHANGED <<h5, fast, disk, cs>>
    BY <2>1 DEF CopyKeepsUp
  <2>2. CASE DatabaseEveryNode \/ SaveAfterCoupling
    BY <2>1, <2>2, WriteOutcomes
  <2>3. CASE DatabaseEOL \/ HandleError
    BY <2>1, <2>3
    DEF DatabaseEOL, HandleError, CloseFile, CanWrite, dbVars, unchangedBetween, unchangedCase
  <2>4. CASE Synced \/ CopyCutShort
    BY <2>4 DEF Synced, CopyCutShort, FinishSync
  <2>5. CASE StartRun
    <3>1. fast' = NewFile(cs.plan)
      BY <2>5 DEF StartRun, OpenForWriting
    <3>2. DOMAIN fast'.steps = {}
      BY <3>1, EmptySteps DEF NewFile
    <3> QED
      BY <3>2
  <2>6. CASE PrepRestart
    <3>1. CASE UNCHANGED dbVars
      BY <2>1, <2>6, <3>1 DEF PrepRestart, dbVars, unchangedBetween, unchangedCase
    <3>2. CASE ~UNCHANGED dbVars
      <4>1. MergesFile
        BY <2>6, <3>2
        DEF PrepRestart, MergeHistory, MergesFile, Merged, unchangedBetween, unchangedCase
      <4>2. /\ cs.start \in Nodes(cs.plan) /\ cs.start \in Restarts /\ at = "prep" /\ cs.fromDB
            /\ fast.plan = cs.plan /\ HistoryInFile(reload) /\ UNCHANGED cs
        BY <4>1 DEF MergesFile, HistoryInvariant, PlacesHold, FilesHold, Restarting, RunHolds
      <4> QED
        BY <4>1, <4>2, MergedHistory
    <3> QED
      BY <3>1, <3>2
  <2>7. CASE ExitRun \/ Kill
    BY <2>7 DEF ExitRun, Kill, ExitProcess, LoseProcess
  <2>8. ASSUME NEW plan, NEW start, Resubmit(plan, start) PROVE FALSE
    BY <2>8 DEF Resubmit, HistoryInvariant, PlacesHold, Resting
  <2>9. ASSUME NEW i, HookSkipped(i) \/ PhysicsBOC(i) \/ Solve(i) \/ IdleHook(i) \/ HookRaises(i)
        PROVE  UNCHANGED <<h5, fast, disk, cs>>
    BY <2>9 DEF HookSkipped, PhysicsBOC, Solve, IdleHook, HookRaises, dbVars, unchangedCase
  <2>10. ASSUME \/ FuelHandlerBOC \/ AfterRestart \/ AfterRestartEOC \/ AfterBOL \/ AfterBOC
                \/ AfterEveryNode \/ AfterCoupled \/ AfterSave \/ AfterEOC \/ AfterEOL
         PROVE  UNCHANGED <<h5, fast, disk, cs>>
    BY <2>10
    DEF FuelHandlerBOC, AfterRestart, AfterRestartEOC, AfterBOL, AfterBOC, AfterEveryNode,
        AfterCoupled, AfterSave, AfterEOC, AfterEOL, dbVars, unchangedBetween, unchangedCase
  <2>11. CASE UNCHANGED vars
    BY <2>1, <2>11 DEF vars
  <2> QED
    BY <2>1, <2>2, <2>3, <2>4, <2>5, <2>6, <2>7, <2>8, <2>9, <2>10, <2>11
    DEF Next, Step, Hook, Loop, Failure, Finished
<1> QED
  BY <1>1, <1>2, TypeCorrect, HistoryIsInvariant, PTL DEF Spec

(* As long as no restart leaves a gap, a file that claims success has      *)
(* every node before its EOL statepoint, which is the last one of the plan *)
(* unless an interface may halt the run.                                   *)
THEOREM SuccessIsComplete ==
  ASSUME NoGap
  PROVE  Spec => []SuccessMeansComplete
<1>1. Init => SuccessMeansComplete
  <2>1. ~NoFile.done
    BY DEF NoFile, EmptyFile
  <2> QED
    BY <2>1 DEF Init, SuccessMeansComplete
<1>2. TypeOK /\ HistoryInvariant /\ SuccessMeansComplete /\ [Next]_vars => SuccessMeansComplete'
  <2> SUFFICES ASSUME TypeOK, HistoryInvariant, SuccessMeansComplete, [Next]_vars
               PROVE  SuccessMeansComplete'
    OBVIOUS
  <2>1. /\ IsFile(fast) /\ IsFile(disk) /\ r \in Reactor /\ HistoryInFile(fast)
        /\ RunHolds /\ Ending
    BY DEF TypeOK, FilesOK, LoopOK, HistoryInvariant, FilesHold, PlacesHold
  <2>2. CASE UNCHANGED disk
    BY <2>2 DEF SuccessMeansComplete
  <2>3. CASE ~disk'.done
    BY <2>3 DEF SuccessMeansComplete
  <2>4. ~NoFile.done /\ ~TornFile.done
    BY DEF NoFile, TornFile, EmptyFile
  <2>5. CASE ClosesFile("EOL")
    <3> DEFINE key == <<r.cycle, r.node, "EOL">>
               file == Written(key, r)
    <3>1. /\ at = "EOL" /\ CanWrite(key) /\ h5 = "open" /\ disk' = [file EXCEPT !.done = TRUE]
      BY <2>5 DEF ClosesFile, CanWrite
    <3>2. /\ fast.plan = cs.plan /\ SavesBefore(fast, Here) /\ WithinPlan(fast, Here)
          /\ "database" \in todo /\ (Halters = {} => JustSaved /\ Here = LastNode)
      BY <2>1, <3>1 DEF RunHolds, Ending
    <3>3. key[3] = "EOL" /\ At(key) = Here
      BY <2>1, HereAndThere
    <3>4. IsFile(file)
      BY <2>1, WrittenIsFile, KeyTypes DEF StatepointNames, TypeOK
    <3>5. SavesBefore(file, Here)
      BY <2>1, <3>2, HistoryWritten
    <3>6. DOMAIN file.steps = DOMAIN fast.steps \cup {key} /\ file.plan = fast.plan
      BY <2>1, WrittenSteps
    <3>k. key[1] = Here[1] /\ key[2] = Here[2] /\ NodeKey(Here) = <<key[1], key[2], "">>
      BY DEF Here, NodeKey
    <3> HIDE DEF key, file
    <3>7. disk'.steps = file.steps /\ disk'.plan = cs.plan
      BY <3>1, <3>2, <3>4, <3>6, DoneSteps
    <3>8. key \in DOMAIN disk'.steps
      BY <3>6, <3>7
    <3>9. \A node \in Nodes(disk'.plan) :
            Before(node, At(key)) => <<node[1], node[2], "">> \in DOMAIN disk'.steps
      BY <3>2, <3>3, <3>5, <3>6, <3>7 DEF SavesBefore, NodeKey
    <3>10. Halters = {} =>
             /\ <<key[1], key[2], "">> \in DOMAIN disk'.steps
             /\ At(key) = <<NCycles[disk'.plan] - 1, BurnSteps(disk'.plan, NCycles[disk'.plan] - 1)>>
      BY <3>2, <3>3, <3>6, <3>7, <3>k DEF JustSaved, LastNode
    <3> QED
      BY <3>3, <3>8, <3>9, <3>10 DEF SuccessMeansComplete
  <2>6. CASE ClosesFile("error")
    <3> DEFINE file == Written(<<r.cycle, r.node, "error">>, r)
    <3>1. IsFile(file)
      BY <2>1, WrittenIsFile, KeyTypes DEF StatepointNames, TypeOK
    <3>2. disk' = [file EXCEPT !.done = "error" = "EOL"]
      BY <2>6 DEF ClosesFile
    <3> HIDE DEF file
    <3>3. ~disk'.done
      BY <3>1, <3>2, DoneSteps
    <3> QED
      BY <2>3, <3>3
  <2>7. CASE CopiesFile
    BY <2>1, <2>3, <2>7 DEF CopiesFile, RunHolds
  <2>8. CASE LeavesFile
    <3>1. ~[fast EXCEPT !.done = FALSE].done
      BY <2>1, DoneSteps
    <3> QED
      BY <2>2, <2>3, <2>8, <3>1 DEF LeavesFile
  <2>9. CASE SavesNode \/ HandsOverFile
    BY <2>2, <2>3, <2>4, <2>9 DEF SavesNode, HandsOverFile
  <2> QED
    BY <2>2, <2>5, <2>6, <2>7, <2>8, <2>9, FileMoves DEF OpensFile, MergesFile
<1> QED
  BY <1>1, <1>2, TypeCorrect, HistoryIsInvariant, PTL DEF Spec

-----------------------------------------------------------------------------
(* The settings of a restart keep the time history of the case.            *)
OnePlan == \A p, q \in Plans : p = q

(* When the run comes to a node: it ended the node before it, and the      *)
(* outage between them if a cycle begins here.                             *)
Reached(steps, node) ==
  IF node = <<0, 0>>
  THEN 0
  ELSE steps[NodeKey(PreviousNode(AnyPlan, node[1], node[2]))].time
       + IF node[2] = 0 THEN Outage[AnyPlan][node[1] - 1] ELSE 0

Burned(node) == IF node[2] = 0 THEN 0 ELSE StepLengths[AnyPlan][node[1]][node[2]]

(* Every node in a file has its exact time.                                *)
TimedInFile(f) ==
  \A k \in Saved(f) :
    /\ At(k) \in Nodes(AnyPlan)
    /\ f.steps[k].time = Reached(f.steps, At(k)) + Burned(At(k))
    /\ f.steps[k].outage = Outage[AnyPlan][k[1]]

(* One file has saved a part of the history that another has.              *)
PartOf(g, f) == \A k \in Saved(g) : k \in Saved(f) /\ g.steps[k] = f.steps[k]

FilesTimed == TimedInFile(fast) /\ TimedInFile(disk) /\ TimedInFile(reload)

CopyIsPart ==
  /\ h5 \in {"open", "syncing"} => PartOf(disk, fast)
  /\ at = "idle" => Saved(disk) = {} /\ (~cs.fromDB => Saved(reload) = {})

(* The clock of the reactor in memory agrees with the history saved.       *)
ClockRuns ==
  /\ at \in {"idle", "exited", "killed"} => r.time = 0
  /\ at = "Restart" =>
       Reached(fast.steps, cs.start) = r.time + IF cs.start[2] = 0 THEN r.outage ELSE 0
  /\ at = "RestartEOC" => r.time = Reached(fast.steps, cs.start)
  /\ at \in {"BOL", "BOC"} => r.time = Reached(fast.steps, Here)
  /\ at \in AtNode => r.time = Reached(fast.steps, Here) + Burned(Here)
  /\ at = "EOC" => r.time = fast.steps[NodeKey(Here)].time + r.outage
  /\ at \in {"BOC", "EOC"} \cup AtNode => r.outage = Outage[AnyPlan][r.cycle]

TimelineInvariant == FilesTimed /\ CopyIsPart /\ ClockRuns
-----------------------------------------------------------------------------
(* The first of a set of nodes. *)

LEMMA LeastNumber ==
  ASSUME NEW T, T \subseteq Nat, T # {}
  PROVE  \E x \in T : \A y \in T : x <= y
<1>1. PICK x \in T : \A y \in T : <<y, x>> \notin OpToRel(<, Nat)
  BY NatLessThanWellFounded, WFMin
<1>2. ASSUME NEW y \in T PROVE x <= y
  <2>1. <<y, x>> \in Nat \X Nat
    OBVIOUS
  <2>2. ~(y < x)
    BY <1>1, <2>1 DEF OpToRel
  <2> QED
    BY <2>1, <2>2
<1> QED
  BY <1>2

LEMMA FirstNode ==
  ASSUME NEW S, S \subseteq Nat \X Nat, S # {}
  PROVE  \E a \in S : \A b \in S : ~Before(b, a)
<1> DEFINE Cycles == {a[1] : a \in S}
<1>1. Cycles \subseteq Nat /\ Cycles # {}
  OBVIOUS
<1>2. PICK c \in Cycles : \A d \in Cycles : c <= d
  BY <1>1, LeastNumber
<1> DEFINE InFirst == {a \in S : a[1] = c}
           Numbers == {a[2] : a \in InFirst}
<1>3. Numbers \subseteq Nat /\ Numbers # {}
  <2>1. InFirst # {}
    BY <1>2
  <2> QED
    BY <2>1
<1>4. PICK n \in Numbers : \A m \in Numbers : n <= m
  BY <1>3, LeastNumber
<1>5. PICK a \in S : a[1] = c /\ a[2] = n
  BY <1>4
<1>6. ASSUME NEW b \in S PROVE ~Before(b, a)
  <2>1. c <= b[1] /\ (b[1] = c => n <= b[2])
    BY <1>2, <1>4
  <2>2. c \in Nat /\ n \in Nat /\ b[1] \in Nat /\ b[2] \in Nat
    BY <1>1, <1>3
  <2> QED
    BY <1>5, <2>1, <2>2 DEF Before
<1> QED
  BY <1>6
-----------------------------------------------------------------------------
(* What a file says of the timeline. *)

LEMMA ThePlan ==
  ASSUME OnePlan
  PROVE  AnyPlan \in Plans /\ \A p \in Plans : p = AnyPlan
<1>1. AnyPlan \in Plans
  BY PlanAssumption DEF AnyPlan
<1> QED
  BY <1>1 DEF OnePlan

NodesIn(f) == {a \in Nodes(AnyPlan) : NodeKey(a) \in DOMAIN f.steps}

EntryOf(f, a) ==
  [time |-> f.steps[NodeKey(a)].time, shuffles |-> f.steps[NodeKey(a)].shuffles]

(* A node's key names it. *)
LEMMA SavedKeys ==
  ASSUME NEW f, IsFile(f), NEW k \in Saved(f)
  PROVE  k = NodeKey(At(k)) /\ At(k) \in Nat \X Nat
<1>1. k \in Nat \X Nat \X StatepointNames /\ k[3] = ""
  BY DEF IsFile, Saved
<1>2. k = <<k[1], k[2], k[3]>> /\ k[1] \in Nat /\ k[2] \in Nat
  <2>1. \A x \in Nat \X Nat \X StatepointNames :
          x = <<x[1], x[2], x[3]>> /\ x[1] \in Nat /\ x[2] \in Nat
    OBVIOUS
  <2> QED
    BY <1>1, <2>1
<1> QED
  BY <1>1, <1>2 DEF NodeKey, At

LEMMA KeysOfNodes ==
  ASSUME NEW a \in Nat \X Nat
  PROVE  At(NodeKey(a)) = a /\ NodeKey(a)[3] = "" /\ NodeKey(a)[1] = a[1]
<1>1. a = <<a[1], a[2]>>
  OBVIOUS
<1> QED
  BY <1>1 DEF At, NodeKey

LEMMA HistoryOfFile ==
  ASSUME NEW f, IsFile(f), TimedInFile(f)
  PROVE  HistoryOf(f) = [a \in NodesIn(f) |-> EntryOf(f, a)]
<1>1. AnyPlan \in Plans
  BY PlanAssumption DEF AnyPlan
<1>2. ASSUME NEW k \in Saved(f) PROVE At(k) \in NodesIn(f)
  BY <1>2, SavedKeys DEF NodesIn, TimedInFile, Saved
<1>3. ASSUME NEW a \in NodesIn(f) PROVE \E k \in Saved(f) : At(k) = a
  <2>1. a \in Nat \X Nat /\ NodeKey(a) \in DOMAIN f.steps
    BY <1>1, NodeTypes DEF NodesIn
  <2>2. NodeKey(a) \in Saved(f) /\ At(NodeKey(a)) = a
    BY <2>1, KeysOfNodes DEF Saved
  <2> QED
    BY <2>2
<1>4. {At(k) : k \in Saved(f)} = NodesIn(f)
  BY <1>2, <1>3
<1>5. \A a : <<a[1], a[2], "">> = NodeKey(a)
  BY DEF NodeKey
<1> QED
  BY <1>4, <1>5 DEF HistoryOf, EntryOf
-----------------------------------------------------------------------------
(* Files made out of files. *)

LEMMA PartIsReflexive == ASSUME NEW f PROVE PartOf(f, f)
BY DEF PartOf

LEMMA PartOfNothing ==
  ASSUME NEW f, NEW status, NEW p
  PROVE  PartOf(EmptyFile(status, p), f)
BY EmptySteps DEF PartOf, Saved

LEMMA PartOfAll ==
  ASSUME NEW g, NEW f, \A k \in DOMAIN g.steps : k \in DOMAIN f.steps /\ g.steps[k] = f.steps[k]
  PROVE  PartOf(g, f)
BY DEF PartOf, Saved

(* A statepoint with another name is not part of the history. *)
LEMMA PartWithExtra ==
  ASSUME IsFile(fast), NEW name, name # "", NEW success,
         IsFile(Written(<<r.cycle, r.node, name>>, r))
  PROVE  PartOf([Written(<<r.cycle, r.node, name>>, r) EXCEPT !.done = success], fast)
<1> DEFINE key == <<r.cycle, r.node, name>>
           file == Written(key, r)
<1>1. key[3] # ""
  OBVIOUS
<1> HIDE DEF key
<1>2. /\ DOMAIN file.steps = DOMAIN fast.steps \cup {key}
      /\ \A k \in DOMAIN fast.steps \cup {key} :
           file.steps[k] = IF k = key THEN r ELSE fast.steps[k]
  BY WrittenSteps
<1>3. [file EXCEPT !.done = success].steps = file.steps
  BY DoneSteps DEF key
<1> HIDE DEF file
<1>4. PartOf([file EXCEPT !.done = success], fast)
  BY <1>1, <1>2, <1>3 DEF PartOf, Saved
<1> QED
  BY <1>4 DEF file, key

(* A part without gaps of an exact history is exact: it has, with each     *)
(* node, the one before, which its time is counted from.                   *)
LEMMA TimedPart ==
  ASSUME OnePlan, NEW f, NEW g, IsFile(g), TimedInFile(f), PartOf(g, f), HistoryInFile(g)
  PROVE  TimedInFile(g)
<1> SUFFICES ASSUME NEW k \in Saved(g)
             PROVE  /\ At(k) \in Nodes(AnyPlan)
                    /\ g.steps[k].time = Reached(g.steps, At(k)) + Burned(At(k))
                    /\ g.steps[k].outage = Outage[AnyPlan][k[1]]
  BY DEF TimedInFile
<1>1. k \in Saved(f) /\ g.steps[k] = f.steps[k]
  BY DEF PartOf
<1>2. /\ At(k) \in Nodes(AnyPlan)
      /\ g.steps[k].time = Reached(f.steps, At(k)) + Burned(At(k))
      /\ g.steps[k].outage = Outage[AnyPlan][k[1]]
  BY <1>1 DEF TimedInFile
<1>3. Reached(g.steps, At(k)) = Reached(f.steps, At(k))
  <2>1. CASE At(k) = <<0, 0>>
    BY <2>1 DEF Reached
  <2>2. CASE At(k) # <<0, 0>>
    <3> DEFINE prev == PreviousNode(AnyPlan, At(k)[1], At(k)[2])
    <3>1. prev \in Nodes(AnyPlan) /\ Before(prev, At(k))
      BY <1>2, <2>2, ThePlan, PreviousIsLast
    <3> HIDE DEF prev
    <3>2. NodeKey(prev) \in DOMAIN g.steps
      <4>1. SavesBefore(g, At(k))
        BY DEF HistoryInFile, Saved
      <4>2. g.plan = AnyPlan
        BY ThePlan DEF IsFile
      <4> QED
        BY <3>1, <4>1, <4>2 DEF SavesBefore
    <3>3. NodeKey(prev) \in Saved(g)
      BY <3>1, <3>2, ThePlan, NodeTypes, KeysOfNodes DEF Saved
    <3>4. g.steps[NodeKey(prev)] = f.steps[NodeKey(prev)]
      BY <3>3 DEF PartOf
    <3> QED
      BY <2>2, <3>4 DEF Reached, prev
  <2> QED
    BY <2>1, <2>2
<1> QED
  BY <1>2, <1>3

(* A write does not disturb the time at which a node is reached. *)
LEMMA ReachedWritten ==
  ASSUME OnePlan, IsFile(fast), NEW key, key \notin DOMAIN fast.steps, NEW state,
         NEW node \in Nodes(AnyPlan), SavesBefore(fast, node)
  PROVE  Reached(Written(key, state).steps, node) = Reached(fast.steps, node)
<1> DEFINE steps == Written(key, state).steps
<1>1. /\ DOMAIN steps = DOMAIN fast.steps \cup {key}
      /\ \A k \in DOMAIN fast.steps \cup {key} :
           steps[k] = IF k = key THEN state ELSE fast.steps[k]
  BY WrittenSteps
<1> HIDE DEF steps
<1>2. CASE node = <<0, 0>>
  BY <1>2 DEF Reached
<1>3. CASE node # <<0, 0>>
  <2> DEFINE prev == PreviousNode(AnyPlan, node[1], node[2])
  <2>1. prev \in Nodes(AnyPlan) /\ Before(prev, node)
    BY <1>3, ThePlan, PreviousIsLast
  <2> HIDE DEF prev
  <2>2. NodeKey(prev) \in DOMAIN fast.steps
    BY <2>1, ThePlan DEF SavesBefore, IsFile
  <2>3. steps[NodeKey(prev)] = fast.steps[NodeKey(prev)]
    BY <1>1, <2>2
  <2>4. Reached(steps, node) = Reached(fast.steps, node)
    BY <1>3, <2>3 DEF Reached, prev
  <2> QED
    BY <2>4 DEF steps
<1> QED
  BY <1>2, <1>3

LEMMA TimedWritten ==
  ASSUME OnePlan, TypeOK, IsFile(fast), HistoryInFile(fast), TimedInFile(fast),
         NodeKey(Here) \notin DOMAIN fast.steps, Here \in Nodes(AnyPlan), SavesBefore(fast, Here),
         r.time = Reached(fast.steps, Here) + Burned(Here),
         r.outage = Outage[AnyPlan][r.cycle]
  PROVE  TimedInFile(Written(NodeKey(Here), r))
<1> DEFINE file == Written(NodeKey(Here), r)
<1>1. /\ DOMAIN file.steps = DOMAIN fast.steps \cup {NodeKey(Here)}
      /\ \A k \in DOMAIN fast.steps \cup {NodeKey(Here)} :
           file.steps[k] = IF k = NodeKey(Here) THEN r ELSE fast.steps[k]
  BY WrittenSteps
<1>2. \A node \in Nodes(AnyPlan) :
        SavesBefore(fast, node) => Reached(file.steps, node) = Reached(fast.steps, node)
  BY ReachedWritten
<1> HIDE DEF file
<1>3. At(NodeKey(Here)) = Here /\ NodeKey(Here)[1] = r.cycle
  <2>1. Here \in Nat \X Nat /\ Here[1] = r.cycle
    BY ThePlan, NodeTypes DEF Here
  <2> QED
    BY <2>1, KeysOfNodes
<1>4. ASSUME NEW k \in Saved(file)
      PROVE  /\ At(k) \in Nodes(AnyPlan)
             /\ file.steps[k].time = Reached(file.steps, At(k)) + Burned(At(k))
             /\ file.steps[k].outage = Outage[AnyPlan][k[1]]
  <2>1. CASE k = NodeKey(Here)
    <3>1. file.steps[k] = r /\ At(k) = Here /\ k[1] = r.cycle
      BY <1>1, <1>3, <2>1
    <3>2. Reached(file.steps, Here) = Reached(fast.steps, Here)
      BY <1>2
    <3> QED
      BY <3>1, <3>2
  <2>2. CASE k # NodeKey(Here)
    <3>1. k \in Saved(fast) /\ file.steps[k] = fast.steps[k]
      BY <1>1, <1>4, <2>2 DEF Saved
    <3>2. SavesBefore(fast, At(k))
      BY <3>1 DEF HistoryInFile, Saved
    <3>3. /\ At(k) \in Nodes(AnyPlan)
          /\ fast.steps[k].time = Reached(fast.steps, At(k)) + Burned(At(k))
          /\ fast.steps[k].outage = Outage[AnyPlan][k[1]]
      BY <3>1 DEF TimedInFile
    <3>4. Reached(file.steps, At(k)) = Reached(fast.steps, At(k))
      BY <1>2, <3>2, <3>3
    <3> QED
      BY <3>1, <3>3, <3>4
  <2> QED
    BY <2>1, <2>2
<1>5. TimedInFile(file)
  BY <1>4 DEF TimedInFile
<1> QED
  BY <1>5 DEF file
-----------------------------------------------------------------------------
(* Every step keeps the times in the files. *)

LEMMA NextFiles ==
  ASSUME TypeOK', HistoryInvariant'
  PROVE  /\ IsFile(fast') /\ IsFile(disk') /\ IsFile(reload')
         /\ HistoryInFile(fast') /\ HistoryInFile(disk') /\ HistoryInFile(reload')
<1>1. IsFile(fast') /\ IsFile(disk') /\ IsFile(reload')
  BY DEF TypeOK, FilesOK, IsFile
<1>2. HistoryInFile(fast') /\ HistoryInFile(disk') /\ HistoryInFile(reload')
  BY DEF HistoryInvariant, FilesHold, HistoryInFile, SavesBefore, WithinPlan
<1> QED
  BY <1>1, <1>2

(* Where a node is written from, the file is complete up to it. *)
LEMMA PlaceOfSave ==
  ASSUME OnePlan, TypeOK, HistoryInvariant, SavesNode
  PROVE  /\ Here \in Nodes(AnyPlan) /\ NotYet(Here) /\ SavesBefore(fast, Here)
         /\ at \in AtNode /\ h5 = "open" /\ NodeKey(Here) \notin DOMAIN fast.steps
         /\ fast.plan = AnyPlan
<1>1. at \in AtNode /\ ~IsWritten /\ h5 = "open" /\ NodeKey(Here) \notin DOMAIN fast.steps
  BY DEF SavesNode, IsNext, IsWritten, CanWrite, AtNode
<1>2. Here \in Nodes(cs.plan) /\ NotYet(Here) /\ SavesBefore(fast, Here)
  BY <1>1 DEF HistoryInvariant, PlacesHold, Cycling, RunHolds
<1>3. cs.plan = AnyPlan /\ fast.plan = AnyPlan
  BY ThePlan DEF TypeOK, CaseOK, FilesOK, IsFile
<1> QED
  BY <1>1, <1>2, <1>3

MakesPart(g) == PartOf(g, fast) \/ PartOf(g, disk) \/ PartOf(g, reload)

(* But for the write of a node, a step only moves files or parts of them.  *)
LEMMA FilesAreParts ==
  ASSUME OnePlan, TypeOK, HistoryInvariant, [Next]_vars, ~SavesNode
  PROVE  MakesPart(fast') /\ MakesPart(disk') /\ MakesPart(reload')
<1>1. IsFile(fast) /\ IsFile(reload) /\ r \in Reactor
  BY DEF TypeOK, FilesOK, LoopOK
<1>2. /\ MakesPart(fast) /\ MakesPart(disk) /\ MakesPart(reload) /\ MakesPart(NoFile)
      /\ \A p : MakesPart(NewFile(p))
  BY PartIsReflexive, PartOfNothing DEF MakesPart, NoFile, NewFile
<1>3. CASE UNCHANGED <<fast, disk, reload>> \/ CopiesFile \/ HandsOverFile \/ OpensFile
  BY <1>2, <1>3 DEF CopiesFile, HandsOverFile, OpensFile
<1>4. ASSUME NEW name \in {"EOL", "error"}, ClosesFile(name)
      PROVE  MakesPart(fast') /\ MakesPart(disk') /\ MakesPart(reload')
  <2>1. IsFile(Written(<<r.cycle, r.node, name>>, r))
    <3>1. name \in StatepointNames
      BY <1>4 DEF StatepointNames
    <3> QED
      BY <1>1, <3>1, WrittenIsFile, KeyTypes DEF TypeOK, LoopOK
  <2>3. name # ""
    BY <1>4
  <2>2. PartOf(disk', fast)
    BY <1>1, <1>4, <2>1, <2>3, PartWithExtra DEF ClosesFile
  <2> QED
    BY <1>2, <1>4, <2>2 DEF ClosesFile, MakesPart
<1>5. CASE MergesFile
  <2> DEFINE keys == MergedKeys(reload.steps, cs.start)
  <2>1. fast' = Merged(keys) /\ UNCHANGED <<disk, reload>>
    BY <1>5 DEF MergesFile
  <2> HIDE DEF keys
  <2>2. /\ DOMAIN fast'.steps = DOMAIN reload.steps \cap keys
        /\ \A k \in DOMAIN reload.steps \cap keys : fast'.steps[k] = reload.steps[k]
    BY <1>1, <2>1, MergedSteps
  <2>3. PartOf(fast', reload)
    BY <2>2, PartOfAll
  <2> QED
    BY <1>2, <2>1, <2>3 DEF MakesPart
<1>6. CASE LeavesFile
  <2>1. [fast EXCEPT !.done = FALSE].steps = fast.steps
    BY <1>1, DoneSteps
  <2>2. PartOf([fast EXCEPT !.done = FALSE], fast)
    BY <2>1, PartOfAll
  <2> QED
    BY <1>2, <1>6, <2>2 DEF LeavesFile, MakesPart
<1> QED
  BY <1>3, <1>4, <1>5, <1>6, FileMoves

LEMMA FilesStayTimed ==
  ASSUME OnePlan, TypeOK, HistoryInvariant, TypeOK', HistoryInvariant',
         TimelineInvariant, [Next]_vars
  PROVE  FilesTimed'
<1>1. /\ TimedInFile(fast) /\ TimedInFile(disk) /\ TimedInFile(reload) /\ ClockRuns
      /\ IsFile(fast) /\ HistoryInFile(fast)
  BY DEF TimelineInvariant, FilesTimed, TypeOK, FilesOK, HistoryInvariant, FilesHold
<1>2. /\ IsFile(fast') /\ IsFile(disk') /\ IsFile(reload')
      /\ HistoryInFile(fast') /\ HistoryInFile(disk') /\ HistoryInFile(reload')
  BY NextFiles
<1>3. ASSUME NEW g, MakesPart(g), IsFile(g), HistoryInFile(g) PROVE TimedInFile(g)
  BY <1>1, <1>3, TimedPart DEF MakesPart
<1>4. TimedInFile(fast') /\ TimedInFile(disk') /\ TimedInFile(reload')
  <2>1. CASE ~SavesNode
    BY <1>2, <1>3, <2>1, FilesAreParts
  <2>2. CASE SavesNode
    <3>1. /\ Here \in Nodes(AnyPlan) /\ SavesBefore(fast, Here)
          /\ at \in AtNode /\ NodeKey(Here) \notin DOMAIN fast.steps
      BY <2>2, PlaceOfSave
    <3>2. /\ r.time = Reached(fast.steps, Here) + Burned(Here)
          /\ r.outage = Outage[AnyPlan][r.cycle]
      BY <1>1, <3>1 DEF ClockRuns
    <3>3. TimedInFile(Written(NodeKey(Here), r))
      BY <1>1, <3>1, <3>2, TimedWritten
    <3>4. MakesPart(disk) /\ MakesPart(TornFile)
      BY PartIsReflexive, PartOfNothing DEF MakesPart, TornFile
    <3> QED
      BY <1>1, <1>2, <1>3, <2>2, <3>3, <3>4 DEF SavesNode
  <2> QED
    BY <2>1, <2>2
<1> QED
  BY <1>4 DEF FilesTimed, TimedInFile, Saved, Reached, Burned

(* The copy in the working directory never has what the file lacks. *)
LEMMA CopyStaysPart ==
  ASSUME OnePlan, TypeOK, HistoryInvariant, TimelineInvariant, [Next]_vars
  PROVE  CopyIsPart'
<1>1. /\ CopyIsPart /\ IsFile(fast) /\ IsFile(disk)
      /\ Restarting /\ Resting
  BY DEF TimelineInvariant, TypeOK, FilesOK, HistoryInvariant, PlacesHold
<1>2. ASSUME at' # "idle", h5' \in {"open", "syncing"} => PartOf(disk', fast') PROVE CopyIsPart'
  BY <1>2 DEF CopyIsPart, PartOf, Saved
<1>3. ASSUME UNCHANGED <<h5, fast, disk>>, at' # "idle" PROVE CopyIsPart'
  BY <1>1, <1>2, <1>3 DEF CopyIsPart
<1>4. CASE DatabaseEveryNode \/ SaveAfterCoupling
  <2>1. CASE UNCHANGED <<h5, fast, disk>> /\ at' = "error"
    BY <1>3, <2>1
  <2>2. CASE SavesNode /\ at' # "idle"
    <3>1. h5 = "open" /\ NodeKey(Here) \notin DOMAIN fast.steps
      BY <2>2 DEF SavesNode, CanWrite
    <3>2. /\ DOMAIN fast'.steps = DOMAIN fast.steps \cup {NodeKey(Here)}
          /\ \A k \in DOMAIN fast.steps \cup {NodeKey(Here)} :
               fast'.steps[k] = IF k = NodeKey(Here) THEN r ELSE fast.steps[k]
      BY <1>1, <2>2, WrittenSteps DEF SavesNode
    <3>3. PartOf(disk, fast)
      BY <1>1, <3>1 DEF CopyIsPart
    <3>4. PartOf(disk, fast')
      BY <3>1, <3>2, <3>3 DEF PartOf, Saved
    <3>5. PartOf(TornFile, fast')
      BY PartOfNothing DEF TornFile
    <3> QED
      BY <1>2, <2>2, <3>4, <3>5 DEF SavesNode
  <2> QED
    BY <1>4, <2>1, <2>2, WriteOutcomes
<1>5. CASE DatabaseEOL
  <2>1. h5' = "shut" \/ UNCHANGED <<h5, fast, disk>>
    BY <1>5 DEF DatabaseEOL, CloseFile, CanWrite, dbVars
  <2>2. at' # "idle"
    BY <1>5 DEF DatabaseEOL, HookReturns, Raise, GoTo
  <2> QED
    BY <1>2, <1>3, <2>1, <2>2
<1>6. CASE HandleError
  <2>1. h5' = "shut" \/ UNCHANGED <<h5, fast, disk>>
    BY <1>6 DEF HandleError, CloseFile, CanWrite, dbVars
  <2>2. at' # "idle"
    BY <1>6 DEF HandleError, GoTo
  <2> QED
    BY <1>2, <1>3, <2>1, <2>2
<1>7. CASE Synced
  <2>1. disk' = fast' /\ at' = at /\ h5 = "syncing"
    BY <1>7 DEF Synced, FinishSync
  <2>2. at' # "idle"
    BY <2>1 DEF TypeOK
  <2> QED
    BY <1>2, <2>1, <2>2, PartIsReflexive
<1>8. CASE CopyCutShort
  <2>1. UNCHANGED <<fast, disk, at>> /\ h5 = "syncing"
    BY <1>8 DEF CopyCutShort, ShortSync
  <2>2. at' # "idle"
    BY <2>1 DEF TypeOK
  <2> QED
    BY <1>1, <1>2, <2>1, <2>2 DEF CopyIsPart
<1>9. CASE StartRun
  <2>1. at = "idle" /\ UNCHANGED disk /\ at' # "idle"
    BY <1>9 DEF StartRun, OpenForWriting, GoTo, Interact
  <2>2. PartOf(disk', fast')
    BY <1>1, <2>1 DEF CopyIsPart, PartOf
  <2> QED
    BY <1>2, <2>1, <2>2
<1>10. CASE PrepRestart
  <2>1. at = "prep" /\ at' # "idle" /\ UNCHANGED disk
    BY <1>10 DEF PrepRestart, MergeHistory, Interact, GoTo, dbVars
  <2>2. h5 = "open" /\ Saved(fast) = {}
    BY <1>1, <2>1 DEF Restarting, Saved
  <2>3. PartOf(disk', fast')
    BY <1>1, <2>1, <2>2 DEF CopyIsPart, PartOf
  <2> QED
    BY <1>2, <2>1, <2>3
<1>11. CASE ExitRun \/ Kill
  BY <1>2, <1>11 DEF ExitRun, Kill, ExitProcess, LoseProcess, GoTo
<1>12. ASSUME NEW plan, NEW start, Resubmit(plan, start) PROVE CopyIsPart'
  <2>1. h5' = "none" /\ disk' = NoFile /\ cs'.fromDB
    BY <1>1, <1>12 DEF Resubmit, Resting
  <2> QED
    BY <2>1, EmptySteps DEF CopyIsPart, NoFile, Saved
<1>13. ASSUME NEW i, HookSkipped(i) \/ PhysicsBOC(i) \/ Solve(i) \/ IdleHook(i) \/ HookRaises(i)
       PROVE  CopyIsPart'
  <2>1. UNCHANGED <<h5, fast, disk>> /\ at' \in {at, "error"} /\ at # "idle"
    BY <1>13
    DEF HookSkipped, PhysicsBOC, Solve, IdleHook, HookRaises, IsNext, InteractionPoints,
        HookReturns, Raise, GoTo, dbVars
  <2> QED
    BY <1>3, <2>1
<1>14. CASE \/ FuelHandlerBOC \/ AfterRestart \/ AfterRestartEOC \/ AfterBOL \/ AfterBOC
            \/ AfterEveryNode \/ AfterCoupled \/ AfterSave \/ AfterEOC \/ AfterEOL
  <2>1. UNCHANGED <<h5, fast, disk>>
    BY <1>14
    DEF FuelHandlerBOC, AfterRestart, AfterRestartEOC, AfterBOL, AfterBOC, AfterEveryNode,
        AfterCoupled, AfterSave, AfterEOC, AfterEOL, dbVars
  <2>2. at' # "idle"
    BY <1>14
    DEF FuelHandlerBOC, HookReturns, AfterRestart, AfterRestartEOC, AfterBOL, AfterBOC,
        AfterEveryNode, AfterCoupled, AfterSave, AfterEOC, AfterEOL, Interact, GoTo, BeginCycle,
        EnterNode, LeaveNode, Iterate
  <2> QED
    BY <1>3, <2>1, <2>2
<1>15. CASE UNCHANGED vars
  BY <1>1, <1>15 DEF vars, CopyIsPart, PartOf, Saved
<1> QED
  BY <1>4, <1>5, <1>6, <1>7, <1>8, <1>9, <1>10, <1>11, <1>12, <1>13, <1>14, <1>15
  DEF Next, Step, Hook, Loop, Failure, Finished
-----------------------------------------------------------------------------
(* Every step keeps the clock right. *)

(* A run that has ended, or goes on to its end, keeps no more time.        *)
LEMMA ClockAtEnd == ASSUME at' \in {"prep", "EOL", "error", "failed", "done"} PROVE ClockRuns'
BY DEF ClockRuns, AtNode

LEMMA ClockStays ==
  ASSUME ClockRuns, UNCHANGED <<at, fast, cs>>, Here' = Here,
         r'.time = r.time, r'.outage = r.outage, r'.cycle = r.cycle
  PROVE  ClockRuns'
BY DEF ClockRuns, Reached, Burned

(* The time of the node just saved is that of the reactor.                 *)
LEMMA SavedTime ==
  ASSUME OnePlan, TypeOK, ClockRuns, TimedInFile(fast), at \in AtNode, JustSaved
  PROVE  fast.steps[NodeKey(Here)].time = r.time
<1>1. At(NodeKey(Here)) = Here /\ NodeKey(Here)[3] = ""
  BY HereAndThere DEF TypeOK, LoopOK, NodeKey
<1>2. NodeKey(Here) \in Saved(fast)
  BY <1>1 DEF JustSaved, Saved
<1>3. fast.steps[NodeKey(Here)].time = Reached(fast.steps, Here) + Burned(Here)
  BY <1>1, <1>2 DEF TimedInFile
<1> QED
  BY <1>3 DEF ClockRuns

LEMMA ClockAtNextNode ==
  ASSUME OnePlan, TypeOK, PlacesHold, ClockRuns, TimedInFile(fast),
         at \in AtNode, IsWritten, LeaveNode, UNCHANGED <<fast, cs>>
  PROVE  ClockRuns'
<1>1. /\ r \in Reactor /\ r.cycle \in Nat /\ r.node \in Nat /\ r.time \in Nat /\ r.outage \in Nat
      /\ cs.plan = AnyPlan /\ AnyPlan \in Plans
  BY ThePlan DEF TypeOK, LoopOK, CaseOK, Reactor
<1>2. Here \in Nodes(AnyPlan) /\ JustSaved
  BY <1>1 DEF PlacesHold, Cycling
<1>3. fast.steps[NodeKey(Here)].time = r.time
  BY <1>2, SavedTime
<1>4. r.outage = Outage[AnyPlan][r.cycle]
  BY DEF ClockRuns
<1>5. CASE r.node < BurnSteps(cs.plan, r.cycle)
  <2> DEFINE next == <<r.cycle, r.node + 1>>
             dt == StepLengths[AnyPlan][r.cycle][r.node + 1]
  <2>1. r.cycle \in CyclesOf(AnyPlan) /\ BurnSteps(AnyPlan, r.cycle) \in Nat
    BY <1>1, <1>2, NodeTypes, PlanTypes DEF Here
  <2>2. dt \in Nat
    BY <1>1, <1>5, <2>1, PlanTypes
  <2>3. r.node + 1 # 0 /\ r.node + 1 \in Nat /\ r.node + 1 - 1 = r.node
    BY <1>1
  <2>4. Interact("EveryNode", [r EXCEPT !.node = r.node + 1, !.time = @ + dt])
    BY <1>1, <1>5, <2>3 DEF LeaveNode, EnterNode
  <2> HIDE DEF dt
  <2>5. /\ at' = "EveryNode"
        /\ r'.cycle = r.cycle /\ r'.node = r.node + 1 /\ r'.time = r.time + dt
        /\ r'.outage = r.outage
    BY <1>1, <2>4 DEF Interact, Reactor
  <2>6. Here' = next
    BY <2>5 DEF Here
  <2>7. PreviousNode(AnyPlan, next[1], next[2]) = Here
    <3>1. next[1] = r.cycle /\ next[2] # 0 /\ next[2] - 1 = r.node
      BY <1>1
    <3> HIDE DEF next
    <3> QED
      BY <3>1 DEF PreviousNode, Here
  <2>8. next # <<0, 0>> /\ next[2] # 0 /\ Burned(next) = dt
    BY <2>3 DEF Burned, dt
  <2> HIDE DEF next
  <2>9. Reached(fast.steps, next) = r.time
    BY <1>1, <1>3, <2>7, <2>8 DEF Reached
  <2>10. r'.time = Reached(fast'.steps, Here') + Burned(Here')
    BY <1>1, <2>2, <2>5, <2>6, <2>8, <2>9
  <2> QED
    BY <1>4, <2>5, <2>10 DEF ClockRuns, AtNode, Reached, Burned
<1>6. CASE ~(r.node < BurnSteps(cs.plan, r.cycle))
  <2>1. at' = "EOC" /\ r' = AfterOutage(r)
    BY <1>6 DEF LeaveNode, Interact
  <2>2. /\ r'.cycle = r.cycle /\ r'.node = r.node
        /\ r'.time = r.time + r.outage /\ r'.outage = r.outage
    BY <1>1, <2>1 DEF AfterOutage, Reactor
  <2>3. Here' = Here
    BY <2>2 DEF Here
  <2> QED
    BY <1>3, <1>4, <2>1, <2>2, <2>3 DEF ClockRuns, AtNode
<1> QED
  BY <1>5, <1>6

LEMMA ClockAtNextCycle ==
  ASSUME OnePlan, TypeOK, PlacesHold, ClockRuns, at = "EOC",
         BeginCycle(r.cycle + 1, 0), UNCHANGED <<fast, cs>>
  PROVE  ClockRuns'
<1>1. /\ r \in Reactor /\ r.cycle \in Nat /\ r.node \in Nat /\ r.time \in Nat
      /\ cs.plan = AnyPlan /\ AnyPlan \in Plans
  BY ThePlan DEF TypeOK, LoopOK, CaseOK, Reactor
<1>2. r.node = BurnSteps(AnyPlan, r.cycle)
  BY <1>1 DEF PlacesHold, Cycling
<1>3. /\ r.time = fast.steps[NodeKey(Here)].time + r.outage
      /\ r.outage = Outage[AnyPlan][r.cycle]
  BY DEF ClockRuns
<1>4. CASE r.cycle + 1 < NCycles[cs.plan]
  <2> DEFINE next == <<r.cycle + 1, 0>>
             out == Outage[AnyPlan][r.cycle + 1]
  <2>1. Interact("BOC", [r EXCEPT !.cycle = r.cycle + 1, !.node = 0, !.iter = 0, !.outage = out])
    BY <1>1, <1>4 DEF BeginCycle
  <2> HIDE DEF out
  <2>2. /\ at' = "BOC" /\ r'.cycle = r.cycle + 1 /\ r'.node = 0
        /\ r'.time = r.time /\ r'.outage = out
    BY <1>1, <2>1 DEF Interact, Reactor
  <2>3. Here' = next
    BY <2>2 DEF Here
  <2>4. next # <<0, 0>> /\ next[2] = 0 /\ next[1] - 1 = r.cycle
    BY <1>1
  <2> HIDE DEF next
  <2>5. PreviousNode(AnyPlan, next[1], next[2]) = Here
    BY <1>2, <2>4 DEF PreviousNode, Here
  <2>6. Reached(fast.steps, next) = r.time
    <3>1. Outage[AnyPlan][next[1] - 1] = r.outage
      BY <1>3, <2>4
    <3> QED
      BY <1>3, <2>4, <2>5, <3>1 DEF Reached
  <2> QED
    BY <2>2, <2>3, <2>6 DEF ClockRuns, AtNode, Reached, out
<1>5. CASE ~(r.cycle + 1 < NCycles[cs.plan])
  <2>1. at' = "EOL"
    BY <1>5 DEF BeginCycle, Interact
  <2> QED
    BY <2>1, ClockAtEnd
<1> QED
  BY <1>4, <1>5

LEMMA ClockAfterRestart ==
  ASSUME OnePlan, TypeOK, TypeOK', HistoryInvariant, HistoryInvariant', TimelineInvariant,
         PrepRestart
  PROVE  ClockRuns'
<1> DEFINE prev == PreviousNode(cs.plan, cs.start[1], cs.start[2])
           key == <<prev[1], prev[2], "">>
<1>1. /\ cs.start \in Nodes(AnyPlan) /\ cs.start \in Restarts /\ cs.start \in Nat \X Nat
      /\ cs.plan = AnyPlan /\ AnyPlan \in Plans /\ IsFile(fast) /\ IsFile(reload)
      /\ TimedInFile(reload) /\ at = "prep" /\ UNCHANGED cs
  BY ThePlan, NodeTypes
  DEF PrepRestart, TypeOK, CaseOK, FilesOK, HistoryInvariant, PlacesHold, Restarting,
      TimelineInvariant, FilesTimed, unchangedBetween, unchangedCase
<1>2. CASE at' = "error"
  BY <1>2, ClockAtEnd
<1>3. CASE at' # "error"
  <2>1. key \in DOMAIN reload.steps /\ at' = "Restart" /\ r' = reload.steps[key]
        /\ SameHistory(reload.plan, cs.plan, prev[1], prev[2])
    BY <1>3 DEF PrepRestart, GoTo, Interact
  <2>2. MergesFile
    BY <1>1, <2>1 DEF PrepRestart, MergeHistory, MergesFile, Merged, unchangedBetween, unchangedCase
  <2>3. SavesBefore(fast', cs.start) /\ fast'.plan = AnyPlan
    <3>1. SavesBefore(fast, cs.start)'
      BY <2>1 DEF HistoryInvariant, PlacesHold, Restarting
    <3>2. IsFile(fast)'
      BY DEF TypeOK, FilesOK
    <3> QED
      BY <1>1, <3>1, <3>2, ThePlan DEF SavesBefore, IsFile
  <2>4. cs.start # <<0, 0>>
    BY <1>1, SettingAssumption
  <2>5. prev \in Nodes(AnyPlan) /\ Before(prev, cs.start) /\ NodeKey(prev) = key
    BY <1>1, <2>4, PreviousIsLast DEF NodeKey
  <2>6. cs.start[2] = 0 => prev[1] = cs.start[1] - 1
    BY <1>1 DEF PreviousNode
  <2>7. prev = PreviousNode(AnyPlan, cs.start[1], cs.start[2])
    BY <1>1
  <2>p. key[1] = prev[1] /\ key[3] = ""
    OBVIOUS
  <2> HIDE DEF prev, key
  <2>8. key \in DOMAIN fast'.steps
    BY <2>3, <2>5 DEF SavesBefore
  <2>9. fast'.steps[key] = reload.steps[key]
    <3> DEFINE keys == MergedKeys(reload.steps, cs.start)
    <3>1. fast' = Merged(keys)
      BY <2>2 DEF MergesFile
    <3> HIDE DEF keys
    <3>2. /\ DOMAIN fast'.steps = DOMAIN reload.steps \cap keys
          /\ \A k \in DOMAIN reload.steps \cap keys : fast'.steps[k] = reload.steps[k]
      BY <1>1, <3>1, MergedSteps
    <3> QED
      BY <2>8, <3>2
  <2>10. r'.outage = Outage[AnyPlan][prev[1]]
    BY <1>1, <2>1, <2>p DEF TimedInFile, Saved
  <2>11. r'.time \in Nat
    BY <1>1, <2>1 DEF IsFile, Reactor
  <2>12. Reached(fast'.steps, cs.start) = r'.time + IF cs.start[2] = 0 THEN r'.outage ELSE 0
    BY <2>1, <2>4, <2>5, <2>6, <2>7, <2>9, <2>10, <2>11 DEF Reached
  <2> QED
    BY <1>1, <2>1, <2>12 DEF ClockRuns, AtNode, Reached
<1> QED
  BY <1>2, <1>3

LEMMA ClockStaysRight ==
  ASSUME OnePlan, TypeOK, TypeOK', HistoryInvariant, HistoryInvariant', TimelineInvariant,
         [Next]_vars
  PROVE  ClockRuns'
<1>1. /\ r \in Reactor /\ r.cycle \in Nat /\ r.node \in Nat /\ r.time \in Nat /\ r.outage \in Nat
      /\ cs.plan = AnyPlan /\ AnyPlan \in Plans /\ IsFile(fast) /\ cs.start \in Nat \X Nat
      /\ PlacesHold /\ ClockRuns /\ TimedInFile(fast) /\ HistoryInFile(fast)
      /\ Resting /\ Cycling /\ Restarting
  BY ThePlan
  DEF TypeOK, LoopOK, CaseOK, FilesOK, Reactor, HistoryInvariant, PlacesHold, FilesHold,
      TimelineInvariant, FilesTimed
<1>2. ASSUME UNCHANGED <<at, fast, cs>>, \/ r' = r \/ r' = [r EXCEPT !.shuffles = @ + 1]
                                         \/ r' = [r EXCEPT !.swing = Never]
      PROVE  ClockRuns'
  <2>1. r'.time = r.time /\ r'.outage = r.outage /\ r'.cycle = r.cycle /\ r'.node = r.node
    BY <1>1, <1>2 DEF Reactor
  <2> QED
    BY <1>1, <1>2, <2>1, ClockStays DEF Here
<1>3. ASSUME NEW i, HookSkipped(i) \/ PhysicsBOC(i) \/ IdleHook(i) PROVE ClockRuns'
  BY <1>2, <1>3 DEF HookSkipped, PhysicsBOC, IdleHook, HookReturns, unchangedCase
<1>4. CASE FuelHandlerBOC \/ Synced \/ CopyCutShort
  BY <1>2, <1>4
  DEF FuelHandlerBOC, Synced, CopyCutShort, FinishSync, ShortSync, HookReturns, unchangedCase
<1>5. ASSUME NEW i, Solve(i) PROVE ClockRuns'
  <2>1. /\ UNCHANGED <<at, fast, cs>>
        /\ r'.time = r.time /\ r'.outage = r.outage /\ r'.cycle = r.cycle /\ r'.node = r.node
    BY <1>1, <1>5 DEF Solve, HookReturns, unchangedCase, Reactor
  <2> QED
    BY <1>1, <2>1, ClockStays DEF Here
<1>6. CASE DatabaseEveryNode \/ SaveAfterCoupling
  <2>1. CASE at' = "error"
    BY <2>1, ClockAtEnd
  <2>2. CASE SavesNode /\ at' \in AtNode
    <3>1. /\ Here \in Nodes(AnyPlan) /\ SavesBefore(fast, Here) /\ at \in AtNode
          /\ NodeKey(Here) \notin DOMAIN fast.steps
      BY <2>2, PlaceOfSave
    <3>2. fast' = Written(NodeKey(Here), r) /\ r' = r /\ Here' = Here
      BY <2>2 DEF SavesNode, Here
    <3>3. Reached(fast'.steps, Here) = Reached(fast.steps, Here)
      BY <1>1, <3>1, <3>2, ReachedWritten
    <3>4. /\ r.time = Reached(fast.steps, Here) + Burned(Here)
          /\ r.outage = Outage[AnyPlan][r.cycle]
      BY <1>1, <3>1 DEF ClockRuns
    <3>5. r'.time = Reached(fast'.steps, Here') + Burned(Here')
      BY <3>2, <3>3, <3>4
    <3> QED
      BY <2>2, <3>2, <3>4, <3>5 DEF ClockRuns, AtNode, Reached, Burned
  <2> QED
    BY <1>6, <2>1, <2>2, WriteOutcomes DEF AtNode
<1>7. CASE DatabaseEOL
  <2>1. at = "EOL" /\ at' \in {"EOL", "error"}
    BY <1>7 DEF DatabaseEOL, HookReturns, Raise, GoTo
  <2> QED
    BY <2>1, ClockAtEnd
<1>8. CASE HandleError \/ AfterEOL \/ \E i \in Interfaces : HookRaises(i)
  BY <1>8, ClockAtEnd DEF HandleError, AfterEOL, HookRaises, Raise, GoTo
<1>9. CASE StartRun
  <2>1. at = "idle" /\ UNCHANGED r /\ at' \in {"prep", "BOL"}
    BY <1>9 DEF StartRun, GoTo, Interact
  <2>2. r'.time = 0 /\ Here' = <<0, 0>>
    BY <1>1, <2>1 DEF ClockRuns, Resting, Here
  <2>3. r'.time = Reached(fast'.steps, Here')
    BY <2>2 DEF Reached
  <2> QED
    BY <2>1, <2>3 DEF ClockRuns, AtNode, Reached
<1>10. CASE PrepRestart
  BY <1>10, ClockAfterRestart
<1>11. CASE AfterRestart \/ AfterRestartEOC
  <2>1. /\ UNCHANGED <<fast, cs>>
        /\ \/ at = "Restart" /\ cs.start[2] = 0 /\ at' = "RestartEOC" /\ r' = AfterOutage(r)
           \/ at = "Restart" /\ cs.start[2] # 0 /\ at' = "BOL" /\ r' = AtStart(r)
           \/ at = "RestartEOC" /\ at' = "BOL" /\ r' = AtStart(r)
    BY <1>11
    DEF AfterRestart, AfterRestartEOC, Interacted, Interact, dbVars, unchangedBetween, unchangedCase
  <2>2. CASE at' = "RestartEOC"
    <3>1. r'.time = r.time + r.outage
      BY <1>1, <2>1, <2>2 DEF AfterOutage, Reactor
    <3>2. Reached(fast.steps, cs.start) = r.time + r.outage
      BY <1>1, <2>1, <2>2 DEF ClockRuns
    <3> QED
      BY <2>1, <2>2, <3>1, <3>2 DEF ClockRuns, AtNode, Reached
  <2>3. CASE at' = "BOL"
    <3>1. cs.start = <<cs.start[1], cs.start[2]>>
      BY <1>1
    <3>2. r'.time = r.time /\ Here' = cs.start
      BY <1>1, <2>1, <2>3, <3>1 DEF AtStart, Here, Reactor
    <3>3. Reached(fast.steps, cs.start) = r.time
      BY <1>1, <2>1, <2>3 DEF ClockRuns
    <3>4. r'.time = Reached(fast'.steps, Here')
      BY <2>1, <3>2, <3>3
    <3> QED
      BY <2>3, <3>4 DEF ClockRuns, AtNode, Reached
  <2> QED
    BY <2>1, <2>2, <2>3
<1>12. CASE AfterBOL
  <2>1. at = "BOL" /\ UNCHANGED <<cs, fast>> /\ BeginCycle(r.cycle, r.node)
    BY <1>12 DEF AfterBOL, Interacted, dbVars, unchangedBetween, unchangedCase
  <2>2. CASE r.cycle < NCycles[cs.plan]
    <3> DEFINE out == Outage[AnyPlan][r.cycle]
    <3>1. Interact("BOC", [r EXCEPT !.cycle = r.cycle, !.node = r.node, !.iter = 0, !.outage = out])
      BY <1>1, <2>1, <2>2 DEF BeginCycle
    <3> HIDE DEF out
    <3>2. /\ at' = "BOC" /\ r'.cycle = r.cycle /\ r'.node = r.node
          /\ r'.time = r.time /\ r'.outage = out
      BY <1>1, <3>1 DEF Interact, Reactor
    <3>3. Here' = Here
      BY <3>2 DEF Here
    <3>4. r.time = Reached(fast.steps, Here)
      BY <1>1, <2>1 DEF ClockRuns
    <3>5. r'.time = Reached(fast'.steps, Here') /\ r'.outage = Outage[AnyPlan][r'.cycle]
      BY <2>1, <3>2, <3>3, <3>4 DEF out
    <3> QED
      BY <3>2, <3>5 DEF ClockRuns, AtNode, Reached
  <2>3. CASE ~(r.cycle < NCycles[cs.plan])
    BY <2>1, <2>3, ClockAtEnd DEF BeginCycle, Interact
  <2> QED
    BY <2>2, <2>3
<1>13. CASE AfterBOC
  <2> DEFINE last == BurnSteps(cs.plan, r.cycle)
             first == IF r.node < last THEN r.node ELSE last
  <2>1. /\ at = "BOC" /\ UNCHANGED <<cs, fast>>
        /\ IF halt THEN Interact("EOL", r) ELSE EnterNode(first)
    BY <1>13 DEF AfterBOC, Interacted, dbVars, unchangedBetween, unchangedCase
  <2>2. Here \in Nodes(AnyPlan)
    BY <1>1, <2>1 DEF Cycling
  <2>3. r.cycle \in CyclesOf(AnyPlan) /\ last \in Nat /\ r.node <= last
    BY <1>1, <2>2, NodeTypes, PlanTypes DEF Here
  <2>4. first = r.node
    BY <1>1, <2>3
  <2>5. CASE halt
    BY <2>1, <2>5, ClockAtEnd DEF Interact
  <2>6. CASE ~halt
    <3> DEFINE dt == IF r.node = 0 THEN 0 ELSE StepLengths[AnyPlan][r.cycle][r.node]
    <3>1. Interact("EveryNode", [r EXCEPT !.node = r.node, !.time = @ + dt])
      BY <1>1, <2>1, <2>4, <2>6 DEF EnterNode
    <3>2. dt \in Nat /\ Burned(Here) = dt
      <4>1. r.node # 0 => r.node \in 1 .. last
        BY <1>1, <2>3
      <4>2. dt \in Nat
        BY <1>1, <2>3, <4>1, PlanTypes
      <4> QED
        BY <4>2 DEF Burned, Here
    <3> HIDE DEF dt
    <3>3. /\ at' = "EveryNode" /\ r'.cycle = r.cycle /\ r'.node = r.node
          /\ r'.time = r.time + dt /\ r'.outage = r.outage
      BY <1>1, <3>1 DEF Interact, Reactor
    <3>4. Here' = Here
      BY <3>3 DEF Here
    <3>5. r.time = Reached(fast.steps, Here) /\ r.outage = Outage[AnyPlan][r.cycle]
      BY <1>1, <2>1 DEF ClockRuns
    <3>6. r'.time = Reached(fast'.steps, Here') + Burned(Here')
      BY <2>1, <3>2, <3>3, <3>4, <3>5
    <3> QED
      BY <3>3, <3>5, <3>6 DEF ClockRuns, AtNode, Reached, Burned
  <2> QED
    BY <2>5, <2>6
<1>14. CASE AfterEveryNode \/ AfterCoupled \/ AfterSave
  <2>1. /\ at \in AtNode /\ UNCHANGED <<fast, cs>>
        /\ \/ LeaveNode /\ IsWritten
           \/ (GoTo("save") /\ UNCHANGED r) \/ \E k : Iterate(k)
    BY <1>14
    DEF AfterEveryNode, AfterCoupled, AfterSave, Interacted, IsWritten, AtNode, dbVars,
        unchangedBetween, unchangedCase
  <2>2. CASE LeaveNode /\ IsWritten
    BY <1>1, <2>1, <2>2, ClockAtNextNode
  <2>3. CASE (GoTo("save") /\ UNCHANGED r) \/ \E k : Iterate(k)
    <3>1. /\ at' \in AtNode /\ r'.cycle = r.cycle /\ r'.node = r.node
          /\ r'.time = r.time /\ r'.outage = r.outage
      BY <1>1, <2>3 DEF GoTo, Iterate, Interact, Reactor, AtNode
    <3>2. Here' = Here
      BY <3>1 DEF Here
    <3>3. r.time = Reached(fast.steps, Here) + Burned(Here) /\ r.outage = Outage[AnyPlan][r.cycle]
      BY <1>1, <2>1 DEF ClockRuns
    <3>4. r'.time = Reached(fast'.steps, Here') + Burned(Here')
      BY <2>1, <3>1, <3>2, <3>3
    <3> QED
      BY <3>1, <3>3, <3>4 DEF ClockRuns, AtNode, Reached, Burned
  <2> QED
    BY <2>1, <2>2, <2>3
<1>15. CASE AfterEOC
  <2>1. at = "EOC" /\ BeginCycle(r.cycle + 1, 0) /\ UNCHANGED <<fast, cs>>
    BY <1>15 DEF AfterEOC, Interacted, dbVars, unchangedBetween, unchangedCase
  <2> QED
    BY <1>1, <2>1, ClockAtNextCycle
<1>16. CASE ExitRun \/ Kill
  <2>1. at' \in {"exited", "killed"} /\ r' = FreshReactor
    BY <1>16 DEF ExitRun, Kill, GoTo, MemoryLost
  <2>2. r'.time = 0
    BY <2>1 DEF FreshReactor
  <2> QED
    BY <2>1, <2>2 DEF ClockRuns, AtNode
<1>17. ASSUME NEW plan, NEW start, Resubmit(plan, start) PROVE ClockRuns'
  <2>1. at \in {"exited", "killed"} /\ at' = "idle" /\ UNCHANGED r
    BY <1>17 DEF Resubmit, GoTo
  <2> QED
    BY <1>1, <2>1 DEF ClockRuns, AtNode
<1>18. CASE UNCHANGED vars
  BY <1>2, <1>18 DEF vars
<1> QED
  BY <1>3, <1>4, <1>5, <1>6, <1>7, <1>8, <1>9, <1>10, <1>11, <1>12, <1>13, <1>14, <1>15,
     <1>16, <1>17, <1>18
  DEF Next, Step, Hook, Loop, Failure, Finished

LEMMA OnePlanLeavesNoGap == ASSUME OnePlan PROVE NoGap
<1> SUFFICES ASSUME NEW p \in Plans, NEW q \in Plans, NEW start \in Restarts, start \in Nodes(q)
             PROVE  start \in Nodes(p)
  BY DEF NoGap
<1> QED
  BY DEF OnePlan

LEMMA TimelineIsInvariant ==
  ASSUME OnePlan
  PROVE  Spec => []TimelineInvariant
<1>1. Init => TimelineInvariant
  <2> SUFFICES ASSUME Init PROVE TimelineInvariant
    OBVIOUS
  <2>1. fast = NoFile /\ disk = NoFile /\ reload = NoFile /\ h5 = "none" /\ at = "idle" /\ r.time = 0
    BY DEF Init, FreshReactor
  <2>2. Saved(NoFile) = {}
    BY EmptySteps DEF NoFile, Saved
  <2> QED
    BY <2>1, <2>2
    DEF TimelineInvariant, FilesTimed, TimedInFile, CopyIsPart, PartOf, ClockRuns, AtNode
<1>2. /\ TypeOK /\ TypeOK' /\ HistoryInvariant /\ HistoryInvariant'
      /\ TimelineInvariant /\ [Next]_vars
      => TimelineInvariant'
  BY FilesStayTimed, CopyStaysPart, ClockStaysRight DEF TimelineInvariant
<1>3. Spec => []HistoryInvariant
  BY OnePlanLeavesNoGap, HistoryIsInvariant
<1> QED
  BY <1>1, <1>2, <1>3, TypeCorrect, PTL DEF Spec
-----------------------------------------------------------------------------
(* The refinement. *)

LEMMA SameCalendar ==
  /\ \A a, b : History!Before(a, b) <=> Before(a, b)
  /\ History!Nodes(AnyPlan) = Nodes(AnyPlan)
  /\ \A c, n : History!PreviousNode(AnyPlan, c, n) = PreviousNode(AnyPlan, c, n)
<1>1. \A a, b : History!Before(a, b) <=> Before(a, b)
  BY DEF History!Before, Before
<1>2. History!Nodes(AnyPlan) = Nodes(AnyPlan)
  BY DEF History!Nodes, History!CyclesOf, History!BurnSteps, Nodes, CyclesOf, BurnSteps
<1>3. \A c, n : History!PreviousNode(AnyPlan, c, n) = PreviousNode(AnyPlan, c, n)
  BY DEF History!PreviousNode, History!BurnSteps, PreviousNode, BurnSteps
<1> QED
  BY <1>1, <1>2, <1>3

(* Losing all but a part without gaps is losing an end of the history.     *)
LEMMA PartIsCut ==
  ASSUME OnePlan, NEW f, IsFile(f), TimedInFile(f),
         NEW g, IsFile(g), TimedInFile(g), HistoryInFile(g), PartOf(g, f),
         SavedHistory = HistoryOf(f), SavedHistory' = HistoryOf(g)
  PROVE  [History!Next]_SavedHistory
<1>1. /\ SavedHistory = [a \in NodesIn(f) |-> EntryOf(f, a)]
      /\ SavedHistory' = [a \in NodesIn(g) |-> EntryOf(g, a)]
  BY HistoryOfFile
<1>2. \A a \in Nodes(AnyPlan) : a \in Nat \X Nat
  BY ThePlan, NodeTypes
<1>3. ASSUME NEW a \in NodesIn(g) PROVE a \in NodesIn(f) /\ EntryOf(g, a) = EntryOf(f, a)
  <2>1. NodeKey(a) \in Saved(g)
    BY <1>2, KeysOfNodes DEF NodesIn, Saved
  <2>2. NodeKey(a) \in DOMAIN f.steps /\ g.steps[NodeKey(a)] = f.steps[NodeKey(a)]
    BY <2>1 DEF PartOf, Saved
  <2> QED
    BY <2>2 DEF NodesIn, EntryOf
<1>4. CASE NodesIn(g) = NodesIn(f)
  <2>1. SavedHistory' = SavedHistory
    BY <1>1, <1>3, <1>4
  <2> QED
    BY <2>1
<1>5. CASE NodesIn(g) # NodesIn(f)
  <2> DEFINE Lost == NodesIn(f) \ NodesIn(g)
  <2>1. Lost # {} /\ Lost \subseteq Nat \X Nat
    BY <1>2, <1>3, <1>5 DEF NodesIn
  <2>2. PICK first \in Lost : \A b \in Lost : ~Before(b, first)
    BY <2>1, FirstNode
  <2>3. first \in Nodes(AnyPlan) /\ first \in Nat \X Nat
    BY <1>2 DEF NodesIn
  <2>4. ASSUME NEW a \in NodesIn(g) PROVE Before(a, first)
    <3>1. a \in Nat \X Nat /\ a # first
      BY <1>2 DEF NodesIn
    <3>2. ~Before(first, a)
      <4> SUFFICES ASSUME Before(first, a) PROVE FALSE
        OBVIOUS
      <4>1. SavesBefore(g, At(NodeKey(a)))
        BY DEF NodesIn, HistoryInFile
      <4>2. g.plan = AnyPlan /\ At(NodeKey(a)) = a
        BY <3>1, ThePlan, KeysOfNodes DEF IsFile
      <4>3. NodeKey(first) \in DOMAIN g.steps
        BY <2>3, <4>1, <4>2 DEF SavesBefore
      <4> QED
        BY <2>3, <4>3 DEF NodesIn
    <3> QED
      BY <2>3, <3>1, <3>2, BeforeIsOrder
  <2>5. NodesIn(g) = NodesIn(f) \cap {a \in Nodes(AnyPlan) : Before(a, first)}
    BY <1>3, <2>2, <2>4 DEF NodesIn
  <2>6. History!Earlier(first) = {a \in Nodes(AnyPlan) : Before(a, first)}
    BY SameCalendar DEF History!Earlier
  <2>7. DOMAIN SavedHistory = NodesIn(f) /\ \A a \in NodesIn(f) : SavedHistory[a] = EntryOf(f, a)
    BY <1>1
  <2>8. SavedHistory' = [a \in DOMAIN SavedHistory \cap History!Earlier(first) |-> SavedHistory[a]]
    BY <1>1, <1>3, <2>5, <2>6, <2>7
  <2>9. History!Cut(first)
    BY <2>8 DEF History!Cut
  <2>10. first \in History!Nodes(AnyPlan)
    BY <2>3, SameCalendar
  <2> QED
    BY <2>9, <2>10 DEF History!Next
<1> QED
  BY <1>4, <1>5

(* The write of a node extends the history by the next node of the plan,   *)
(* at its exact time and shuffled for its cycle.                           *)
LEMMA WriteIsSave ==
  ASSUME OnePlan, TypeOK, TypeOK', HistoryInvariant, TimelineInvariant, TimelineInvariant',
         ShufflingInvariant, SavesNode, CaseFile = fast, CaseFile' = fast'
  PROVE  History!SaveNext(Here)
<1>1. /\ IsFile(fast) /\ TimedInFile(fast) /\ IsFile(fast') /\ TimedInFile(fast')
      /\ ClockRuns /\ ShufflesMatchCycle
  <2>1. TimedInFile(fast')
    BY DEF TimelineInvariant, FilesTimed, TimedInFile, Saved, Reached, Burned
  <2>2. IsFile(fast')
    BY DEF TypeOK, FilesOK, IsFile
  <2> QED
    BY <2>1, <2>2 DEF TypeOK, FilesOK, TimelineInvariant, FilesTimed, ShufflingInvariant
<1>2. /\ Here \in Nodes(AnyPlan) /\ NotYet(Here) /\ SavesBefore(fast, Here)
      /\ at \in AtNode /\ NodeKey(Here) \notin DOMAIN fast.steps /\ fast.plan = AnyPlan
  BY PlaceOfSave
<1>3. \A a \in Nodes(AnyPlan) : a \in Nat \X Nat /\ At(NodeKey(a)) = a
  BY ThePlan, NodeTypes, KeysOfNodes
<1>4. /\ SavedHistory = [a \in NodesIn(fast) |-> EntryOf(fast, a)]
      /\ SavedHistory' = [a \in NodesIn(fast') |-> EntryOf(fast', a)]
  <2>1. SavedHistory = HistoryOf(fast)
    BY DEF SavedHistory
  <2>2. SavedHistory' = HistoryOf(fast')
    BY DEF SavedHistory, HistoryOf, Saved
  <2> QED
    BY <1>1, <2>1, <2>2, HistoryOfFile
<1>5. NodesIn(fast) = {a \in Nodes(AnyPlan) : Before(a, Here)}
  BY <1>2, <1>3 DEF NodesIn, NotYet, SavesBefore
<1>6. /\ DOMAIN fast'.steps = DOMAIN fast.steps \cup {NodeKey(Here)}
      /\ \A k \in DOMAIN fast.steps \cup {NodeKey(Here)} :
           fast'.steps[k] = IF k = NodeKey(Here) THEN r ELSE fast.steps[k]
  BY <1>1, WrittenSteps DEF SavesNode
<1>7. \A a \in Nodes(AnyPlan) : NodeKey(a) = NodeKey(Here) <=> a = Here
  BY <1>2, <1>3
<1>8. NodesIn(fast') = NodesIn(fast) \cup {Here}
  BY <1>2, <1>6, <1>7 DEF NodesIn
<1>9. \A a \in NodesIn(fast) : a # Here /\ EntryOf(fast', a) = EntryOf(fast, a)
  <2> SUFFICES ASSUME NEW a \in NodesIn(fast)
               PROVE  a # Here /\ EntryOf(fast', a) = EntryOf(fast, a)
    OBVIOUS
  <2>1. NodeKey(a) \in DOMAIN fast.steps /\ NodeKey(a) # NodeKey(Here)
    BY <1>2 DEF NodesIn
  <2>2. fast'.steps[NodeKey(a)] = fast.steps[NodeKey(a)]
    BY <1>6, <2>1
  <2> QED
    BY <2>1, <2>2 DEF EntryOf
<1>10. EntryOf(fast', Here) = [time |-> r.time, shuffles |-> r.shuffles]
  BY <1>6 DEF EntryOf
<1>11. r.shuffles = Here[1] + 1
  BY <1>1, <1>2 DEF ShufflesMatchCycle, Here
<1>12. r.time = History!TimeOf(Here)
  <2>1. r.time = Reached(fast.steps, Here) + Burned(Here)
    BY <1>1, <1>2 DEF ClockRuns
  <2>2. CASE Here = <<0, 0>>
    <3>1. Reached(fast.steps, Here) = 0 /\ Burned(Here) = 0
      BY <2>2 DEF Reached, Burned
    <3> QED
      BY <2>1, <2>2, <3>1 DEF History!TimeOf
  <2>3. CASE Here # <<0, 0>>
    <3> DEFINE prev == PreviousNode(AnyPlan, Here[1], Here[2])
    <3>1. prev \in Nodes(AnyPlan) /\ Before(prev, Here)
      BY <1>2, <2>3, ThePlan, PreviousIsLast
    <3>2. prev = History!PreviousNode(AnyPlan, Here[1], Here[2])
      BY SameCalendar
    <3> HIDE DEF prev
    <3>3. prev \in NodesIn(fast)
      BY <1>5, <3>1
    <3>4. SavedHistory[prev].time = fast.steps[NodeKey(prev)].time
      BY <1>4, <3>3 DEF EntryOf
    <3>5. /\ Here[1] \in Nat /\ Here[2] \in Nat /\ Here = <<Here[1], Here[2]>>
      BY <1>2, <1>3
    <3>6. Here[2] = 0 => Here[1] > 0
      BY <2>3, <3>5
    <3>7. fast.steps[NodeKey(prev)].time \in Nat
      BY <1>1, <3>3 DEF NodesIn, IsFile, Reactor
    <3>8. /\ Here[2] = 0 => Outage[AnyPlan][Here[1] - 1] \in Nat
          /\ Here[2] # 0 => StepLengths[AnyPlan][Here[1]][Here[2]] \in Nat
      <4>1. Here[1] \in CyclesOf(AnyPlan) /\ Here[2] <= BurnSteps(AnyPlan, Here[1])
        BY <1>2, ThePlan, NodeTypes
      <4>2. Here[2] = 0 => Here[1] - 1 \in CyclesOf(AnyPlan)
        BY <3>5, <3>6, <4>1, ThePlan, PlanAssumption DEF CyclesOf
      <4>3. BurnSteps(AnyPlan, Here[1]) \in Nat
        BY <4>1, ThePlan, PlanTypes
      <4>4. Here[2] # 0 => Here[2] \in 1 .. BurnSteps(AnyPlan, Here[1])
        BY <3>5, <4>1, <4>3
      <4> QED
        BY <4>1, <4>2, <4>4, ThePlan, PlanTypes
    <3>9. Reached(fast.steps, Here) + Burned(Here) =
            fast.steps[NodeKey(prev)].time + History!TimeInto(Here[1], Here[2])
      <4>1. CASE Here[2] = 0
        <5>1. Burned(Here) = 0 /\ History!TimeInto(Here[1], Here[2]) = Outage[AnyPlan][Here[1] - 1]
          BY <3>6, <4>1 DEF Burned, History!TimeInto
        <5>2. Reached(fast.steps, Here) =
                fast.steps[NodeKey(prev)].time + Outage[AnyPlan][Here[1] - 1]
          BY <2>3, <4>1 DEF Reached, prev
        <5> QED
          BY <3>7, <3>8, <4>1, <5>1, <5>2
      <4>2. CASE Here[2] # 0
        <5>1. Here[2] > 0
          BY <3>5, <4>2
        <5>2. /\ Burned(Here) = StepLengths[AnyPlan][Here[1]][Here[2]]
              /\ History!TimeInto(Here[1], Here[2]) = StepLengths[AnyPlan][Here[1]][Here[2]]
          BY <4>2, <5>1 DEF Burned, History!TimeInto
        <5>3. Reached(fast.steps, Here) = fast.steps[NodeKey(prev)].time + 0
          BY <2>3, <4>2 DEF Reached, prev
        <5> QED
          BY <3>7, <3>8, <4>2, <5>2, <5>3
      <4> QED
        BY <4>1, <4>2
    <3> QED
      BY <2>1, <2>3, <3>2, <3>4, <3>9 DEF History!TimeOf
  <2> QED
    BY <2>2, <2>3
<1>13. DOMAIN SavedHistory = NodesIn(fast) /\ \A a \in NodesIn(fast) : SavedHistory[a] = EntryOf(fast, a)
  BY <1>4
<1>14. DOMAIN SavedHistory = History!Earlier(Here)
  BY <1>5, <1>13, SameCalendar DEF History!Earlier
<1>15. SavedHistory' = [a \in DOMAIN SavedHistory \cup {Here} |->
                          IF a = Here
                          THEN [time |-> History!TimeOf(Here), shuffles |-> Here[1] + 1]
                          ELSE SavedHistory[a]]
  BY <1>4, <1>8, <1>9, <1>10, <1>11, <1>12, <1>13
<1> QED
  BY <1>14, <1>15 DEF History!SaveNext

(* But for the write of a node, a step keeps a part of the history.        *)
LEMMA HistoryMoves ==
  ASSUME OnePlan, TypeOK, HistoryInvariant, TimelineInvariant, [Next]_vars
  PROVE  \/ SavesNode /\ CaseFile = fast /\ CaseFile' = fast'
         \/ PartOf(CaseFile', CaseFile)
<1>1. /\ CopyIsPart /\ IsFile(fast) /\ IsFile(reload) /\ r \in Reactor
      /\ Restarting /\ Resting /\ h5 \in {"none", "open", "syncing", "shut"}
  BY DEF TimelineInvariant, TypeOK, FilesOK, LoopOK, HistoryInvariant, PlacesHold
<1>2. ASSUME UNCHANGED <<h5, fast, disk>>, at \notin {"idle", "prep"}, at' \notin {"idle", "prep"}
      PROVE  PartOf(CaseFile', CaseFile)
  BY <1>2, PartIsReflexive DEF CaseFile
<1>3. CASE DatabaseEveryNode \/ SaveAfterCoupling
  <2>1. at \in AtNode
    BY <1>3 DEF DatabaseEveryNode, SaveAfterCoupling, AtNode
  <2>2. CASE UNCHANGED <<h5, fast, disk>> /\ at' = "error"
    BY <1>2, <2>1, <2>2 DEF AtNode
  <2>3. CASE SavesNode /\ at' = "error" /\ h5' = "shut" /\ disk' = disk
    <3>1. h5 = "open"
      BY <2>3 DEF SavesNode, CanWrite
    <3>2. CaseFile = fast /\ CaseFile' = disk
      BY <2>1, <2>3, <3>1 DEF CaseFile, AtNode
    <3> QED
      BY <1>1, <3>1, <3>2 DEF CopyIsPart
  <2>4. CASE SavesNode /\ at' \in AtNode /\ h5' \in {"open", "syncing"}
    <3>1. h5 = "open"
      BY <2>4 DEF SavesNode, CanWrite
    <3> QED
      BY <2>1, <2>4, <3>1 DEF CaseFile, AtNode
  <2> QED
    BY <1>3, <2>2, <2>3, <2>4, WriteOutcomes DEF AtNode
<1>4. ASSUME NEW name \in {"EOL", "error"}, NEW success,
             CanWrite(<<r.cycle, r.node, name>>),
             CloseFile(Written(<<r.cycle, r.node, name>>, r), success),
             at \notin {"idle", "prep"}, at' \notin {"idle", "prep"}
      PROVE  PartOf(CaseFile', CaseFile)
  <2>1. IsFile(Written(<<r.cycle, r.node, name>>, r))
    <3>1. name \in StatepointNames
      BY <1>4 DEF StatepointNames
    <3> QED
      BY <1>1, <3>1, WrittenIsFile, KeyTypes DEF TypeOK, LoopOK
  <2>2. name # ""
    BY <1>4
  <2>3. /\ h5 = "open" /\ h5' = "shut"
        /\ disk' = [Written(<<r.cycle, r.node, name>>, r) EXCEPT !.done = success]
    BY <1>4 DEF CloseFile, CanWrite
  <2>4. CaseFile = fast /\ CaseFile' = disk'
    BY <1>4, <2>3 DEF CaseFile
  <2> QED
    BY <1>1, <2>1, <2>2, <2>3, <2>4, PartWithExtra
<1>5. CASE DatabaseEOL
  <2>1. at = "EOL" /\ at' \in {"EOL", "error"}
    BY <1>5 DEF DatabaseEOL, HookReturns, Raise, GoTo
  <2>2. CASE CanWrite(<<r.cycle, r.node, "EOL">>)
    BY <1>4, <1>5, <2>1, <2>2 DEF DatabaseEOL
  <2>3. CASE ~CanWrite(<<r.cycle, r.node, "EOL">>)
    BY <1>2, <1>5, <2>1, <2>3 DEF DatabaseEOL, dbVars
  <2> QED
    BY <2>2, <2>3
<1>6. CASE HandleError
  <2>1. at = "error" /\ at' = "failed"
    BY <1>6 DEF HandleError, GoTo
  <2>2. CASE CanWrite(<<r.cycle, r.node, "error">>)
    BY <1>4, <1>6, <2>1, <2>2 DEF HandleError
  <2>3. CASE ~CanWrite(<<r.cycle, r.node, "error">>)
    BY <1>2, <1>6, <2>1, <2>3 DEF HandleError, dbVars
  <2> QED
    BY <2>2, <2>3
<1>7. CASE Synced \/ CopyCutShort
  <2>1. UNCHANGED <<fast, at>> /\ h5 = "syncing" /\ h5' = "open"
    BY <1>7 DEF Synced, CopyCutShort, FinishSync, ShortSync
  <2>2. at \notin {"idle", "prep"}
    BY <2>1 DEF TypeOK
  <2>3. CaseFile = fast /\ CaseFile' = fast
    BY <2>1, <2>2 DEF CaseFile
  <2> QED
    BY <2>3, PartIsReflexive
<1>8. CASE StartRun
  <2>1. /\ at = "idle" /\ UNCHANGED reload /\ h5' = "open" /\ fast' = NewFile(cs.plan)
        /\ at' \in {"prep", "BOL"}
    BY <1>8
    DEF StartRun, OpenForWriting, GoTo, Interact, unchangedBetween, unchangedCase
  <2>2. CaseFile = reload /\ CaseFile' \in {reload, NewFile(cs.plan)}
    BY <2>1 DEF CaseFile
  <2> QED
    BY <2>2, PartIsReflexive, PartOfNothing DEF NewFile
<1>9. CASE PrepRestart
  <2>1. at = "prep" /\ at' \in {"Restart", "error"} /\ h5' = h5
    BY <1>9 DEF PrepRestart, MergeHistory, Interact, GoTo, dbVars
  <2>2. h5 = "open" /\ DOMAIN fast.steps = {}
    BY <1>1, <2>1 DEF Restarting
  <2>3. CaseFile = reload /\ CaseFile' = fast'
    BY <2>1, <2>2 DEF CaseFile
  <2>4. CASE fast' = fast
    BY <2>2, <2>3, <2>4, PartOfAll
  <2>5. CASE fast' = Merged(MergedKeys(reload.steps, cs.start))
    <3> DEFINE keys == MergedKeys(reload.steps, cs.start)
    <3> HIDE DEF keys
    <3>1. fast' = Merged(keys)
      BY <2>5 DEF keys
    <3>2. /\ DOMAIN fast'.steps = DOMAIN reload.steps \cap keys
          /\ \A k \in DOMAIN reload.steps \cap keys : fast'.steps[k] = reload.steps[k]
      BY <1>1, <3>1, MergedSteps
    <3> QED
      BY <2>3, <3>2, PartOfAll
  <2> QED
    BY <1>9, <2>4, <2>5 DEF PrepRestart, MergeHistory, Merged, dbVars
<1>10. CASE ExitRun \/ Kill
  <2>1. /\ at' \in {"exited", "killed"} /\ h5' = "none" /\ at # "idle"
        /\ disk' = disk \/ (at # "prep" /\ h5 = "open" /\ disk' = [fast EXCEPT !.done = FALSE])
    BY <1>10 DEF ExitRun, Kill, ExitProcess, LoseProcess, GoTo
  <2>2. CaseFile' = disk'
    BY <2>1 DEF CaseFile
  <2>3. CASE at # "prep" /\ h5 = "open" /\ disk' = [fast EXCEPT !.done = FALSE]
    <3>1. [fast EXCEPT !.done = FALSE].steps = fast.steps
      BY <1>1, DoneSteps
    <3>2. CaseFile = fast
      BY <2>1, <2>3 DEF CaseFile
    <3> QED
      BY <2>2, <2>3, <3>1, <3>2, PartOfAll
  <2>4. CASE at = "prep" /\ disk' = disk
    <3>1. h5 = "open" /\ Saved(fast) = {}
      BY <1>1, <2>4 DEF Restarting, Saved
    <3>2. Saved(disk) = {}
      BY <1>1, <3>1 DEF CopyIsPart, PartOf
    <3> QED
      BY <2>2, <2>4, <3>2 DEF PartOf
  <2>5. CASE at # "prep" /\ disk' = disk
    <3>1. CaseFile = IF h5 \in {"open", "syncing"} THEN fast ELSE disk
      BY <2>1, <2>5 DEF CaseFile
    <3> QED
      BY <1>1, <2>2, <2>5, <3>1, PartIsReflexive DEF CopyIsPart
  <2> QED
    BY <2>1, <2>3, <2>4, <2>5
<1>11. ASSUME NEW plan, NEW start, Resubmit(plan, start) PROVE PartOf(CaseFile', CaseFile)
  <2>1. at \in {"exited", "killed"} /\ at' = "idle" /\ reload' = disk
    BY <1>11 DEF Resubmit, GoTo
  <2>2. CaseFile = disk /\ CaseFile' = disk
    BY <1>1, <2>1 DEF CaseFile, Resting
  <2> QED
    BY <2>2, PartIsReflexive
<1>12. ASSUME NEW i, HookSkipped(i) \/ PhysicsBOC(i) \/ Solve(i) \/ IdleHook(i) \/ HookRaises(i)
       PROVE  PartOf(CaseFile', CaseFile)
  <2>1. UNCHANGED <<h5, fast, disk>> /\ at' \in {at, "error"} /\ at \notin {"idle", "prep"}
    BY <1>12
    DEF HookSkipped, PhysicsBOC, Solve, IdleHook, HookRaises, IsNext, InteractionPoints,
        HookReturns, Raise, GoTo, dbVars
  <2> QED
    BY <1>2, <2>1
<1>13. CASE \/ FuelHandlerBOC \/ AfterRestart \/ AfterRestartEOC \/ AfterBOL \/ AfterBOC
            \/ AfterEveryNode \/ AfterCoupled \/ AfterSave \/ AfterEOC \/ AfterEOL
  <2>1. UNCHANGED <<h5, fast, disk>> /\ at \notin {"idle", "prep"}
    BY <1>13
    DEF FuelHandlerBOC, AfterRestart, AfterRestartEOC, AfterBOL, AfterBOC, AfterEveryNode,
        AfterCoupled, AfterSave, AfterEOC, AfterEOL, Interacted, dbVars
  <2>2. at' \notin {"idle", "prep"}
    BY <1>13
    DEF FuelHandlerBOC, HookReturns, AfterRestart, AfterRestartEOC, AfterBOL, AfterBOC,
        AfterEveryNode, AfterCoupled, AfterSave, AfterEOC, AfterEOL, Interact, GoTo, BeginCycle,
        EnterNode, LeaveNode, Iterate
  <2> QED
    BY <1>2, <2>1, <2>2
<1>14. CASE UNCHANGED vars
  <2>1. CaseFile' = CaseFile
    BY <1>14 DEF vars, CaseFile
  <2> QED
    BY <2>1, PartIsReflexive
<1> QED
  BY <1>3, <1>5, <1>6, <1>7, <1>8, <1>9, <1>10, <1>11, <1>12, <1>13, <1>14
  DEF Next, Step, Hook, Loop, Failure, Finished

LEMMA CaseFileHolds ==
  ASSUME TypeOK, HistoryInvariant, TimelineInvariant
  PROVE  IsFile(CaseFile) /\ TimedInFile(CaseFile) /\ HistoryInFile(CaseFile)
BY DEF TypeOK, FilesOK, HistoryInvariant, FilesHold, TimelineInvariant, FilesTimed, CaseFile

(* The runs of a case that keeps its plan and manages its fuel implement   *)
(* the abstract timeline: whatever fails, is killed, restarted or copied   *)
(* in part, the history that is saved only ever grows by the next node of  *)
(* the plan, at its exact time, or loses its end.                          *)
THEOREM RunsSaveATimeline ==
  ASSUME OnePlan, FuelIsManaged
  PROVE  Spec => SavesATimeline
<1>1. Init => History!Init
  <2> SUFFICES ASSUME Init PROVE History!Init
    OBVIOUS
  <2>1. CaseFile = NoFile
    BY DEF Init, CaseFile
  <2>2. Saved(NoFile) = {}
    BY EmptySteps DEF NoFile, Saved
  <2>3. {At(k) : k \in Saved(NoFile)} = {}
    BY <2>2
  <2>4. SavedHistory = [node \in {} |-> 0]
    BY <2>1, <2>3 DEF SavedHistory, HistoryOf
  <2> QED
    BY <2>4 DEF History!Init
<1>2. ASSUME TypeOK, TypeOK', HistoryInvariant, HistoryInvariant', TimelineInvariant,
             TimelineInvariant', ShufflingInvariant, [Next]_vars
      PROVE  [History!Next]_SavedHistory
  <2>1. CASE SavesNode /\ CaseFile = fast /\ CaseFile' = fast'
    <3>1. History!SaveNext(Here)
      BY <1>2, <2>1, WriteIsSave
    <3>2. Here \in History!Nodes(AnyPlan)
      BY <1>2, <2>1, PlaceOfSave, SameCalendar
    <3> QED
      BY <3>1, <3>2 DEF History!Next
  <2>2. CASE PartOf(CaseFile', CaseFile)
    <3>1. IsFile(CaseFile) /\ TimedInFile(CaseFile)
      BY <1>2, CaseFileHolds
    <3>2. IsFile(CaseFile') /\ TimedInFile(CaseFile') /\ HistoryInFile(CaseFile')
      <4>1. /\ IsFile(fast') /\ IsFile(disk') /\ IsFile(reload')
            /\ HistoryInFile(fast') /\ HistoryInFile(disk') /\ HistoryInFile(reload')
        BY <1>2, NextFiles
      <4>2. TimedInFile(fast') /\ TimedInFile(disk') /\ TimedInFile(reload')
        BY <1>2 DEF TimelineInvariant, FilesTimed, TimedInFile, Saved, Reached, Burned
      <4>3. CaseFile' \in {fast', disk', reload'}
        BY DEF CaseFile
      <4> QED
        BY <4>1, <4>2, <4>3
    <3>3. SavedHistory = HistoryOf(CaseFile) /\ SavedHistory' = HistoryOf(CaseFile')
      BY DEF SavedHistory, HistoryOf, Saved
    <3> QED
      BY <1>2, <2>2, <3>1, <3>2, <3>3, PartIsCut
  <2> QED
    BY <1>2, <2>1, <2>2, HistoryMoves
<1>3. Spec => []HistoryInvariant
  BY OnePlanLeavesNoGap, HistoryIsInvariant
<1>4. Spec => History!Init /\ [][History!Next]_SavedHistory
  BY <1>1, <1>2, <1>3, TypeCorrect, TimelineIsInvariant, ShufflingIsInvariant, PTL DEF Spec
<1> QED
  BY <1>4 DEF SavesATimeline, History!Spec

=============================================================================
