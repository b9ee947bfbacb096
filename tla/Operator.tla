------------------------------ MODULE Operator ------------------------------
(***************************************************************************)
(* The standard operator (armi/operators/operator.py): the main loop that  *)
(* marches a reactor through cycles and time nodes, calls the hooks of the *)
(* interface stack at each interaction point, iterates tightly coupled     *)
(* physics, and writes the database through the database interface.  A run *)
(* may end normally, by an exception that a hook raises, or by the death   *)
(* of its process, and may be restarted from the database it left.         *)
(*                                                                         *)
(* One step of this module runs one hook of one interface, or the code of  *)
(* the operator between two interactions.                                  *)
(***************************************************************************)
EXTENDS Database, FiniteSets

CONSTANTS
  Interfaces,     \* the interface stack: a set of names ...
  Position,       \* ... and the place of each in the stack
  Physics,        \* the interfaces that solve for the reactor state
  Halters,        \* those whose interactBOC may ask the run to stop
  Disabled,       \* interfaces whose enabled() is False
  BolForced,      \* interfaces whose bolForce() is True
  Reversed,       \* interfaces with reverseAtEOL
  Deferred,       \* the deferredInterfaceNames setting
  DeferredCycle,  \* the deferredInterfacesCycle setting
  TightCoupling,  \* the tightCoupling setting
  SkipCycles,     \* cyclesSkipTightCouplingInteraction
  MaxIters,       \* tightCouplingMaxNumIters
  Couplers,       \* interfaces that have a TightCoupler
  SyncAfterWrite, \* the syncDbAfterWrite setting
  CopyMayFail,    \* whether a copy to the working directory may fail
  Restarts,       \* the <<startCycle, startNode>> settings a restart may use
  MaxRuns,        \* bound: runs of the case, the first one included
  MaxFaults       \* bound: exceptions, failed copies and kills, over all runs

ASSUME StackAssumption ==
  /\ {"main", "fuelHandler", "globalFlux", "database"} \subseteq Interfaces
  /\ Position \in [Interfaces -> Nat]
  /\ \A i, j \in Interfaces : Position[i] = Position[j] => i = j
  /\ "globalFlux" \in Physics
  /\ Physics \subseteq Interfaces \ {"main", "fuelHandler", "database"}
  /\ Couplers \subseteq Physics
  /\ Halters \subseteq Physics
  /\ "database" \notin Disabled \cup Deferred

ASSUME SettingAssumption ==
  /\ DeferredCycle \in Nat
  /\ MaxIters \in Nat \ {0}
  /\ MaxRuns \in Nat /\ MaxFaults \in Nat
  /\ {TightCoupling, SyncAfterWrite, CopyMayFail} \subseteq BOOLEAN
  /\ Restarts \subseteq (Nat \X Nat) \ {<<0, 0>>}

VARIABLES
  at,      \* where the run is: an interaction point or a place between two
  todo,    \* interfaces whose hook of this interaction point has not run yet
  halt,    \* _interactAll's halt
  r,       \* the reactor state that the database stores
  bocKeff, \* GlobalFluxInterface._bocKeff: the cycle whose BOC keff it holds
  cs,      \* the case settings that vary between runs
  reload,  \* the file reloadDBName names
  runs,    \* runs started so far
  faults   \* faults so far

vars == <<h5, fast, disk, at, todo, halt, r, bocKeff, cs, reload, runs, faults>>

Never == -1   \* an attribute that is None, a parameter at its zero default

Unsolved == <<Never, Never, Never>>

(* The interaction points.  "RestartEOC" is the end-of-cycle interaction   *)
(* that a restart at node 0 makes up for.                                  *)
InteractionPoints ==
  {"Restart", "RestartEOC", "BOL", "BOC", "EveryNode", "Coupled", "EOC", "EOL"}

Points == InteractionPoints \cup
  {"idle", "prep", "save", "saved", "error", "done", "failed", "exited", "killed"}

FreshReactor ==
  [cycle |-> 0, node |-> 0, time |-> 0, outage |-> 0, shuffles |-> 0,
   iter |-> 0, solved |-> [i \in Physics |-> Unsolved], swing |-> Never]

-----------------------------------------------------------------------------
(* The interface stack. *)

(* getActiveInterfaces: deferred interfaces miss BOL, and BOC until their  *)
(* cycle, but no other interaction.                                        *)
Active(point, cycle) ==
  {i \in Interfaces :
     /\ i \notin Disabled \/ (point = "BOL" /\ i \in BolForced)
     /\ point = "BOL" => i \notin Deferred
     /\ point = "BOC" /\ cycle < DeferredCycle => i \notin Deferred}

(* Stack order, except that at EOL the reversed interfaces come last and   *)
(* among themselves in reverse.                                            *)
Precedes(point, i, j) ==
  IF point = "EOL" /\ (i \in Reversed \/ j \in Reversed)
  THEN j \in Reversed /\ (i \in Reversed => Position[i] > Position[j])
  ELSE Position[i] < Position[j]

IsNext(i) ==
  /\ at \in InteractionPoints
  /\ h5 # "syncing"
  /\ i \in todo
  /\ \A j \in todo \ {i} : Precedes(at, i, j)

(* Start interacting at a point with reactor state s. *)
Interact(point, s) ==
  /\ at' = point
  /\ todo' = Active(point, s.cycle)
  /\ halt' = FALSE
  /\ r' = s

Interacted(point) == at = point /\ todo = {} /\ h5 # "syncing"

(* Leave the interaction points, or an unfinished one. *)
GoTo(place) ==
  /\ at' = place
  /\ todo' = {}
  /\ halt' = FALSE

Fault == faults < MaxFaults /\ faults' = faults + 1

HookReturns(i) == todo' = todo \ {i} /\ UNCHANGED at

unchangedCase == <<cs, reload, runs>>

-----------------------------------------------------------------------------
(* Hooks. *)

(* halt = halt or interactMethod(): once a hook asked to halt, the hooks   *)
(* of the interfaces after it are not called.                              *)
HookSkipped(i) ==
  /\ IsNext(i) /\ halt
  /\ HookReturns(i)
  /\ UNCHANGED <<halt, r, bocKeff, h5, fast, disk, unchangedCase, faults>>

(* Mutant of FuelHandlerBOC: startCycle # cycle is dropped.                *)
FuelHandlerBOC_AnyCycle ==
  /\ IsNext("fuelHandler") /\ ~halt /\ at = "BOC"
  /\ r' = IF ~cs.fromDB \/ cs.start[2] = 0 THEN [r EXCEPT !.shuffles = @ + 1] ELSE r
  /\ HookReturns("fuelHandler")
  /\ UNCHANGED <<halt, bocKeff, h5, fast, disk, unchangedCase, faults>>

(* FuelHandlerInterface.interactBOC: shuffle, unless this run restarted in *)
(* the middle of this very cycle.                                          *)
FuelHandlerBOC ==
  /\ IsNext("fuelHandler") /\ ~halt /\ at = "BOC"
  /\ r' = IF ~cs.fromDB \/ cs.start[2] = 0 \/ cs.start[1] # r.cycle
          THEN [r EXCEPT !.shuffles = @ + 1]
          ELSE r
  /\ HookReturns("fuelHandler")
  /\ UNCHANGED <<halt, bocKeff, h5, fast, disk, unchangedCase, faults>>

(* GlobalFluxInterface.interactBOC zeroes what accumulates over a cycle;   *)
(* any physics hook at BOC may ask to halt.                                *)
PhysicsBOC(i) ==
  /\ IsNext(i) /\ ~halt /\ at = "BOC" /\ i \in Physics
  /\ halt' \in IF i \in Halters THEN BOOLEAN ELSE {FALSE}
  /\ r' = IF i = "globalFlux" THEN [r EXCEPT !.swing = Never] ELSE r
  /\ HookReturns(i)
  /\ UNCHANGED <<bocKeff, h5, fast, disk, unchangedCase, faults>>

(* A physics solve stamps its result with the node and the iteration it    *)
(* belongs to; the global flux also tracks the reactivity swing, from the  *)
(* BOC keff it remembers to the keff of the cycle's last node.             *)
Solve(i) ==
  /\ IsNext(i) /\ ~halt /\ at \in {"EveryNode", "Coupled"} /\ i \in Physics
  /\ LET stamp == <<r.cycle, r.node, IF at = "Coupled" THEN r.iter ELSE 0>>
         keff == IF r.node = 0 THEN r.cycle ELSE bocKeff
         last == r.node = BurnSteps(cs.plan, r.cycle)
         solved == [r EXCEPT !.solved[i] = stamp]
     IN IF i = "globalFlux"
        THEN /\ bocKeff' = keff
             /\ r' = IF last /\ keff # Never THEN [solved EXCEPT !.swing = keff] ELSE solved
        ELSE r' = solved /\ UNCHANGED bocKeff
  /\ HookReturns(i)
  /\ UNCHANGED <<halt, h5, fast, disk, unchangedCase, faults>>

Raise ==
  /\ GoTo("error")
  /\ UNCHANGED <<r, bocKeff>>

(* writeDBEveryNode, from either of its two callers; Returns is what the   *)
(* caller does next.  A copy to the working directory that does not even   *)
(* start leaves the old copy there with a warning, and raises, with the    *)
(* file closed, when there is none.                                        *)
WriteDBEveryNode(Returns) ==
  LET key == <<r.cycle, r.node, "">>
  IN \/ /\ CanWrite(key)
        /\ fast' = Written(key, r)
        /\ IF SyncAfterWrite THEN BeginSync ELSE UNCHANGED <<h5, disk>>
        /\ Returns
        /\ UNCHANGED <<halt, r, bocKeff, faults>>
     \/ /\ CanWrite(key) /\ SyncAfterWrite /\ CopyMayFail
        /\ Fault
        /\ fast' = Written(key, r)
        /\ UNCHANGED disk
        /\ IF disk.status = "none"
           THEN h5' = "shut" /\ Raise
           ELSE UNCHANGED <<h5, halt, r, bocKeff>> /\ Returns
     \/ /\ ~CanWrite(key)
        /\ UNCHANGED <<dbVars, faults>>
        /\ Raise

(* Mutant of DatabaseEveryNode: it writes before the coupled iterations.   *)
DatabaseEveryNode_Early ==
  /\ IsNext("database") /\ ~halt /\ at = "EveryNode"
  /\ WriteDBEveryNode(HookReturns("database"))
  /\ UNCHANGED unchangedCase

(* DatabaseInterface.interactEveryNode leaves a tightly coupled node to    *)
(* the operator.                                                           *)
DatabaseEveryNode ==
  /\ IsNext("database") /\ ~halt /\ at = "EveryNode" /\ ~TightCoupling
  /\ WriteDBEveryNode(HookReturns("database"))
  /\ UNCHANGED unchangedCase

DatabaseEOL ==
  /\ IsNext("database") /\ ~halt /\ at = "EOL"
  /\ LET key == <<r.cycle, r.node, "EOL">>
     IN IF CanWrite(key)
        THEN /\ CloseFile(Written(key, r), TRUE)
             /\ HookReturns("database")
             /\ UNCHANGED <<halt, r, bocKeff>>
        ELSE UNCHANGED dbVars /\ Raise
  /\ UNCHANGED <<unchangedCase, faults>>

(* Hooks that leave the modelled state alone. *)
Idles(i, point) ==
  CASE i = "fuelHandler"            -> point # "BOC"
    [] i = "database"               -> ~(point = "EveryNode" /\ ~TightCoupling) /\ point # "EOL"
    [] i \in Physics                -> point \notin {"BOC", "EveryNode", "Coupled"}
    [] i \in Interfaces \ Physics /\ i \notin {"fuelHandler", "database"} -> TRUE

IdleHook(i) ==
  /\ IsNext(i) /\ ~halt /\ Idles(i, at)
  /\ HookReturns(i)
  /\ UNCHANGED <<halt, r, bocKeff, h5, fast, disk, unchangedCase, faults>>

(* A hook of any other interface than the database raises an exception. *)
HookRaises(i) ==
  /\ IsNext(i) /\ ~halt /\ i # "database"
  /\ Fault
  /\ Raise
  /\ UNCHANGED <<dbVars, unchangedCase>>

(* Back from syncToSharedFolder. *)
Synced ==
  /\ FinishSync
  /\ UNCHANGED <<at, todo, halt, r, bocKeff, unchangedCase, faults>>

CopyCutShort ==
  /\ CopyMayFail
  /\ ShortSync
  /\ Fault
  /\ UNCHANGED <<at, todo, halt, r, bocKeff, unchangedCase>>

-----------------------------------------------------------------------------
(* The main loop: what the operator does between two interactions. *)

Init ==
  /\ h5 = "none" /\ fast = NoFile /\ disk = NoFile
  /\ at = "idle" /\ todo = {} /\ halt = FALSE
  /\ r = FreshReactor /\ bocKeff = Never
  /\ cs \in [fromDB : {FALSE}, start : {<<0, 0>>}, plan : Plans]
  /\ reload = NoFile
  /\ runs = 1 /\ faults = 0

unchangedBetween == <<bocKeff, unchangedCase, faults>>

StartRun ==
  /\ at = "idle"
  /\ OpenForWriting(cs.plan)
  /\ IF cs.fromDB THEN GoTo("prep") /\ UNCHANGED r ELSE Interact("BOL", r)
  /\ UNCHANGED unchangedBetween

(* prepRestartRun: copy the history before the start node into this run's  *)
(* file and load the state of the node before it.                          *)
PrepRestart ==
  /\ at = "prep"
  /\ LET prev == PreviousNode(cs.plan, cs.start[1], cs.start[2])
         key == <<prev[1], prev[2], "">>
     IN IF SameHistory(reload.plan, cs.plan, prev[1], prev[2])
        THEN /\ MergeHistory(reload, cs.start)
             /\ IF key \in DOMAIN reload.steps
                THEN Interact("Restart", reload.steps[key])
                ELSE GoTo("error") /\ UNCHANGED r
        ELSE UNCHANGED dbVars /\ GoTo("error") /\ UNCHANGED r
  /\ UNCHANGED unchangedBetween

AtStart(s) == [s EXCEPT !.cycle = cs.start[1], !.node = cs.start[2]]

AfterOutage(s) == [s EXCEPT !.time = @ + s.outage]

(* Mutant of AfterRestart: the end of the previous cycle is not made up.   *)
AfterRestart_NoEOC ==
  /\ Interacted("Restart")
  /\ Interact("BOL", AtStart(r))
  /\ UNCHANGED <<dbVars, unchangedBetween>>

(* At node 0 the state loaded is that before the last cycle's outage. *)
AfterRestart ==
  /\ Interacted("Restart")
  /\ IF cs.start[2] = 0
     THEN Interact("RestartEOC", AfterOutage(r))
     ELSE Interact("BOL", AtStart(r))
  /\ UNCHANGED <<dbVars, unchangedBetween>>

AfterRestartEOC ==
  /\ Interacted("RestartEOC")
  /\ Interact("BOL", AtStart(r))
  /\ UNCHANGED <<dbVars, unchangedBetween>>

(* _cycleLoop, up to the BOC interaction; a cycle that is not there ends   *)
(* the loop over cycles.                                                   *)
BeginCycle(c, n) ==
  IF c < NCycles[cs.plan]
  THEN Interact("BOC", [r EXCEPT !.cycle = c, !.node = n, !.iter = 0,
                                 !.outage = Outage[cs.plan][c]])
  ELSE Interact("EOL", r)

(* _timeNodeLoop, up to the EveryNode interaction. *)
EnterNode(n) ==
  LET dt == IF n = 0 THEN 0 ELSE StepLengths[cs.plan][r.cycle][n]
  IN Interact("EveryNode", [r EXCEPT !.node = n, !.time = @ + dt])

LeaveNode ==
  IF r.node < BurnSteps(cs.plan, r.cycle)
  THEN EnterNode(r.node + 1)
  ELSE Interact("EOC", AfterOutage(r))

AfterBOL ==
  /\ Interacted("BOL")
  /\ BeginCycle(r.cycle, r.node)
  /\ UNCHANGED <<dbVars, unchangedBetween>>

AfterBOC ==
  /\ Interacted("BOC")
  /\ LET last == BurnSteps(cs.plan, r.cycle)
     IN IF halt THEN Interact("EOL", r)
                ELSE EnterNode(IF r.node < last THEN r.node ELSE last)
  /\ UNCHANGED <<dbVars, unchangedBetween>>

Iterate(k) == Interact("Coupled", [r EXCEPT !.iter = k])

(* Mutant of AfterEveryNode: a skipped cycle returns before the write.     *)
AfterEveryNode_Return ==
  /\ Interacted("EveryNode")
  /\ IF TightCoupling /\ r.cycle \notin SkipCycles THEN Iterate(1) ELSE LeaveNode
  /\ UNCHANGED <<dbVars, unchangedBetween>>

(* _performTightCoupling. *)
AfterEveryNode ==
  /\ Interacted("EveryNode")
  /\ CASE ~TightCoupling                                   -> LeaveNode
       [] TightCoupling /\ r.cycle \in SkipCycles     -> GoTo("save") /\ UNCHANGED r
       [] TightCoupling /\ r.cycle \notin SkipCycles  -> Iterate(1)
  /\ UNCHANGED <<dbVars, unchangedBetween>>

(* Mutant of AfterCoupled: the iterations are not counted.                 *)
AfterCoupled_Uncounted ==
  /\ Interacted("Coupled")
  /\ \E converged \in [Couplers \cap Active("Coupled", r.cycle) -> BOOLEAN] :
       IF \A i \in DOMAIN converged : converged[i]
       THEN GoTo("save") /\ UNCHANGED r
       ELSE Iterate(r.iter)
  /\ UNCHANGED <<dbVars, unchangedBetween>>

(* _checkTightCouplingConvergence: all the couplers of the active          *)
(* interfaces, which may be none.                                          *)
AfterCoupled ==
  /\ Interacted("Coupled")
  /\ \E converged \in [Couplers \cap Active("Coupled", r.cycle) -> BOOLEAN] :
       IF r.iter = MaxIters \/ \A i \in DOMAIN converged : converged[i]
       THEN GoTo("save") /\ UNCHANGED r
       ELSE Iterate(r.iter + 1)
  /\ UNCHANGED <<dbVars, unchangedBetween>>

SaveAfterCoupling ==
  /\ at = "save"
  /\ WriteDBEveryNode(at' = "saved" /\ UNCHANGED todo)
  /\ UNCHANGED unchangedCase

AfterSave ==
  /\ at = "saved" /\ h5 # "syncing"
  /\ LeaveNode
  /\ UNCHANGED <<dbVars, unchangedBetween>>

AfterEOC ==
  /\ Interacted("EOC")
  /\ BeginCycle(r.cycle + 1, 0)
  /\ UNCHANGED <<dbVars, unchangedBetween>>

AfterEOL ==
  /\ Interacted("EOL")
  /\ GoTo("done")
  /\ UNCHANGED <<dbVars, r, unchangedBetween>>

-----------------------------------------------------------------------------
(* How a run ends, and how the next one starts. *)

(* __exit__ and interactAllError.  DatabaseInterface.interactError writes  *)
(* the state under "error" and closes; it gives up, silently, at the first *)
(* of these that fails.                                                    *)
HandleError ==
  /\ at = "error"
  /\ LET key == <<r.cycle, r.node, "error">>
     IN IF CanWrite(key) THEN CloseFile(Written(key, r), FALSE) ELSE UNCHANGED dbVars
  /\ GoTo("failed")
  /\ UNCHANGED <<r, unchangedBetween>>

(* Whatever the process held in memory is gone. *)
MemoryLost == r' = FreshReactor /\ bocKeff' = Never

ExitRun ==
  /\ at \in {"done", "failed"}
  /\ ExitProcess
  /\ GoTo("exited")
  /\ MemoryLost
  /\ UNCHANGED <<unchangedCase, faults>>

Kill ==
  /\ at \notin {"idle", "exited", "killed"}
  /\ Fault
  /\ LoseProcess
  /\ GoTo("killed")
  /\ MemoryLost
  /\ UNCHANGED unchangedCase

(* The user renames what the run left, as the reload database of a new     *)
(* case with its own title.                                                *)
Resubmit(plan, start) ==
  /\ at \in {"exited", "killed"}
  /\ runs < MaxRuns
  /\ disk.status = "whole"
  /\ start \in Nodes(plan)
  /\ reload' = disk
  /\ disk' = NoFile
  /\ cs' = [fromDB |-> TRUE, start |-> start, plan |-> plan]
  /\ runs' = runs + 1
  /\ GoTo("idle")
  /\ UNCHANGED <<h5, fast, r, bocKeff, faults>>

Finished == at \in {"exited", "killed"} /\ UNCHANGED vars

-----------------------------------------------------------------------------
Hook ==
  \/ FuelHandlerBOC \/ DatabaseEveryNode \/ DatabaseEOL
  \/ \E i \in Interfaces : HookSkipped(i) \/ PhysicsBOC(i) \/ Solve(i) \/ IdleHook(i)

Loop ==
  \/ StartRun \/ PrepRestart \/ AfterRestart \/ AfterRestartEOC
  \/ AfterBOL \/ AfterBOC \/ AfterEveryNode \/ AfterCoupled
  \/ SaveAfterCoupling \/ AfterSave \/ AfterEOC \/ AfterEOL

Step == Hook \/ Loop \/ Synced \/ HandleError \/ ExitRun

Failure == Kill \/ CopyCutShort \/ \E i \in Interfaces : HookRaises(i)

Next ==
  \/ Step
  \/ Failure
  \/ \E plan \in Plans, start \in Restarts : Resubmit(plan, start)
  \/ Finished

(* The operator is a sequential program: as long as its process lives, it  *)
(* takes its next step.  Nothing forces a fault, or a user to restart.     *)
Fairness == WF_vars(Step)

Spec == Init /\ [][Next]_vars /\ Fairness
=============================================================================
