------------------------- MODULE OperatorProperties -------------------------
(***************************************************************************)
(* What the operator, the database and the restarts of a case promise.     *)
(***************************************************************************)
EXTENDS Operator

Reactor == [cycle : Nat, node : Nat, time : Nat, outage : Nat, shuffles : Nat,
            iter : 0 .. MaxIters,
            solved : [Physics -> (Nat \cup {Never}) \X (Nat \cup {Never}) \X (Nat \cup {Never})],
            swing : Nat \cup {Never}]

IsFile(f) ==
  /\ f = [status |-> f.status, plan |-> f.plan, steps |-> f.steps, done |-> f.done]
  /\ f.status \in {"none", "torn", "whole"}
  /\ f.plan \in Plans
  /\ f.done \in BOOLEAN
  /\ f.steps = [k \in DOMAIN f.steps |-> f.steps[k]]
  /\ \A k \in DOMAIN f.steps :
       k \in Nat \X Nat \X StatepointNames /\ f.steps[k] \in Reactor

AtNode == {"EveryNode", "Coupled", "save", "saved"}

FilesOK ==
  /\ h5 \in {"none", "open", "syncing", "shut"}
  /\ IsFile(fast) /\ IsFile(disk) /\ IsFile(reload)

(* Only BOC can be asked to halt, and a hook is pending only at an         *)
(* interaction point.                                                      *)
LoopOK ==
  /\ at \in Points
  /\ todo \subseteq Interfaces
  /\ todo # {} => at \in InteractionPoints
  /\ halt \in BOOLEAN
  /\ halt => at = "BOC"
  /\ r \in Reactor

(* While the loop over cycles runs, the reactor is in a cycle of the plan, *)
(* and at a node of it once past BOC.                                      *)
InPlan ==
  /\ at \in {"BOC"} \cup AtNode => r.cycle \in CyclesOf(cs.plan)
  /\ at \in AtNode => r.node <= BurnSteps(cs.plan, r.cycle)

CaseOK ==
  /\ cs \in [fromDB : BOOLEAN, start : Nat \X Nat, plan : Plans]
  /\ bocKeff \in Nat \cup {Never}
  /\ runs \in Nat /\ faults \in Nat

(* The types of the variables, and where the loops may be; the database is *)
(* closed for copying only while a write of a node is under way.           *)
TypeOK ==
  /\ FilesOK
  /\ LoopOK
  /\ InPlan
  /\ CaseOK
  /\ h5 = "syncing" => at \in {"EveryNode", "saved"}

Files == {fast, disk, reload}

Saved(f) == {k \in DOMAIN f.steps : k[3] = ""}

ShuffledInFile(f) ==
  \A k \in Saved(f) : f.steps[k].cycle = k[1] /\ f.steps[k].shuffles = k[1] + 1

-----------------------------------------------------------------------------
(* Fuel is shuffled exactly once for every cycle begun: a state saved in   *)
(* cycle c has been shuffled c + 1 times, however many times the case was  *)
(* interrupted and restarted at, before or in the middle of a cycle        *)
(* (FuelHandlerInterface.interactBOC's condition on the restart point).    *)
ShuffledOncePerCycle == \A f \in Files : ShuffledInFile(f)

(* Why it holds.  A run resumes a cycle if it restarted in the middle of   *)
(* it; then that cycle's shuffle is in the state that was loaded.  The     *)
(* shuffles of the reactor in memory match its cycle at every place of the *)
(* loop, except that the cycle about to begin or at its BOC is not yet     *)
(* shuffled until the fuel handler's hook has run, unless it is resumed.   *)
Resumes(c) == cs.fromDB /\ cs.start[2] # 0 /\ cs.start[1] = c

LoadedCycle == IF cs.start[2] = 0 THEN cs.start[1] - 1 ELSE cs.start[1]

ShufflesMatchCycle ==
  LET shuffledFor(c) == r.shuffles = c + 1
      running == at \in {"BOL", "BOC", "EOC"} \cup AtNode
  IN /\ at \in {"idle", "exited", "killed"} => r.cycle = 0 /\ r.shuffles = 0
     /\ at = "prep" => cs.fromDB
     /\ at \in {"Restart", "RestartEOC"} =>
          /\ cs.fromDB
          /\ r.cycle = LoadedCycle /\ shuffledFor(r.cycle)
          /\ at = "RestartEOC" => cs.start[2] = 0
     /\ running /\ cs.fromDB => r.cycle >= cs.start[1]
     /\ at = "BOL" => shuffledFor(IF Resumes(r.cycle) THEN r.cycle ELSE r.cycle - 1)
     /\ at = "BOC" /\ ~halt =>
          shuffledFor(IF "fuelHandler" \in todo /\ ~Resumes(r.cycle) THEN r.cycle - 1 ELSE r.cycle)
     /\ at \in {"EOC"} \cup AtNode => shuffledFor(r.cycle)

ShufflingInvariant == ShuffledOncePerCycle /\ ShufflesMatchCycle

(* No stale physics is saved: in the state saved for a node, the result of *)
(* every enabled physics interface comes from that very node and from the  *)
(* last coupled iteration made there, which is not the initial one unless  *)
(* coupling is off or skipped in that cycle (the order of the stack, and   *)
(* the database's deferral of its write to _performTightCoupling).         *)
SolvedAtNode ==
  \A f \in Files : \A k \in Saved(f) :
    LET state == f.steps[k]
    IN /\ \A i \in Physics \ Disabled : state.solved[i] = <<k[1], k[2], state.iter>>
       /\ TightCoupling /\ k[1] \notin SkipCycles => state.iter > 0

(* A file says successfulCompletion only if it ends the plan: its EOL      *)
(* statepoint is there, every earlier node of the plan is saved, and it is *)
(* the last node unless an interface may ask the run to halt (interactEOL, *)
(* interactError and the close at process exit agree on the flag).         *)
SuccessMeansComplete ==
  disk.done =>
    \E k \in DOMAIN disk.steps :
      /\ k[3] = "EOL"
      /\ \A node \in Nodes(disk.plan) :
           Before(node, At(k)) => <<node[1], node[2], "">> \in DOMAIN disk.steps
      /\ Halters = {} =>
           /\ <<k[1], k[2], "">> \in DOMAIN disk.steps
           /\ At(k) = <<NCycles[disk.plan] - 1, BurnSteps(disk.plan, NCycles[disk.plan] - 1)>>

(* With syncDbAfterWrite, as soon as a write has returned the copy in the  *)
(* working directory is whole and has everything the run has saved, so a   *)
(* run that dies between two writes loses nothing (writeDBEveryNode and    *)
(* syncToSharedFolder).                                                    *)
CopyKeepsUp ==
  SyncAfterWrite /\ h5 = "open" =>
    \/ disk = fast
    \/ \A k \in DOMAIN fast.steps : cs.fromDB /\ Before(At(k), cs.start)

(* No hook or loop fails of its own accord: an error is the consequence of *)
(* a fault, or of a restart from a file without the state to restart from. *)
(* In particular no statepoint is written twice, neither by the two        *)
(* callers of writeDBEveryNode nor on top of merged history.               *)
OnlyFaultsFailARun ==
  [][at' = "error" /\ at # "error" => at = "prep" \/ faults' = faults + 1]_vars

(* A restart takes over the history up to, but not including, the node it  *)
(* starts at (mergeHistory's docstring).                                   *)
HistoryStopsAtStart ==
  [][at = "prep" => \A k \in DOMAIN fast'.steps : Before(At(k), cs.start)]_vars

(* The run never leaves a node behind whose state is not saved as it was   *)
(* left (the loop body _timeNodeLoop: solve, couple, write, in that order).*)
LeftNodesAreSaved ==
  [][LET left == at \in AtNode /\ at' \in AtNode \cup {"EOC"}
                 /\ (at' = "EOC" \/ r'.node # r.node)
         key == <<r.cycle, r.node, "">>
     IN left => key \in Saved(fast) /\ fast.steps[key] = r]_vars

(* Every run ends, with its file accounted for: hooks, coupled iterations, *)
(* nodes and cycles all run out, and an error is handled and not retried   *)
(* (operate and Case.run).                                                 *)
RunsEnd == (at = "idle") ~> (at \in {"exited", "killed"})

-----------------------------------------------------------------------------
(* The file that the case's history is in: the one being written, the one  *)
(* to restart from until it has been merged, or the one that is left in    *)
(* the working directory.                                                  *)
CaseFile ==
  IF at \in {"idle", "prep"} THEN reload
  ELSE IF h5 \in {"open", "syncing"} THEN fast ELSE disk

HistoryOf(f) ==
  [node \in {At(k) : k \in Saved(f)} |->
     [time     |-> f.steps[<<node[1], node[2], "">>].time,
      shuffles |-> f.steps[<<node[1], node[2], "">>].shuffles]]

SavedHistory == HistoryOf(CaseFile)

History == INSTANCE Timeline WITH Plan <- AnyPlan, hist <- SavedHistory

(* The runs of a case whose plan does not change implement the abstract    *)
(* timeline: what is saved only ever grows by the next node, at its exact  *)
(* time, or loses its end.                                                 *)
SavesATimeline == History!Spec
=============================================================================
