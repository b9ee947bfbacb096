---------------------------- MODULE MpiOperator ----------------------------
(***************************************************************************)
(* A parallel run (armi/operators/operatorMPI.py, armi/mpiActions.py).     *)
(* Every rank runs the same program.  The primary runs the main loop, and  *)
(* the hooks it calls broadcast commands and actions; the workers wait in  *)
(* workerOperate for what the primary broadcasts and take part in it.      *)
(*                                                                         *)
(* The hooks are those of any interface: a hook makes some calls, each a   *)
(* memory report (PrintSystemMemoryUsageAction), the building of           *)
(* macroscopic cross sections (MacroXSGenerator), a distribution of the    *)
(* primary's state (DistributeStateAction) or one batch of runActions      *)
(* (DistributionAction), and ends with the reset of the workers.           *)
(*                                                                         *)
(* Collectives are those of MPI: a rank that contributes to a broadcast, a *)
(* scatter or a gather goes on without waiting for the others, a rank that *)
(* receives waits, and a split of the communicator waits for all.          *)
(***************************************************************************)
EXTENDS Integers, Sequences, FiniteSets

CONSTANTS
  Primary, Workers,   \* the ranks
  Stack,              \* the names of the interfaces, in stack order
  Distributable,      \* Distributable[i]: "DUPLICATE", "NEW" or "SKIP"
  MaxHooks,           \* bound: hooks of the run
  MaxCalls,           \* bound: calls a hook makes
  MaxFaults           \* bound: exceptions

Ranks == {Primary} \cup Workers

Interfaces == {Stack[k] : k \in DOMAIN Stack}

ASSUME RankAssumption == Primary \notin Workers /\ Workers # {}

ASSUME StackAssumption ==
  /\ Stack \in Seq(STRING)
  /\ \A k, l \in DOMAIN Stack : Stack[k] = Stack[l] => k = l
  /\ Distributable \in [Interfaces -> {"DUPLICATE", "NEW", "SKIP"}]

ASSUME BoundAssumption == {MaxHooks, MaxCalls, MaxFaults} \subseteq Nat

VARIABLES
  at,       \* at[i]: where rank i is
  inbox,    \* inbox[w]: what the primary sent and worker w has not taken yet
  answers,  \* workers that contributed to the gather under way
  hook,     \* number of the hook the primary is in
  calls,    \* calls this hook has made
  dist,     \* distributions of state begun
  left,     \* the primary's interfaces still to be broadcast
  failed,   \* the primary has an exception to raise
  reactor,  \* reactor[w]: the hook and the distribution worker w's reactor is from
  copy,     \* copy[w][i]: the distribution that w's duplicate of i is from
  stack,    \* stack[w]: the interface stack of w
  todo,     \* todo[w]: interfaces that w has not synchronised yet
  faults    \* exceptions so far

primaryVars == <<answers, hook, calls, dist, left, failed>>
workerVars == <<reactor, copy, stack, todo>>
vars == <<at, inbox, primaryVars, workerVars, faults>>

NotDistributed == [hook |-> 0, dist |-> 0]

Init ==
  /\ at = [i \in Ranks |-> IF i = Primary THEN "init" ELSE "loop"]
  /\ inbox = [w \in Workers |-> <<>>]
  /\ answers = {} /\ hook = 1 /\ calls = 0 /\ dist = 0 /\ left = <<>>
  /\ failed = FALSE
  /\ reactor = [w \in Workers |-> NotDistributed]
  /\ copy = [w \in Workers |-> [i \in Interfaces |-> 0]]
  /\ stack = [w \in Workers |-> Stack]
  /\ todo = [w \in Workers |-> <<>>]
  /\ faults = 0

Fault == faults < MaxFaults /\ faults' = faults + 1

-----------------------------------------------------------------------------
(* The primary. *)

Send(names) ==
  LET text(k) == [is |-> names[k], hook |-> hook, dist |-> dist']
  IN inbox' = [w \in Workers |-> inbox[w] \o [k \in DOMAIN names |-> text(k)]]

PrimaryGoes(from, to) == at[Primary] = from /\ at' = [at EXCEPT ![Primary] = to]

(* One broadcast or scatter of the primary on its way through a call. *)
PrimarySends(from, name, to) ==
  /\ PrimaryGoes(from, to)
  /\ dist' = dist
  /\ Send(<<name>>)
  /\ UNCHANGED <<answers, hook, calls, left, failed, workerVars, faults>>

PrimaryStarts ==
  /\ PrimaryGoes("init", "hook")
  /\ UNCHANGED <<inbox, primaryVars, workerVars, faults>>

(* An exception in Operator.__init__ ends the run before it began. *)
PrimaryFailsOnInit ==
  /\ PrimaryGoes("init", "raised")
  /\ Fault
  /\ dist' = dist
  /\ Send(<<"quit">>)
  /\ UNCHANGED <<answers, hook, calls, left, failed, workerVars>>

(* The calls of a hook, and where each one leads the primary. *)
CallLeadsTo ==
  [memory |-> "gather", macros |-> "scatterBlocks", state |-> "sendSettings", batch |-> "scatterActions"]

Calls == DOMAIN CallLeadsTo

(* MpiAction.broadcast of the action itself, then its invokeHook. *)
BroadcastAction(name) ==
  /\ calls < MaxCalls
  /\ PrimaryGoes("hook", CallLeadsTo[name])
  /\ calls' = calls + 1
  /\ dist' = IF name = "state" THEN dist + 1 ELSE dist
  /\ Send(<<name>>)
  /\ UNCHANGED <<answers, hook, left, failed, workerVars, faults>>

Gather ==
  /\ PrimaryGoes("gather", "hook")
  /\ answers = Workers
  /\ answers' = {}
  /\ UNCHANGED <<inbox, hook, calls, dist, left, failed, workerVars, faults>>

(* MacroXSGenerator.invokeHook *)
ScatterBlocks == PrimarySends("scatterBlocks", "blocks", "sendLib")
SendLib       == PrimarySends("sendLib", "lib", "gather")

(* DistributeStateAction.invokeHook *)
SendSettings == PrimarySends("sendSettings", "settings", "sendReactor")
SendReactor  == PrimarySends("sendReactor", "reactor", "sendFlags")
SendFlags    == PrimarySends("sendFlags", "flags", "sendNames")

(* Mutant of Transmitted: renewed interfaces are transmitted as well.       *)
Transmitted_NotSkipped(i) == Distributable[i] # "SKIP"

(* The primary broadcasts only the interfaces that the workers duplicate.  *)
Transmitted(i) == Distributable[i] = "DUPLICATE"

SendNames ==
  /\ PrimaryGoes("sendNames", "sendInterfaces")
  /\ left' = Stack
  /\ dist' = dist
  /\ Send(<<"names">>)
  /\ UNCHANGED <<answers, hook, calls, failed, workerVars, faults>>

SendInterface ==
  /\ at[Primary] = "sendInterfaces" /\ left # <<>> /\ Transmitted(Head(left))
  /\ left' = Tail(left)
  /\ dist' = dist
  /\ Send(<<"interface">>)
  /\ UNCHANGED <<at, answers, hook, calls, failed, workerVars, faults>>

PassInterface ==
  /\ at[Primary] = "sendInterfaces" /\ left # <<>> /\ ~Transmitted(Head(left))
  /\ left' = Tail(left)
  /\ UNCHANGED <<at, inbox, answers, hook, calls, dist, failed, workerVars, faults>>

StateIsSent ==
  /\ PrimaryGoes("sendInterfaces", "hook") /\ left = <<>>
  /\ UNCHANGED <<inbox, primaryVars, workerVars, faults>>

SendsState ==
  {"sendSettings", "sendReactor", "sendFlags", "sendNames", "sendInterfaces"}

(* Mutant of TransmissionFails: the error is logged and not raised.        *)
TransmissionFails_Swallowed ==
  /\ at[Primary] \in SendsState
  /\ at' = [at EXCEPT ![Primary] = "hook"]
  /\ Fault
  /\ left' = <<>>
  /\ dist' = dist
  /\ Send(<<"quit">>)
  /\ UNCHANGED <<answers, hook, calls, failed, workerVars>>

(* A PicklingError or TypeError while state is distributed: "try to get    *)
(* the workers to quit", and raise.                                        *)
TransmissionFails ==
  /\ at[Primary] \in SendsState
  /\ at' = [at EXCEPT ![Primary] = "stop"]
  /\ Fault
  /\ failed' = TRUE
  /\ left' = <<>>
  /\ dist' = dist
  /\ Send(<<"quit">>)
  /\ UNCHANGED <<answers, hook, calls, workerVars>>

(* DistributionAction.invokeHook *)
ScatterActions == PrimarySends("scatterActions", "action", "split")

PrimaryActs ==
  /\ PrimaryGoes("act", "hook")
  /\ UNCHANGED <<inbox, primaryVars, workerVars, faults>>

(* Mutant of EndHook: the workers are reset only when the run ends.        *)
EndHook_NoReset ==
  /\ PrimaryGoes("hook", IF hook = MaxHooks THEN "stop" ELSE "hook")
  /\ hook' = hook + 1 /\ calls' = 0
  /\ UNCHANGED <<inbox, answers, dist, left, failed, workerVars, faults>>

(* _finalizeInteract, and on to the next hook or out of the main loop.     *)
EndHook ==
  /\ PrimaryGoes("hook", IF hook = MaxHooks THEN "stop" ELSE "hook")
  /\ hook' = hook + 1 /\ calls' = 0
  /\ dist' = dist
  /\ Send(<<"reset">>)
  /\ UNCHANGED <<answers, left, failed, workerVars, faults>>

PrimaryWorks ==
  SendsState \cup {"hook", "gather", "scatterBlocks", "sendLib", "scatterActions", "act"}

PrimaryRaises ==
  /\ at[Primary] \in PrimaryWorks
  /\ at' = [at EXCEPT ![Primary] = "stop"]
  /\ Fault
  /\ failed' = TRUE
  /\ left' = <<>>
  /\ UNCHANGED <<inbox, answers, hook, calls, dist, workerVars>>

(* Mutant of StopWorkers: the workers' last broadcast has no counterpart.  *)
StopWorkers_NotFinished ==
  /\ PrimaryGoes("stop", "close")
  /\ dist' = dist
  /\ Send(<<"quit">>)
  /\ UNCHANGED <<answers, hook, calls, left, failed, workerVars, faults>>

(* The finally clause of operate. *)
StopWorkers ==
  /\ PrimaryGoes("stop", "close")
  /\ dist' = dist
  /\ Send(<<"quit", "finished">>)
  /\ UNCHANGED <<answers, hook, calls, left, failed, workerVars, faults>>

(* runLog.close on the primary concatenates and deletes all ranks' logs. *)
CloseLogs ==
  /\ PrimaryGoes("close", IF failed THEN "raised" ELSE "finalize")
  /\ UNCHANGED <<inbox, primaryVars, workerVars, faults>>

-----------------------------------------------------------------------------
(* The workers. *)

(* Worker w, at one of these places, takes the next broadcast or scatter.  *)
Takes(w, place) ==
  /\ at[w] = place
  /\ inbox[w] # <<>>
  /\ inbox' = [inbox EXCEPT ![w] = Tail(@)]

Message(w) == Head(inbox[w])

WorkerGoes(w, place) == at' = [at EXCEPT ![w] = place]

(* Commands after which a worker keeps its reactor: bookkeeping's          *)
(* mpiActionRequiresReset.                                                 *)
KeepsReactor == {"memory", "state", "batch"}

ResetAfter(command, w) ==
  reactor' = IF command \in KeepsReactor
             THEN reactor
             ELSE [reactor EXCEPT ![w] = NotDistributed]

(* Where each command leads a worker. *)
CommandLeadsTo ==
  [memory |-> "report", macros |-> "blocks", state |-> "settings", batch |-> "action",
   reset |-> "loop", quit |-> "quitting", finished |-> "finalize"]

(* workerOperate.  What is no command ends in its RuntimeError. *)
TakeCommand(w) ==
  /\ Takes(w, "loop")
  /\ LET command == Message(w).is
     IN /\ WorkerGoes(w, IF command \in DOMAIN CommandLeadsTo THEN CommandLeadsTo[command] ELSE "raised")
        /\ IF command = "reset" THEN ResetAfter("reset", w) ELSE UNCHANGED reactor
  /\ UNCHANGED <<primaryVars, copy, stack, todo, faults>>

(* PrintSystemMemoryUsageAction: the worker's part of the gather. *)
Report(w) ==
  /\ at[w] = "report"
  /\ WorkerGoes(w, "loop")
  /\ answers' = answers \cup {w}
  /\ UNCHANGED <<inbox, hook, calls, dist, left, failed, workerVars, faults>>

(* MacroXSGenerator: a scatter is not confused with a broadcast. *)
TakeBlocks(w) ==
  /\ Takes(w, "blocks") /\ Message(w).is = "blocks"
  /\ WorkerGoes(w, "lib")
  /\ UNCHANGED <<primaryVars, workerVars, faults>>

(* What was broadcast for a library goes unnoticed if there are no blocks. *)
TakeLib(w) ==
  /\ Takes(w, "lib")
  /\ \E place \in {"macros", "raised"} :
       /\ Message(w).is = "lib" => place = "macros"
       /\ WorkerGoes(w, place)
  /\ UNCHANGED <<primaryVars, workerVars, faults>>

(* The cross sections are gathered; this action is followed by a reset.    *)
MakeMacros(w) ==
  /\ at[w] = "macros"
  /\ WorkerGoes(w, "loop")
  /\ answers' = answers \cup {w}
  /\ ResetAfter("macros", w)
  /\ UNCHANGED <<inbox, hook, calls, dist, left, failed, copy, stack, todo, faults>>

(* DistributeStateAction: anything but what is waited for is an error. *)
TakePart(w, name, place) ==
  /\ Takes(w, name)
  /\ WorkerGoes(w, IF Message(w).is = name THEN place ELSE "raised")

TakeSettings(w) ==
  /\ TakePart(w, "settings", "reactor")
  /\ UNCHANGED <<primaryVars, workerVars, faults>>

TakeReactor(w) ==
  /\ TakePart(w, "reactor", "flags")
  /\ reactor' = IF Message(w).is = "reactor"
                THEN [reactor EXCEPT ![w] = [hook |-> Message(w).hook, dist |-> Message(w).dist]]
                ELSE reactor
  /\ UNCHANGED <<primaryVars, copy, stack, todo, faults>>

TakeFlags(w) ==
  /\ TakePart(w, "flags", "names")
  /\ UNCHANGED <<primaryVars, workerVars, faults>>

TakeNames(w) ==
  /\ TakePart(w, "names", "interface")
  /\ todo' = IF Message(w).is = "names" THEN [todo EXCEPT ![w] = Stack] ELSE todo
  /\ UNCHANGED <<primaryVars, reactor, copy, stack, faults>>

Pending(w, how) == todo[w] # <<>> /\ Distributable[Head(todo[w])] = how

(* removeInterface of the old one, addInterface of the new one. *)
Replaced(s, i) == Append(SelectSeq(s, LAMBDA j : j # i), i)

SkipInterface(w) ==
  /\ at[w] = "interface" /\ Pending(w, "SKIP")
  /\ todo' = [todo EXCEPT ![w] = Tail(@)]
  /\ UNCHANGED <<at, inbox, primaryVars, reactor, copy, stack, faults>>

RenewInterface(w) ==
  /\ at[w] = "interface" /\ Pending(w, "NEW")
  /\ stack' = [stack EXCEPT ![w] = Replaced(@, Head(todo[w]))]
  /\ todo' = [todo EXCEPT ![w] = Tail(@)]
  /\ UNCHANGED <<at, inbox, primaryVars, reactor, copy, faults>>

(* "quit" instead of an interface is the one word a worker understands in  *)
(* the middle of a distribution: it gives up what is left of it.           *)
TakeInterface(w) ==
  /\ Takes(w, "interface") /\ Pending(w, "DUPLICATE")
  /\ \/ /\ Message(w).is = "interface"
        /\ copy' = [copy EXCEPT ![w][Head(todo[w])] = Message(w).dist]
        /\ stack' = [stack EXCEPT ![w] = Replaced(@, Head(todo[w]))]
        /\ todo' = [todo EXCEPT ![w] = Tail(@)]
        /\ UNCHANGED at
     \/ /\ Message(w).is = "quit"
        /\ todo' = [todo EXCEPT ![w] = <<>>]
        /\ WorkerGoes(w, "loop")
        /\ UNCHANGED <<copy, stack>>
     \/ /\ Message(w).is \notin {"interface", "quit"}
        /\ WorkerGoes(w, "raised")
        /\ UNCHANGED <<copy, stack, todo>>
  /\ UNCHANGED <<primaryVars, reactor, faults>>

StateIsTaken(w) ==
  /\ at[w] = "interface" /\ todo[w] = <<>>
  /\ WorkerGoes(w, "loop")
  /\ UNCHANGED <<inbox, primaryVars, workerVars, faults>>

(* DistributionAction: the worker's part of the scatter, which may be None.*)
TakeAction(w) ==
  /\ Takes(w, "action") /\ Message(w).is = "action"
  /\ WorkerGoes(w, "split")
  /\ UNCHANGED <<primaryVars, workerVars, faults>>

WorkerActs(w) ==
  /\ at[w] = "act"
  /\ WorkerGoes(w, "loop")
  /\ UNCHANGED <<inbox, primaryVars, workerVars, faults>>

WorkerRaises(w) ==
  /\ at[w] \in {"report", "macros", "interface", "act"}
  /\ Fault
  /\ WorkerGoes(w, "raised")
  /\ UNCHANGED <<inbox, primaryVars, workerVars>>

(* workerQuit: its log is closed; whatever is broadcast next lets it go.   *)
WorkerQuits(w) ==
  /\ Takes(w, "quitting")
  /\ WorkerGoes(w, "finalize")
  /\ UNCHANGED <<primaryVars, workerVars, faults>>

-----------------------------------------------------------------------------
(* All ranks. *)

(* Split and allgather: everyone must take part. *)
Split ==
  /\ \A i \in Ranks : at[i] = "split"
  /\ at' = [i \in Ranks |-> "act"]
  /\ UNCHANGED <<inbox, primaryVars, workerVars, faults>>

(* The processes of a run end together, as MPI_Finalize makes them ... *)
End ==
  /\ \A i \in Ranks : at[i] = "finalize"
  /\ at' = [i \in Ranks |-> "ended"]
  /\ UNCHANGED <<inbox, primaryVars, workerVars, faults>>

(* ... or are killed by the first one that ends with an exception (main).  *)
Abort ==
  /\ \E i \in Ranks : at[i] = "raised"
  /\ at' = [i \in Ranks |-> "ended"]
  /\ UNCHANGED <<inbox, primaryVars, workerVars, faults>>

(* A rank waiting in a collective spins. *)
Wait == UNCHANGED vars

PrimaryStep ==
  \/ PrimaryStarts \/ Gather \/ ScatterBlocks \/ SendLib
  \/ SendSettings \/ SendReactor \/ SendFlags \/ SendNames
  \/ SendInterface \/ PassInterface \/ StateIsSent
  \/ ScatterActions \/ PrimaryActs \/ EndHook \/ StopWorkers \/ CloseLogs

WorkerStep(w) ==
  \/ TakeCommand(w) \/ Report(w) \/ TakeBlocks(w) \/ TakeLib(w) \/ MakeMacros(w)
  \/ TakeSettings(w) \/ TakeReactor(w) \/ TakeFlags(w) \/ TakeNames(w)
  \/ SkipInterface(w) \/ RenewInterface(w) \/ TakeInterface(w) \/ StateIsTaken(w)
  \/ TakeAction(w) \/ WorkerActs(w) \/ WorkerQuits(w)

Failure ==
  \/ PrimaryFailsOnInit \/ TransmissionFails \/ PrimaryRaises
  \/ \E w \in Workers : WorkerRaises(w)

Next ==
  \/ PrimaryStep \/ \E name \in Calls : BroadcastAction(name)
  \/ \E w \in Workers : WorkerStep(w)
  \/ Failure
  \/ Split \/ End \/ Abort
  \/ Wait

(* Each rank is a sequential program that takes its next step when it can; *)
(* a hook makes finitely many calls.                                       *)
Fairness ==
  /\ WF_vars(PrimaryStep)
  /\ \A w \in Workers : WF_vars(WorkerStep(w))
  /\ WF_vars(Split) /\ WF_vars(End) /\ WF_vars(Abort)

Spec == Init /\ [][Next]_vars /\ Fairness
=============================================================================
