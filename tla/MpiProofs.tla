----------------------------- MODULE MpiProofs -----------------------------
(***************************************************************************)
(* The ranks of a parallel run stay in step (MpiProperties), for any       *)
(* number of workers, any stack and any number of hooks, calls and faults. *)
(*                                                                         *)
(* What makes it true is the protocol that the code keeps nowhere: how far *)
(* a rank is in it is a View, and Follows says which message leads from    *)
(* which view to which.  The invariant says that the messages under way to *)
(* a worker lead, one after the other, from the worker's view to the       *)
(* primary's.                                                              *)
(***************************************************************************)
EXTENDS MpiProperties, SequenceTheorems, TLAPS

(* The interfaces of the stack, after the first n, that are transmitted.   *)
Due(n) == {k \in DOMAIN Stack : k > n /\ Transmitted(Stack[k])}

Places ==
  {"loop", "blocks", "lib", "settings", "reactor", "flags", "names", "action",
   "quitting", "done", "over"}

(* A rank expects interfaces first if any are due, "quitting" is the last  *)
(* place of an orderly run, and "over" that of any other.                  *)
Views == [place : Places, due : SUBSET DOMAIN Stack, hook : Nat, dist : Nat]

Keeps(v, u, place, due) ==
  u.place = place /\ u.due = due /\ u.hook = v.hook /\ u.dist = v.dist

(* Message m takes a rank from view v to view u, after f faults. *)
Orderly(v, m, u) ==
  \/ v.place = "loop" /\ v.due = {}
     /\ \/ m.is = "memory"   /\ Keeps(v, u, "loop", {})
        \/ m.is = "macros"   /\ Keeps(v, u, "blocks", {})
        \/ m.is = "batch"    /\ Keeps(v, u, "action", {})
        \/ m.is = "state"    /\ u.place = "settings" /\ u.due = {} /\ u.hook = v.hook
        \/ m.is = "reset"    /\ u.place = "loop" /\ u.due = {}
        \/ m.is = "quit"     /\ Keeps(v, u, "quitting", {})
  \/ v.place = "blocks"   /\ m.is = "blocks"    /\ Keeps(v, u, "lib", {})
  \/ v.place = "lib"      /\ m.is = "lib"       /\ Keeps(v, u, "loop", {})
  \/ v.place = "action"   /\ m.is = "action"    /\ Keeps(v, u, "loop", {})
  \/ v.place = "settings" /\ m.is = "settings"  /\ Keeps(v, u, "reactor", {})
  \/ v.place = "reactor"  /\ m.is = "reactor"   /\ Keeps(v, u, "flags", {})
  \/ v.place = "flags"    /\ m.is = "flags"     /\ Keeps(v, u, "names", {})
  \/ v.place = "names"    /\ m.is = "names"     /\ Keeps(v, u, "loop", Due(0))
  \/ v.place = "loop"     /\ m.is = "interface"
     /\ \E k \in v.due : (\A l \in v.due : k <= l) /\ Keeps(v, u, "loop", v.due \ {k})
  \/ v.place = "quitting" /\ m.is = "finished"  /\ u.place = "done"

Follows(f, v, m, u) ==
  \/ v.place # "over" /\ m.hook = v.hook /\ m.dist = u.dist /\ Orderly(v, m, u)
  \/ f > 0 /\ m.is = "quit" /\ u.place = "over"
  \/ f > 0 /\ m.is = "finished" /\ v.place = "over" /\ u.place = "over"

(* The messages of a box lead from view v to view u. *)
Leads(f, v, box, u) ==
  \E run \in [1 .. Len(box) + 1 -> Views] :
    /\ run[1] = v /\ run[Len(box) + 1] = u
    /\ \A k \in 1 .. Len(box) : Follows(f, run[k], box[k], run[k + 1])

(* What is left of the stack, in a loop over it. *)
IsRest(s) ==
  /\ Len(s) <= Len(Stack)
  /\ \A k \in DOMAIN s : s[k] = Stack[Len(Stack) - Len(s) + k]

DueIn(s) == Due(Len(Stack) - Len(s))

At(v, place, due) == v.place = place /\ v.due = due

(* The view of worker w is v.  *)
WorkerPlace(w, v) ==
  /\ at[w] # "raised"
  /\ at[w] \in {"loop", "report", "macros", "split", "act"} => At(v, "loop", {})
  /\ at[w] = "interface" => IsRest(todo[w]) /\ At(v, "loop", DueIn(todo[w]))
  /\ at[w] \in {"blocks", "lib", "settings", "reactor", "flags", "names", "action", "quitting"} =>
       At(v, at[w], {})

(* All of worker w's duplicates, or all it was sent so far, are of the     *)
(* same distribution as its reactor.                                       *)
IsWhole(w, n) ==
  \A k \in DOMAIN Stack : k <= n /\ Transmitted(Stack[k]) => copy[w][Stack[k]] = reactor[w].dist

WorkerState(w, v) ==
  /\ reactor[w] # NotDistributed => reactor[w].hook = v.hook
  /\ at[w] \in {"flags", "names", "interface"} => reactor[w].dist = v.dist
  /\ at[w] = "interface" => IsWhole(w, Len(Stack) - Len(todo[w]))
  /\ at[w] \in {"loop", "report", "macros", "blocks", "lib", "action", "split", "act"}
     /\ reactor[w] # NotDistributed => IsWhole(w, Len(Stack))

WorkerSees(w, v) ==
  \/ v.place = "over" /\ faults > 0
  \/ at[w] = "raised" /\ faults > 0
  \/ at[w] \in {"finalize", "ended"}
  \/ v.place # "over" /\ WorkerPlace(w, v) /\ WorkerState(w, v)

(* The view of the primary is v, unless it sends no more or only to quit.  *)
PrimaryPlace(v) ==
  /\ at[Primary] \in {"init", "hook", "gather", "split", "act", "stop"} => At(v, "loop", {})
  /\ at[Primary] = "scatterBlocks"  => At(v, "blocks", {})
  /\ at[Primary] = "sendLib"        => At(v, "lib", {})
  /\ at[Primary] = "scatterActions" => At(v, "action", {})
  /\ at[Primary] = "sendSettings"   => At(v, "settings", {})
  /\ at[Primary] = "sendReactor"    => At(v, "reactor", {})
  /\ at[Primary] = "sendFlags"      => At(v, "flags", {})
  /\ at[Primary] = "sendNames"      => At(v, "names", {})
  /\ at[Primary] = "sendInterfaces" => IsRest(left) /\ At(v, "loop", DueIn(left))

PrimarySees(v) ==
  \/ at[Primary] = "stop" /\ faults > 0
  \/ at[Primary] \in {"close", "raised", "finalize", "ended"}
  \/ PrimaryPlace(v) /\ v.hook = hook /\ v.dist = dist

InStep(w) ==
  \E v, u \in Views :
    WorkerSees(w, v) /\ PrimarySees(u) /\ Leads(faults, v, inbox[w], u)

StepInvariant == \A w \in Workers : InStep(w)

RankPlaces ==
  {"init", "hook", "gather", "scatterBlocks", "sendLib", "sendSettings", "sendReactor",
   "sendFlags", "sendNames", "sendInterfaces", "scatterActions", "stop", "close",
   "loop", "report", "blocks", "lib", "macros", "settings", "reactor", "flags", "names",
   "interface", "action", "quitting", "split", "act", "raised", "finalize", "ended"}

MessageNames ==
  {"memory", "macros", "state", "batch", "reset", "quit", "finished", "blocks", "lib",
   "settings", "reactor", "flags", "names", "interface", "action"}

Messages == [is : MessageNames, hook : Nat, dist : Nat]

(* The type of every variable but the workers' stacks. *)
MpiTypes ==
  /\ at \in [Ranks -> RankPlaces]
  /\ inbox \in [Workers -> Seq(Messages)]
  /\ hook \in Nat /\ calls \in Nat /\ dist \in Nat /\ faults \in Nat
  /\ left \in Seq(Interfaces)
  /\ failed \in BOOLEAN
  /\ answers \subseteq Workers
  /\ reactor \in [Workers -> [hook : Nat, dist : Nat]]
  /\ copy \in [Workers -> [Interfaces -> Nat]]
  /\ todo \in [Workers -> Seq(Interfaces)]
-----------------------------------------------------------------------------
(* Paths of messages. *)

LEMMA LeadsNowhere ==
  ASSUME NEW f, NEW v \in Views
  PROVE  Leads(f, v, <<>>, v)
<1> DEFINE run == [k \in 1 .. 1 |-> v]
<1>1. run \in [1 .. Len(<<>>) + 1 -> Views] /\ run[1] = v /\ Len(<<>>) = 0
  OBVIOUS
<1> HIDE DEF run
<1> QED
  BY <1>1 DEF Leads

LEMMA LeadsOn ==
  ASSUME NEW f, NEW M, NEW box \in Seq(M), NEW m \in M,
         NEW v \in Views, NEW u \in Views, NEW x \in Views,
         Leads(f, v, box, u), Follows(f, u, m, x)
  PROVE  Leads(f, v, Append(box, m), x)
<1>1. PICK run \in [1 .. Len(box) + 1 -> Views] :
        /\ run[1] = v /\ run[Len(box) + 1] = u
        /\ \A k \in 1 .. Len(box) : Follows(f, run[k], box[k], run[k + 1])
  BY DEF Leads
<1> DEFINE box2 == Append(box, m)
           run2 == [k \in 1 .. Len(box) + 2 |-> IF k <= Len(box) + 1 THEN run[k] ELSE x]
<1>2. Len(box) \in Nat /\ Len(box2) = Len(box) + 1 /\ box2[Len(box) + 1] = m
      /\ \A k \in 1 .. Len(box) : box2[k] = box[k]
  OBVIOUS
<1>3. run2 \in [1 .. Len(box2) + 1 -> Views]
  BY <1>2
<1>4. run2[1] = v /\ run2[Len(box2) + 1] = x
  BY <1>1, <1>2
<1>5. ASSUME NEW k \in 1 .. Len(box2)
      PROVE  Follows(f, run2[k], box2[k], run2[k + 1])
  <2>1. CASE k <= Len(box)
    <3>1. run2[k] = run[k] /\ run2[k + 1] = run[k + 1] /\ box2[k] = box[k] /\ k \in 1 .. Len(box)
      BY <1>2, <2>1
    <3> QED
      BY <1>1, <3>1
  <2>2. CASE k = Len(box) + 1
    <3>1. run2[k] = u /\ run2[k + 1] = x /\ box2[k] = m
      BY <1>1, <1>2, <2>2
    <3> QED
      BY <3>1
  <2> QED
    BY <1>2, <2>1, <2>2
<1> HIDE DEF box2, run2
<1>6. Leads(f, v, box2, x)
  BY <1>3, <1>4, <1>5 DEF Leads
<1> QED
  BY <1>6 DEF box2

LEMMA LeadsFrom ==
  ASSUME NEW f, NEW M, NEW box \in Seq(M), box # <<>>,
         NEW v \in Views, NEW u \in Views, Leads(f, v, box, u)
  PROVE  \E x \in Views : Follows(f, v, Head(box), x) /\ Leads(f, x, Tail(box), u)
<1>1. PICK run \in [1 .. Len(box) + 1 -> Views] :
        /\ run[1] = v /\ run[Len(box) + 1] = u
        /\ \A k \in 1 .. Len(box) : Follows(f, run[k], box[k], run[k + 1])
  BY DEF Leads
<1> DEFINE box2 == Tail(box)
           run2 == [k \in 1 .. Len(box) |-> run[k + 1]]
<1>2. Len(box) \in Nat /\ Len(box) > 0 /\ Len(box2) = Len(box) - 1 /\ Head(box) = box[1]
      /\ \A k \in 1 .. Len(box) - 1 : box2[k] = box[k + 1]
  OBVIOUS
<1>3. run2 \in [1 .. Len(box2) + 1 -> Views]
  BY <1>2
<1>4. run2[1] = run[2] /\ run2[Len(box2) + 1] = u
  BY <1>1, <1>2
<1>5. ASSUME NEW k \in 1 .. Len(box2)
      PROVE  Follows(f, run2[k], box2[k], run2[k + 1])
  <2>1. run2[k] = run[k + 1] /\ run2[k + 1] = run[k + 1 + 1] /\ box2[k] = box[k + 1]
        /\ k + 1 \in 1 .. Len(box)
    BY <1>2
  <2> QED
    BY <1>1, <2>1
<1>6. 1 \in 1 .. Len(box) /\ run[2] \in Views /\ 1 + 1 = 2
  BY <1>2
<1>7. Follows(f, v, Head(box), run[2])
  BY <1>1, <1>2, <1>6
<1> HIDE DEF box2, run2
<1>8. Leads(f, run[2], box2, u)
  BY <1>3, <1>4, <1>5 DEF Leads
<1> QED
  BY <1>6, <1>7, <1>8 DEF box2

LEMMA LeadsStill ==
  ASSUME NEW f \in Nat, NEW g \in Nat, f <= g, NEW v, NEW box, NEW u, Leads(f, v, box, u)
  PROVE  Leads(g, v, box, u)
<1>1. \A x, m, y : Follows(f, x, m, y) => Follows(g, x, m, y)
  BY DEF Follows
<1> QED
  BY <1>1 DEF Leads
-----------------------------------------------------------------------------
(* Types. *)

LEMMA SendTypes ==
  ASSUME NEW M, NEW names \in Seq(MessageNames), Send(names),
         inbox \in [Workers -> Seq(Messages)], hook \in Nat, dist' \in Nat
  PROVE  inbox' \in [Workers -> Seq(Messages)]
<1> DEFINE sent == [k \in DOMAIN names |-> [is |-> names[k], hook |-> hook, dist |-> dist']]
<1>1. Len(names) \in Nat /\ DOMAIN names = 1 .. Len(names)
  OBVIOUS
<1>2. \A k \in DOMAIN names : [is |-> names[k], hook |-> hook, dist |-> dist'] \in Messages
  BY DEF Messages
<1>3. sent \in [1 .. Len(names) -> Messages]
  BY <1>1, <1>2
<1>4. sent \in Seq(Messages)
  BY <1>1, <1>3, SeqDef
<1>5. inbox' = [w \in Workers |-> inbox[w] \o sent]
  BY DEF Send
<1> HIDE DEF sent
<1> QED
  BY <1>4, <1>5

LEMMA OneName ==
  ASSUME NEW a \in MessageNames, NEW b \in MessageNames
  PROVE  <<a>> \in Seq(MessageNames) /\ <<a, b>> \in Seq(MessageNames)
<1>1. <<a>> \in [1 .. 1 -> MessageNames] /\ <<a, b>> \in [1 .. 2 -> MessageNames]
  OBVIOUS
<1> QED
  BY <1>1, SeqDef

LEMMA TypesPrimarySends ==
  ASSUME MpiTypes, NEW from, NEW name \in MessageNames, NEW to \in RankPlaces, PrimarySends(from, name, to)
  PROVE  MpiTypes'
<1>1. Primary \in Ranks
  BY DEF Ranks
<1>2. inbox' \in [Workers -> Seq(Messages)]
  BY ZenonT(40), SendTypes, OneName DEF MessageNames, MpiTypes, PrimarySends
<1>3. at' \in [Ranks -> RankPlaces]
  BY <1>1 DEF MpiTypes, PrimarySends, PrimaryGoes
<1> QED
  BY <1>2, <1>3 DEF MpiTypes, PrimarySends, workerVars

LEMMA StackType == Stack \in Seq(Interfaces)
  BY StackAssumption DEF Interfaces

(* A step of worker w that at most takes a message and moves. *)
LEMMA TypesWorker ==
  ASSUME MpiTypes, NEW w \in Workers, NEW place \in RankPlaces,
         at' = [at EXCEPT ![w] = place] \/ UNCHANGED at,
         UNCHANGED inbox \/ (inbox[w] # <<>> /\ inbox' = [inbox EXCEPT ![w] = Tail(@)]),
         UNCHANGED <<hook, calls, dist, left, failed>>, answers' \subseteq Workers,
         faults' \in Nat
  PROVE  /\ at' \in [Ranks -> RankPlaces]
         /\ inbox' \in [Workers -> Seq(Messages)]
         /\ hook' \in Nat /\ calls' \in Nat /\ dist' \in Nat /\ faults' \in Nat
         /\ left' \in Seq(Interfaces)
         /\ failed' \in BOOLEAN
         /\ answers' \subseteq Workers
<1>1. at' \in [Ranks -> RankPlaces]
  BY DEF MpiTypes
<1>2. inbox' \in [Workers -> Seq(Messages)]
  <2>1. inbox[w] \in Seq(Messages)
    BY DEF MpiTypes
  <2>2. inbox[w] # <<>> => Tail(inbox[w]) \in Seq(Messages)
    BY <2>1
  <2> QED
    BY <2>2 DEF MpiTypes
<1> QED
  BY <1>1, <1>2 DEF MpiTypes

LEMMA TypesHold ==
  ASSUME MpiTypes, [Next]_vars
  PROVE  MpiTypes'
<1>1. CASE PrimaryStep
  <2>1. Primary \in Ranks
    BY DEF Ranks
  <2>3. CASE PrimaryStarts \/ StateIsSent \/ PrimaryActs
    <3>1. at' \in [Ranks -> RankPlaces]
      BY <2>1, <2>3 DEF RankPlaces, MpiTypes, PrimaryGoes, PrimaryStarts, StateIsSent, PrimaryActs
    <3> QED
      BY <2>3, <3>1 DEF PrimaryStarts, StateIsSent, PrimaryActs, MpiTypes, primaryVars, workerVars
  <2>4. CASE Gather
    <3>1. at' \in [Ranks -> RankPlaces]
      BY <2>1, <2>4 DEF Gather, PrimaryGoes, RankPlaces, MpiTypes
    <3> QED
      BY <2>4, <3>1 DEF Gather, MpiTypes, workerVars
  <2>5. CASE ScatterBlocks \/ SendLib \/ SendSettings \/ SendReactor \/ SendFlags \/ ScatterActions
    BY <2>5, TypesPrimarySends
    DEF ScatterBlocks, SendLib, SendSettings, SendReactor, SendFlags, ScatterActions, RankPlaces, MessageNames
  <2>6. CASE SendNames
    <3>1. at' \in [Ranks -> RankPlaces]
      BY <2>1, <2>6 DEF SendNames, PrimaryGoes, RankPlaces, MpiTypes
    <3>2. inbox' \in [Workers -> Seq(Messages)]
      BY <2>6, SendTypes, OneName DEF MessageNames, SendNames, MpiTypes
    <3> QED
      BY <2>6, <3>1, <3>2, StackType DEF SendNames, MpiTypes, workerVars
  <2>7. CASE SendInterface
    <3>1. inbox' \in [Workers -> Seq(Messages)]
      BY <2>7, SendTypes, OneName DEF MessageNames, SendInterface, MpiTypes
    <3>2. left' \in Seq(Interfaces)
      BY <2>7 DEF SendInterface, MpiTypes
    <3> QED
      BY <2>7, <3>1, <3>2 DEF SendInterface, MpiTypes, workerVars
  <2>8. CASE PassInterface
    <3>1. left' \in Seq(Interfaces)
      BY <2>8 DEF PassInterface, MpiTypes
    <3> QED
      BY <2>8, <3>1 DEF PassInterface, MpiTypes, workerVars
  <2>9. CASE EndHook
    <3>1. at' \in [Ranks -> RankPlaces]
      BY <2>1, <2>9 DEF EndHook, PrimaryGoes, RankPlaces, MpiTypes
    <3>2. inbox' \in [Workers -> Seq(Messages)]
      BY <2>9, SendTypes, OneName DEF MessageNames, EndHook, MpiTypes
    <3> QED
      BY <2>9, <3>1, <3>2 DEF EndHook, MpiTypes, workerVars
  <2>10. CASE StopWorkers
    <3>1. at' \in [Ranks -> RankPlaces]
      BY <2>1, <2>10 DEF StopWorkers, PrimaryGoes, RankPlaces, MpiTypes
    <3>2. inbox' \in [Workers -> Seq(Messages)]
      BY <2>10, SendTypes, OneName DEF MessageNames, StopWorkers, MpiTypes
    <3> QED
      BY <2>10, <3>1, <3>2 DEF StopWorkers, MpiTypes, workerVars
  <2>11. CASE CloseLogs
    <3>1. at' \in [Ranks -> RankPlaces]
      BY <2>1, <2>11 DEF CloseLogs, PrimaryGoes, RankPlaces, MpiTypes
    <3> QED
      BY <2>11, <3>1 DEF CloseLogs, MpiTypes, workerVars, primaryVars
  <2> QED
    BY <1>1, <2>3, <2>4, <2>5, <2>6, <2>7, <2>8, <2>9, <2>10, <2>11 DEF PrimaryStep
<1>2. ASSUME NEW name \in Calls, BroadcastAction(name) PROVE MpiTypes'
  <2>1. Primary \in Ranks /\ name \in MessageNames
    BY DEF Ranks, Calls, CallLeadsTo, MessageNames
  <2>2. at' \in [Ranks -> RankPlaces]
    <3>1. CallLeadsTo[name] \in RankPlaces
      BY DEF Calls, CallLeadsTo, RankPlaces
    <3> QED
      BY <1>2, <2>1, <3>1 DEF BroadcastAction, PrimaryGoes, MpiTypes
  <2>3. calls' \in Nat /\ dist' \in Nat
    BY <1>2 DEF BroadcastAction, MpiTypes
  <2>4. inbox' \in [Workers -> Seq(Messages)]
    BY ZenonT(40), <1>2, <2>1, <2>3, SendTypes, OneName DEF MessageNames, BroadcastAction, MpiTypes
  <2> QED
    BY <1>2, <2>2, <2>3, <2>4 DEF BroadcastAction, MpiTypes, workerVars
<1>3. ASSUME NEW w \in Workers, WorkerStep(w) \/ WorkerRaises(w) PROVE MpiTypes'
  <2>1. w \in Ranks /\ (inbox[w] # <<>> => Message(w) \in Messages)
    BY DEF Ranks, Message, MpiTypes
  <2>2. NotDistributed \in [hook : Nat, dist : Nat] /\ Stack \in Seq(Interfaces)
    BY StackType DEF NotDistributed
  <2>3. ASSUME UNCHANGED <<hook, calls, dist, left, failed>>, answers' \subseteq Workers,
               faults' \in Nat, NEW place \in RankPlaces,
               at' = [at EXCEPT ![w] = place] \/ UNCHANGED at,
               UNCHANGED inbox \/ (inbox[w] # <<>> /\ inbox' = [inbox EXCEPT ![w] = Tail(@)]),
               reactor' \in [Workers -> [hook : Nat, dist : Nat]],
               copy' \in [Workers -> [Interfaces -> Nat]],
               todo' \in [Workers -> Seq(Interfaces)]
        PROVE  MpiTypes'
    BY <2>3, TypesWorker DEF MpiTypes
  <2>4. CASE TakeCommand(w)
    <3>1. \E place \in RankPlaces : at' = [at EXCEPT ![w] = place]
      <4>1. "raised" \in RankPlaces /\ \A c \in DOMAIN CommandLeadsTo : CommandLeadsTo[c] \in RankPlaces
        BY DEF CommandLeadsTo, RankPlaces
      <4> QED
        BY <2>4, <4>1 DEF TakeCommand, WorkerGoes
    <3>2. reactor' \in [Workers -> [hook : Nat, dist : Nat]]
      BY <2>2, <2>4 DEF TakeCommand, ResetAfter, MpiTypes
    <3> QED
      BY <2>3, <2>4, <3>1, <3>2 DEF TakeCommand, Takes, MpiTypes, primaryVars
  <2>5. CASE Report(w) \/ MakeMacros(w)
    <3>1. reactor' \in [Workers -> [hook : Nat, dist : Nat]]
      BY <2>2, <2>5 DEF Report, MakeMacros, ResetAfter, MpiTypes, workerVars
    <3>2. at' = [at EXCEPT ![w] = "loop"] /\ "loop" \in RankPlaces
      BY <2>5 DEF Report, MakeMacros, WorkerGoes, RankPlaces
    <3> QED
      BY <2>3, <2>5, <3>1, <3>2 DEF Report, MakeMacros, MpiTypes, workerVars
  <2>6. CASE TakeBlocks(w) \/ TakeLib(w) \/ TakeAction(w) \/ WorkerQuits(w)
    <3>1. \E place \in RankPlaces : at' = [at EXCEPT ![w] = place]
      BY <2>6 DEF TakeBlocks, TakeLib, TakeAction, WorkerQuits, WorkerGoes, RankPlaces
    <3> QED
      BY <2>3, <2>6, <3>1
      DEF TakeBlocks, TakeLib, TakeAction, WorkerQuits, Takes, MpiTypes, primaryVars, workerVars
  <2>7. CASE TakeSettings(w) \/ TakeFlags(w)
    <3>1. \E place \in RankPlaces : at' = [at EXCEPT ![w] = place]
      BY <2>7 DEF TakeSettings, TakeFlags, TakePart, WorkerGoes, RankPlaces
    <3> QED
      BY <2>3, <2>7, <3>1
      DEF TakeSettings, TakeFlags, TakePart, Takes, MpiTypes, primaryVars, workerVars
  <2>8. CASE TakeReactor(w)
    <3>1. \E place \in RankPlaces : at' = [at EXCEPT ![w] = place]
      BY <2>8 DEF TakeReactor, TakePart, WorkerGoes, RankPlaces
    <3>2. Message(w) \in Messages
      BY <2>1, <2>8 DEF TakeReactor, TakePart, Takes
    <3>3. reactor' \in [Workers -> [hook : Nat, dist : Nat]]
      BY <2>8, <3>2 DEF TakeReactor, MpiTypes, Messages
    <3> QED
      BY <2>3, <2>8, <3>1, <3>3 DEF TakeReactor, TakePart, Takes, MpiTypes, primaryVars
  <2>9. CASE TakeNames(w)
    <3>1. \E place \in RankPlaces : at' = [at EXCEPT ![w] = place]
      BY <2>9 DEF TakeNames, TakePart, WorkerGoes, RankPlaces
    <3>2. todo' \in [Workers -> Seq(Interfaces)]
      BY <2>2, <2>9 DEF TakeNames, MpiTypes
    <3> QED
      BY <2>3, <2>9, <3>1, <3>2 DEF TakeNames, TakePart, Takes, MpiTypes, primaryVars
  <2>10. CASE SkipInterface(w) \/ RenewInterface(w)
    <3>1. todo[w] \in Seq(Interfaces) /\ todo[w] # <<>>
      BY <2>10 DEF SkipInterface, RenewInterface, Pending, MpiTypes
    <3>2. todo' = [todo EXCEPT ![w] = Tail(todo[w])]
      BY <2>10 DEF SkipInterface, RenewInterface
    <3>3. todo' \in [Workers -> Seq(Interfaces)]
      BY <3>1, <3>2 DEF MpiTypes
    <3>4. "loop" \in RankPlaces
      BY DEF RankPlaces
    <3> QED
      BY <2>3, <2>10, <3>3, <3>4 DEF SkipInterface, RenewInterface, MpiTypes, primaryVars
  <2>11. CASE TakeInterface(w)
    <3>1. \E place \in RankPlaces : at' = [at EXCEPT ![w] = place] \/ UNCHANGED at
      BY <2>11 DEF TakeInterface, WorkerGoes, RankPlaces
    <3>2. todo[w] \in Seq(Interfaces) /\ todo[w] # <<>>
      BY <2>11 DEF TakeInterface, Pending, MpiTypes
    <3>3. Tail(todo[w]) \in Seq(Interfaces) /\ <<>> \in Seq(Interfaces)
      BY <3>2
    <3>4. todo' \in [Workers -> Seq(Interfaces)]
      BY <2>11, <3>3 DEF TakeInterface, MpiTypes
    <3>5. Message(w) \in Messages
      BY <2>1, <2>11 DEF TakeInterface, Takes
    <3>6. Message(w).dist \in Nat
      BY <3>5 DEF Messages
    <3>7. copy' \in [Workers -> [Interfaces -> Nat]]
      <4>1. copy \in [Workers -> [Interfaces -> Nat]] /\ copy[w] \in [Interfaces -> Nat]
        BY DEF MpiTypes
      <4>2. [copy[w] EXCEPT ![Head(todo[w])] = Message(w).dist] \in [Interfaces -> Nat]
        BY <3>6, <4>1
      <4>3. [copy EXCEPT ![w][Head(todo[w])] = Message(w).dist] \in [Workers -> [Interfaces -> Nat]]
        BY <4>1, <4>2
      <4> QED
        BY <2>11, <4>1, <4>3 DEF TakeInterface
    <3> QED
      BY <2>3, <2>11, <3>1, <3>4, <3>7 DEF TakeInterface, Takes, MpiTypes, primaryVars
  <2>12. CASE StateIsTaken(w) \/ WorkerActs(w)
    <3>1. at' = [at EXCEPT ![w] = "loop"] /\ "loop" \in RankPlaces
      BY <2>12 DEF StateIsTaken, WorkerActs, WorkerGoes, RankPlaces
    <3> QED
      BY <2>3, <2>12, <3>1 DEF StateIsTaken, WorkerActs, MpiTypes, primaryVars, workerVars
  <2>13. CASE WorkerRaises(w)
    <3>1. at' = [at EXCEPT ![w] = "raised"] /\ "raised" \in RankPlaces
      BY <2>13 DEF WorkerRaises, WorkerGoes, RankPlaces
    <3>2. UNCHANGED <<inbox, primaryVars, workerVars>> /\ faults' \in Nat
      BY <2>13 DEF WorkerRaises, Fault, MpiTypes
    <3> QED
      BY <2>3, <3>1, <3>2 DEF MpiTypes, primaryVars, workerVars
  <2> QED
    BY <1>3, <2>4, <2>5, <2>6, <2>7, <2>8, <2>9, <2>10, <2>11, <2>12, <2>13 DEF WorkerStep
<1>4. CASE PrimaryFailsOnInit
  <2>1. at' \in [Ranks -> RankPlaces]
    BY <1>4 DEF PrimaryFailsOnInit, PrimaryGoes, RankPlaces, MpiTypes
  <2>2. inbox' \in [Workers -> Seq(Messages)]
    BY <1>4, SendTypes, OneName DEF MessageNames, PrimaryFailsOnInit, MpiTypes
  <2> QED
    BY <1>4, <2>1, <2>2 DEF PrimaryFailsOnInit, Fault, MpiTypes, workerVars
<1>5. CASE TransmissionFails
  <2>1. at' \in [Ranks -> RankPlaces]
    BY <1>5 DEF TransmissionFails, RankPlaces, MpiTypes
  <2>2. inbox' \in [Workers -> Seq(Messages)]
    BY <1>5, SendTypes, OneName DEF MessageNames, TransmissionFails, MpiTypes
  <2> QED
    BY <1>5, <2>1, <2>2 DEF TransmissionFails, Fault, MpiTypes, workerVars
<1>6. CASE PrimaryRaises
  <2>1. at' \in [Ranks -> RankPlaces]
    BY <1>6 DEF PrimaryRaises, RankPlaces, MpiTypes
  <2> QED
    BY <1>6, <2>1 DEF PrimaryRaises, Fault, MpiTypes, workerVars
<1>7. CASE Split \/ End \/ Abort
  <2>1. at' \in [Ranks -> RankPlaces]
    BY <1>7 DEF Split, End, Abort, RankPlaces
  <2> QED
    BY <1>7, <2>1 DEF Split, End, Abort, MpiTypes, primaryVars, workerVars
<1>8. CASE UNCHANGED vars
  BY <1>8 DEF vars, primaryVars, workerVars, MpiTypes
<1> QED
  BY <1>1, <1>2, <1>3, <1>4, <1>5, <1>6, <1>7, <1>8 DEF Next, Failure, Wait

LEMMA TypesBegin ==
  ASSUME Init
  PROVE  MpiTypes
<1>1. <<>> \in Seq(Messages) /\ <<>> \in Seq(Interfaces)
  OBVIOUS
<1>2. at \in [Ranks -> RankPlaces] /\ hook \in Nat
  BY DEF Init, RankPlaces
<1> QED
  BY <1>1, <1>2, BoundAssumption DEF Init, MpiTypes, NotDistributed

(* Every variable has its type, for any number of workers. *)
THEOREM MpiTypesHold == Spec => []MpiTypes
  BY TypesBegin, TypesHold, PTL DEF Spec
-----------------------------------------------------------------------------
(* The three kinds of steps: no message moves, the primary sends one, and  *)
(* a worker takes one.                                                     *)

LEMMA NoMessage ==
  ASSUME MpiTypes, NEW w \in Workers, InStep(w), inbox'[w] = inbox[w], faults' \in Nat, faults <= faults',
         \A v \in Views : WorkerSees(w, v) => WorkerSees(w, v)',
         \A u \in Views : PrimarySees(u) => PrimarySees(u)'
  PROVE  InStep(w)'
<1>1. PICK v \in Views, u \in Views :
        WorkerSees(w, v) /\ PrimarySees(u) /\ Leads(faults, v, inbox[w], u)
  BY DEF InStep
<1>2. Leads(faults', v, inbox'[w], u)
  BY <1>1, LeadsStill DEF MpiTypes
<1> QED
  BY <1>1, <1>2 DEF InStep

Text(name) == [is |-> name, hook |-> hook, dist |-> dist']

LEMMA SentOne ==
  ASSUME MpiTypes, dist' \in Nat, NEW name \in MessageNames, Send(<<name>>), NEW w \in Workers
  PROVE  inbox'[w] = Append(inbox[w], Text(name)) /\ Text(name) \in Messages
<1>1. Text(name) \in Messages /\ inbox[w] \in Seq(Messages)
  BY DEF MpiTypes, Messages, Text
<1> DEFINE sent == [k \in DOMAIN <<name>> |-> [is |-> <<name>>[k], hook |-> hook, dist |-> dist']]
<1>2. sent = <<Text(name)>>
  BY DEF Text
<1>3. inbox'[w] = inbox[w] \o sent
  BY DEF Send
<1> HIDE DEF sent
<1>4. inbox[w] \o <<Text(name)>> = Append(inbox[w], Text(name))
  BY <1>1
<1> QED
  BY <1>1, <1>2, <1>3, <1>4

LEMMA SentTwo ==
  ASSUME MpiTypes, dist' \in Nat, NEW a \in MessageNames, NEW b \in MessageNames, Send(<<a, b>>),
         NEW w \in Workers
  PROVE  /\ inbox'[w] = Append(Append(inbox[w], Text(a)), Text(b))
         /\ Text(a) \in Messages /\ Text(b) \in Messages
<1>1. Text(a) \in Messages /\ Text(b) \in Messages /\ inbox[w] \in Seq(Messages)
  BY DEF MpiTypes, Messages, Text
<1> DEFINE sent == [k \in DOMAIN <<a, b>> |-> [is |-> <<a, b>>[k], hook |-> hook, dist |-> dist']]
<1>2. sent = <<Text(a), Text(b)>>
  BY DEF Text
<1>3. inbox'[w] = inbox[w] \o sent
  BY DEF Send
<1> HIDE DEF sent
<1>4. inbox[w] \o <<Text(a), Text(b)>> = Append(Append(inbox[w], Text(a)), Text(b))
  BY <1>1
<1> QED
  BY <1>1, <1>2, <1>3, <1>4

(* What worker w sees stays as it is if its own state does. *)
LEMMA StillSees ==
  ASSUME MpiTypes, faults' \in Nat, faults <= faults', NEW w \in Workers, NEW v \in Views, WorkerSees(w, v),
         at'[w] = at[w], reactor'[w] = reactor[w], copy'[w] = copy[w], todo'[w] = todo[w]
  PROVE  WorkerSees(w, v)'
BY DEF WorkerSees, WorkerPlace, WorkerState, IsWhole, MpiTypes

LEMMA OneSent ==
  ASSUME MpiTypes, dist' \in Nat, NEW name \in MessageNames, Send(<<name>>),
         faults' \in Nat, faults <= faults', UNCHANGED <<reactor, copy, todo>>,
         NEW w \in Workers, InStep(w), at'[w] = at[w],
         \A u \in Views : PrimarySees(u) =>
           \E x \in Views : PrimarySees(x)' /\ Follows(faults', u, Text(name), x)
  PROVE  InStep(w)'
<1>1. PICK v \in Views, u \in Views :
        WorkerSees(w, v) /\ PrimarySees(u) /\ Leads(faults, v, inbox[w], u)
  BY DEF InStep
<1>2. Leads(faults', v, inbox[w], u)
  BY <1>1, LeadsStill DEF MpiTypes
<1>3. PICK x \in Views : PrimarySees(x)' /\ Follows(faults', u, Text(name), x)
  BY <1>1
<1>4. inbox[w] \in Seq(Messages) /\ Text(name) \in Messages
  BY SentOne DEF MpiTypes
<1>5. Leads(faults', v, Append(inbox[w], Text(name)), x)
  BY <1>2, <1>3, <1>4, LeadsOn
<1>6. Leads(faults', v, inbox'[w], x)
  BY <1>5, SentOne
<1> QED
  BY <1>1, <1>3, <1>6, StillSees DEF InStep

LEMMA OneTaken ==
  ASSUME MpiTypes, faults' \in Nat, faults' = faults, NEW w \in Workers, NEW place, Takes(w, place), InStep(w),
         \A u \in Views : PrimarySees(u) => PrimarySees(u)',
         \A v, x \in Views : WorkerSees(w, v) /\ Follows(faults, v, Message(w), x) => WorkerSees(w, x)'
  PROVE  InStep(w)'
<1>1. PICK v \in Views, u \in Views :
        WorkerSees(w, v) /\ PrimarySees(u) /\ Leads(faults, v, inbox[w], u)
  BY DEF InStep
<1>2. inbox[w] \in Seq(Messages) /\ inbox[w] # <<>> /\ inbox'[w] = Tail(inbox[w])
  BY DEF MpiTypes, Takes
<1>3. PICK x \in Views : Follows(faults, v, Head(inbox[w]), x) /\ Leads(faults, x, Tail(inbox[w]), u)
  BY <1>1, <1>2, LeadsFrom
<1>4. Leads(faults', x, inbox'[w], u)
  BY <1>2, <1>3
<1> QED
  BY <1>1, <1>3, <1>4 DEF InStep, Message

(* A step of one worker is no step of another. *)
LEMMA OthersStay ==
  ASSUME MpiTypes, NEW w \in Workers, NEW w2 \in Workers, w2 # w, InStep(w2),
         UNCHANGED <<hook, dist, left>>, faults' \in Nat, faults <= faults',
         at'[Primary] = at[Primary], at'[w2] = at[w2], inbox'[w2] = inbox[w2],
         reactor'[w2] = reactor[w2], copy'[w2] = copy[w2], todo'[w2] = todo[w2]
  PROVE  InStep(w2)'
<1>1. \A u \in Views : PrimarySees(u) => PrimarySees(u)'
  BY DEF PrimarySees, PrimaryPlace, MpiTypes
<1>2. \A v \in Views : WorkerSees(w2, v) => WorkerSees(w2, v)'
  BY StillSees
<1> QED
  BY <1>1, <1>2, NoMessage
-----------------------------------------------------------------------------
(* What is due in a loop over the stack. *)

LEMMA RestEnds ==
  /\ IsRest(Stack) /\ DueIn(Stack) = Due(0)
  /\ \A s \in Seq(Interfaces) : s = <<>> => DueIn(s) = {}
  /\ \A n : Due(n) \subseteq DOMAIN Stack
<1>1. Stack \in Seq(Interfaces) /\ Len(Stack) \in Nat /\ DOMAIN Stack = 1 .. Len(Stack)
  BY StackType
<1> QED
  BY <1>1 DEF IsRest, DueIn, Due

LEMMA RestMoves ==
  ASSUME NEW s \in Seq(Interfaces), s # <<>>, IsRest(s)
  PROVE  /\ Head(s) \in Interfaces /\ IsRest(Tail(s))
         /\ Head(s) = Stack[Len(Stack) - Len(s) + 1]
         /\ Len(Stack) - Len(Tail(s)) = Len(Stack) - Len(s) + 1
         /\ ~Transmitted(Head(s)) => DueIn(Tail(s)) = DueIn(s)
         /\ Transmitted(Head(s)) =>
              /\ Len(Stack) - Len(s) + 1 \in DueIn(s)
              /\ \A l \in DueIn(s) : Len(Stack) - Len(s) + 1 <= l
              /\ DueIn(Tail(s)) = DueIn(s) \ {Len(Stack) - Len(s) + 1}
<1>1. Stack \in Seq(Interfaces) /\ Len(Stack) \in Nat /\ DOMAIN Stack = 1 .. Len(Stack)
  BY StackType
<1>2. /\ Len(s) \in Nat /\ Len(s) > 0 /\ DOMAIN s = 1 .. Len(s)
      /\ Tail(s) \in Seq(Interfaces) /\ Len(Tail(s)) = Len(s) - 1
      /\ DOMAIN Tail(s) = 1 .. Len(s) - 1 /\ \A k \in 1 .. Len(s) - 1 : Tail(s)[k] = s[k + 1]
      /\ Head(s) = s[1] /\ Head(s) \in Interfaces
  OBVIOUS
<1> DEFINE n == Len(Stack) - Len(s)
           t == Tail(s)
<1>3. Len(s) <= Len(Stack) /\ \A k \in 1 .. Len(s) : s[k] = Stack[n + k]
  BY <1>2 DEF IsRest
<1>4. n \in Nat /\ n + 1 \in 1 .. Len(Stack) /\ Len(Stack) - Len(t) = n + 1 /\ Head(s) = Stack[n + 1]
  BY <1>1, <1>2, <1>3
<1>5. IsRest(t)
  <2>1. ASSUME NEW k \in 1 .. Len(s) - 1 PROVE t[k] = Stack[n + 1 + k]
    <3>1. t[k] = s[k + 1] /\ k + 1 \in 1 .. Len(s) /\ n + (k + 1) = n + 1 + k
      BY <1>2, <1>4
    <3> QED
      BY <1>3, <3>1
  <2>2. DOMAIN t = 1 .. Len(s) - 1 /\ Len(t) <= Len(Stack) /\ Len(Stack) - Len(t) = n + 1
    BY <1>1, <1>2, <1>3, <1>4
  <2> HIDE DEF t, n
  <2> QED
    BY <2>1, <2>2 DEF IsRest
<1>6. DueIn(s) = Due(n) /\ DueIn(t) = Due(n + 1)
  BY <1>4 DEF DueIn
<1>7. \A k \in DOMAIN Stack : k > n <=> (k = n + 1 \/ k > n + 1)
  BY <1>1, <1>4
<1>8. ~Transmitted(Head(s)) => Due(n + 1) = Due(n)
  BY <1>1, <1>4, <1>7 DEF Due
<1>9. Transmitted(Head(s)) =>
        /\ n + 1 \in Due(n) /\ \A l \in Due(n) : n + 1 <= l
        /\ Due(n + 1) = Due(n) \ {n + 1}
  BY <1>1, <1>4, <1>7 DEF Due
<1> HIDE DEF n, t
<1> QED
  BY <1>2, <1>4, <1>5, <1>6, <1>8, <1>9 DEF n, t
-----------------------------------------------------------------------------
(* The steps of the primary. *)

(* In the middle of its work, there is one view that the primary has. *)
PrimaryView(place, due) == [place |-> place, due |-> due, hook |-> hook, dist |-> dist]

LEMMA OneView ==
  ASSUME MpiTypes, NEW place \in Places, NEW due \in SUBSET DOMAIN Stack
  PROVE  /\ PrimaryView(place, due) \in Views
         /\ \A u \in Views : At(u, place, due) /\ u.hook = hook /\ u.dist = dist <=>
              u = PrimaryView(place, due)
         /\ hook' \in Nat /\ dist' \in Nat => PrimaryView(place, due)' \in Views
BY DEF Views, PrimaryView, At, MpiTypes

LEMMA Sends ==
  ASSUME MpiTypes, NEW name \in MessageNames, NEW from \in Places, NEW to \in Places,
         NEW due \in SUBSET DOMAIN Stack, NEW rest \in SUBSET DOMAIN Stack,
         Send(<<name>>), hook' \in Nat, dist' \in Nat, faults' = faults,
         UNCHANGED <<reactor, copy, todo>>, NEW w \in Workers, InStep(w), at'[w] = at[w],
         at[Primary] \notin {"stop", "close", "raised", "finalize", "ended"},
         \A u \in Views : PrimaryPlace(u) => At(u, from, due),
         PrimaryPlace(PrimaryView(to, rest))',
         from # "over",
         Orderly(PrimaryView(from, due), Text(name), PrimaryView(to, rest)')
  PROVE  InStep(w)'
<1>1. PrimaryView(to, rest)' \in Views /\ PrimarySees(PrimaryView(to, rest))'
  BY OneView DEF PrimarySees, PrimaryView
<1>2. ASSUME NEW u \in Views, PrimarySees(u)
      PROVE  Follows(faults', u, Text(name), PrimaryView(to, rest)')
  <2>1. u = PrimaryView(from, due)
    BY <1>2, OneView DEF PrimarySees
  <2> QED
    BY <2>1 DEF Follows, PrimaryView, Text
<1> QED
  BY <1>1, <1>2, OneSent DEF MpiTypes


LEMMA OtherPlace ==
  ASSUME MpiTypes, NEW w \in Workers, NEW from, NEW to, PrimaryGoes(from, to)
  PROVE  at'[w] = at[w] /\ at[Primary] = from /\ at'[Primary] = to
<1>1. w # Primary /\ w \in Ranks /\ Primary \in Ranks
  BY RankAssumption DEF Ranks
<1> QED
  BY <1>1 DEF PrimaryGoes, MpiTypes

LEMMA BroadcastKeepsStep ==
  ASSUME MpiTypes, MpiTypes', NEW w \in Workers, InStep(w), NEW name \in Calls, BroadcastAction(name)
  PROVE  InStep(w)'
<1>1. /\ at'[w] = at[w] /\ at[Primary] = "hook" /\ at'[Primary] = CallLeadsTo[name]
      /\ Send(<<name>>) /\ UNCHANGED <<hook, faults, reactor, copy, todo>>
      /\ dist' = IF name = "state" THEN dist + 1 ELSE dist
  BY OtherPlace DEF BroadcastAction, workerVars
<1>2. hook' \in Nat /\ dist' \in Nat /\ name \in MessageNames
  BY DEF MpiTypes, Calls, CallLeadsTo, MessageNames
<1>3. \A u \in Views : PrimaryPlace(u) => At(u, "loop", {})
  BY <1>1 DEF PrimaryPlace
<1> DEFINE to == IF name = "memory" THEN "loop"
                 ELSE IF name = "macros" THEN "blocks"
                 ELSE IF name = "state" THEN "settings" ELSE "action"
<1>4. to \in Places /\ "loop" \in Places /\ "loop" # "over"
  BY DEF Places
<1>5. PrimaryPlace(PrimaryView(to, {}))'
  <2>1. name \in {"memory", "macros", "state", "batch"}
    BY DEF Calls, CallLeadsTo
  <2>2. At(PrimaryView(to, {}), to, {})'
    BY DEF At, PrimaryView
  <2> QED
    BY <1>1, <2>1, <2>2 DEF PrimaryPlace, CallLeadsTo, At
<1>6. Orderly(PrimaryView("loop", {}), Text(name), PrimaryView(to, {})')
  BY <1>1 DEF Orderly, PrimaryView, Text, Keeps, Calls, CallLeadsTo
<1> HIDE DEF to
<1> QED
  BY <1>1, <1>2, <1>3, <1>4, <1>5, <1>6, Sends

LEMMA SendsKeepStep ==
  ASSUME MpiTypes, MpiTypes', NEW w \in Workers, InStep(w),
         ScatterBlocks \/ SendLib \/ SendSettings \/ SendReactor \/ SendFlags \/ ScatterActions
  PROVE  InStep(w)'
<1>1. ASSUME NEW from, NEW to, NEW name \in MessageNames, NEW next \in Places,
             PrimarySends(from, name, to), from \notin {"stop", "close", "raised", "finalize", "ended"},
             name # "over", name \in Places,
             \A u \in Views : at[Primary] = from /\ PrimaryPlace(u) => At(u, name, {}),
             at'[Primary] = to => PrimaryPlace(PrimaryView(next, {}))',
             UNCHANGED <<hook, dist>> =>
               Orderly(PrimaryView(name, {}), Text(name), PrimaryView(next, {})')
      PROVE  InStep(w)'
  <2>1. /\ at'[w] = at[w] /\ at[Primary] = from /\ at'[Primary] = to
        /\ Send(<<name>>) /\ UNCHANGED <<hook, dist, faults, reactor, copy, todo>>
    BY <1>1, OtherPlace DEF PrimarySends, workerVars
  <2>2. hook' \in Nat /\ dist' \in Nat
    BY DEF MpiTypes
  <2> QED
    BY <1>1, <2>1, <2>2, Sends
<1>2. CASE ScatterBlocks
  <2>1. at'[Primary] = "sendLib" => PrimaryPlace(PrimaryView("lib", {}))'
    BY DEF PrimaryPlace, At, PrimaryView
  <2>2. \A u \in Views : at[Primary] = "scatterBlocks" /\ PrimaryPlace(u) => At(u, "blocks", {})
    BY DEF PrimaryPlace
  <2>3. UNCHANGED <<hook, dist>> => Orderly(PrimaryView("blocks", {}), Text("blocks"), PrimaryView("lib", {})')
    BY DEF Orderly, PrimaryView, Text, Keeps
  <2> QED
    BY <1>1, <1>2, <2>1, <2>2, <2>3 DEF ScatterBlocks, Places, MessageNames
<1>3. CASE SendLib
  <2>1. at'[Primary] = "gather" => PrimaryPlace(PrimaryView("loop", {}))'
    BY DEF PrimaryPlace, At, PrimaryView
  <2>2. \A u \in Views : at[Primary] = "sendLib" /\ PrimaryPlace(u) => At(u, "lib", {})
    BY DEF PrimaryPlace
  <2>3. UNCHANGED <<hook, dist>> => Orderly(PrimaryView("lib", {}), Text("lib"), PrimaryView("loop", {})')
    BY DEF Orderly, PrimaryView, Text, Keeps
  <2> QED
    BY <1>1, <1>3, <2>1, <2>2, <2>3 DEF SendLib, Places, MessageNames
<1>4. CASE SendSettings
  <2>1. at'[Primary] = "sendReactor" => PrimaryPlace(PrimaryView("reactor", {}))'
    BY DEF PrimaryPlace, At, PrimaryView
  <2>2. \A u \in Views : at[Primary] = "sendSettings" /\ PrimaryPlace(u) => At(u, "settings", {})
    BY DEF PrimaryPlace
  <2>3. UNCHANGED <<hook, dist>> => Orderly(PrimaryView("settings", {}), Text("settings"), PrimaryView("reactor", {})')
    BY DEF Orderly, PrimaryView, Text, Keeps
  <2> QED
    BY <1>1, <1>4, <2>1, <2>2, <2>3 DEF SendSettings, Places, MessageNames
<1>5. CASE SendReactor
  <2>1. at'[Primary] = "sendFlags" => PrimaryPlace(PrimaryView("flags", {}))'
    BY DEF PrimaryPlace, At, PrimaryView
  <2>2. \A u \in Views : at[Primary] = "sendReactor" /\ PrimaryPlace(u) => At(u, "reactor", {})
    BY DEF PrimaryPlace
  <2>3. UNCHANGED <<hook, dist>> => Orderly(PrimaryView("reactor", {}), Text("reactor"), PrimaryView("flags", {})')
    BY DEF Orderly, PrimaryView, Text, Keeps
  <2> QED
    BY <1>1, <1>5, <2>1, <2>2, <2>3 DEF SendReactor, Places, MessageNames
<1>6. CASE SendFlags
  <2>1. at'[Primary] = "sendNames" => PrimaryPlace(PrimaryView("names", {}))'
    BY DEF PrimaryPlace, At, PrimaryView
  <2>2. \A u \in Views : at[Primary] = "sendFlags" /\ PrimaryPlace(u) => At(u, "flags", {})
    BY DEF PrimaryPlace
  <2>3. UNCHANGED <<hook, dist>> => Orderly(PrimaryView("flags", {}), Text("flags"), PrimaryView("names", {})')
    BY DEF Orderly, PrimaryView, Text, Keeps
  <2> QED
    BY <1>1, <1>6, <2>1, <2>2, <2>3 DEF SendFlags, Places, MessageNames
<1>7. CASE ScatterActions
  <2>1. at'[Primary] = "split" => PrimaryPlace(PrimaryView("loop", {}))'
    BY DEF PrimaryPlace, At, PrimaryView
  <2>2. \A u \in Views : at[Primary] = "scatterActions" /\ PrimaryPlace(u) => At(u, "action", {})
    BY DEF PrimaryPlace
  <2>3. UNCHANGED <<hook, dist>> => Orderly(PrimaryView("action", {}), Text("action"), PrimaryView("loop", {})')
    BY DEF Orderly, PrimaryView, Text, Keeps
  <2> QED
    BY <1>1, <1>7, <2>1, <2>2, <2>3 DEF ScatterActions, Places, MessageNames
<1> QED
  BY <1>2, <1>3, <1>4, <1>5, <1>6, <1>7

LEMMA SendNamesKeepsStep ==
  ASSUME MpiTypes, MpiTypes', NEW w \in Workers, InStep(w), SendNames
  PROVE  InStep(w)'
<1>1. /\ at'[w] = at[w] /\ at[Primary] = "sendNames" /\ at'[Primary] = "sendInterfaces"
      /\ Send(<<"names">>) /\ UNCHANGED <<hook, dist, faults, reactor, copy, todo>> /\ left' = Stack
  BY OtherPlace DEF SendNames, workerVars
<1>2. /\ hook' \in Nat /\ dist' \in Nat /\ "names" \in MessageNames /\ "names" \in Places
      /\ "loop" \in Places /\ "names" # "over" /\ Due(0) \in SUBSET DOMAIN Stack
  BY RestEnds DEF MpiTypes, MessageNames, Places
<1>3. \A u \in Views : PrimaryPlace(u) => At(u, "names", {})
  BY <1>1 DEF PrimaryPlace
<1>4. PrimaryPlace(PrimaryView("loop", Due(0)))'
  <2>1. IsRest(left') /\ DueIn(left') = Due(0)
    BY <1>1, RestEnds
  <2>2. At(PrimaryView("loop", Due(0)), "loop", DueIn(left))'
    BY <2>1 DEF At, PrimaryView
  <2> QED
    BY <1>1, <2>1, <2>2 DEF PrimaryPlace
<1>5. Orderly(PrimaryView("names", {}), Text("names"), PrimaryView("loop", Due(0))')
  BY <1>1 DEF Orderly, PrimaryView, Text, Keeps
<1> QED
  BY <1>1, <1>2, <1>3, <1>4, <1>5, Sends

LEMMA SendInterfaceKeepsStep ==
  ASSUME MpiTypes, MpiTypes', NEW w \in Workers, InStep(w), SendInterface
  PROVE  InStep(w)'
<1>1. /\ at' = at /\ at[Primary] = "sendInterfaces" /\ left # <<>> /\ Transmitted(Head(left))
      /\ Send(<<"interface">>) /\ UNCHANGED <<hook, dist, faults, reactor, copy, todo>>
      /\ left' = Tail(left)
  BY DEF SendInterface, workerVars
<1>2. CASE IsRest(left)
  <2>1. PICK due : due = DueIn(left)
    OBVIOUS
  <2>2. PICK k : k = Len(Stack) - Len(left) + 1
    OBVIOUS
  <2>3. /\ IsRest(left') /\ k \in due /\ (\A l \in due : k <= l)
        /\ DueIn(left') = due \ {k}
    BY <1>1, <1>2, <2>1, <2>2, RestMoves DEF MpiTypes
  <2>4. /\ hook' \in Nat /\ dist' \in Nat /\ "interface" \in MessageNames
        /\ "loop" \in Places /\ "loop" # "over" /\ due \in SUBSET DOMAIN Stack /\ due \ {k} \in SUBSET DOMAIN Stack
    BY <2>1, RestEnds DEF MpiTypes, MessageNames, Places, DueIn
  <2>5. \A u \in Views : PrimaryPlace(u) => At(u, "loop", due)
    BY <1>1, <2>1 DEF PrimaryPlace
  <2>6. PrimaryPlace(PrimaryView("loop", due \ {k}))'
    <3>1. At(PrimaryView("loop", due \ {k}), "loop", DueIn(left))'
      BY <2>3 DEF At, PrimaryView
    <3> QED
      BY <1>1, <2>3, <3>1 DEF PrimaryPlace
  <2>7. Orderly(PrimaryView("loop", due), Text("interface"), PrimaryView("loop", due \ {k})')
    BY <1>1, <2>3 DEF Orderly, PrimaryView, Text, Keeps
  <2> QED
    BY <1>1, <2>4, <2>5, <2>6, <2>7, Sends
<1>3. CASE ~IsRest(left)
  BY <1>1, <1>3 DEF InStep, PrimarySees, PrimaryPlace
<1> QED
  BY <1>2, <1>3


LEMMA EndHookKeepsStep ==
  ASSUME MpiTypes, MpiTypes', NEW w \in Workers, InStep(w), EndHook
  PROVE  InStep(w)'
<1>1. /\ at'[w] = at[w] /\ at[Primary] = "hook" /\ at'[Primary] \in {"hook", "stop"}
      /\ Send(<<"reset">>) /\ UNCHANGED <<dist, faults, reactor, copy, todo>>
  BY OtherPlace DEF EndHook, workerVars
<1>2. /\ hook' \in Nat /\ dist' \in Nat /\ "reset" \in MessageNames
      /\ "loop" \in Places /\ "loop" # "over"
  BY DEF MpiTypes, MessageNames, Places
<1>3. \A u \in Views : PrimaryPlace(u) => At(u, "loop", {})
  BY <1>1 DEF PrimaryPlace
<1>4. PrimaryPlace(PrimaryView("loop", {}))'
  BY <1>1 DEF PrimaryPlace, At, PrimaryView
<1>5. Orderly(PrimaryView("loop", {}), Text("reset"), PrimaryView("loop", {})')
  BY DEF Orderly, PrimaryView, Text
<1> QED
  BY <1>1, <1>2, <1>3, <1>4, <1>5, Sends

(* After a fault, a word to quit is understood anywhere. *)
LEMMA OverAnywhere ==
  ASSUME NEW f \in Nat, f > 0, NEW u, NEW h, NEW d
  PROVE  \E x \in Views : /\ Follows(f, u, [is |-> "quit", hook |-> h, dist |-> d], x)
                          /\ Follows(f, x, [is |-> "finished", hook |-> h, dist |-> d], x)
<1> DEFINE x == [place |-> "over", due |-> {}, hook |-> 0, dist |-> 0]
<1>1. x \in Views /\ x.place = "over"
  BY DEF Views, Places
<1> HIDE DEF x
<1>2. Follows(f, u, [is |-> "quit", hook |-> h, dist |-> d], x)
  BY <1>1 DEF Follows
<1>3. Follows(f, x, [is |-> "finished", hook |-> h, dist |-> d], x)
  BY <1>1 DEF Follows
<1> QED
  BY <1>1, <1>2, <1>3

LEMMA FailingKeepsStep ==
  ASSUME MpiTypes, MpiTypes', NEW w \in Workers, InStep(w), PrimaryFailsOnInit \/ TransmissionFails
  PROVE  InStep(w)'
<1>1. /\ at'[w] = at[w] /\ at'[Primary] \in {"stop", "raised"} /\ faults' = faults + 1
      /\ Send(<<"quit">>) /\ UNCHANGED <<hook, dist, reactor, copy, todo>>
  <2>1. CASE PrimaryFailsOnInit
    BY <2>1, OtherPlace DEF PrimaryFailsOnInit, workerVars, Fault
  <2>2. CASE TransmissionFails
    <3>1. w # Primary /\ w \in Ranks /\ Primary \in Ranks
      BY RankAssumption DEF Ranks
    <3> QED
      BY <2>2, <3>1 DEF TransmissionFails, workerVars, Fault, MpiTypes
  <2> QED
    BY <2>1, <2>2
<1>2. dist' \in Nat /\ faults' \in Nat /\ faults' > 0 /\ faults <= faults' /\ "quit" \in MessageNames
  BY <1>1 DEF MpiTypes, MessageNames
<1>3. \A x \in Views : PrimarySees(x)'
  BY <1>1, <1>2 DEF PrimarySees
<1>4. \A u \in Views : \E x \in Views : Follows(faults', u, Text("quit"), x)
  BY <1>2, OverAnywhere DEF Text
<1> QED
  BY <1>1, <1>2, <1>3, <1>4, OneSent

LEMMA StopKeepsStep ==
  ASSUME MpiTypes, MpiTypes', NEW w \in Workers, InStep(w), StopWorkers
  PROVE  InStep(w)'
<1>1. /\ at'[w] = at[w] /\ at[Primary] = "stop" /\ at'[Primary] = "close"
      /\ Send(<<"quit", "finished">>) /\ UNCHANGED <<hook, dist, faults, reactor, copy, todo>>
  BY OtherPlace DEF StopWorkers, workerVars
<1>2. PICK v \in Views, u \in Views :
        WorkerSees(w, v) /\ PrimarySees(u) /\ Leads(faults, v, inbox[w], u)
  BY DEF InStep
<1>3. /\ dist' \in Nat /\ faults' \in Nat /\ faults <= faults'
      /\ "quit" \in MessageNames /\ "finished" \in MessageNames
  BY <1>1 DEF MpiTypes, MessageNames
<1>4. \E x, y \in Views :
        Follows(faults, u, Text("quit"), x) /\ Follows(faults, x, Text("finished"), y)
  <2>1. CASE faults > 0
    BY <2>1, OverAnywhere DEF Text, MpiTypes
  <2>2. CASE ~(faults > 0)
    <3>1. u.place = "loop" /\ u.due = {} /\ u.hook = hook /\ u.dist = dist
      BY <1>1, <1>2, <2>2 DEF PrimarySees, PrimaryPlace, At
    <3> DEFINE x == PrimaryView("quitting", {})
               y == PrimaryView("done", {})
    <3>2. x \in Views /\ y \in Views
      BY OneView DEF Places
    <3>3. Follows(faults, u, Text("quit"), x)
      BY <1>1, <3>1 DEF Follows, Orderly, Keeps, Text, PrimaryView
    <3>4. Follows(faults, x, Text("finished"), y)
      BY <1>1 DEF Follows, Orderly, Text, PrimaryView
    <3> QED
      BY <3>2, <3>3, <3>4
  <2> QED
    BY <2>1, <2>2
<1>5. PICK x \in Views, y \in Views :
        Follows(faults, u, Text("quit"), x) /\ Follows(faults, x, Text("finished"), y)
  BY <1>4
<1>6. inbox[w] \in Seq(Messages) /\ Text("quit") \in Messages /\ Text("finished") \in Messages
  BY <1>1, <1>3, SentTwo DEF MpiTypes
<1>7. Leads(faults, v, Append(inbox[w], Text("quit")), x)
  BY <1>2, <1>5, <1>6, LeadsOn
<1>8. Append(inbox[w], Text("quit")) \in Seq(Messages)
  BY <1>6
<1>9. Leads(faults, v, Append(Append(inbox[w], Text("quit")), Text("finished")), y)
  BY <1>5, <1>6, <1>7, <1>8, LeadsOn
<1>10. Leads(faults', v, inbox'[w], y)
  BY <1>1, <1>3, <1>9, SentTwo
<1>11. PrimarySees(y)'
  BY <1>1 DEF PrimarySees
<1>12. WorkerSees(w, v)'
  BY <1>1, <1>2, <1>3, StillSees
<1> QED
  BY <1>10, <1>11, <1>12 DEF InStep

LEMMA SilenceKeepsStep ==
  ASSUME MpiTypes, MpiTypes', NEW w \in Workers, InStep(w),
         \/ PrimaryStarts \/ Gather \/ StateIsSent \/ PassInterface \/ PrimaryActs \/ CloseLogs
         \/ PrimaryRaises
  PROVE  InStep(w)'
<1>1. w # Primary /\ w \in Ranks /\ Primary \in Ranks
  BY RankAssumption DEF Ranks
<1>2. /\ at'[w] = at[w] /\ UNCHANGED <<inbox, hook, dist, reactor, copy, todo>>
      /\ faults' \in {faults, faults + 1}
  <2>1. CASE PrimaryStarts \/ Gather \/ StateIsSent \/ PrimaryActs \/ CloseLogs
    BY <1>1, <2>1
    DEF PrimaryStarts, Gather, StateIsSent, PrimaryActs, CloseLogs, PrimaryGoes, MpiTypes, primaryVars, workerVars
  <2>2. CASE PassInterface
    BY <2>2 DEF PassInterface, workerVars
  <2>3. CASE PrimaryRaises
    BY <1>1, <2>3 DEF PrimaryRaises, Fault, MpiTypes, workerVars
  <2> QED
    BY <2>1, <2>2, <2>3
<1>3. faults' \in Nat /\ faults <= faults'
  BY <1>2 DEF MpiTypes
<1>4. \A v \in Views : WorkerSees(w, v) => WorkerSees(w, v)'
  BY <1>2, <1>3, StillSees
<1>5. ASSUME NEW u \in Views, PrimarySees(u) PROVE PrimarySees(u)'
  <2>1. CASE PrimaryStarts
    BY <1>1, <1>2, <1>5, <2>1 DEF PrimaryStarts, PrimaryGoes, PrimarySees, PrimaryPlace, MpiTypes
  <2>2. CASE Gather
    BY <1>1, <1>2, <1>5, <2>2 DEF Gather, PrimaryGoes, PrimarySees, PrimaryPlace, MpiTypes
  <2>3. CASE StateIsSent
    <3>1. at[Primary] = "sendInterfaces" /\ at'[Primary] = "hook" /\ left = <<>>
      BY <1>1, <2>3 DEF StateIsSent, PrimaryGoes, MpiTypes
    <3>2. DueIn(left) = {}
      BY <3>1, RestEnds DEF MpiTypes
    <3> QED
      BY <1>2, <1>5, <3>1, <3>2 DEF PrimarySees, PrimaryPlace
  <2>4. CASE PassInterface
    <3>1. /\ at[Primary] = "sendInterfaces" /\ at' = at /\ left # <<>> /\ left' = Tail(left)
          /\ ~Transmitted(Head(left))
      BY <2>4 DEF PassInterface
    <3>2. IsRest(left)
      BY <1>5, <3>1 DEF PrimarySees, PrimaryPlace
    <3>3. IsRest(left') /\ DueIn(left') = DueIn(left)
      BY <3>1, <3>2, RestMoves DEF MpiTypes
    <3> QED
      BY <1>2, <1>5, <3>1, <3>3 DEF PrimarySees, PrimaryPlace
  <2>5. CASE PrimaryActs
    BY <1>1, <1>2, <1>5, <2>5 DEF PrimaryActs, PrimaryGoes, PrimarySees, PrimaryPlace, MpiTypes
  <2>6. CASE CloseLogs
    BY <1>1, <1>2, <1>5, <2>6 DEF CloseLogs, PrimaryGoes, PrimarySees, PrimaryPlace, MpiTypes
  <2>7. CASE PrimaryRaises
    <3>1. at'[Primary] = "stop" /\ faults' > 0
      BY <1>1, <2>7 DEF PrimaryRaises, Fault, MpiTypes
    <3> QED
      BY <3>1 DEF PrimarySees
  <2> QED
    BY <2>1, <2>2, <2>3, <2>4, <2>5, <2>6, <2>7
<1> QED
  BY <1>2, <1>3, <1>4, <1>5, NoMessage
-----------------------------------------------------------------------------
(* The steps of the workers. *)

(* Only worker w moves. *)
Alone(w) ==
  /\ UNCHANGED <<hook, dist, left>>
  /\ \A i \in Ranks \ {w} : at'[i] = at[i]
  /\ \A w2 \in Workers \ {w} :
       /\ inbox'[w2] = inbox[w2] /\ reactor'[w2] = reactor[w2]
       /\ copy'[w2] = copy[w2] /\ todo'[w2] = todo[w2]

LEMMA AloneStays ==
  ASSUME MpiTypes, StepInvariant, NEW w \in Workers, Alone(w), faults' \in Nat, faults <= faults', InStep(w)'
  PROVE  StepInvariant'
<1>1. ASSUME NEW w2 \in Workers, w2 # w PROVE InStep(w2)'
  <2>1. Primary \in Ranks \ {w} /\ w2 \in Ranks \ {w}
    BY <1>1, RankAssumption DEF Ranks
  <2> QED
    BY <1>1, <2>1, OthersStay DEF Alone, StepInvariant
<1> QED
  BY <1>1 DEF StepInvariant

LEMMA PrimarySeesOn ==
  ASSUME NEW w \in Workers, Alone(w), MpiTypes, faults' \in Nat, faults <= faults'
  PROVE  \A u \in Views : PrimarySees(u) => PrimarySees(u)'
<1>1. Primary \in Ranks \ {w}
  BY RankAssumption DEF Ranks
<1> QED
  BY <1>1 DEF Alone, PrimarySees, PrimaryPlace, MpiTypes

Orders(w, v, x) ==
  /\ v.place # "over" /\ WorkerPlace(w, v) /\ WorkerState(w, v)
  /\ Message(w).hook = v.hook /\ Message(w).dist = x.dist
  /\ Orderly(v, Message(w), x)

LEMMA Taking ==
  ASSUME MpiTypes, StepInvariant, NEW w \in Workers, NEW place, Takes(w, place), Alone(w),
         place \notin {"raised", "finalize", "ended"}, faults' = faults,
         \A v, x \in Views : Orders(w, v, x) =>
           at'[w] \in {"finalize", "ended"} \/ (WorkerPlace(w, x)' /\ WorkerState(w, x)')
  PROVE  StepInvariant'
<1>1. faults' \in Nat /\ faults <= faults' /\ InStep(w)
  BY DEF MpiTypes, StepInvariant
<1>2. ASSUME NEW v \in Views, NEW x \in Views, WorkerSees(w, v), Follows(faults, v, Message(w), x)
      PROVE  WorkerSees(w, x)'
  <2>1. CASE x.place = "over" /\ faults > 0
    BY <2>1 DEF WorkerSees
  <2>2. CASE ~(x.place = "over" /\ faults > 0)
    <3>1. /\ v.place # "over" /\ Message(w).hook = v.hook /\ Message(w).dist = x.dist
          /\ Orderly(v, Message(w), x)
      BY <1>2, <2>2 DEF Follows
    <3>2. WorkerPlace(w, v) /\ WorkerState(w, v)
      BY <1>2, <3>1 DEF WorkerSees, Takes
    <3>3. x.place # "over"
      BY <3>1 DEF Orderly, Keeps
    <3> QED
      BY <3>1, <3>2, <3>3 DEF Orders, WorkerSees
  <2> QED
    BY <2>1, <2>2
<1>3. InStep(w)'
  BY <1>1, <1>2, OneTaken, PrimarySeesOn
<1> QED
  BY <1>1, <1>3, AloneStays

LEMMA Working ==
  ASSUME MpiTypes, StepInvariant, NEW w \in Workers, Alone(w), inbox'[w] = inbox[w],
         faults' \in Nat, faults <= faults',
         at[w] \notin {"raised", "finalize", "ended"},
         \A v \in Views : v.place # "over" /\ WorkerPlace(w, v) /\ WorkerState(w, v) =>
           (at'[w] = "raised" /\ faults' > 0) \/ (WorkerPlace(w, v)' /\ WorkerState(w, v)')
  PROVE  StepInvariant'
<1>1. InStep(w) /\ (faults > 0 => faults' > 0)
  BY DEF MpiTypes, StepInvariant
<1>2. ASSUME NEW v \in Views, WorkerSees(w, v) PROVE WorkerSees(w, v)'
  BY <1>1, <1>2 DEF WorkerSees
<1>3. InStep(w)'
  BY <1>1, <1>2, NoMessage, PrimarySeesOn
<1> QED
  BY <1>3, AloneStays

LEMMA TakesAlone ==
  ASSUME MpiTypes, NEW w \in Workers, NEW place, Takes(w, place),
         UNCHANGED <<hook, dist, left>>,
         UNCHANGED at \/ \E to : WorkerGoes(w, to),
         \A w2 \in Workers \ {w} :
           reactor'[w2] = reactor[w2] /\ copy'[w2] = copy[w2] /\ todo'[w2] = todo[w2]
  PROVE  Alone(w)
BY DEF Alone, Takes, WorkerGoes, MpiTypes

LEMMA WorksAlone ==
  ASSUME MpiTypes, NEW w \in Workers, UNCHANGED <<inbox, hook, dist, left>>,
         UNCHANGED at \/ \E to : WorkerGoes(w, to),
         \A w2 \in Workers \ {w} :
           reactor'[w2] = reactor[w2] /\ copy'[w2] = copy[w2] /\ todo'[w2] = todo[w2]
  PROVE  Alone(w)
BY DEF Alone, WorkerGoes, MpiTypes

LEMMA TakeCommandInStep ==
  ASSUME MpiTypes, MpiTypes', StepInvariant, NEW w \in Workers, TakeCommand(w)
  PROVE  StepInvariant'
<1>1. w \in Ranks /\ Takes(w, "loop") /\ UNCHANGED <<hook, dist, left, copy, todo, faults>>
  BY DEF TakeCommand, primaryVars, Ranks
<1> DEFINE m == Message(w).is
<1>2. /\ at'[w] = IF m \in DOMAIN CommandLeadsTo THEN CommandLeadsTo[m] ELSE "raised"
      /\ at[w] = "loop" /\ \E to : WorkerGoes(w, to)
  BY <1>1 DEF TakeCommand, WorkerGoes, Takes, MpiTypes
<1>3. /\ \A w2 \in Workers \ {w} : reactor'[w2] = reactor[w2]
      /\ IF m = "reset" THEN reactor'[w] = NotDistributed ELSE reactor'[w] = reactor[w]
  BY DEF TakeCommand, ResetAfter, KeepsReactor, MpiTypes
<1>4. Alone(w)
  BY <1>1, <1>2, <1>3, TakesAlone
<1>5. ASSUME NEW v \in Views, NEW x \in Views, Orders(w, v, x)
      PROVE  WorkerPlace(w, x)' /\ WorkerState(w, x)'
  <2>1. v.place = "loop" /\ v.due = {} /\ (reactor[w] # NotDistributed => reactor[w].hook = v.hook /\ IsWhole(w, Len(Stack)))
    BY <1>2, <1>5 DEF Orders, WorkerPlace, WorkerState, At
  <2>2. \/ m = "memory"   /\ Keeps(v, x, "loop", {}) /\ at'[w] = "report"
        \/ m = "macros"   /\ Keeps(v, x, "blocks", {}) /\ at'[w] = "blocks"
        \/ m = "batch"    /\ Keeps(v, x, "action", {}) /\ at'[w] = "action"
        \/ m = "state"    /\ x.place = "settings" /\ x.due = {} /\ x.hook = v.hook /\ at'[w] = "settings"
        \/ m = "reset"    /\ x.place = "loop" /\ x.due = {} /\ at'[w] = "loop"
        \/ m = "quit"     /\ Keeps(v, x, "quitting", {}) /\ at'[w] = "quitting"
    BY <1>2, <1>5, <2>1 DEF Orders, Orderly, CommandLeadsTo
  <2>3. WorkerPlace(w, x)'
    BY <2>2 DEF WorkerPlace, Keeps, At
  <2>4. WorkerState(w, x)'
    BY <1>1, <1>3, <2>1, <2>2 DEF WorkerState, Keeps, IsWhole
  <2> QED
    BY <2>3, <2>4
<1> QED
  BY <1>1, <1>4, <1>5, Taking


LEMMA TakePartsInStep ==
  ASSUME MpiTypes, MpiTypes', StepInvariant, NEW w \in Workers,
         \/ TakeBlocks(w) \/ TakeLib(w) \/ TakeAction(w) \/ WorkerQuits(w)
         \/ TakeSettings(w) \/ TakeFlags(w)
  PROVE  StepInvariant'
<1>1. ASSUME NEW place, Takes(w, place), place \notin {"raised", "finalize", "ended"},
             UNCHANGED <<hook, dist, left, reactor, copy, todo, faults>>,
             \E to : WorkerGoes(w, to),
             \A v, x \in Views : Orders(w, v, x) =>
               at'[w] \in {"finalize", "ended"} \/ (WorkerPlace(w, x)' /\ WorkerState(w, x)')
      PROVE  StepInvariant'
  BY <1>1, TakesAlone, Taking
<1>2. w \in Ranks
  BY DEF Ranks
<1>3. CASE TakeBlocks(w)
  <2>1. /\ Takes(w, "blocks") /\ Message(w).is = "blocks" /\ WorkerGoes(w, "lib")
        /\ UNCHANGED <<hook, dist, left, reactor, copy, todo, faults>>
    BY <1>3 DEF TakeBlocks, primaryVars, workerVars
  <2>2. at[w] = "blocks" /\ at'[w] = "lib"
    BY <1>2, <2>1 DEF Takes, WorkerGoes, MpiTypes
  <2>3. ASSUME NEW v \in Views, NEW x \in Views, Orders(w, v, x)
        PROVE  WorkerPlace(w, x)' /\ WorkerState(w, x)'
    <3>1. Keeps(v, x, "lib", {})
      BY <2>1, <2>2, <2>3 DEF Orders, Orderly, WorkerPlace, At
    <3> QED
      BY <2>1, <2>2, <2>3, <3>1 DEF Orders, WorkerPlace, WorkerState, Keeps, At, IsWhole
  <2> QED
    BY <1>1, <2>1, <2>3
<1>4. CASE TakeLib(w)
  <2>1. /\ Takes(w, "lib") /\ \E to : WorkerGoes(w, to)
        /\ Message(w).is = "lib" => WorkerGoes(w, "macros")
        /\ UNCHANGED <<hook, dist, left, reactor, copy, todo, faults>>
    BY <1>4 DEF TakeLib, primaryVars, workerVars
  <2>2. at[w] = "lib" /\ (Message(w).is = "lib" => at'[w] = "macros")
    BY <1>2, <2>1 DEF Takes, WorkerGoes, MpiTypes
  <2>3. ASSUME NEW v \in Views, NEW x \in Views, Orders(w, v, x)
        PROVE  WorkerPlace(w, x)' /\ WorkerState(w, x)'
    <3>1. Keeps(v, x, "loop", {}) /\ at'[w] = "macros"
      BY <2>2, <2>3 DEF Orders, Orderly, WorkerPlace, At
    <3> QED
      BY <2>1, <2>2, <2>3, <3>1 DEF Orders, WorkerPlace, WorkerState, Keeps, At, IsWhole
  <2> QED
    BY <1>1, <2>1, <2>3
<1>5. CASE TakeAction(w)
  <2>1. /\ Takes(w, "action") /\ Message(w).is = "action" /\ WorkerGoes(w, "split")
        /\ UNCHANGED <<hook, dist, left, reactor, copy, todo, faults>>
    BY <1>5 DEF TakeAction, primaryVars, workerVars
  <2>2. at[w] = "action" /\ at'[w] = "split"
    BY <1>2, <2>1 DEF Takes, WorkerGoes, MpiTypes
  <2>3. ASSUME NEW v \in Views, NEW x \in Views, Orders(w, v, x)
        PROVE  WorkerPlace(w, x)' /\ WorkerState(w, x)'
    <3>1. Keeps(v, x, "loop", {})
      BY <2>1, <2>2, <2>3 DEF Orders, Orderly, WorkerPlace, At
    <3> QED
      BY <2>1, <2>2, <2>3, <3>1 DEF Orders, WorkerPlace, WorkerState, Keeps, At, IsWhole
  <2> QED
    BY <1>1, <2>1, <2>3
<1>6. CASE WorkerQuits(w)
  <2>1. /\ Takes(w, "quitting") /\ WorkerGoes(w, "finalize")
        /\ UNCHANGED <<hook, dist, left, reactor, copy, todo, faults>>
    BY <1>6 DEF WorkerQuits, primaryVars, workerVars
  <2>2. at'[w] = "finalize"
    BY <1>2, <2>1 DEF WorkerGoes, MpiTypes
  <2> QED
    BY <1>1, <2>1, <2>2
<1>7. CASE TakeSettings(w)
  <2>1. /\ Takes(w, "settings") /\ WorkerGoes(w, IF Message(w).is = "settings" THEN "reactor" ELSE "raised")
        /\ UNCHANGED <<hook, dist, left, reactor, copy, todo, faults>>
    BY <1>7 DEF TakeSettings, TakePart, primaryVars, workerVars
  <2>2. at[w] = "settings" /\ (Message(w).is = "settings" => at'[w] = "reactor")
    BY <1>2, <2>1 DEF Takes, WorkerGoes, MpiTypes
  <2>3. ASSUME NEW v \in Views, NEW x \in Views, Orders(w, v, x)
        PROVE  WorkerPlace(w, x)' /\ WorkerState(w, x)'
    <3>1. Keeps(v, x, "reactor", {}) /\ at'[w] = "reactor"
      BY <2>2, <2>3 DEF Orders, Orderly, WorkerPlace, At
    <3> QED
      BY <2>1, <2>2, <2>3, <3>1 DEF Orders, WorkerPlace, WorkerState, Keeps, At
  <2> QED
    BY <1>1, <2>1, <2>3
<1>8. CASE TakeFlags(w)
  <2>1. /\ Takes(w, "flags") /\ WorkerGoes(w, IF Message(w).is = "flags" THEN "names" ELSE "raised")
        /\ UNCHANGED <<hook, dist, left, reactor, copy, todo, faults>>
    BY <1>8 DEF TakeFlags, TakePart, primaryVars, workerVars
  <2>2. at[w] = "flags" /\ (Message(w).is = "flags" => at'[w] = "names")
    BY <1>2, <2>1 DEF Takes, WorkerGoes, MpiTypes
  <2>3. ASSUME NEW v \in Views, NEW x \in Views, Orders(w, v, x)
        PROVE  WorkerPlace(w, x)' /\ WorkerState(w, x)'
    <3>1. Keeps(v, x, "names", {}) /\ at'[w] = "names"
      BY <2>2, <2>3 DEF Orders, Orderly, WorkerPlace, At
    <3> QED
      BY <2>1, <2>2, <2>3, <3>1 DEF Orders, WorkerPlace, WorkerState, Keeps, At
  <2> QED
    BY <1>1, <2>1, <2>3
<1> QED
  BY <1>3, <1>4, <1>5, <1>6, <1>7, <1>8

LEMMA TakeReactorInStep ==
  ASSUME MpiTypes, MpiTypes', StepInvariant, NEW w \in Workers, TakeReactor(w)
  PROVE  StepInvariant'
<1>1. /\ w \in Ranks /\ Takes(w, "reactor") /\ UNCHANGED <<hook, dist, left, copy, todo, faults>>
      /\ WorkerGoes(w, IF Message(w).is = "reactor" THEN "flags" ELSE "raised")
  BY DEF TakeReactor, TakePart, primaryVars, Ranks
<1>2. at[w] = "reactor" /\ (Message(w).is = "reactor" => at'[w] = "flags")
  BY <1>1 DEF WorkerGoes, Takes, MpiTypes
<1>3. /\ \A w2 \in Workers \ {w} : reactor'[w2] = reactor[w2]
      /\ Message(w).is = "reactor" => reactor'[w] = [hook |-> Message(w).hook, dist |-> Message(w).dist]
  BY DEF TakeReactor, MpiTypes
<1>4. Alone(w)
  BY <1>1, <1>3, TakesAlone
<1>5. ASSUME NEW v \in Views, NEW x \in Views, Orders(w, v, x)
      PROVE  WorkerPlace(w, x)' /\ WorkerState(w, x)'
  <2>1. Keeps(v, x, "flags", {}) /\ at'[w] = "flags" /\ Message(w).is = "reactor"
    BY <1>2, <1>5 DEF Orders, Orderly, WorkerPlace, At
  <2>2. reactor'[w].hook = x.hook /\ reactor'[w].dist = x.dist
    BY <1>3, <1>5, <2>1 DEF Orders, Keeps
  <2> QED
    BY <2>1, <2>2 DEF WorkerPlace, WorkerState, Keeps, At
<1> QED
  BY <1>1, <1>4, <1>5, Taking

LEMMA TakeNamesInStep ==
  ASSUME MpiTypes, MpiTypes', StepInvariant, NEW w \in Workers, TakeNames(w)
  PROVE  StepInvariant'
<1>1. /\ w \in Ranks /\ Takes(w, "names") /\ UNCHANGED <<hook, dist, left, reactor, copy, faults>>
      /\ WorkerGoes(w, IF Message(w).is = "names" THEN "interface" ELSE "raised")
  BY DEF TakeNames, TakePart, primaryVars, Ranks
<1>2. at[w] = "names" /\ (Message(w).is = "names" => at'[w] = "interface")
  BY <1>1 DEF WorkerGoes, Takes, MpiTypes
<1>3. /\ \A w2 \in Workers \ {w} : todo'[w2] = todo[w2]
      /\ Message(w).is = "names" => todo'[w] = Stack
  BY DEF TakeNames, MpiTypes
<1>4. Alone(w)
  BY <1>1, <1>3, TakesAlone
<1>5. ASSUME NEW v \in Views, NEW x \in Views, Orders(w, v, x)
      PROVE  WorkerPlace(w, x)' /\ WorkerState(w, x)'
  <2>1. Keeps(v, x, "loop", Due(0)) /\ at'[w] = "interface" /\ Message(w).is = "names"
    BY <1>2, <1>5 DEF Orders, Orderly, WorkerPlace, At
  <2>2. todo'[w] = Stack /\ IsRest(todo'[w]) /\ DueIn(todo'[w]) = Due(0)
    BY <1>3, <2>1, RestEnds
  <2>3. WorkerPlace(w, x)'
    BY <2>1, <2>2 DEF WorkerPlace, Keeps, At
  <2>4. IsWhole(w, Len(Stack) - Len(todo[w]))'
    <3>1. Len(Stack) \in Nat /\ DOMAIN Stack = 1 .. Len(Stack)
      BY StackType
    <3>2. Len(Stack) - Len(todo'[w]) = 0
      BY <2>2, <3>1
    <3> QED
      BY <3>1, <3>2 DEF IsWhole
  <2>5. WorkerState(w, x)'
    BY <1>1, <1>2, <1>5, <2>1, <2>4 DEF WorkerState, Keeps, Orders
  <2> QED
    BY <2>3, <2>5
<1> QED
  BY <1>1, <1>4, <1>5, Taking

LEMMA TakeInterfaceInStep ==
  ASSUME MpiTypes, MpiTypes', StepInvariant, NEW w \in Workers, TakeInterface(w)
  PROVE  StepInvariant'
<1> DEFINE i == Head(todo[w])
           n == Len(Stack) - Len(todo[w])
<1>1. /\ w \in Ranks /\ Takes(w, "interface") /\ UNCHANGED <<hook, dist, left, reactor, faults>>
      /\ todo[w] # <<>> /\ Transmitted(i) /\ at[w] = "interface" /\ todo[w] \in Seq(Interfaces)
  BY DEF TakeInterface, Takes, Pending, Transmitted, primaryVars, Ranks, MpiTypes
<1>2. UNCHANGED at \/ \E to : WorkerGoes(w, to)
  BY DEF TakeInterface
<1>3. \A w2 \in Workers \ {w} : todo'[w2] = todo[w2] /\ copy'[w2] = copy[w2]
  BY DEF TakeInterface, MpiTypes
<1>4. Alone(w)
  BY <1>1, <1>2, <1>3, TakesAlone
<1>5. ASSUME NEW v \in Views, NEW x \in Views, Orders(w, v, x)
      PROVE  WorkerPlace(w, x)' /\ WorkerState(w, x)'
  <2>1. /\ v.place = "loop" /\ v.due = DueIn(todo[w]) /\ IsRest(todo[w])
        /\ (reactor[w] # NotDistributed => reactor[w].hook = v.hook)
        /\ reactor[w].dist = v.dist /\ IsWhole(w, n)
    BY <1>1, <1>5 DEF Orders, WorkerPlace, WorkerState, At
  <2>2. /\ i \in Interfaces /\ IsRest(Tail(todo[w])) /\ i = Stack[n + 1]
        /\ Len(Stack) - Len(Tail(todo[w])) = n + 1
        /\ n + 1 \in v.due /\ (\A l \in v.due : n + 1 <= l)
        /\ DueIn(Tail(todo[w])) = v.due \ {n + 1}
    BY <1>1, <2>1, RestMoves
  <2>3. v.due \subseteq Nat /\ n \in Int
    <3>1. Len(Stack) \in Nat /\ DOMAIN Stack = 1 .. Len(Stack) /\ Len(todo[w]) \in Nat
      BY <1>1, StackType
    <3> QED
      BY <3>1 DEF Views
  <2> HIDE DEF i, n
  <2>4. /\ Message(w).is = "interface"
        /\ \E k \in v.due : (\A l \in v.due : k <= l) /\ Keeps(v, x, "loop", v.due \ {k})
    BY <1>5, <2>1, <2>2 DEF Orders, Orderly
  <2>5. PICK k \in v.due : (\A l \in v.due : k <= l) /\ Keeps(v, x, "loop", v.due \ {k})
    BY <2>4
  <2>6. k = n + 1
    BY <2>2, <2>3, <2>5
  <2>7. /\ at' = at /\ todo'[w] = Tail(todo[w])
        /\ copy'[w] = [copy[w] EXCEPT ![i] = Message(w).dist]
    BY <2>4 DEF TakeInterface, MpiTypes, i
  <2>8. WorkerPlace(w, x)'
    BY <1>1, <2>2, <2>5, <2>6, <2>7 DEF WorkerPlace, Keeps, At
  <2>9. PICK c : c = n + 1
    OBVIOUS
  <2>10. IsWhole(w, c)'
    <3>1. Message(w).dist = reactor[w].dist
      BY <1>5, <2>1, <2>5 DEF Orders, Keeps
    <3>2. ASSUME NEW l \in DOMAIN Stack, l <= c, Transmitted(Stack[l])
          PROVE  copy'[w][Stack[l]] = reactor[w].dist
      <4>1. Stack[l] \in Interfaces
        BY DEF Interfaces
      <4>2. copy[w] \in [Interfaces -> Nat]
        BY DEF MpiTypes
      <4>3. l \in Nat
        BY StackType
      <4>4. CASE Stack[l] = i
        BY <2>7, <3>1, <4>1, <4>2, <4>4
      <4>5. CASE Stack[l] # i
        <5>1. l # n + 1
          BY <2>2, <4>5
        <5>2. l <= n
          BY <2>3, <2>9, <3>2, <4>3, <5>1
        <5>3. copy[w][Stack[l]] = reactor[w].dist
          BY <2>1, <3>2, <5>2 DEF IsWhole
        <5> QED
          BY <2>7, <4>1, <4>2, <4>5, <5>3
      <4> QED
        BY <4>4, <4>5
    <3>3. reactor' = reactor
      BY <1>1
    <3> QED
      BY <3>2, <3>3 DEF IsWhole
  <2>11. WorkerState(w, x)'
    <3>1. Len(Stack) - Len(todo'[w]) = c
      BY <2>2, <2>7, <2>9
    <3>2. IsWhole(w, Len(Stack) - Len(todo[w]))'
      BY <2>10, <3>1
    <3>3. at'[w] = "interface" /\ reactor' = reactor /\ x.hook = v.hook /\ x.dist = v.dist
      BY <1>1, <2>5, <2>7 DEF Keeps
    <3> QED
      BY <2>1, <3>2, <3>3 DEF WorkerState
  <2> QED
    BY <2>8, <2>11
<1> QED
  BY <1>1, <1>4, <1>5, Taking


LEMMA WorkInStep ==
  ASSUME MpiTypes, MpiTypes', StepInvariant, NEW w \in Workers,
         Report(w) \/ MakeMacros(w) \/ StateIsTaken(w) \/ WorkerActs(w) \/ WorkerRaises(w)
  PROVE  StepInvariant'
<1>1. w \in Ranks
  BY DEF Ranks
<1>2. /\ UNCHANGED <<inbox, hook, dist, left, copy, todo>> /\ faults' \in {faults, faults + 1}
      /\ \E to : WorkerGoes(w, to)
      /\ \A w2 \in Workers \ {w} : reactor'[w2] = reactor[w2]
      /\ at[w] \notin {"raised", "finalize", "ended"}
  BY DEF Report, MakeMacros, StateIsTaken, WorkerActs, WorkerRaises, Fault, ResetAfter, KeepsReactor,
         MpiTypes, primaryVars, workerVars
<1>3. Alone(w)
  BY <1>2, WorksAlone
<1>4. faults' \in Nat /\ faults <= faults'
  BY <1>2 DEF MpiTypes
<1>5. ASSUME NEW v \in Views, WorkerPlace(w, v), WorkerState(w, v)
      PROVE  (at'[w] = "raised" /\ faults' > 0) \/ (WorkerPlace(w, v)' /\ WorkerState(w, v)')
  <2>1. CASE Report(w) \/ WorkerActs(w)
    <3>1. at[w] \in {"report", "act"} /\ at'[w] = "loop" /\ UNCHANGED <<reactor, copy, todo>>
      BY <1>1, <2>1 DEF Report, WorkerActs, WorkerGoes, MpiTypes, workerVars
    <3> QED
      BY <1>5, <3>1 DEF WorkerPlace, WorkerState, IsWhole
  <2>2. CASE MakeMacros(w)
    <3>1. at[w] = "macros" /\ at'[w] = "loop" /\ reactor'[w] = NotDistributed
      BY <1>1, <2>2 DEF MakeMacros, ResetAfter, KeepsReactor, WorkerGoes, MpiTypes
    <3> QED
      BY <1>5, <3>1 DEF WorkerPlace, WorkerState
  <2>3. CASE StateIsTaken(w)
    <3>1. /\ at[w] = "interface" /\ at'[w] = "loop" /\ todo[w] = <<>>
          /\ UNCHANGED <<reactor, copy, todo>> /\ todo[w] \in Seq(Interfaces)
      BY <1>1, <2>3 DEF StateIsTaken, WorkerGoes, MpiTypes, workerVars
    <3>2. DueIn(todo[w]) = {} /\ Len(Stack) - Len(todo[w]) = Len(Stack)
      <4>1. Len(Stack) \in Nat /\ Len(<<>>) = 0
        BY StackType
      <4>2. DueIn(todo[w]) = {}
        BY <3>1, RestEnds
      <4> QED
        BY <3>1, <4>1, <4>2
    <3> QED
      BY <1>5, <3>1, <3>2 DEF WorkerPlace, WorkerState, IsWhole
  <2>4. CASE WorkerRaises(w)
    <3>1. at'[w] = "raised" /\ faults' > 0
      BY <1>1, <2>4 DEF WorkerRaises, WorkerGoes, Fault, MpiTypes
    <3> QED
      BY <3>1
  <2> QED
    BY <2>1, <2>2, <2>3, <2>4
<1> QED
  BY <1>2, <1>3, <1>4, <1>5, Working

LEMMA PassedInStep ==
  ASSUME MpiTypes, MpiTypes', StepInvariant, NEW w \in Workers, SkipInterface(w) \/ RenewInterface(w)
  PROVE  StepInvariant'
<1> DEFINE n == Len(Stack) - Len(todo[w])
<1>1. /\ UNCHANGED <<at, inbox, hook, dist, left, reactor, copy, faults>>
      /\ at[w] = "interface" /\ todo[w] # <<>> /\ todo[w] \in Seq(Interfaces)
      /\ todo' = [todo EXCEPT ![w] = Tail(todo[w])] /\ ~Transmitted(Head(todo[w]))
  BY DEF SkipInterface, RenewInterface, Pending, Transmitted, primaryVars, MpiTypes
<1>2. todo'[w] = Tail(todo[w]) /\ \A w2 \in Workers \ {w} : todo'[w2] = todo[w2]
  BY <1>1 DEF MpiTypes
<1>3. Alone(w)
  BY <1>1, <1>2, WorksAlone
<1>4. ASSUME NEW v \in Views, WorkerPlace(w, v), WorkerState(w, v)
      PROVE  WorkerPlace(w, v)' /\ WorkerState(w, v)'
  <2>1. /\ IsRest(todo[w]) /\ At(v, "loop", DueIn(todo[w])) /\ IsWhole(w, n)
        /\ (reactor[w] # NotDistributed => reactor[w].hook = v.hook) /\ reactor[w].dist = v.dist
    BY <1>1, <1>4 DEF WorkerPlace, WorkerState
  <2>2. /\ IsRest(todo'[w]) /\ DueIn(todo'[w]) = DueIn(todo[w])
        /\ ~Transmitted(Stack[n + 1]) /\ Len(Stack) - Len(todo'[w]) = n + 1
    BY <1>1, <1>2, <2>1, RestMoves
  <2>3. n \in Int /\ DOMAIN Stack \subseteq Nat
    BY <1>1, StackType
  <2> HIDE DEF n
  <2>4. PICK c : c = n + 1
    OBVIOUS
  <2>5. ASSUME NEW k \in DOMAIN Stack, k <= c, Transmitted(Stack[k])
        PROVE  copy'[w][Stack[k]] = reactor'[w].dist
    <3>1. k # n + 1 /\ k \in Nat
      BY <2>2, <2>3, <2>5
    <3>2. k <= n
      BY <2>3, <2>4, <2>5, <3>1
    <3> QED
      BY <1>1, <2>1, <2>5, <3>2 DEF IsWhole
  <2>6. IsWhole(w, c)'
    BY <2>5 DEF IsWhole
  <2>7. IsWhole(w, Len(Stack) - Len(todo[w]))'
    BY <2>2, <2>4, <2>6
  <2>8. WorkerPlace(w, v)'
    BY <1>1, <2>1, <2>2 DEF WorkerPlace
  <2>9. WorkerState(w, v)'
    BY <1>1, <2>1, <2>7 DEF WorkerState
  <2> QED
    BY <2>8, <2>9
<1>5. faults' \in Nat /\ faults <= faults' /\ inbox'[w] = inbox[w]
  BY <1>1 DEF MpiTypes
<1>6. at[w] \notin {"raised", "finalize", "ended"}
  BY <1>1
<1> QED
  BY <1>3, <1>4, <1>5, <1>6, Working
-----------------------------------------------------------------------------
(* All steps. *)

LEMMA TogetherInStep ==
  ASSUME MpiTypes, MpiTypes', StepInvariant, Split \/ End \/ Abort
  PROVE  StepInvariant'
<1>1. UNCHANGED <<inbox, hook, dist, left, reactor, copy, todo, faults>> /\ Primary \in Ranks
  BY DEF Split, End, Abort, primaryVars, workerVars, Ranks
<1>2. ASSUME NEW w \in Workers PROVE InStep(w)'
  <2>1. w \in Ranks
    BY DEF Ranks
  <2>2. CASE Split
    <3>1. at[w] = "split" /\ at'[w] = "act" /\ at[Primary] = "split" /\ at'[Primary] = "act"
      BY <1>1, <2>1, <2>2 DEF Split
    <3>2. \A v \in Views : WorkerSees(w, v) => WorkerSees(w, v)'
      BY <1>1, <3>1 DEF WorkerSees, WorkerPlace, WorkerState, IsWhole
    <3>3. \A u \in Views : PrimarySees(u) => PrimarySees(u)'
      BY <1>1, <3>1 DEF PrimarySees, PrimaryPlace
    <3> QED
      BY <1>1, <3>2, <3>3, NoMessage DEF MpiTypes, StepInvariant
  <2>3. CASE End \/ Abort
    <3>1. at'[w] = "ended" /\ at'[Primary] = "ended"
      BY <1>1, <2>1, <2>3 DEF End, Abort
    <3>2. \A v \in Views : WorkerSees(w, v)'
      BY <3>1 DEF WorkerSees
    <3>3. \A u \in Views : PrimarySees(u)'
      BY <3>1 DEF PrimarySees
    <3>4. InStep(w) /\ inbox'[w] = inbox[w] /\ faults' \in Nat /\ faults <= faults'
      BY <1>1 DEF MpiTypes, StepInvariant
    <3> QED
      BY <3>2, <3>3, <3>4, NoMessage
  <2> QED
    BY <2>2, <2>3
<1> QED
  BY <1>2 DEF StepInvariant

LEMMA StepsHold ==
  ASSUME MpiTypes, MpiTypes', StepInvariant, [Next]_vars
  PROVE  StepInvariant'
<1>1. CASE PrimaryStep \/ (\E name \in Calls : BroadcastAction(name))
           \/ PrimaryFailsOnInit \/ TransmissionFails \/ PrimaryRaises
  <2>1. ASSUME NEW w \in Workers PROVE InStep(w)'
    <3>1. InStep(w)
      BY DEF StepInvariant
    <3> QED
      BY <1>1, <3>1, BroadcastKeepsStep, SendsKeepStep, SendNamesKeepsStep, SendInterfaceKeepsStep,
         EndHookKeepsStep, FailingKeepsStep, StopKeepsStep, SilenceKeepsStep DEF PrimaryStep
  <2> QED
    BY <2>1 DEF StepInvariant
<1>2. ASSUME NEW w \in Workers, WorkerStep(w) \/ WorkerRaises(w) PROVE StepInvariant'
  BY <1>2, TakeCommandInStep, TakePartsInStep, TakeReactorInStep, TakeNamesInStep,
     TakeInterfaceInStep, WorkInStep, PassedInStep DEF WorkerStep
<1>3. CASE Split \/ End \/ Abort
  BY <1>3, TogetherInStep
<1>4. CASE UNCHANGED vars
  <2>1. UNCHANGED <<at, inbox, hook, dist, left, reactor, copy, todo, faults>>
    BY <1>4 DEF vars, primaryVars, workerVars
  <2>2. ASSUME NEW w \in Workers PROVE InStep(w)'
    <3>1. \A v \in Views : WorkerSees(w, v) => WorkerSees(w, v)'
      BY <2>1 DEF WorkerSees, WorkerPlace, WorkerState, IsWhole
    <3>2. \A u \in Views : PrimarySees(u) => PrimarySees(u)'
      BY <2>1 DEF PrimarySees, PrimaryPlace
    <3> QED
      BY <2>1, <3>1, <3>2, NoMessage DEF MpiTypes, StepInvariant
  <2> QED
    BY <2>2 DEF StepInvariant
<1> QED
  BY <1>1, <1>2, <1>3, <1>4 DEF Next, Failure, Wait

LEMMA StepsBegin ==
  ASSUME Init
  PROVE  StepInvariant
<1>1. MpiTypes
  BY TypesBegin
<1>2. ASSUME NEW w \in Workers PROVE InStep(w)
  <2>1. w \in Ranks /\ Primary \in Ranks /\ w # Primary
    BY RankAssumption DEF Ranks
  <2>2. at[w] = "loop" /\ at[Primary] = "init" /\ inbox[w] = <<>> /\ reactor[w] = NotDistributed
    BY <2>1 DEF Init
  <2> DEFINE v == PrimaryView("loop", {})
  <2>3. v \in Views /\ At(v, "loop", {}) /\ v.place # "over" /\ v.hook = hook /\ v.dist = dist
    BY <1>1, OneView DEF Places, At, PrimaryView
  <2> HIDE DEF v
  <2>4. WorkerSees(w, v)
    BY <2>2, <2>3 DEF WorkerSees, WorkerPlace, WorkerState
  <2>5. PrimarySees(v)
    BY <2>2, <2>3 DEF PrimarySees, PrimaryPlace
  <2>6. Leads(faults, v, inbox[w], v)
    BY <2>2, <2>3, LeadsNowhere
  <2> QED
    BY <2>3, <2>4, <2>5, <2>6 DEF InStep
<1> QED
  BY <1>2 DEF StepInvariant

LEMMA RanksAreInStep == Spec => []StepInvariant
<1>1. Init => StepInvariant
  BY StepsBegin
<1>2. MpiTypes /\ MpiTypes' /\ StepInvariant /\ [Next]_vars => StepInvariant'
  BY StepsHold
<1> QED
  BY <1>1, <1>2, MpiTypesHold, PTL DEF Spec

(* What a worker is about to take is what its view leads to. *)
LEMMA NextFollows ==
  ASSUME MpiTypes, StepInvariant, NEW w \in Workers, inbox[w] # <<>>
  PROVE  \E v, x \in Views : WorkerSees(w, v) /\ Follows(faults, v, Message(w), x)
<1>1. PICK v \in Views, u \in Views :
        WorkerSees(w, v) /\ PrimarySees(u) /\ Leads(faults, v, inbox[w], u)
  BY DEF InStep, StepInvariant
<1>2. inbox[w] \in Seq(Messages)
  BY DEF MpiTypes
<1> QED
  BY <1>1, <1>2, LeadsFrom DEF Message

LEMMA ActsFollow ==
  ASSUME MpiTypes, StepInvariant, NEW w \in Workers, NEW call \in Acts, BeginsTo(w, call),
         reactor[w] # NotDistributed
  PROVE  reactor[w].hook = Message(w).hook /\ IsWhole(w, Len(Stack))
<1>1. at[w] = "loop" /\ inbox[w] # <<>> /\ Message(w).is \in {"memory", "macros", "batch"}
  BY DEF BeginsTo, Acts
<1>2. PICK v \in Views, x \in Views : WorkerSees(w, v) /\ Follows(faults, v, Message(w), x)
  BY <1>1, NextFollows
<1>3. v.place # "over" /\ Message(w).hook = v.hook
  BY <1>1, <1>2 DEF Follows
<1>4. WorkerState(w, v)
  BY <1>1, <1>2, <1>3 DEF WorkerSees
<1> QED
  BY <1>1, <1>3, <1>4 DEF WorkerState

(* No state is carried from one hook to the next: a worker that takes part *)
(* in a call with a distributed reactor has one that the same hook sent.   *)
THEOREM HooksStartClean == Spec => []NoStateIsCarriedOver
<1>1. MpiTypes /\ StepInvariant => NoStateIsCarriedOver
  BY ActsFollow DEF NoStateIsCarriedOver
<1> QED
  BY <1>1, MpiTypesHold, RanksAreInStep, PTL

(* No half-distributed state is used, however a distribution has failed.   *)
THEOREM StateIsSentWhole == Spec => []StateIsWhole
<1>1. ASSUME MpiTypes, StepInvariant PROVE StateIsWhole
  <2>1. ASSUME NEW w \in Workers, NEW call \in Acts, BeginsTo(w, call), reactor[w] # NotDistributed,
               NEW i \in Interfaces, Distributable[i] = "DUPLICATE"
        PROVE  copy[w][i] = reactor[w].dist
    <3>1. PICK k \in DOMAIN Stack : Stack[k] = i
      BY DEF Interfaces
    <3>2. k <= Len(Stack)
      BY StackType
    <3> QED
      BY <1>1, <2>1, <3>1, <3>2, ActsFollow DEF IsWhole, Transmitted
  <2> QED
    BY <2>1 DEF StateIsWhole
<1> QED
  BY <1>1, MpiTypesHold, RanksAreInStep, PTL

(* The ranks agree on the order of their collectives: without a fault, no  *)
(* worker meets a message that it does not wait for.                       *)
THEOREM CollectivesMatch == Spec => []RanksAgree
<1>1. ASSUME MpiTypes, StepInvariant, faults = 0, NEW w \in Workers
      PROVE  /\ at[w] # "raised"
             /\ ~BeginsTo(w, "finished")
             /\ at[w] = "quitting" /\ inbox[w] # <<>> => Message(w).is = "finished"
  <2>1. at[w] # "raised"
    <3>1. ~(faults > 0)
      BY <1>1
    <3>2. PICK v \in Views : WorkerSees(w, v)
      BY <1>1 DEF StepInvariant, InStep
    <3> QED
      BY <3>1, <3>2 DEF WorkerSees, WorkerPlace
  <2>2. ASSUME inbox[w] # <<>>, at[w] = "loop"
        PROVE  Message(w).is # "finished"
    <3>1. PICK v \in Views, x \in Views : WorkerSees(w, v) /\ Follows(faults, v, Message(w), x)
      BY <1>1, <2>2, NextFollows
    <3>2. v.place = "loop"
      BY <1>1, <2>2, <3>1 DEF WorkerSees, WorkerPlace, At
    <3> QED
      BY <1>1, <3>1, <3>2 DEF Follows, Orderly
  <2>3. ASSUME inbox[w] # <<>>, at[w] = "quitting"
        PROVE  Message(w).is = "finished"
    <3>1. PICK v \in Views, x \in Views : WorkerSees(w, v) /\ Follows(faults, v, Message(w), x)
      BY <1>1, <2>3, NextFollows
    <3>2. v.place = "quitting"
      BY <1>1, <2>3, <3>1 DEF WorkerSees, WorkerPlace, At
    <3> QED
      BY <1>1, <3>1, <3>2 DEF Follows, Orderly
  <2> QED
    BY <2>1, <2>2, <2>3 DEF BeginsTo
<1>2. MpiTypes /\ StepInvariant => RanksAgree
  BY <1>1 DEF RanksAgree
<1> QED
  BY <1>2, MpiTypesHold, RanksAreInStep, PTL
=============================================================================
