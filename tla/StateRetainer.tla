---------------------------- MODULE StateRetainer ----------------------------
(***************************************************************************)
(* The parameters of the objects of a reactor: the flags that say what was *)
(* assigned since when, their synchronization over the MPI ranks           *)
(* (Composite.syncMpiState) and the temporary states that are undone at    *)
(* the end of a `with` block (Composite.retainState)                       *)
(* (armi/reactor/composites.py, armi/reactor/parameters/).                 *)
(*                                                                         *)
(* All ranks run the same program, so they enter and leave `with` blocks   *)
(* and synchronize together; between these each assigns parameters of its  *)
(* own copy of the reactor.  The tree is a core and its  *)
(* blocks.  A `with` block that is left by an exception is left as any     *)
(* other.                                                                  *)
(***************************************************************************)
EXTENDS Naturals, Sequences

CONSTANTS
  Ranks,       \* MPI ranks
  Core,        \* the root of the tree
  Blocks,      \* its children, which share their parameter definitions
  Params,      \* the parameters defined for a block
  Dimensions,  \* those that a component's dimensions are: the area follows them
  Keepable,    \* those a program may keep on leaving a retainer (paramsToApply)
  Values,      \* values of a parameter
  Measured,    \* the areas asked for: pairs of a rank and a block
  Retainable,  \* the objects that a program retains the state of
  Unset,       \* nothing cached
  MaxDepth,    \* bound on retainers within retainers
  MaxChanges,  \* bound on the parameters assigned
  ChangesOutside, \* a program changes what is not in the retained tree
  SyncsKept       \* it synchronizes within a retainer that keeps parameters

ASSUME RetainerAssumption ==
  /\ Ranks \subseteq Nat /\ Measured \subseteq Ranks \X Blocks
  /\ Retainable \subseteq Blocks \cup {Core} /\ Blocks # {} /\ Core \notin Blocks
  /\ Dimensions \subseteq Params /\ Keepable \subseteq Params
  /\ Unset \notin Values /\ Unset \notin [Dimensions -> Values]
  /\ MaxDepth \in Nat /\ MaxChanges \in Nat
  /\ ChangesOutside \in BOOLEAN /\ SyncsKept \in BOOLEAN

VARIABLES
  param,         \* param[r][b]: the values of a block's collection on a rank
  assigned,      \* ParameterCollection.assigned
  backups,       \* the chain of ParameterCollection._backup, the latest first
  defAssigned,   \* Parameter.assigned
  defBackups,    \* the chain of Parameter._backup
  cached,        \* the "area" in Composite.cached, by the dimensions it is for
  cachedBackups, \* the chain of Composite._backupCache
  retainers,     \* the `with` blocks entered, the innermost first
  failed,        \* a synchronization raised ValueError
  changed,       \* ghost: what each rank has assigned and not yet synchronized
  entered,       \* ghost: the state in which each retainer was entered
  changes        \* changes so far

flags == <<assigned, defAssigned>>
saved == <<backups, defBackups, cachedBackups>>
ghost == <<changed, entered, changes>>
vars  == <<param, flags, saved, cached, retainers, failed, ghost>>

(* The bits of `assigned` that these operations read; SINCE_INITIALIZATION *)
(* and SINCE_LAST_GEOMETRY_TRANSFORMATION are set with them.               *)
DISTRIBUTE == "SINCE_LAST_DISTRIBUTE_STATE"
BACKUP     == "SINCE_BACKUP"
ANYTHING   == {DISTRIBUTE, BACKUP}

(* iterChildren(deep=True) and the object itself, as far as it has         *)
(* parameters here.                                                        *)
Subtree(c) == IF c = Core THEN Blocks ELSE {c}

(* f for the blocks of the tree of c on every rank, and g for the others.  *)
OnTree(c, f, g) ==
  [r \in Ranks |-> [b \in Blocks |-> IF b \in Subtree(c) THEN f[r][b] ELSE g[r][b]]]

Push(x, chain) == <<x>> \o chain

(* Ghost: the state of the reactors, as a retainer is entered. *)
Snapshot ==
  [param |-> param, assigned |-> assigned, backups |-> backups,
   defAssigned |-> defAssigned, defBackups |-> defBackups,
   cached |-> cached, cachedBackups |-> cachedBackups, changed |-> changed]

NothingCached == [r \in Ranks |-> [b \in Blocks |-> Unset]]

Init ==
  /\ \E v \in Values : param = [r \in Ranks |-> [b \in Blocks |-> [p \in Params |-> v]]]
  /\ assigned = [r \in Ranks |-> [b \in Blocks |-> {}]]
  /\ defAssigned = [r \in Ranks |-> [p \in Params |-> {}]]
  /\ backups = [r \in Ranks |-> [b \in Blocks |-> <<>>]]
  /\ defBackups = [r \in Ranks |-> [p \in Params |-> <<>>]]
  /\ cached = NothingCached
  /\ cachedBackups = [r \in Ranks |-> [b \in Blocks |-> <<>>]]
  /\ retainers = <<>> /\ failed = FALSE
  /\ changed = [r \in Ranks |-> {}] /\ entered = <<>> /\ changes = 0
-----------------------------------------------------------------------------
(* The program between two collective operations. *)

Retained(c) == \A i \in DOMAIN retainers : retainers[i].on \in {Core, c}

MayChange(c) ==
  /\ ~failed /\ changes < MaxChanges
  /\ Retained(c) \/ ChangesOutside
  /\ changes' = changes + 1

(* Assign a parameter of a block.  A dimension is assigned through         *)
(* setDimension, which empties the cache of the block.                     *)
SetParam(r, b, p, v) ==
  /\ MayChange(b)
  /\ param' = [param EXCEPT ![r][b][p] = v]
  /\ assigned' = [assigned EXCEPT ![r][b] = ANYTHING]
  /\ defAssigned' = [defAssigned EXCEPT ![r][p] = ANYTHING]
  /\ cached' = IF p \in Dimensions THEN [cached EXCEPT ![r][b] = Unset] ELSE cached
  /\ changed' = [changed EXCEPT ![r] = @ \cup {<<b, p>>}]
  /\ UNCHANGED <<saved, retainers, failed, entered>>

Area(r, b) == [d \in Dimensions |-> param[r][b][d]]

GetArea(r, b) ==
  /\ ~failed /\ <<r, b>> \in Measured /\ cached[r][b] = Unset
  /\ cached' = [cached EXCEPT ![r][b] = Area(r, b)]
  /\ UNCHANGED <<param, flags, saved, retainers, failed, ghost>>
-----------------------------------------------------------------------------
(* with c.retainState(keep): *)

Enter(c, keep) ==
  /\ ~failed /\ Len(retainers) < MaxDepth
  /\ retainers' = Push([on |-> c, keep |-> keep], retainers)
  /\ backups' = OnTree(c, [r \in Ranks |-> [b \in Blocks |->
       Push([param |-> param[r][b], assigned |-> assigned[r][b]], backups[r][b])]], backups)
  /\ assigned' = OnTree(c, [r \in Ranks |-> [b \in Blocks |-> assigned[r][b] \ {BACKUP}]], assigned)
  /\ defBackups' = [r \in Ranks |-> [p \in Params |-> Push(defAssigned[r][p], defBackups[r][p])]]
  /\ cachedBackups' = OnTree(c, [r \in Ranks |-> [b \in Blocks |->
       Push(cached[r][b], cachedBackups[r][b])]], cachedBackups)
  /\ cached' = OnTree(c, NothingCached, cached)
  /\ entered' = Push(Snapshot, entered)
  /\ UNCHANGED <<param, defAssigned, failed, changed, changes>>

(* Mutant of Applied: every parameter assigned since the backup is kept.   *)
Applied_All(r, b, keep) ==
  IF BACKUP \notin assigned[r][b] THEN {}
  ELSE {p \in Params : param[r][b][p] # Head(backups[r][b]).param[p]}

(* The parameters of b that leave a retainer with a value of their own:    *)
(* those to keep that have another value than the one backed up.           *)
Applied(r, b, keep) ==
  IF BACKUP \notin assigned[r][b] THEN {}
  ELSE {p \in keep : param[r][b][p] # Head(backups[r][b]).param[p]}

RestoredParam(r, b, keep) ==
  [p \in Params |-> IF p \in Applied(r, b, keep) THEN param[r][b][p]
                    ELSE Head(backups[r][b]).param[p]]

(* Mutant of RestoredFlags: the values kept are not marked as assigned.    *)
RestoredFlags_BackedUp(r, b, keep) == Head(backups[r][b]).assigned

RestoredFlags(r, b, keep) ==
  IF Applied(r, b, keep) # {} THEN ANYTHING ELSE Head(backups[r][b]).assigned

RestoredDefinition(r, p, keep, tree) ==
  IF p \notin keep THEN Head(defBackups[r][p])
  ELSE IF \E b \in tree : p \in Applied(r, b, keep) THEN ANYTHING ELSE defAssigned[r][p]

Popped(chain) == IF chain = <<>> THEN chain ELSE Tail(chain)

Exit ==
  LET on   == Head(retainers).on
      keep == Head(retainers).keep
      tree == Subtree(on)
      Kept(r) == {x \in changed[r] : x[1] \notin tree \/ x[2] \in Applied(r, x[1], keep)}
  IN  /\ retainers # <<>>
      /\ retainers' = Tail(retainers)
      /\ param' = OnTree(on, [r \in Ranks |-> [b \in Blocks |-> RestoredParam(r, b, keep)]], param)
      /\ assigned' = OnTree(on, [r \in Ranks |-> [b \in Blocks |-> RestoredFlags(r, b, keep)]], assigned)
      /\ backups' = OnTree(on, [r \in Ranks |-> [b \in Blocks |-> Popped(backups[r][b])]], backups)
      /\ defAssigned' = [r \in Ranks |-> [p \in Params |-> RestoredDefinition(r, p, keep, tree)]]
      /\ defBackups' = [r \in Ranks |-> [p \in Params |-> Popped(defBackups[r][p])]]
      /\ cached' = OnTree(on, [r \in Ranks |-> [b \in Blocks |-> Head(cachedBackups[r][b])]], cached)
      /\ cachedBackups' = OnTree(on, [r \in Ranks |-> [b \in Blocks |->
           Popped(cachedBackups[r][b])]], cachedBackups)
      /\ changed' = [r \in Ranks |-> Kept(r) \cup {x \in Head(entered).changed[r] : x[1] \in tree}]
      /\ entered' = Tail(entered)
      /\ UNCHANGED <<failed, changes>>
-----------------------------------------------------------------------------
(* r.syncMpiState() *)

(* getSyncData: what a rank sends of a block. *)
SyncData(r, b) ==
  IF DISTRIBUTE \notin assigned[r][b] THEN {}
  ELSE {p \in Params : DISTRIBUTE \in defAssigned[r][p]}

Senders(b, p) == {r \in Ranks : p \in SyncData(r, b)}

First(ranks) == CHOOSE r \in ranks : \A s \in ranks : r <= s

(* Mutant of Received: every rank keeps what it has itself.                *)
Received_Own(r, b, p) ==
  IF Senders(b, p) = {} \/ r \in Senders(b, p) THEN param[r][b][p]
  ELSE param[First(Senders(b, p))][b][p]

(* _syncParameters: the first rank's value is taken, and one sent by a     *)
(* later rank has to be the same.                                          *)
Received(r, b, p) ==
  IF Senders(b, p) = {} THEN param[r][b][p] ELSE param[First(Senders(b, p))][b][p]

Overlap ==
  \E b \in Blocks, p \in Params : \E r \in Senders(b, p) : param[r][b][p] # Received(r, b, p)

(* Mutant of SyncedCache: the blocks a rank has sent are left alone.       *)
SyncedCache_Received ==
  [r \in Ranks |-> [b \in Blocks |-> IF SyncData(r, b) = {} THEN Unset ELSE cached[r][b]]]

SyncedCache == NothingCached

Sync ==
  LET Marked(f) == IF Overlap THEN f ELSE f \ {DISTRIBUTE}  \* _markSynchronized
  IN  /\ ~failed
      /\ SyncsKept \/ \A i \in DOMAIN retainers : retainers[i].keep = {}
      /\ param' = [r \in Ranks |-> [b \in Blocks |-> [p \in Params |-> Received(r, b, p)]]]
      /\ assigned' = [r \in Ranks |-> [b \in Blocks |->
            Marked(IF \E p \in Params : Senders(b, p) # {} THEN ANYTHING ELSE assigned[r][b])]]
      /\ defAssigned' = [r \in Ranks |-> [p \in Params |->
            Marked(IF \E b \in Blocks : Senders(b, p) # {} THEN ANYTHING
                   ELSE defAssigned[r][p])]]
      /\ cached' = SyncedCache
      /\ failed' = Overlap
      /\ changed' = IF Overlap THEN changed ELSE [r \in Ranks |-> {}]
      /\ UNCHANGED <<saved, retainers, entered, changes>>

Aborted == failed /\ retainers = <<>> /\ UNCHANGED vars

Next ==
  \/ \E r \in Ranks, b \in Blocks : \/ \E p \in Params, v \in Values : SetParam(r, b, p, v)
                                    \/ GetArea(r, b)
  \/ \E c \in Retainable, keep \in SUBSET Keepable : Enter(c, keep)
  \/ Exit
  \/ Sync
  \/ Aborted

Spec == Init /\ [][Next]_vars
=============================================================================
