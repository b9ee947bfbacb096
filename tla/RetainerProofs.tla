---------------------------- MODULE RetainerProofs ----------------------------
(***************************************************************************)
(* A retained state gives back what was there when it was entered, however *)
(* deep the retained states are nested and whatever happened in them, and  *)
(* no update is lost between the ranks.  The chains of backups mirror the  *)
(* states in which the retainers were entered: that is the invariant.      *)
(***************************************************************************)
EXTENDS RetainerProperties, SequenceTheorems, WellFoundedInduction, TLAPS

(* The states that matter: the present one and, under it, those in which   *)
(* the retainers were entered, the innermost first.                        *)
At(i) == IF i = 0 THEN Snapshot ELSE entered[i]

Levels == 0 .. Len(retainers)

Flags    == SUBSET ANYTHING
Backup   == [param : [Params -> Values], assigned : Flags]
Retainer == [on : Retainable, keep : SUBSET Keepable]
Areas    == {Unset} \cup [Dimensions -> Values]

Snapshots ==
  [param         : [Ranks -> [Blocks -> [Params -> Values]]],
   assigned      : [Ranks -> [Blocks -> Flags]],
   backups       : [Ranks -> [Blocks -> Seq(Backup)]],
   defAssigned   : [Ranks -> [Params -> Flags]],
   defBackups    : [Ranks -> [Params -> Seq(Flags)]],
   cached        : [Ranks -> [Blocks -> Areas]],
   cachedBackups : [Ranks -> [Blocks -> Seq(Areas)]],
   changed       : [Ranks -> SUBSET (Blocks \X Params)]]

Types ==
  /\ Snapshot \in Snapshots
  /\ retainers \in Seq(Retainer)
  /\ entered \in Seq(Snapshots) /\ Len(entered) = Len(retainers)
  /\ failed \in BOOLEAN

(* The chains of the state s are those of the state o, in which a retainer *)
(* of c was entered, with what there was to back up on top.                *)
OnTop(s, o, c) ==
  \A r \in Ranks :
    /\ \A b \in Blocks :
         IF b \in Subtree(c)
         THEN /\ s.backups[r][b]
                   = Push([param |-> o.param[r][b], assigned |-> o.assigned[r][b]], o.backups[r][b])
              /\ s.cachedBackups[r][b] = Push(o.cached[r][b], o.cachedBackups[r][b])
         ELSE /\ s.backups[r][b] = o.backups[r][b]
              /\ s.cachedBackups[r][b] = o.cachedBackups[r][b]
    /\ \A p \in Params : s.defBackups[r][p] = Push(o.defAssigned[r][p], o.defBackups[r][p])

Mirrored == \A i \in DOMAIN retainers : OnTop(At(i - 1), At(i), retainers[i].on)

(* A block that is not marked as assigned since its backup has the values  *)
(* backed up.                                                              *)
FlagTells(s) ==
  \A r \in Ranks, b \in Blocks :
    BACKUP \notin s.assigned[r][b] /\ s.backups[r][b] # <<>>
      => s.param[r][b] = Head(s.backups[r][b]).param

RestoreInv == Types /\ Mirrored /\ \A i \in Levels : FlagTells(At(i))

AreaFollows(s) ==
  \A r \in Ranks, b \in Blocks :
    s.cached[r][b] \in {Unset, [d \in Dimensions |-> s.param[r][b][d]]}

AreaInv == \A i \in Levels : AreaFollows(At(i))

(* What a rank has assigned is marked for distribution, on the block and   *)
(* on the definition of the parameter.                                     *)
Marked(s) ==
  \A r \in Ranks, b \in Blocks, p \in Params :
    <<b, p>> \in s.changed[r] => /\ DISTRIBUTE \in s.assigned[r][b]
                                 /\ DISTRIBUTE \in s.defAssigned[r][p]

Agreed(s) ==
  \A r, q \in Ranks, b \in Blocks, p \in Params :
    \/ <<b, p>> \in s.changed[r] \/ <<b, p>> \in s.changed[q]
    \/ s.param[r][b][p] = s.param[q][b][p]

(* What happened between the state o, in which the retainer n was entered, *)
(* and a later state s: blocks outside of the tree were not assigned, and  *)
(* while there is something to keep nothing was synchronized.              *)
Since(s, o, n) ==
  /\ \A r \in Ranks, b \in Blocks \ Subtree(n.on), p \in Params :
       <<b, p>> \in s.changed[r] => <<b, p>> \in o.changed[r]
  /\ n.keep # {} =>
       \A r \in Ranks, p \in Params :
         /\ DISTRIBUTE \in o.defAssigned[r][p] => DISTRIBUTE \in s.defAssigned[r][p]
         /\ \A b \in Blocks :
              <<b, p>> \notin s.changed[r] => s.param[r][b][p] = o.param[r][b][p]

AgreeInv ==
  failed \/ /\ \A i \in Levels : Marked(At(i)) /\ Agreed(At(i))
            /\ \A i, j \in Levels : j < i => Since(At(j), At(i), retainers[i])
-----------------------------------------------------------------------------
(* Chains. *)

LEMMA Pushed ==
  ASSUME NEW S, NEW x \in S, NEW chain \in Seq(S)
  PROVE  /\ Push(x, chain) \in Seq(S) /\ Push(x, chain) # <<>>
         /\ Len(Push(x, chain)) = Len(chain) + 1
         /\ Push(x, chain)[1] = x
         /\ \A i \in 1 .. Len(chain) : Push(x, chain)[i + 1] = chain[i]
         /\ Head(Push(x, chain)) = x /\ Tail(Push(x, chain)) = chain
BY DEF Push

LEMMA Popping ==
  ASSUME NEW S, NEW chain \in Seq(S)
  PROVE  Popped(chain) \in Seq(S)
BY DEF Popped

(* The smallest of the ranks that have sent something is one of the ranks. *)
LEMMA FirstIsARank ==
  ASSUME NEW ranks \in SUBSET Ranks, ranks # {}
  PROVE  First(ranks) \in ranks
<1>1. ranks \subseteq Nat
  BY RetainerAssumption
<1>2. \E r \in ranks : \A s \in ranks : ~ (<<s, r>> \in OpToRel(<, Nat))
  BY <1>1, NatLessThanWellFounded, WFMin
<1>3. \A r, s \in ranks : ~ (<<s, r>> \in OpToRel(<, Nat)) => r <= s
  BY <1>1 DEF OpToRel
<1> QED
  BY <1>2, <1>3 DEF First

LEMMA ReceivedType ==
  ASSUME Types, NEW r \in Ranks, NEW b \in Blocks, NEW p \in Params
  PROVE  Received(r, b, p) \in Values
<1>1. Senders(b, p) \in SUBSET Ranks
  BY DEF Senders
<1>2. Senders(b, p) # {} => First(Senders(b, p)) \in Ranks
  BY <1>1, FirstIsARank
<1>3. param \in [Ranks -> [Blocks -> [Params -> Values]]]
  BY DEF Types, Snapshots, Snapshot
<1> QED
  BY <1>2, <1>3 DEF Received

LEMMA SubtreeInBlocks ==
  ASSUME NEW c \in Retainable
  PROVE  Subtree(c) \subseteq Blocks
BY RetainerAssumption DEF Subtree
-----------------------------------------------------------------------------
(* Types. *)

LEMMA SnapshotTypes ==
  Snapshot \in Snapshots <=>
    /\ param \in [Ranks -> [Blocks -> [Params -> Values]]]
    /\ assigned \in [Ranks -> [Blocks -> Flags]]
    /\ backups \in [Ranks -> [Blocks -> Seq(Backup)]]
    /\ defAssigned \in [Ranks -> [Params -> Flags]]
    /\ defBackups \in [Ranks -> [Params -> Seq(Flags)]]
    /\ cached \in [Ranks -> [Blocks -> Areas]]
    /\ cachedBackups \in [Ranks -> [Blocks -> Seq(Areas)]]
    /\ changed \in [Ranks -> SUBSET (Blocks \X Params)]
BY DEF Snapshot, Snapshots

LEMMA InitTypes == Init => Types
<1> SUFFICES ASSUME Init PROVE Types
  OBVIOUS
<1>1. Snapshot \in Snapshots
  BY SnapshotTypes DEF Init, NothingCached, Areas, Flags
<1>2. retainers = <<>> /\ entered = <<>> /\ failed = FALSE
  BY DEF Init
<1> QED
  BY <1>1, <1>2, EmptySeq DEF Types

LEMMA SetParamTypes ==
  ASSUME Types, NEW r \in Ranks, NEW b \in Blocks, NEW p \in Params, NEW v \in Values,
         SetParam(r, b, p, v)
  PROVE  Types'
<1>1. /\ param' \in [Ranks -> [Blocks -> [Params -> Values]]]
      /\ assigned' \in [Ranks -> [Blocks -> Flags]]
      /\ defAssigned' \in [Ranks -> [Params -> Flags]]
      /\ cached' \in [Ranks -> [Blocks -> Areas]]
      /\ changed' \in [Ranks -> SUBSET (Blocks \X Params)]
  BY SMTT(30), SnapshotTypes DEF Types, SetParam, Areas, Flags
<1>2. UNCHANGED <<backups, defBackups, cachedBackups, retainers, entered, failed>>
  BY DEF SetParam, saved
<1>3. (Snapshot \in Snapshots)'
  BY <1>1, <1>2, SnapshotTypes DEF Types, Snapshot, Snapshots
<1> QED
  BY <1>2, <1>3 DEF Types

LEMMA GetAreaTypes ==
  ASSUME Types, NEW r \in Ranks, NEW b \in Blocks, GetArea(r, b)
  PROVE  Types'
<1>1. Area(r, b) \in Areas
  BY SnapshotTypes, RetainerAssumption DEF Types, Area, Areas
<1>2. cached' \in [Ranks -> [Blocks -> Areas]]
  BY <1>1, SnapshotTypes DEF Types, GetArea
<1>3. UNCHANGED <<param, flags, saved, retainers, failed, entered, changed>>
  BY DEF GetArea, ghost
<1>4. (Snapshot \in Snapshots)'
  BY <1>2, <1>3, SnapshotTypes DEF Types, Snapshot, Snapshots, flags, saved
<1> QED
  BY <1>3, <1>4 DEF Types

(* A retainer of c: what it does to the state s. *)
LEMMA EnterTypes ==
  ASSUME Types, NEW c \in Retainable, NEW keep \in SUBSET Keepable, Enter(c, keep)
  PROVE  Types'
<1>1. assigned' \in [Ranks -> [Blocks -> Flags]]
  BY SnapshotTypes DEF Types, Enter, OnTree, Flags
<1>2. backups' \in [Ranks -> [Blocks -> Seq(Backup)]]
  <2> DEFINE Saved(r, b) == [param |-> param[r][b], assigned |-> assigned[r][b]]
  <2>1. ASSUME NEW r \in Ranks, NEW b \in Blocks
        PROVE  Push(Saved(r, b), backups[r][b]) \in Seq(Backup) /\ backups[r][b] \in Seq(Backup)
    <3>1. Saved(r, b) \in Backup /\ backups[r][b] \in Seq(Backup)
      BY SnapshotTypes DEF Types, Backup
    <3> QED
      BY <3>1, Pushed
  <2>2. backups' = OnTree(c, [r \in Ranks |-> [b \in Blocks |->
                     Push(Saved(r, b), backups[r][b])]], backups)
    BY DEF Enter
  <2> QED
    BY <2>1, <2>2 DEF OnTree
<1>3. defBackups' \in [Ranks -> [Params -> Seq(Flags)]]
  <2>1. ASSUME NEW r \in Ranks, NEW p \in Params
        PROVE  Push(defAssigned[r][p], defBackups[r][p]) \in Seq(Flags)
    <3>1. defAssigned[r][p] \in Flags /\ defBackups[r][p] \in Seq(Flags)
      BY SnapshotTypes DEF Types
    <3> QED
      BY <3>1, Pushed
  <2> QED
    BY <2>1 DEF Enter
<1>4. cachedBackups' \in [Ranks -> [Blocks -> Seq(Areas)]]
  <2>1. ASSUME NEW r \in Ranks, NEW b \in Blocks
        PROVE  Push(cached[r][b], cachedBackups[r][b]) \in Seq(Areas)
               /\ cachedBackups[r][b] \in Seq(Areas)
    <3>1. cached[r][b] \in Areas /\ cachedBackups[r][b] \in Seq(Areas)
      BY SnapshotTypes DEF Types
    <3> QED
      BY <3>1, Pushed
  <2> QED
    BY <2>1 DEF Enter, OnTree
<1>5. cached' \in [Ranks -> [Blocks -> Areas]]
  BY SnapshotTypes DEF Types, Enter, OnTree, NothingCached, Areas
<1>6. UNCHANGED <<param, defAssigned, changed, failed>>
  BY DEF Enter
<1>7. (Snapshot \in Snapshots)'
  BY <1>1, <1>2, <1>3, <1>4, <1>5, <1>6, SnapshotTypes DEF Types, Snapshot, Snapshots
<1>8. (retainers \in Seq(Retainer)
       /\ entered \in Seq(Snapshots) /\ Len(entered) = Len(retainers))'
  <2>1. [on |-> c, keep |-> keep] \in Retainer
    BY DEF Retainer
  <2>2. retainers' = Push([on |-> c, keep |-> keep], retainers)
        /\ entered' = Push(Snapshot, entered)
    BY DEF Enter
  <2>3. retainers \in Seq(Retainer) /\ entered \in Seq(Snapshots) /\ Snapshot \in Snapshots
        /\ Len(entered) = Len(retainers)
    BY DEF Types
  <2>4. retainers' \in Seq(Retainer) /\ Len(retainers') = Len(retainers) + 1
    BY <2>1, <2>2, <2>3, Pushed
  <2>5. entered' \in Seq(Snapshots) /\ Len(entered') = Len(entered) + 1
    BY <2>2, <2>3, Pushed
  <2> QED
    BY <2>3, <2>4, <2>5
<1> QED
  BY <1>6, <1>7, <1>8 DEF Types

(* Inside of a retainer everything in its tree has something to restore:   *)
(* what was there when it was entered.                                     *)
LEMMA Innermost ==
  ASSUME Types, Mirrored, retainers # <<>>
  PROVE  /\ Len(retainers) \in Nat \ {0} /\ DOMAIN retainers = 1 .. Len(retainers)
         /\ DOMAIN entered = 1 .. Len(retainers)
         /\ Head(retainers) = retainers[1] /\ Head(entered) = entered[1]
         /\ retainers[1] \in Retainer
         /\ entered[1] \in Snapshots
         /\ OnTop(Snapshot, entered[1], retainers[1].on)
<1>1. Len(retainers) \in Nat \ {0} /\ DOMAIN retainers = 1 .. Len(retainers)
      /\ DOMAIN entered = 1 .. Len(retainers)
  BY DEF Types
<1>2. Head(retainers) = retainers[1] /\ Head(entered) = entered[1]
      /\ retainers[1] \in Retainer /\ entered[1] \in Snapshots
  BY <1>1, ElementOfSeq DEF Types
<1>3. OnTop(At(1 - 1), At(1), retainers[1].on)
  BY <1>1 DEF Mirrored
<1> QED
  BY <1>1, <1>2, <1>3 DEF At

(* What backing out of a retainer finds, by block and by definition. *)
LEMMA WhatWasSaved ==
  ASSUME NEW s, NEW o \in Snapshots, NEW c, OnTop(s, o, c), NEW r \in Ranks
  PROVE  /\ \A b \in Blocks \cap Subtree(c) :
              /\ s.backups[r][b] # <<>> /\ Head(s.backups[r][b]).param = o.param[r][b]
              /\ Head(s.backups[r][b]).assigned = o.assigned[r][b]
              /\ Popped(s.backups[r][b]) = o.backups[r][b]
              /\ Head(s.cachedBackups[r][b]) = o.cached[r][b]
              /\ Popped(s.cachedBackups[r][b]) = o.cachedBackups[r][b]
         /\ \A b \in Blocks \ Subtree(c) :
              s.backups[r][b] = o.backups[r][b] /\ s.cachedBackups[r][b] = o.cachedBackups[r][b]
         /\ \A p \in Params : /\ Head(s.defBackups[r][p]) = o.defAssigned[r][p]
                              /\ Popped(s.defBackups[r][p]) = o.defBackups[r][p]
<1>1. ASSUME NEW S, NEW x \in S, NEW chain \in Seq(S)
      PROVE  Push(x, chain) # <<>> /\ Head(Push(x, chain)) = x /\ Popped(Push(x, chain)) = chain
  BY Pushed DEF Popped
<1>2. ASSUME NEW b \in Blocks \cap Subtree(c)
      PROVE  /\ s.backups[r][b] # <<>> /\ Head(s.backups[r][b]).param = o.param[r][b]
             /\ Head(s.backups[r][b]).assigned = o.assigned[r][b]
             /\ Popped(s.backups[r][b]) = o.backups[r][b]
             /\ Head(s.cachedBackups[r][b]) = o.cached[r][b]
             /\ Popped(s.cachedBackups[r][b]) = o.cachedBackups[r][b]
  <2>1. /\ o.param[r][b] \in [Params -> Values] /\ o.assigned[r][b] \in Flags
        /\ o.backups[r][b] \in Seq(Backup)
        /\ o.cached[r][b] \in Areas /\ o.cachedBackups[r][b] \in Seq(Areas)
    BY DEF Snapshots
  <2>3. [param |-> o.param[r][b], assigned |-> o.assigned[r][b]] \in Backup
    BY <2>1 DEF Backup
  <2>2. s.backups[r][b]
          = Push([param |-> o.param[r][b], assigned |-> o.assigned[r][b]], o.backups[r][b])
        /\ s.cachedBackups[r][b] = Push(o.cached[r][b], o.cachedBackups[r][b])
    BY DEF OnTop
  <2> QED
    BY <1>1, <2>1, <2>2, <2>3
<1>3. ASSUME NEW p \in Params
      PROVE  /\ Head(s.defBackups[r][p]) = o.defAssigned[r][p]
             /\ Popped(s.defBackups[r][p]) = o.defBackups[r][p]
  <2>1. o.defAssigned[r][p] \in Flags /\ o.defBackups[r][p] \in Seq(Flags)
    BY DEF Snapshots
  <2>2. s.defBackups[r][p] = Push(o.defAssigned[r][p], o.defBackups[r][p])
    BY DEF OnTop
  <2> QED
    BY <1>1, <2>1, <2>2
<1> QED
  BY <1>2, <1>3 DEF OnTop

(* Leaving a retainer: what is kept aside, all is as when it was entered.  *)
LEMMA ExitRestores ==
  ASSUME Types, Mirrored, Exit,
         NEW on, on = Head(retainers).on, NEW keep, keep = Head(retainers).keep,
         NEW o, o = Head(entered)
  PROVE  /\ o \in Snapshots /\ on \in Retainable /\ keep \in SUBSET Keepable
         /\ backups' = o.backups /\ cachedBackups' = o.cachedBackups
         /\ defBackups' = o.defBackups
         /\ param' = [r \in Ranks |-> [b \in Blocks |-> [p \in Params |->
              IF b \in Subtree(on) /\ p \notin Applied(r, b, keep)
              THEN o.param[r][b][p] ELSE param[r][b][p]]]]
         /\ assigned' = [r \in Ranks |-> [b \in Blocks |->
              IF b \notin Subtree(on) THEN assigned[r][b]
              ELSE IF Applied(r, b, keep) # {} THEN ANYTHING ELSE o.assigned[r][b]]]
         /\ defAssigned' = [r \in Ranks |-> [p \in Params |->
              IF p \notin keep THEN o.defAssigned[r][p]
              ELSE IF \E b \in Subtree(on) : p \in Applied(r, b, keep)
                   THEN ANYTHING ELSE defAssigned[r][p]]]
         /\ cached' = [r \in Ranks |-> [b \in Blocks |->
              IF b \in Subtree(on) THEN o.cached[r][b] ELSE cached[r][b]]]
<1>1. retainers # <<>>
  BY DEF Exit
<1>2. on = retainers[1].on /\ keep = retainers[1].keep /\ o = entered[1]
      /\ o \in Snapshots /\ on \in Retainable /\ keep \in SUBSET Keepable
      /\ OnTop(Snapshot, o, on)
  BY <1>1, Innermost DEF Retainer
<1>3. \A r \in Ranks, b \in Blocks \cap Subtree(on) :
        /\ Head(backups[r][b]).param = o.param[r][b]
        /\ Head(backups[r][b]).assigned = o.assigned[r][b]
        /\ Popped(backups[r][b]) = o.backups[r][b]
        /\ Head(cachedBackups[r][b]) = o.cached[r][b]
        /\ Popped(cachedBackups[r][b]) = o.cachedBackups[r][b]
  BY <1>2, WhatWasSaved DEF Snapshot
<1>4. \A r \in Ranks, b \in Blocks \ Subtree(on) :
        backups[r][b] = o.backups[r][b] /\ cachedBackups[r][b] = o.cachedBackups[r][b]
  BY <1>2, WhatWasSaved DEF Snapshot
<1>5. \A r \in Ranks, p \in Params : /\ Head(defBackups[r][p]) = o.defAssigned[r][p]
                                     /\ Popped(defBackups[r][p]) = o.defBackups[r][p]
  BY <1>2, WhatWasSaved DEF Snapshot
<1>6. backups' = o.backups
  <2>1. backups' = [r \in Ranks |-> [b \in Blocks |-> o.backups[r][b]]]
    BY <1>2, <1>3, <1>4 DEF Exit, OnTree
  <2> QED
    BY <1>2, <2>1 DEF Snapshots
<1>7. cachedBackups' = o.cachedBackups
  <2>1. cachedBackups' = [r \in Ranks |-> [b \in Blocks |-> o.cachedBackups[r][b]]]
    BY <1>2, <1>3, <1>4 DEF Exit, OnTree
  <2> QED
    BY <1>2, <2>1 DEF Snapshots
<1>8. defBackups' = o.defBackups
  <2>1. defBackups' = [r \in Ranks |-> [p \in Params |-> o.defBackups[r][p]]]
    BY <1>5 DEF Exit
  <2> QED
    BY <1>2, <2>1 DEF Snapshots
<1>9. cached' = [r \in Ranks |-> [b \in Blocks |->
              IF b \in Subtree(on) THEN o.cached[r][b] ELSE cached[r][b]]]
  BY <1>2, <1>3 DEF Exit, OnTree
<1>10. assigned' = [r \in Ranks |-> [b \in Blocks |->
              IF b \notin Subtree(on) THEN assigned[r][b]
              ELSE IF Applied(r, b, keep) # {} THEN ANYTHING ELSE o.assigned[r][b]]]
  <2>1. assigned' = [r \in Ranks |-> [b \in Blocks |->
                      IF b \in Subtree(on) THEN RestoredFlags(r, b, keep) ELSE assigned[r][b]]]
    BY <1>2 DEF Exit, OnTree
  <2>2. \A r \in Ranks, b \in Blocks \cap Subtree(on) :
          RestoredFlags(r, b, keep)
            = IF Applied(r, b, keep) # {} THEN ANYTHING ELSE o.assigned[r][b]
    BY <1>3 DEF RestoredFlags
  <2> QED
    BY <2>1, <2>2
<1>11. defAssigned' = [r \in Ranks |-> [p \in Params |->
              IF p \notin keep THEN o.defAssigned[r][p]
              ELSE IF \E b \in Subtree(on) : p \in Applied(r, b, keep)
                   THEN ANYTHING ELSE defAssigned[r][p]]]
  BY <1>2, <1>5 DEF Exit, RestoredDefinition
<1>12. param' = [r \in Ranks |-> [b \in Blocks |-> [p \in Params |->
              IF b \in Subtree(on) /\ p \notin Applied(r, b, keep)
              THEN o.param[r][b][p] ELSE param[r][b][p]]]]
  <2>1. param \in [Ranks -> [Blocks -> [Params -> Values]]]
    BY SnapshotTypes DEF Types
  <2>2. param' = [r \in Ranks |-> [b \in Blocks |->
                   IF b \in Subtree(on) THEN RestoredParam(r, b, keep) ELSE param[r][b]]]
    BY <1>2 DEF Exit, OnTree
  <2>3. \A r \in Ranks, b \in Blocks \cap Subtree(on) :
          RestoredParam(r, b, keep) = [p \in Params |->
            IF p \notin Applied(r, b, keep) THEN o.param[r][b][p] ELSE param[r][b][p]]
    BY <1>3 DEF RestoredParam
  <2>4. \A r \in Ranks, b \in Blocks \ Subtree(on) :
          param[r][b] = [p \in Params |-> param[r][b][p]]
    BY <2>1
  <2> QED
    BY <2>2, <2>3, <2>4
<1> QED
  BY <1>2, <1>6, <1>7, <1>8, <1>9, <1>10, <1>11, <1>12

LEMMA ExitTypes ==
  ASSUME Types, Mirrored, Exit
  PROVE  Types'
<1> DEFINE on == Head(retainers).on
           keep == Head(retainers).keep
           o == Head(entered)
<1>1. /\ o \in Snapshots /\ on \in Retainable /\ keep \in SUBSET Keepable
      /\ backups' = o.backups /\ cachedBackups' = o.cachedBackups
      /\ defBackups' = o.defBackups
      /\ param' = [r \in Ranks |-> [b \in Blocks |-> [p \in Params |->
           IF b \in Subtree(on) /\ p \notin Applied(r, b, keep)
           THEN o.param[r][b][p] ELSE param[r][b][p]]]]
      /\ assigned' = [r \in Ranks |-> [b \in Blocks |->
           IF b \notin Subtree(on) THEN assigned[r][b]
           ELSE IF Applied(r, b, keep) # {} THEN ANYTHING ELSE o.assigned[r][b]]]
      /\ defAssigned' = [r \in Ranks |-> [p \in Params |->
           IF p \notin keep THEN o.defAssigned[r][p]
           ELSE IF \E b \in Subtree(on) : p \in Applied(r, b, keep)
                THEN ANYTHING ELSE defAssigned[r][p]]]
      /\ cached' = [r \in Ranks |-> [b \in Blocks |->
           IF b \in Subtree(on) THEN o.cached[r][b] ELSE cached[r][b]]]
  BY ExitRestores
<1>2. changed' = [r \in Ranks |->
        {x \in changed[r] : x[1] \notin Subtree(on) \/ x[2] \in Applied(r, x[1], keep)}
        \cup {x \in o.changed[r] : x[1] \in Subtree(on)}]
  BY DEF Exit
<1>3. retainers # <<>> /\ retainers' = Tail(retainers) /\ entered' = Tail(entered)
      /\ UNCHANGED failed
  BY DEF Exit
<1> HIDE DEF on, keep, o
<1>4. Snapshot \in Snapshots
  BY DEF Types
<1>5. param' \in [Ranks -> [Blocks -> [Params -> Values]]]
  <2>1. \A r \in Ranks, b \in Blocks, p \in Params :
          o.param[r][b][p] \in Values /\ param[r][b][p] \in Values
    BY SMTT(30), <1>1, <1>4, SnapshotTypes DEF Snapshots
  <2> QED
    BY <1>1, <2>1
<1>6. assigned' \in [Ranks -> [Blocks -> Flags]]
  <2>1. \A r \in Ranks, b \in Blocks :
          o.assigned[r][b] \in Flags /\ assigned[r][b] \in Flags
    BY <1>1, <1>4, SnapshotTypes DEF Snapshots
  <2>2. ANYTHING \in Flags
    BY DEF Flags
  <2> QED
    BY <1>1, <2>1, <2>2
<1>7. defAssigned' \in [Ranks -> [Params -> Flags]]
  <2>1. o.defAssigned \in [Ranks -> [Params -> Flags]]
    BY <1>1 DEF Snapshots
  <2>2. defAssigned \in [Ranks -> [Params -> Flags]]
    BY <1>4, SnapshotTypes
  <2>3. ANYTHING \in Flags
    BY DEF Flags
  <2> QED
    BY <1>1, <2>1, <2>2, <2>3
<1>8. cached' \in [Ranks -> [Blocks -> Areas]]
  <2>1. \A r \in Ranks, b \in Blocks : o.cached[r][b] \in Areas /\ cached[r][b] \in Areas
    BY <1>1, <1>4, SnapshotTypes DEF Snapshots
  <2> QED
    BY <1>1, <2>1
<1>9. changed' \in [Ranks -> SUBSET (Blocks \X Params)]
  <2>1. \A r \in Ranks :
          o.changed[r] \subseteq Blocks \X Params /\ changed[r] \subseteq Blocks \X Params
    BY <1>1, <1>4, SnapshotTypes DEF Snapshots
  <2> QED
    BY <1>2, <2>1
<1>10. /\ backups' \in [Ranks -> [Blocks -> Seq(Backup)]]
       /\ defBackups' \in [Ranks -> [Params -> Seq(Flags)]]
       /\ cachedBackups' \in [Ranks -> [Blocks -> Seq(Areas)]]
  BY <1>1 DEF Snapshots
<1>11. (Snapshot \in Snapshots)'
  BY <1>5, <1>6, <1>7, <1>8, <1>9, <1>10 DEF Snapshot, Snapshots
<1>12. entered # <<>> /\ retainers \in Seq(Retainer) /\ entered \in Seq(Snapshots)
       /\ Len(entered) = Len(retainers)
  BY <1>3, EmptySeq DEF Types
<1>13. retainers' \in Seq(Retainer) /\ entered' \in Seq(Snapshots)
       /\ Len(entered') = Len(retainers')
  BY <1>3, <1>12, HeadTailProperties
<1> QED
  BY <1>3, <1>11, <1>13 DEF Types

LEMMA SyncTypes ==
  ASSUME Types, Sync
  PROVE  Types'
<1>1. param' \in [Ranks -> [Blocks -> [Params -> Values]]]
  BY ReceivedType DEF Sync
<1>2. assigned' \in [Ranks -> [Blocks -> Flags]] /\ defAssigned' \in [Ranks -> [Params -> Flags]]
  <2>1. \A r \in Ranks : /\ \A b \in Blocks : assigned[r][b] \subseteq ANYTHING
                         /\ \A p \in Params : defAssigned[r][p] \subseteq ANYTHING
    BY SnapshotTypes DEF Types, Flags
  <2> QED
    BY <2>1 DEF Sync, Flags
<1>3. cached' \in [Ranks -> [Blocks -> Areas]]
  BY DEF Sync, SyncedCache, NothingCached, Areas
<1>4. changed' \in [Ranks -> SUBSET (Blocks \X Params)]
  BY SnapshotTypes DEF Types, Sync
<1>5. UNCHANGED <<backups, defBackups, cachedBackups, retainers, entered>>
      /\ failed' \in BOOLEAN
  BY DEF Sync, saved, Overlap
<1>6. (Snapshot \in Snapshots)'
  BY <1>1, <1>2, <1>3, <1>4, <1>5, SnapshotTypes DEF Types, Snapshot, Snapshots
<1> QED
  BY <1>5, <1>6 DEF Types
-----------------------------------------------------------------------------
(* The chains mirror the states entered. *)

(* The levels after an operation that leaves the retainers alone. *)
LEMMA SameLevels ==
  ASSUME Types, UNCHANGED <<retainers, entered>>
  PROVE  /\ Levels' = Levels /\ 0 \in Levels
         /\ At(0)' = Snapshot' /\ At(0) = Snapshot
         /\ \A i \in Levels \ {0} : At(i)' = At(i)
         /\ DOMAIN retainers = Levels \ {0} /\ DOMAIN retainers' = Levels \ {0}
BY DEF Types, Levels, At

(* The levels when a retainer is entered ... *)
LEMMA EnterLevels ==
  ASSUME Types, NEW c \in Retainable, NEW keep \in SUBSET Keepable, Enter(c, keep)
  PROVE  /\ Levels' = 0 .. Len(retainers) + 1
         /\ At(0)' = Snapshot'
         /\ \A i \in Levels' \ {0} : i - 1 \in Levels /\ At(i)' = At(i - 1)
         /\ DOMAIN retainers' = Levels' \ {0}
         /\ retainers'[1] = [on |-> c, keep |-> keep]
         /\ \A i \in Levels' \ {0, 1} :
              i - 1 \in DOMAIN retainers /\ retainers'[i] = retainers[i - 1]
<1>1. retainers' = Push([on |-> c, keep |-> keep], retainers)
      /\ entered' = Push(Snapshot, entered)
  BY DEF Enter
<1>2. /\ retainers \in Seq(Retainer) /\ entered \in Seq(Snapshots) /\ Snapshot \in Snapshots
      /\ Len(entered) = Len(retainers) /\ [on |-> c, keep |-> keep] \in Retainer
  BY DEF Types, Retainer
<1>3. /\ retainers' \in Seq(Retainer) /\ Len(retainers') = Len(retainers) + 1
      /\ retainers'[1] = [on |-> c, keep |-> keep]
      /\ \A i \in 1 .. Len(retainers) : retainers'[i + 1] = retainers[i]
  <2> DEFINE n == [on |-> c, keep |-> keep]
  <2>1. n \in Retainer /\ retainers' = Push(n, retainers)
    BY <1>1, <1>2
  <2> HIDE DEF n
  <2>2. /\ Push(n, retainers) \in Seq(Retainer) /\ Push(n, retainers)[1] = n
        /\ Len(Push(n, retainers)) = Len(retainers) + 1
    BY <1>2, <2>1, Pushed
  <2>3. \A i \in 1 .. Len(retainers) : Push(n, retainers)[i + 1] = retainers[i]
    <3>1. n \in Retainer /\ retainers \in Seq(Retainer)
      BY <1>2, <2>1
    <3> QED
      BY ONLY <3>1, Pushed
  <2>4. n = [on |-> c, keep |-> keep]
    BY DEF n
  <2> QED
    BY <2>1, <2>2, <2>3, <2>4
<1>4. /\ entered'[1] = Snapshot
      /\ \A i \in 1 .. Len(retainers) : entered'[i + 1] = entered[i]
  <2>1. \A i \in 1 .. Len(entered) : Push(Snapshot, entered)[i + 1] = entered[i]
    BY <1>2, Pushed
  <2>2. Push(Snapshot, entered)[1] = Snapshot
    BY <1>2, Pushed
  <2> QED
    BY <1>1, <1>2, <2>1, <2>2
<1>5. Len(retainers) \in Nat /\ DOMAIN retainers = 1 .. Len(retainers)
      /\ DOMAIN retainers' = 1 .. Len(retainers) + 1
  BY <1>2, <1>3, LenProperties
<1>6. Levels' = 0 .. Len(retainers) + 1 /\ At(0)' = Snapshot'
  BY <1>3 DEF Levels, At
<1>7. ASSUME NEW i \in Levels' \ {0}
      PROVE  i - 1 \in Levels /\ At(i)' = At(i - 1)
  <2>1. i \in 1 .. Len(retainers) + 1
    BY <1>5, <1>6
  <2>2. i = 1 \/ (i - 1 \in 1 .. Len(retainers) /\ i = (i - 1) + 1)
    BY <1>5, <2>1
  <2>3. At(i)' = entered'[i]
    BY <2>1 DEF At
  <2> QED
    BY <1>4, <1>5, <2>1, <2>2, <2>3 DEF At, Levels
<1>8. ASSUME NEW i \in Levels' \ {0, 1}
      PROVE  i - 1 \in DOMAIN retainers /\ retainers'[i] = retainers[i - 1]
  <2>1. i - 1 \in 1 .. Len(retainers) /\ i = (i - 1) + 1
    BY <1>5, <1>6
  <2> QED
    BY <1>3, <1>5, <2>1
<1>9. DOMAIN retainers' = Levels' \ {0}
  BY <1>5, <1>6
<1> QED
  BY <1>3, <1>6, <1>7, <1>8, <1>9

(* ... and when it is left. *)
LEMMA ExitLevels ==
  ASSUME Types, Exit
  PROVE  /\ Levels' = 0 .. Len(retainers) - 1
         /\ At(0)' = Snapshot'
         /\ \A i \in Levels' \ {0} : /\ i + 1 \in Levels /\ i + 1 \in DOMAIN retainers
                                     /\ At(i)' = At(i + 1) /\ retainers'[i] = retainers[i + 1]
         /\ DOMAIN retainers' = Levels' \ {0}
         /\ Len(retainers) \in Nat \ {0} /\ DOMAIN retainers = 1 .. Len(retainers)
<1>1. retainers # <<>> /\ retainers' = Tail(retainers) /\ entered' = Tail(entered)
  BY DEF Exit
<1>2. retainers \in Seq(Retainer) /\ entered \in Seq(Snapshots) /\ entered # <<>>
      /\ Len(entered) = Len(retainers)
  BY <1>1, EmptySeq DEF Types
<1>3. /\ retainers' \in Seq(Retainer) /\ Len(retainers') = Len(retainers) - 1
      /\ \A i \in 1 .. Len(retainers) - 1 : retainers'[i] = retainers[i + 1]
  BY <1>1, <1>2, HeadTailProperties
<1>4. \A i \in 1 .. Len(retainers) - 1 : entered'[i] = entered[i + 1]
  BY <1>1, <1>2, HeadTailProperties
<1>5. Len(retainers) \in Nat \ {0} /\ DOMAIN retainers = 1 .. Len(retainers)
      /\ DOMAIN retainers' = 1 .. Len(retainers) - 1
  BY <1>1, <1>2, <1>3, LenProperties, EmptySeq
<1>6. Levels' = 0 .. Len(retainers) - 1 /\ At(0)' = Snapshot'
  BY <1>3 DEF Levels, At
<1>7. ASSUME NEW i \in Levels' \ {0}
      PROVE  /\ i + 1 \in Levels /\ i + 1 \in DOMAIN retainers
             /\ At(i)' = At(i + 1) /\ retainers'[i] = retainers[i + 1]
  <2>1. i \in 1 .. Len(retainers) - 1
    BY <1>5, <1>6
  <2>2. At(i)' = entered'[i] /\ At(i + 1) = entered[i + 1]
    BY <2>1 DEF At
  <2> QED
    BY <1>3, <1>4, <1>5, <2>1, <2>2 DEF Levels
<1>8. DOMAIN retainers' = Levels' \ {0}
  BY <1>5, <1>6
<1> QED
  BY <1>5, <1>6, <1>7, <1>8

(* What is on top says nothing but of the chains. *)
LEMMA SameChains ==
  ASSUME NEW s, NEW t, NEW o, NEW c, OnTop(s, o, c),
         t.backups = s.backups, t.defBackups = s.defBackups, t.cachedBackups = s.cachedBackups
  PROVE  OnTop(t, o, c)
<1>1. ASSUME NEW r \in Ranks, NEW b \in Blocks, b \in Subtree(c)
      PROVE  /\ t.backups[r][b]
                  = Push([param |-> o.param[r][b], assigned |-> o.assigned[r][b]], o.backups[r][b])
             /\ t.cachedBackups[r][b] = Push(o.cached[r][b], o.cachedBackups[r][b])
  BY <1>1 DEF OnTop
<1>2. ASSUME NEW r \in Ranks, NEW b \in Blocks, b \notin Subtree(c)
      PROVE  t.backups[r][b] = o.backups[r][b] /\ t.cachedBackups[r][b] = o.cachedBackups[r][b]
  BY <1>2 DEF OnTop
<1>3. ASSUME NEW r \in Ranks, NEW p \in Params
      PROVE  t.defBackups[r][p] = Push(o.defAssigned[r][p], o.defBackups[r][p])
  BY <1>3 DEF OnTop
<1> QED
  BY <1>1, <1>2, <1>3 DEF OnTop

LEMMA EnterOnTop ==
  ASSUME Types, NEW c \in Retainable, NEW keep, Enter(c, keep)
  PROVE  OnTop(Snapshot', Snapshot, c)
<1>1. ASSUME NEW r \in Ranks, NEW b \in Blocks
      PROVE  IF b \in Subtree(c)
             THEN /\ backups'[r][b]
                       = Push([param |-> param[r][b], assigned |-> assigned[r][b]], backups[r][b])
                  /\ cachedBackups'[r][b] = Push(cached[r][b], cachedBackups[r][b])
             ELSE backups'[r][b] = backups[r][b] /\ cachedBackups'[r][b] = cachedBackups[r][b]
  BY DEF Enter, OnTree
<1>2. ASSUME NEW r \in Ranks, NEW p \in Params
      PROVE  defBackups'[r][p] = Push(defAssigned[r][p], defBackups[r][p])
  BY DEF Enter
<1> QED
  BY <1>1, <1>2 DEF OnTop, Snapshot

LEMMA InitRestore == Init => RestoreInv
<1> SUFFICES ASSUME Init PROVE RestoreInv
  OBVIOUS
<1>1. Types
  BY InitTypes
<1>2. retainers = <<>> /\ Levels = {0} /\ DOMAIN retainers = {}
  BY DEF Init, Levels
<1>3. FlagTells(At(0))
  BY DEF Init, FlagTells, At, Snapshot
<1> QED
  BY <1>1, <1>2, <1>3 DEF RestoreInv, Mirrored

(* An operation between two collective ones only changes the present state. *)
LEMMA LocalRestore ==
  ASSUME RestoreInv, Types', UNCHANGED <<saved, retainers, entered>>, FlagTells(Snapshot')
  PROVE  RestoreInv'
<1>1. UNCHANGED <<retainers, entered>> /\ Types
  BY DEF RestoreInv
<1>2. \A i \in Levels' : FlagTells(At(i)')
  BY <1>1, SameLevels DEF RestoreInv
<1>3. ASSUME NEW i \in DOMAIN retainers'
      PROVE  OnTop(At(i - 1)', At(i)', retainers'[i].on)
  <2>1. i \in DOMAIN retainers /\ i \in Levels \ {0} /\ At(i)' = At(i)
        /\ retainers'[i] = retainers[i]
    BY <1>1, SameLevels
  <2>2. OnTop(At(i - 1), At(i), retainers[i].on)
    BY <2>1 DEF RestoreInv, Mirrored
  <2>3. CASE i = 1
    <3>1. At(i - 1) = Snapshot /\ At(i - 1)' = Snapshot'
      BY <2>3 DEF At
    <3>2. Snapshot'.backups = Snapshot.backups /\ Snapshot'.defBackups = Snapshot.defBackups
          /\ Snapshot'.cachedBackups = Snapshot.cachedBackups
      BY DEF Snapshot, saved
    <3> QED
      BY <2>1, <2>2, <3>1, <3>2, SameChains
  <2>4. CASE i # 1
    <3>1. i - 1 \in Levels \ {0}
      BY <2>1, <2>4 DEF Levels
    <3>2. At(i - 1)' = At(i - 1)
      BY <1>1, <3>1, SameLevels
    <3> QED
      BY <2>1, <2>2, <3>2
  <2> QED
    BY <2>3, <2>4
<1> QED
  BY <1>2, <1>3 DEF RestoreInv, Mirrored

LEMMA SetParamRestore ==
  ASSUME RestoreInv, NEW r \in Ranks, NEW b \in Blocks, NEW p \in Params, NEW v \in Values,
         SetParam(r, b, p, v)
  PROVE  RestoreInv'
<1>1. Types' /\ UNCHANGED <<saved, retainers, entered>>
  BY SetParamTypes DEF RestoreInv, SetParam
<1>2. FlagTells(Snapshot)
  BY SameLevels DEF RestoreInv, At, Levels, Types
<1>3. ASSUME NEW q \in Ranks, NEW d \in Blocks, BACKUP \notin assigned'[q][d]
      PROVE  BACKUP \notin assigned[q][d] /\ param'[q][d] = param[q][d]
             /\ backups'[q][d] = backups[q][d]
  <2>1. <<q, d>> # <<r, b>>
    BY <1>3, SnapshotTypes DEF SetParam, ANYTHING, RestoreInv, Types
  <2> QED
    BY <1>1, <1>3, <2>1, SnapshotTypes DEF SetParam, RestoreInv, Types, saved
<1>4. FlagTells(Snapshot')
  BY <1>2, <1>3 DEF FlagTells, Snapshot
<1> QED
  BY <1>1, <1>4, LocalRestore

LEMMA GetAreaRestore ==
  ASSUME RestoreInv, NEW r \in Ranks, NEW b \in Blocks, GetArea(r, b)
  PROVE  RestoreInv'
<1>1. Types' /\ UNCHANGED <<saved, retainers, entered, param, assigned>>
  BY GetAreaTypes DEF RestoreInv, GetArea, ghost, flags
<1>2. FlagTells(Snapshot)
  BY DEF RestoreInv, At, Levels, Types
<1>3. FlagTells(Snapshot')
  BY <1>1, <1>2 DEF FlagTells, Snapshot, saved
<1> QED
  BY <1>1, <1>3, LocalRestore

LEMMA SyncRestore ==
  ASSUME RestoreInv, Sync
  PROVE  RestoreInv'
<1>1. Types' /\ UNCHANGED <<saved, retainers, entered>>
  BY SyncTypes DEF RestoreInv, Sync
<1>2. FlagTells(Snapshot)
  BY DEF RestoreInv, At, Levels, Types
<1>3. ASSUME NEW q \in Ranks, NEW d \in Blocks, BACKUP \notin assigned'[q][d]
      PROVE  BACKUP \notin assigned[q][d] /\ param'[q][d] = param[q][d]
  <2>1. ~ \E p \in Params : Senders(d, p) # {}
    BY <1>3 DEF Sync, ANYTHING, BACKUP, DISTRIBUTE
  <2>2. BACKUP \notin assigned[q][d]
    BY <1>3, <2>1 DEF Sync, BACKUP, DISTRIBUTE
  <2>3. param[q][d] = [p \in Params |-> param[q][d][p]]
    BY SnapshotTypes DEF RestoreInv, Types
  <2>4. param'[q][d] = [p \in Params |-> param[q][d][p]]
    BY <2>1 DEF Sync, Received
  <2> QED
    BY <2>2, <2>3, <2>4
<1>4. FlagTells(Snapshot')
  BY <1>1, <1>2, <1>3 DEF FlagTells, Snapshot, saved
<1> QED
  BY <1>1, <1>4, LocalRestore

LEMMA EnterRestore ==
  ASSUME RestoreInv, NEW c \in Retainable, NEW keep \in SUBSET Keepable, Enter(c, keep)
  PROVE  RestoreInv'
<1>1. Types /\ Types'
  BY EnterTypes DEF RestoreInv
<1>2. FlagTells(Snapshot)
  BY DEF RestoreInv, At, Levels, Types
<1>3. FlagTells(Snapshot')
  <2>1. ASSUME NEW q \in Ranks, NEW d \in Blocks, BACKUP \notin assigned'[q][d], backups'[q][d] # <<>>
        PROVE  param'[q][d] = Head(backups'[q][d]).param
    <3>1. CASE d \in Subtree(c)
      <4> DEFINE x == [param |-> param[q][d], assigned |-> assigned[q][d]]
      <4>1. backups'[q][d] = Push(x, backups[q][d]) /\ param' = param
        BY <3>1 DEF Enter, OnTree
      <4>2. x \in Backup /\ backups[q][d] \in Seq(Backup) /\ x.param = param[q][d]
        BY <1>1, SnapshotTypes DEF Types, Backup
      <4> HIDE DEF x
      <4>3. Head(Push(x, backups[q][d])) = x
        BY <4>2, Pushed
      <4> QED
        BY <4>1, <4>2, <4>3
    <3>2. CASE d \notin Subtree(c)
      <4>1. backups'[q][d] = backups[q][d] /\ assigned'[q][d] = assigned[q][d] /\ param' = param
        BY <3>2 DEF Enter, OnTree
      <4> QED
        BY <1>2, <2>1, <4>1 DEF FlagTells, Snapshot
    <3> QED
      BY <3>1, <3>2
  <2> QED
    BY <2>1 DEF FlagTells, Snapshot
<1>4. \A i \in Levels' : FlagTells(At(i)')
  BY <1>1, <1>3, EnterLevels DEF RestoreInv
<1>5. ASSUME NEW i \in DOMAIN retainers'
      PROVE  OnTop(At(i - 1)', At(i)', retainers'[i].on)
  <2>1. i \in Levels' \ {0} /\ At(i)' = At(i - 1)
    BY <1>1, <1>5, EnterLevels
  <2>2. CASE i = 1
    <3>1. At(i - 1)' = Snapshot' /\ At(i)' = Snapshot /\ retainers'[i].on = c
      BY <1>1, <2>1, <2>2, EnterLevels DEF At
    <3> QED
      BY <1>1, <3>1, EnterOnTop
  <2>3. CASE i # 1
    <3>1. i - 1 \in DOMAIN retainers /\ retainers'[i] = retainers[i - 1]
      BY <1>1, <2>1, <2>3, EnterLevels
    <3>2. i - 1 \in Levels' \ {0}
      <4>1. Len(retainers) \in Nat /\ i \in 0 .. Len(retainers) + 1
            /\ Levels' = 0 .. Len(retainers) + 1
        BY <1>1, <2>1, EnterLevels, LenProperties DEF Types
      <4> QED
        BY <2>1, <2>3, <4>1
    <3>3. At(i - 1)' = At((i - 1) - 1)
      BY <1>1, <3>2, EnterLevels
    <3>4. OnTop(At((i - 1) - 1), At(i - 1), retainers[i - 1].on)
      BY <3>1 DEF RestoreInv, Mirrored
    <3> QED
      BY <2>1, <3>1, <3>3, <3>4
  <2> QED
    BY <2>2, <2>3
<1> QED
  BY <1>1, <1>4, <1>5 DEF RestoreInv, Mirrored

LEMMA ExitRestore ==
  ASSUME RestoreInv, Exit
  PROVE  RestoreInv'
<1>1. Types /\ Mirrored /\ Types'
  BY ExitTypes DEF RestoreInv
<1> DEFINE on == Head(retainers).on
           keep == Head(retainers).keep
           o == Head(entered)
<1>2. /\ o \in Snapshots
      /\ backups' = o.backups /\ cachedBackups' = o.cachedBackups
      /\ defBackups' = o.defBackups
      /\ param' = [r \in Ranks |-> [b \in Blocks |-> [p \in Params |->
           IF b \in Subtree(on) /\ p \notin Applied(r, b, keep)
           THEN o.param[r][b][p] ELSE param[r][b][p]]]]
      /\ assigned' = [r \in Ranks |-> [b \in Blocks |->
           IF b \notin Subtree(on) THEN assigned[r][b]
           ELSE IF Applied(r, b, keep) # {} THEN ANYTHING ELSE o.assigned[r][b]]]
  BY <1>1, ExitRestores
<1>3. /\ Len(retainers) \in Nat \ {0} /\ DOMAIN retainers = 1 .. Len(retainers)
      /\ o = entered[1] /\ on = retainers[1].on /\ OnTop(Snapshot, o, on)
  BY <1>1, Innermost DEF Exit
<1> HIDE DEF on, keep, o
<1>4. FlagTells(Snapshot) /\ FlagTells(o)
  BY <1>3 DEF RestoreInv, At, Levels
<1>5. FlagTells(Snapshot')
  <2>1. ASSUME NEW q \in Ranks, NEW d \in Blocks, BACKUP \notin assigned'[q][d], backups'[q][d] # <<>>
        PROVE  param'[q][d] = Head(backups'[q][d]).param
    <3>1. backups'[q][d] = o.backups[q][d]
      BY <1>2
    <3>2. CASE d \in Subtree(on)
      <4>1. Applied(q, d, keep) = {} /\ assigned'[q][d] = o.assigned[q][d]
        BY <1>2, <2>1, <3>2 DEF ANYTHING
      <4>2. o.param[q][d] = [p \in Params |-> o.param[q][d][p]]
        BY <1>2 DEF Snapshots
      <4>3. param'[q][d] = o.param[q][d]
        BY <1>2, <3>2, <4>1, <4>2
      <4> QED
        BY <1>4, <2>1, <3>1, <4>1, <4>3 DEF FlagTells
    <3>3. CASE d \notin Subtree(on)
      <4>1. assigned'[q][d] = assigned[q][d]
        BY <1>2, <3>3
      <4>2. param[q][d] = [p \in Params |-> param[q][d][p]]
        BY <1>1, SnapshotTypes DEF Types
      <4>3. param'[q][d] = param[q][d]
        BY <1>2, <3>3, <4>2
      <4>4. backups[q][d] = o.backups[q][d]
        BY <1>3, <3>3 DEF OnTop, Snapshot
      <4> QED
        BY <1>4, <2>1, <3>1, <4>1, <4>3, <4>4 DEF FlagTells, Snapshot
    <3> QED
      BY <3>2, <3>3
  <2> QED
    BY <2>1 DEF FlagTells, Snapshot
<1>6. \A i \in Levels' : FlagTells(At(i)')
  BY <1>1, <1>5, ExitLevels DEF RestoreInv
<1>7. ASSUME NEW i \in DOMAIN retainers'
      PROVE  OnTop(At(i - 1)', At(i)', retainers'[i].on)
  <2>1. /\ i \in Levels' \ {0} /\ i + 1 \in DOMAIN retainers
        /\ At(i)' = At(i + 1) /\ retainers'[i] = retainers[i + 1]
    BY <1>1, <1>7, ExitLevels
  <2>2. OnTop(At((i + 1) - 1), At(i + 1), retainers[i + 1].on) /\ (i + 1) - 1 = i /\ i \in Int
    BY <1>1, <1>3, <2>1, ExitLevels DEF RestoreInv, Mirrored
  <2>3. CASE i = 1
    <3>1. At(i - 1)' = Snapshot' /\ At(i) = o
      BY <1>3, <2>3 DEF At
    <3>2. /\ Snapshot'.backups = o.backups /\ Snapshot'.defBackups = o.defBackups
          /\ Snapshot'.cachedBackups = o.cachedBackups
      BY <1>2 DEF Snapshot
    <3> QED
      BY <2>1, <2>2, <3>1, <3>2, SameChains
  <2>4. CASE i # 1
    <3>1. i - 1 \in Levels' \ {0}
      BY <1>1, <1>3, <2>1, <2>4, ExitLevels
    <3>2. At(i - 1)' = At((i - 1) + 1) /\ (i - 1) + 1 = i
      BY <1>1, <2>2, <3>1, ExitLevels
    <3> QED
      BY <2>1, <2>2, <3>2
  <2> QED
    BY <2>3, <2>4
<1> QED
  BY <1>1, <1>6, <1>7 DEF RestoreInv, Mirrored

LEMMA NextRestore == RestoreInv /\ [Next]_vars => RestoreInv'
<1> SUFFICES ASSUME RestoreInv, [Next]_vars PROVE RestoreInv'
  OBVIOUS
<1>1. ASSUME NEW r \in Ranks, NEW b \in Blocks, NEW p \in Params, NEW v \in Values,
             SetParam(r, b, p, v)
      PROVE  RestoreInv'
  BY <1>1, SetParamRestore
<1>2. ASSUME NEW r \in Ranks, NEW b \in Blocks, GetArea(r, b) PROVE RestoreInv'
  BY <1>2, GetAreaRestore
<1>3. ASSUME NEW c \in Retainable, NEW keep \in SUBSET Keepable, Enter(c, keep) PROVE RestoreInv'
  BY <1>3, EnterRestore
<1>4. ASSUME Exit PROVE RestoreInv'
  BY <1>4, ExitRestore
<1>5. ASSUME Sync PROVE RestoreInv'
  BY <1>5, SyncRestore
<1>6. ASSUME UNCHANGED vars PROVE RestoreInv'
  <2>1. UNCHANGED <<param, assigned, defAssigned, backups, defBackups, cached, cachedBackups,
                    retainers, failed, changed, entered>>
    BY <1>6 DEF vars, flags, saved, ghost
  <2>2. Snapshot' = Snapshot /\ UNCHANGED <<retainers, entered, failed>>
    BY <2>1 DEF Snapshot
  <2> QED
    BY <2>2 DEF RestoreInv, Types, Mirrored, Levels, At
<1> QED
  BY <1>1, <1>2, <1>3, <1>4, <1>5, <1>6 DEF Next, Aborted
-----------------------------------------------------------------------------
(* What a retained state gives back. *)

LEMMA ExitGivesBack ==
  ASSUME RestoreInv, Exit, NEW r \in Ranks, NEW b \in Blocks, NEW p \in Params
  PROVE  param'[r][b][p] =
           IF b \in Subtree(Head(retainers).on) /\ p \notin Head(retainers).keep
           THEN Head(entered).param[r][b][p] ELSE param[r][b][p]
<1> DEFINE on == Head(retainers).on
           keep == Head(retainers).keep
           o == Head(entered)
<1>1. /\ o \in Snapshots
      /\ param' = [q \in Ranks |-> [d \in Blocks |-> [x \in Params |->
           IF d \in Subtree(on) /\ x \notin Applied(q, d, keep)
           THEN o.param[q][d][x] ELSE param[q][d][x]]]]
  BY ExitRestores DEF RestoreInv
<1>2. OnTop(Snapshot, o, on)
  BY Innermost DEF RestoreInv, Exit
<1> HIDE DEF on, keep, o
<1>3. b \in Subtree(on) => backups[r][b] # <<>> /\ Head(backups[r][b]).param = o.param[r][b]
  BY <1>1, <1>2, WhatWasSaved DEF Snapshot
<1>4. ASSUME b \in Subtree(on), p \in keep, p \notin Applied(r, b, keep)
      PROVE  o.param[r][b][p] = param[r][b][p]
  <2>1. CASE BACKUP \in assigned[r][b]
    BY <1>3, <1>4, <2>1 DEF Applied
  <2>2. CASE BACKUP \notin assigned[r][b]
    <3>1. FlagTells(Snapshot)
      BY DEF RestoreInv, At, Levels, Types
    <3> QED
      BY <1>3, <1>4, <2>2, <3>1 DEF FlagTells, Snapshot
  <2> QED
    BY <2>1, <2>2
<1>5. Applied(r, b, keep) \subseteq keep
  BY DEF Applied
<1>6. param'[r][b][p] = IF b \in Subtree(on) /\ p \notin keep
                        THEN o.param[r][b][p] ELSE param[r][b][p]
  BY <1>1, <1>4, <1>5
<1> QED
  BY <1>6 DEF on, keep, o

THEOREM RestoreInvariant == Spec => []RestoreInv
<1>1. Init => RestoreInv
  BY InitRestore
<1>2. RestoreInv /\ [Next]_vars => RestoreInv'
  BY NextRestore
<1> QED
  BY <1>1, <1>2, PTL DEF Spec

(* However deep retained states are nested, whatever is assigned, kept or  *)
(* synchronized within them, one that is left has given back every value   *)
(* of its tree that it does not keep, and touched nothing else.            *)
THEOREM ValuesAreRestored == Spec => RestoresValues
<1>1. RestoreInv /\ Exit =>
        \A r \in Ranks, b \in Blocks, p \in Params :
          param'[r][b][p] =
            IF b \in Subtree(Head(retainers).on) /\ p \notin Head(retainers).keep
            THEN Head(entered).param[r][b][p] ELSE param[r][b][p]
  BY ExitGivesBack
<1> QED
  BY <1>1, RestoreInvariant, PTL DEF RestoresValues
-----------------------------------------------------------------------------
(* Cached areas.  A retainer puts the cache of when it was entered back,   *)
(* so that dimensions must not be among what it keeps.                     *)

NoDimensionIsKept == Keepable \cap Dimensions = {}

LEMMA InitArea == Init => AreaInv
<1> SUFFICES ASSUME Init PROVE AreaInv
  OBVIOUS
<1>1. Levels = {0}
  BY DEF Init, Levels
<1>2. AreaFollows(At(0))
  BY DEF Init, AreaFollows, At, Snapshot, NothingCached
<1> QED
  BY <1>1, <1>2 DEF AreaInv

LEMMA LocalArea ==
  ASSUME Types, AreaInv, UNCHANGED <<retainers, entered>>, AreaFollows(Snapshot')
  PROVE  AreaInv'
<1>1. \A i \in Levels' : AreaFollows(At(i)')
  BY SameLevels DEF AreaInv
<1> QED
  BY <1>1 DEF AreaInv

LEMMA AreaOfSnapshot ==
  AreaFollows(Snapshot) <=> AreaIsCurrent
BY DEF AreaFollows, Snapshot, AreaIsCurrent, Area

LEMMA NextArea ==
  ASSUME NoDimensionIsKept, RestoreInv, AreaInv, [Next]_vars
  PROVE  AreaInv'
<1>1. Types /\ Mirrored /\ AreaFollows(Snapshot)
  BY DEF RestoreInv, AreaInv, At, Levels, Types
<1>2. param \in [Ranks -> [Blocks -> [Params -> Values]]]
      /\ cached \in [Ranks -> [Blocks -> Areas]]
  BY <1>1, SnapshotTypes DEF Types
<1>3. \A r \in Ranks, b \in Blocks :
        cached[r][b] \in {Unset, [d \in Dimensions |-> param[r][b][d]]}
  BY <1>1 DEF AreaFollows, Snapshot
<1>4. ASSUME NEW r \in Ranks, NEW b \in Blocks, NEW p \in Params, NEW v \in Values,
             SetParam(r, b, p, v)
      PROVE  AreaInv'
  <2>1. UNCHANGED <<retainers, entered>>
    BY <1>4 DEF SetParam
  <2>2. ASSUME NEW q \in Ranks, NEW d \in Blocks
        PROVE  cached'[q][d] \in {Unset, [x \in Dimensions |-> param'[q][d][x]]}
    <3>1. CASE q = r /\ d = b /\ p \in Dimensions
      <4>1. cached' = [cached EXCEPT ![r][b] = Unset]
        BY <1>4, <3>1 DEF SetParam
      <4> QED
        BY <1>2, <3>1, <4>1
    <3>2. CASE ~(q = r /\ d = b /\ p \in Dimensions)
      <4>1. cached'[q][d] = cached[q][d]
        BY <1>2, <1>4, <3>2 DEF SetParam
      <4>2. \A x \in Params : <<q, d, x>> # <<r, b, p>> => param'[q][d][x] = param[q][d][x]
        BY <1>2, <1>4 DEF SetParam
      <4>3. [x \in Dimensions |-> param'[q][d][x]] = [x \in Dimensions |-> param[q][d][x]]
        BY <3>2, <4>2, RetainerAssumption
      <4> QED
        BY <1>3, <4>1, <4>3
    <3> QED
      BY <3>1, <3>2
  <2>3. AreaFollows(Snapshot')
    BY <2>2 DEF AreaFollows, Snapshot
  <2> QED
    BY <1>1, <2>1, <2>3, LocalArea
<1>5. ASSUME NEW r \in Ranks, NEW b \in Blocks, GetArea(r, b)
      PROVE  AreaInv'
  <2>1. UNCHANGED <<retainers, entered, param>>
        /\ cached' = [cached EXCEPT ![r][b] = [d \in Dimensions |-> param[r][b][d]]]
    BY <1>5 DEF GetArea, ghost, Area
  <2>2. \A q \in Ranks, d \in Blocks :
          cached'[q][d] \in {Unset, [x \in Dimensions |-> param'[q][d][x]]}
    BY <1>2, <1>3, <2>1
  <2>3. AreaFollows(Snapshot')
    BY <2>2 DEF AreaFollows, Snapshot
  <2> QED
    BY <1>1, <2>1, <2>3, LocalArea
<1>6. ASSUME NEW c \in Retainable, NEW keep \in SUBSET Keepable, Enter(c, keep)
      PROVE  AreaInv'
  <2>1. AreaFollows(Snapshot')
    <3>1. \A q \in Ranks, d \in Blocks : cached'[q][d] \in {Unset, cached[q][d]}
      BY <1>6 DEF Enter, OnTree, NothingCached
    <3>2. param' = param
      BY <1>6 DEF Enter
    <3> QED
      BY <1>3, <3>1, <3>2 DEF AreaFollows, Snapshot
  <2>2. \A i \in Levels' : AreaFollows(At(i)')
    BY <1>1, <1>6, <2>1, EnterLevels DEF AreaInv
  <2> QED
    BY <2>2 DEF AreaInv
<1>7. ASSUME Exit PROVE AreaInv'
  <2> DEFINE on == Head(retainers).on
             keep == Head(retainers).keep
             o == Head(entered)
  <2>1. o = entered[1] /\ Len(retainers) \in Nat \ {0}
    BY <1>1, <1>7, Innermost DEF Exit
  <2>2. AreaFollows(o)
    BY <2>1 DEF AreaInv, At, Levels
  <2>3. cached' = [r \in Ranks |-> [b \in Blocks |->
               IF b \in Subtree(on) THEN o.cached[r][b] ELSE cached[r][b]]]
        /\ keep \in SUBSET Keepable
    BY <1>1, <1>7, ExitRestores
  <2>4. \A r \in Ranks, b \in Blocks, p \in Params :
          param'[r][b][p] =
            IF b \in Subtree(on) /\ p \notin keep THEN o.param[r][b][p] ELSE param[r][b][p]
    BY <1>7, ExitGivesBack
  <2> HIDE DEF on, keep, o
  <2>5. ASSUME NEW q \in Ranks, NEW d \in Blocks
        PROVE  cached'[q][d] \in {Unset, [x \in Dimensions |-> param'[q][d][x]]}
    <3>1. CASE d \in Subtree(on)
      <4>1. \A x \in Dimensions : param'[q][d][x] = o.param[q][d][x]
        BY <2>3, <2>4, <3>1, RetainerAssumption DEF NoDimensionIsKept
      <4>2. [x \in Dimensions |-> param'[q][d][x]] = [x \in Dimensions |-> o.param[q][d][x]]
        BY <4>1
      <4>3. cached'[q][d] = o.cached[q][d]
        BY <2>3, <3>1
      <4> QED
        BY <2>2, <4>2, <4>3 DEF AreaFollows
    <3>2. CASE d \notin Subtree(on)
      <4>1. \A x \in Dimensions : param'[q][d][x] = param[q][d][x]
        BY <2>4, <3>2, RetainerAssumption
      <4>2. [x \in Dimensions |-> param'[q][d][x]] = [x \in Dimensions |-> param[q][d][x]]
        BY <4>1
      <4>3. cached'[q][d] = cached[q][d]
        BY <2>3, <3>2
      <4> QED
        BY <1>3, <4>2, <4>3
    <3> QED
      BY <3>1, <3>2
  <2>6. AreaFollows(Snapshot')
    BY <2>5 DEF AreaFollows, Snapshot
  <2>7. \A i \in Levels' : AreaFollows(At(i)')
    BY <1>1, <1>7, <2>6, ExitLevels DEF AreaInv
  <2> QED
    BY <2>7 DEF AreaInv
<1>8. ASSUME Sync PROVE AreaInv'
  <2>1. UNCHANGED <<retainers, entered>>
    BY <1>8 DEF Sync
  <2>2. AreaFollows(Snapshot')
    BY <1>8 DEF Sync, SyncedCache, NothingCached, AreaFollows, Snapshot
  <2> QED
    BY <1>1, <2>1, <2>2, LocalArea
<1>9. ASSUME UNCHANGED vars PROVE AreaInv'
  <2>1. UNCHANGED <<retainers, entered, param, cached>>
    BY <1>9 DEF vars, ghost
  <2>2. AreaFollows(Snapshot')
    BY <1>3, <2>1 DEF AreaFollows, Snapshot
  <2> QED
    BY <1>1, <2>1, <2>2, LocalArea
<1> QED
  BY <1>4, <1>5, <1>6, <1>7, <1>8, <1>9 DEF Next, Aborted

(* While no dimension is among what retained states keep, a cached area is *)
(* the area of the dimensions the block has, through any nesting of        *)
(* retained states that put caches back and of synchronizations.           *)
THEOREM AreaStaysCurrent ==
  ASSUME NoDimensionIsKept
  PROVE  Spec => []AreaIsCurrent
<1>1. Init => AreaInv
  BY InitArea
<1>2. RestoreInv /\ AreaInv /\ [Next]_vars => AreaInv'
  BY NextArea
<1>3. RestoreInv /\ AreaInv => AreaIsCurrent
  BY AreaOfSnapshot DEF RestoreInv, AreaInv, At, Levels, Types
<1> QED
  BY <1>1, <1>2, <1>3, RestoreInvariant, PTL DEF Spec
-----------------------------------------------------------------------------
(* The ranks.  A program changes only what is in the innermost retained    *)
(* tree, and does not synchronize while a retainer has parameters to keep: *)
(* their flags may be those of before the synchronization.                 *)

Disciplined == ~ChangesOutside /\ ~SyncsKept

LEMMA InitAgree == Init => AgreeInv
<1> SUFFICES ASSUME Init PROVE AgreeInv
  OBVIOUS
<1>1. Levels = {0}
  BY DEF Init, Levels
<1>2. Marked(At(0))
  BY DEF Init, Marked, At, Snapshot
<1>3. Agreed(At(0))
  <2>1. PICK v : param = [r \in Ranks |-> [b \in Blocks |-> [p \in Params |-> v]]]
    BY DEF Init
  <2> QED
    BY <2>1 DEF Agreed, At, Snapshot
<1> QED
  BY <1>1, <1>2, <1>3 DEF AgreeInv

(* What holds at the levels under the present state still does.            *)
LEMMA LocalAgree ==
  ASSUME Types, Types', AgreeInv, ~failed, UNCHANGED <<retainers, entered>>,
         Marked(Snapshot'), Agreed(Snapshot'),
         \A i \in DOMAIN retainers :
           Since(Snapshot, At(i), retainers[i]) => Since(Snapshot', At(i), retainers[i])
  PROVE  AgreeInv'
<1>1. \A i \in Levels : Marked(At(i)) /\ Agreed(At(i))
  BY DEF AgreeInv
<1>2. \A i, j \in Levels : j < i => Since(At(j), At(i), retainers[i])
  BY DEF AgreeInv
<1>3. /\ Levels' = Levels /\ 0 \in Levels /\ At(0)' = Snapshot' /\ At(0) = Snapshot
      /\ \A i \in Levels \ {0} : At(i)' = At(i)
      /\ DOMAIN retainers = Levels \ {0} /\ retainers' = retainers
  BY SameLevels
<1>4. \A i \in Levels' : Marked(At(i)') /\ Agreed(At(i)')
  BY <1>1, <1>3
<1>5. ASSUME NEW i \in Levels', NEW j \in Levels', j < i
      PROVE  Since(At(j)', At(i)', retainers'[i])
  <2>1. i # 0 /\ i \in Levels \ {0} /\ At(i)' = At(i)
    BY <1>3, <1>5 DEF Levels
  <2>2. CASE j = 0
    <3>1. Since(Snapshot, At(i), retainers[i])
      BY <1>2, <1>3, <1>5, <2>1, <2>2
    <3> QED
      BY <1>3, <2>1, <2>2, <3>1
  <2>3. CASE j # 0
    BY <1>2, <1>3, <1>5, <2>1, <2>3
  <2> QED
    BY <2>2, <2>3
<1> QED
  BY <1>4, <1>5 DEF AgreeInv

LEMMA SetParamAgree ==
  ASSUME Disciplined, Types, Types', AgreeInv,
         NEW r \in Ranks, NEW b \in Blocks, NEW p \in Params, NEW v \in Values,
         SetParam(r, b, p, v)
  PROVE  AgreeInv'
<1>1. ~failed /\ UNCHANGED <<retainers, entered>> /\ Retained(b)
      /\ param' = [param EXCEPT ![r][b][p] = v]
      /\ assigned' = [assigned EXCEPT ![r][b] = ANYTHING]
      /\ defAssigned' = [defAssigned EXCEPT ![r][p] = ANYTHING]
      /\ changed' = [changed EXCEPT ![r] = @ \cup {<<b, p>>}]
  BY DEF SetParam, MayChange, Disciplined
<1>2. /\ param \in [Ranks -> [Blocks -> [Params -> Values]]]
      /\ assigned \in [Ranks -> [Blocks -> Flags]]
      /\ defAssigned \in [Ranks -> [Params -> Flags]]
      /\ changed \in [Ranks -> SUBSET (Blocks \X Params)]
  BY SnapshotTypes DEF Types
<1>3. Marked(Snapshot) /\ Agreed(Snapshot)
  BY <1>1 DEF AgreeInv, At, Levels, Types
<1>4. \A q \in Ranks : changed[q] \subseteq changed'[q]
                       /\ \A x \in changed'[q] : x \in changed[q] \/ (q = r /\ x = <<b, p>>)
  BY <1>1, <1>2
<1>5. \A q \in Ranks, d \in Blocks, x \in Params :
        /\ DISTRIBUTE \in assigned[q][d] => DISTRIBUTE \in assigned'[q][d]
        /\ DISTRIBUTE \in defAssigned[q][x] => DISTRIBUTE \in defAssigned'[q][x]
  BY <1>1, <1>2 DEF ANYTHING
<1>6. DISTRIBUTE \in assigned'[r][b] /\ DISTRIBUTE \in defAssigned'[r][p]
  BY <1>1, <1>2 DEF ANYTHING
<1>7. Marked(Snapshot')
  BY <1>3, <1>4, <1>5, <1>6 DEF Marked, Snapshot
<1>8. \A q \in Ranks, d \in Blocks, x \in Params :
        <<d, x>> \in changed'[q] \/ param'[q][d][x] = param[q][d][x]
  <2>1. ASSUME NEW q \in Ranks, NEW d \in Blocks, NEW x \in Params,
               ~(q = r /\ d = b /\ x = p)
        PROVE  param'[q][d][x] = param[q][d][x]
    BY <1>1, <1>2, <2>1
  <2>2. <<b, p>> \in changed'[r]
    BY <1>1, <1>2
  <2> QED
    BY <2>1, <2>2
<1>9. Agreed(Snapshot')
  <2> SUFFICES ASSUME NEW q \in Ranks, NEW s \in Ranks, NEW d \in Blocks, NEW x \in Params
               PROVE  \/ <<d, x>> \in Snapshot'.changed[q] \/ <<d, x>> \in Snapshot'.changed[s]
                      \/ Snapshot'.param[q][d][x] = Snapshot'.param[s][d][x]
    BY DEF Agreed
  <2> SUFFICES ASSUME <<d, x>> \notin changed'[q], <<d, x>> \notin changed'[s]
               PROVE  param'[q][d][x] = param'[s][d][x]
    BY DEF Snapshot
  <2>1. <<d, x>> \notin changed'[q] /\ <<d, x>> \notin changed'[s]
    OBVIOUS
  <2>2. param'[q][d][x] = param[q][d][x] /\ param'[s][d][x] = param[s][d][x]
    BY <1>8, <2>1
  <2>3. <<d, x>> \notin changed[q] /\ <<d, x>> \notin changed[s]
    BY <1>4, <2>1
  <2>4. param[q][d][x] = param[s][d][x]
    BY <1>3, <2>3 DEF Agreed, Snapshot
  <2> QED
    BY <2>2, <2>4
<1>10. ASSUME NEW i \in DOMAIN retainers, Since(Snapshot, At(i), retainers[i])
       PROVE  Since(Snapshot', At(i), retainers[i])
  <2>1. b \in Subtree(retainers[i].on)
    BY <1>1 DEF Retained, Subtree
  <2>2. ASSUME NEW q \in Ranks, NEW d \in Blocks \ Subtree(retainers[i].on), NEW x \in Params,
               <<d, x>> \in changed'[q]
        PROVE  <<d, x>> \in At(i).changed[q]
    <3>1. <<d, x>> \in changed[q]
      BY <1>4, <2>1, <2>2
    <3> QED
      BY <1>10, <3>1 DEF Since, Snapshot
  <2>3. ASSUME retainers[i].keep # {}, NEW q \in Ranks, NEW x \in Params
        PROVE  /\ DISTRIBUTE \in At(i).defAssigned[q][x] => DISTRIBUTE \in defAssigned'[q][x]
               /\ \A d \in Blocks :
                    <<d, x>> \notin changed'[q] => param'[q][d][x] = At(i).param[q][d][x]
    <3>1. DISTRIBUTE \in At(i).defAssigned[q][x] => DISTRIBUTE \in defAssigned[q][x]
      BY <1>10, <2>3 DEF Since, Snapshot
    <3>2. \A d \in Blocks : <<d, x>> \notin changed[q] => param[q][d][x] = At(i).param[q][d][x]
      BY <1>10, <2>3 DEF Since, Snapshot
    <3> QED
      BY <1>4, <1>5, <1>8, <3>1, <3>2
  <2> QED
    BY <2>2, <2>3 DEF Since, Snapshot
<1> QED
  BY <1>1, <1>7, <1>9, <1>10, LocalAgree

(* A synchronization leaves all ranks with the same values.                *)
LEMMA SyncAgree ==
  ASSUME Disciplined, Types, Types', AgreeInv, Sync
  PROVE  AgreeInv'
<1>1. CASE failed'
  BY <1>1 DEF AgreeInv
<1>2. CASE ~failed'
  <2>1. /\ ~failed /\ ~Overlap /\ UNCHANGED <<retainers, entered>>
        /\ changed' = [r \in Ranks |-> {}]
        /\ param' = [r \in Ranks |-> [b \in Blocks |-> [p \in Params |-> Received(r, b, p)]]]
        /\ \A i \in DOMAIN retainers : retainers[i].keep = {}
    BY <1>2 DEF Sync, Disciplined
  <2>2. Marked(Snapshot) /\ Agreed(Snapshot)
    BY <2>1 DEF AgreeInv, At, Levels, Types
  <2>3. Marked(Snapshot')
    BY <2>1 DEF Marked, Snapshot
  <2>4. ASSUME NEW r \in Ranks, NEW q \in Ranks, NEW b \in Blocks, NEW p \in Params
        PROVE  Received(r, b, p) = Received(q, b, p)
    <3>1. CASE Senders(b, p) = {}
      <4>1. <<b, p>> \notin changed[r] \cup changed[q]
        BY <2>2, <3>1 DEF Marked, Snapshot, Senders, SyncData
      <4>2. param[r][b][p] = param[q][b][p]
        BY <2>2, <4>1 DEF Agreed, Snapshot
      <4> QED
        BY <3>1, <4>2 DEF Received
    <3>2. CASE Senders(b, p) # {}
      BY <3>2 DEF Received
    <3> QED
      BY <3>1, <3>2
  <2>5. Agreed(Snapshot')
    BY <2>1, <2>4 DEF Agreed, Snapshot
  <2>6. \A i \in DOMAIN retainers : Since(Snapshot', At(i), retainers[i])
    BY <2>1 DEF Since, Snapshot
  <2> QED
    BY <2>1, <2>3, <2>5, <2>6, LocalAgree
<1> QED
  BY <1>1, <1>2

(* States that differ in nothing that the ranks exchange. *)
LEMMA SinceOnlyReads ==
  ASSUME NEW s, NEW t, NEW o, NEW n, Since(s, o, n),
         t.changed = s.changed, t.defAssigned = s.defAssigned, t.param = s.param
  PROVE  Since(t, o, n)
BY DEF Since

LEMMA EnterAgree ==
  ASSUME Types, Types', AgreeInv,
         NEW c \in Retainable, NEW keep \in SUBSET Keepable, Enter(c, keep)
  PROVE  AgreeInv'
<1>1. ~failed /\ UNCHANGED <<param, defAssigned, changed, failed>>
  BY DEF Enter
<1>2. \A i \in Levels : Marked(At(i)) /\ Agreed(At(i))
  BY <1>1 DEF AgreeInv
<1>3. \A i, j \in Levels : j < i => Since(At(j), At(i), retainers[i])
  BY <1>1 DEF AgreeInv
<1>4. Len(retainers) \in Nat /\ 0 \in Levels /\ At(0) = Snapshot
  BY LenProperties DEF Types, Levels, At
<1>5. Marked(Snapshot) /\ Agreed(Snapshot)
  BY <1>2, <1>4
<1>6. \A q \in Ranks, d \in Blocks : DISTRIBUTE \in assigned[q][d] => DISTRIBUTE \in assigned'[q][d]
  BY DEF Enter, OnTree, DISTRIBUTE, BACKUP
<1>7. Marked(Snapshot') /\ Agreed(Snapshot')
  BY <1>1, <1>5, <1>6 DEF Marked, Agreed, Snapshot
<1>8. \A i \in Levels' : Marked(At(i)') /\ Agreed(At(i)')
  BY <1>2, <1>7, EnterLevels
<1>9. ASSUME NEW i \in Levels', NEW j \in Levels', j < i
      PROVE  Since(At(j)', At(i)', retainers'[i])
  <2>1. Levels' = 0 .. Len(retainers) + 1 /\ i \in Levels' \ {0}
        /\ i - 1 \in Levels /\ At(i)' = At(i - 1)
    <3>1. Levels' = 0 .. Len(retainers) + 1
      BY EnterLevels
    <3>2. i # 0
      BY <1>4, <1>9, <3>1
    <3> QED
      BY <3>1, <3>2, EnterLevels
  <2>2. \E k \in Levels : /\ At(j)'.changed = At(k).changed /\ At(j)'.param = At(k).param
                          /\ At(j)'.defAssigned = At(k).defAssigned
                          /\ k = (IF j = 0 THEN 0 ELSE j - 1)
    <3>1. CASE j = 0
      <4>1. At(j)' = Snapshot'
        BY <3>1, EnterLevels
      <4> QED
        BY <1>1, <1>4, <3>1, <4>1 DEF Snapshot
    <3>2. CASE j # 0
      <4>1. j - 1 \in Levels /\ At(j)' = At(j - 1)
        BY <3>2, EnterLevels
      <4> QED
        BY <3>2, <4>1
    <3> QED
      BY <3>1, <3>2
  <2>3. PICK k \in Levels : /\ At(j)'.changed = At(k).changed /\ At(j)'.param = At(k).param
                            /\ At(j)'.defAssigned = At(k).defAssigned
                            /\ k = (IF j = 0 THEN 0 ELSE j - 1)
    BY <2>2
  <2>4. CASE i = 1
    <3>1. At(i)' = Snapshot /\ At(k) = Snapshot
      BY <1>4, <1>9, <2>1, <2>3, <2>4 DEF Levels
    <3>2. Since(At(j)', Snapshot, retainers'[i])
      BY <2>3, <3>1 DEF Since
    <3> QED
      BY <3>1, <3>2
  <2>5. CASE i # 1
    <3>1. retainers'[i] = retainers[i - 1]
      BY <2>1, <2>5, EnterLevels
    <3>2. k < i - 1
      BY <1>4, <1>9, <2>1, <2>3, <2>5
    <3>3. Since(At(k), At(i - 1), retainers[i - 1])
      BY <1>3, <2>1, <3>2
    <3> QED
      BY <2>1, <2>3, <3>1, <3>3, SinceOnlyReads
  <2> QED
    BY <2>4, <2>5
<1> QED
  BY <1>8, <1>9 DEF AgreeInv

(* What a retainer leaves of the marks and of what the ranks know to have  *)
(* assigned, when it was entered in o.                                     *)
LEMMA ExitAgree ==
  ASSUME RestoreInv, Types', AgreeInv, Exit
  PROVE  AgreeInv'
<1> DEFINE on == Head(retainers).on
           keep == Head(retainers).keep
           o == Head(entered)
<1>1. Types /\ Mirrored /\ UNCHANGED failed
  BY DEF RestoreInv, Exit
<1>2. CASE failed
  BY <1>1, <1>2 DEF AgreeInv
<1>3. CASE ~failed
  <2>1. /\ assigned' = [r \in Ranks |-> [b \in Blocks |->
             IF b \notin Subtree(on) THEN assigned[r][b]
             ELSE IF Applied(r, b, keep) # {} THEN ANYTHING ELSE o.assigned[r][b]]]
        /\ defAssigned' = [r \in Ranks |-> [p \in Params |->
             IF p \notin keep THEN o.defAssigned[r][p]
             ELSE IF \E b \in Subtree(on) : p \in Applied(r, b, keep)
                  THEN ANYTHING ELSE defAssigned[r][p]]]
        /\ o \in Snapshots /\ on \in Retainable
    BY <1>1, ExitRestores
  <2>2. \A r \in Ranks, b \in Blocks, p \in Params :
          param'[r][b][p] =
            IF b \in Subtree(on) /\ p \notin keep THEN o.param[r][b][p] ELSE param[r][b][p]
    BY ExitGivesBack
  <2>3. changed' = [r \in Ranks |->
          {x \in changed[r] : x[1] \notin Subtree(on) \/ x[2] \in Applied(r, x[1], keep)}
          \cup {x \in o.changed[r] : x[1] \in Subtree(on)}]
    BY DEF Exit
  <2>4. /\ Len(retainers) \in Nat \ {0} /\ DOMAIN retainers = 1 .. Len(retainers)
        /\ o = entered[1] /\ on = retainers[1].on /\ keep = retainers[1].keep
        /\ OnTop(Snapshot, o, on)
    BY <1>1, Innermost DEF Exit
  <2> HIDE DEF on, keep, o
  <2>5. 0 \in Levels /\ 1 \in Levels /\ At(0) = Snapshot /\ At(1) = o
    BY <2>4 DEF Levels, At
  <2>6. Marked(Snapshot) /\ Agreed(Snapshot) /\ Marked(o) /\ Agreed(o)
    BY <1>3, <2>5 DEF AgreeInv
  <2>7. \A i, j \in Levels : j < i => Since(At(j), At(i), retainers[i])
    BY <1>3 DEF AgreeInv
  <2>8. Since(Snapshot, o, retainers[1])
    BY <2>5, <2>7
  (* What is assigned afterwards was assigned now or on entry. *)
  <2>9. ASSUME NEW r \in Ranks, NEW b \in Blocks, NEW p \in Params
        PROVE  <<b, p>> \in changed'[r] <=>
                 \/ <<b, p>> \in changed[r] /\ (b \notin Subtree(on) \/ p \in Applied(r, b, keep))
                 \/ <<b, p>> \in o.changed[r] /\ b \in Subtree(on)
    BY <2>3
  <2>10. ASSUME NEW r \in Ranks, NEW b \in Blocks, NEW p \in Params,
                b \in Subtree(on), p \in keep, p \notin Applied(r, b, keep)
         PROVE  param[r][b][p] = o.param[r][b][p]
    <3>1. backups[r][b] # <<>> /\ Head(backups[r][b]).param = o.param[r][b]
      BY <2>1, <2>4, <2>10, WhatWasSaved DEF Snapshot
    <3>2. CASE BACKUP \in assigned[r][b]
      BY <2>10, <3>1, <3>2 DEF Applied
    <3>3. CASE BACKUP \notin assigned[r][b]
      <4>1. FlagTells(Snapshot)
        BY <2>5 DEF RestoreInv
      <4> QED
        BY <3>1, <3>3, <4>1 DEF FlagTells, Snapshot
    <3> QED
      BY <3>2, <3>3
  <2>11. \A r \in Ranks, b \in Blocks, p \in Params : p \in Applied(r, b, keep) => p \in keep
    BY DEF Applied
  (* Either the value is the one of entry, or nothing to keep was assigned. *)
  <2>12. ASSUME NEW r \in Ranks, NEW b \in Blocks, NEW p \in Params, <<b, p>> \notin changed'[r]
         PROVE  \/ <<b, p>> \notin changed[r] /\ param'[r][b][p] = param[r][b][p]
                   /\ (b \in Subtree(on) => p \in keep)
                \/ <<b, p>> \notin o.changed[r] /\ param'[r][b][p] = o.param[r][b][p]
                   /\ b \in Subtree(on)
    <3>1. CASE b \notin Subtree(on)
      BY <2>2, <2>9, <2>12, <3>1
    <3>2. CASE b \in Subtree(on) /\ p \notin keep
      BY <2>2, <2>9, <2>12, <3>2
    <3>3. CASE b \in Subtree(on) /\ p \in keep
      BY <2>2, <2>9, <2>10, <2>12, <3>3
    <3> QED
      BY <3>1, <3>2, <3>3
  <2>13. Marked(Snapshot')
    <3>1. ASSUME NEW r \in Ranks, NEW b \in Blocks, NEW p \in Params, <<b, p>> \in changed'[r]
          PROVE  DISTRIBUTE \in assigned'[r][b] /\ DISTRIBUTE \in defAssigned'[r][p]
      <4>1. CASE b \notin Subtree(on)
        <5>1. <<b, p>> \in changed[r] /\ <<b, p>> \in o.changed[r]
          BY <2>4, <2>8, <2>9, <3>1, <4>1 DEF Since, Snapshot
        <5>2. /\ DISTRIBUTE \in assigned[r][b] /\ DISTRIBUTE \in defAssigned[r][p]
              /\ DISTRIBUTE \in o.defAssigned[r][p]
          BY <2>6, <5>1 DEF Marked, Snapshot
        <5> QED
          BY <2>1, <4>1, <5>2 DEF ANYTHING
      <4>2. CASE b \in Subtree(on) /\ p \in Applied(r, b, keep)
        BY <2>1, <2>11, <4>2 DEF ANYTHING
      <4>3. CASE b \in Subtree(on) /\ <<b, p>> \in o.changed[r]
        <5>1. DISTRIBUTE \in o.assigned[r][b] /\ DISTRIBUTE \in o.defAssigned[r][p]
          BY <2>6, <4>3 DEF Marked
        <5>2. p \in keep => DISTRIBUTE \in defAssigned[r][p]
          BY <2>4, <2>8, <5>1 DEF Since, Snapshot
        <5> QED
          BY <2>1, <4>3, <5>1, <5>2 DEF ANYTHING
      <4> QED
        BY <2>9, <3>1, <4>1, <4>2, <4>3
    <3> QED
      BY <3>1 DEF Marked, Snapshot
  <2>14. Agreed(Snapshot')
    <3> SUFFICES ASSUME NEW r \in Ranks, NEW q \in Ranks, NEW b \in Blocks, NEW p \in Params
                 PROVE  \/ <<b, p>> \in Snapshot'.changed[r] \/ <<b, p>> \in Snapshot'.changed[q]
                        \/ Snapshot'.param[r][b][p] = Snapshot'.param[q][b][p]
      BY DEF Agreed
    <3> SUFFICES ASSUME <<b, p>> \notin changed'[r], <<b, p>> \notin changed'[q]
                 PROVE  param'[r][b][p] = param'[q][b][p]
      BY DEF Snapshot
    <3>1. <<b, p>> \notin changed'[r] /\ <<b, p>> \notin changed'[q]
      OBVIOUS
    <3>2. param'[r][b][p] = param'[q][b][p]
      <4>1. CASE b \in Subtree(on) /\ p \in keep
        <5>1. /\ <<b, p>> \notin changed[r] => param[r][b][p] = o.param[r][b][p]
              /\ <<b, p>> \notin changed[q] => param[q][b][p] = o.param[q][b][p]
          BY <2>4, <2>8, <4>1 DEF Since, Snapshot
        <5>2. /\ param'[r][b][p] = o.param[r][b][p] /\ <<b, p>> \notin o.changed[r]
              /\ param'[q][b][p] = o.param[q][b][p] /\ <<b, p>> \notin o.changed[q]
          BY <2>9, <2>12, <3>1, <4>1, <5>1
        <5> QED
          BY <2>6, <5>2 DEF Agreed
      <4>2. CASE b \in Subtree(on) /\ p \notin keep
        BY <2>6, <2>12, <3>1, <4>2 DEF Agreed
      <4>3. CASE b \notin Subtree(on)
        BY <2>6, <2>12, <3>1, <4>3 DEF Agreed, Snapshot
      <4> QED
        BY <4>1, <4>2, <4>3
    <3> QED
      BY <3>2
  <2>15. ASSUME NEW i \in DOMAIN retainers, i > 1
         PROVE  Since(Snapshot', At(i), retainers[i])
    <3>1. Since(Snapshot, At(i), retainers[i]) /\ Since(o, At(i), retainers[i])
      BY <2>4, <2>5, <2>7, <2>15 DEF Levels
    <3>2. ASSUME NEW r \in Ranks, NEW b \in Blocks \ Subtree(retainers[i].on), NEW p \in Params,
                 <<b, p>> \in changed'[r]
          PROVE  <<b, p>> \in At(i).changed[r]
      BY <2>9, <3>1, <3>2 DEF Since, Snapshot
    <3>3. ASSUME retainers[i].keep # {}, NEW r \in Ranks, NEW p \in Params,
                 DISTRIBUTE \in At(i).defAssigned[r][p]
          PROVE  DISTRIBUTE \in defAssigned'[r][p]
      <4>1. DISTRIBUTE \in defAssigned[r][p] /\ DISTRIBUTE \in o.defAssigned[r][p]
        BY <3>1, <3>3 DEF Since, Snapshot
      <4> QED
        BY <2>1, <4>1 DEF ANYTHING
    <3>4. ASSUME retainers[i].keep # {}, NEW r \in Ranks, NEW p \in Params, NEW b \in Blocks,
                 <<b, p>> \notin changed'[r]
          PROVE  param'[r][b][p] = At(i).param[r][b][p]
      <4>1. <<b, p>> \notin changed[r] => param[r][b][p] = At(i).param[r][b][p]
        BY <3>1, <3>4 DEF Since, Snapshot
      <4>2. <<b, p>> \notin o.changed[r] => o.param[r][b][p] = At(i).param[r][b][p]
        BY <3>1, <3>4 DEF Since
      <4> QED
        BY <2>12, <3>4, <4>1, <4>2
    <3> QED
      BY <3>2, <3>3, <3>4 DEF Since, Snapshot
  <2>16. \A i \in Levels' : Marked(At(i)') /\ Agreed(At(i)')
    BY <1>1, <1>3, <2>13, <2>14, ExitLevels DEF AgreeInv
  <2>17. ASSUME NEW i \in Levels', NEW j \in Levels', j < i
         PROVE  Since(At(j)', At(i)', retainers'[i])
    <3>1. i \in Levels' \ {0} /\ i \in Nat /\ j \in Nat
      BY <1>1, <2>4, <2>17, ExitLevels
    <3>2. /\ i + 1 \in Levels /\ i + 1 \in DOMAIN retainers
          /\ At(i)' = At(i + 1) /\ retainers'[i] = retainers[i + 1]
      BY <1>1, <3>1, ExitLevels
    <3>3. CASE j = 0
      <4>1. Since(Snapshot', At(i + 1), retainers[i + 1])
        BY <2>15, <3>1, <3>2
      <4> QED
        BY <1>1, <3>2, <3>3, <4>1, ExitLevels
    <3>4. CASE j # 0
      <4>1. j + 1 \in Levels /\ At(j)' = At(j + 1) /\ j + 1 < i + 1
        BY <1>1, <2>17, <3>1, <3>4, ExitLevels
      <4>2. Since(At(j + 1), At(i + 1), retainers[i + 1])
        BY <2>7, <3>2, <4>1
      <4> QED
        BY <3>2, <4>1, <4>2
    <3> QED
      BY <3>3, <3>4
  <2> QED
    BY <2>16, <2>17 DEF AgreeInv
<1> QED
  BY <1>2, <1>3

LEMMA NextAgree ==
  ASSUME Disciplined, RestoreInv, AgreeInv, [Next]_vars
  PROVE  AgreeInv'
<1>1. Types /\ Types'
  BY NextRestore DEF RestoreInv
<1>2. ASSUME NEW r \in Ranks, NEW b \in Blocks, NEW p \in Params, NEW v \in Values,
             SetParam(r, b, p, v)
      PROVE  AgreeInv'
  BY <1>1, <1>2, SetParamAgree
<1>3. ASSUME UNCHANGED <<param, assigned, defAssigned, changed, retainers, entered, failed>>
      PROVE  AgreeInv'
  <2>1. CASE failed
    BY <1>3, <2>1 DEF AgreeInv
  <2>2. CASE ~failed
    <3>1. Marked(Snapshot) /\ Agreed(Snapshot)
      BY <1>1, <2>2 DEF AgreeInv, At, Levels, Types
    <3>2. Marked(Snapshot') /\ Agreed(Snapshot')
      BY <1>3, <3>1 DEF Marked, Agreed, Snapshot
    <3>3. Snapshot'.changed = Snapshot.changed /\ Snapshot'.param = Snapshot.param
          /\ Snapshot'.defAssigned = Snapshot.defAssigned
      BY <1>3 DEF Snapshot
    <3> QED
      BY <1>1, <1>3, <2>2, <3>2, <3>3, SinceOnlyReads, LocalAgree
  <2> QED
    BY <2>1, <2>2
<1>4. ASSUME NEW r \in Ranks, NEW b \in Blocks, GetArea(r, b) PROVE AgreeInv'
  BY <1>3, <1>4 DEF GetArea, flags, ghost
<1>5. ASSUME NEW c \in Retainable, NEW keep \in SUBSET Keepable, Enter(c, keep) PROVE AgreeInv'
  BY <1>1, <1>5, EnterAgree
<1>6. ASSUME Exit PROVE AgreeInv'
  BY <1>1, <1>6, ExitAgree
<1>7. ASSUME Sync PROVE AgreeInv'
  BY <1>1, <1>7, SyncAgree
<1>8. ASSUME UNCHANGED vars PROVE AgreeInv'
  BY <1>3, <1>8 DEF vars, flags, ghost
<1> QED
  BY <1>2, <1>4, <1>5, <1>6, <1>7, <1>8 DEF Next, Aborted

LEMMA AgreeOfSnapshot ==
  ASSUME Types, AgreeInv
  PROVE  RanksAgree /\ (~failed => Marked(Snapshot) /\ Agreed(Snapshot))
<1>1. ~failed => Marked(Snapshot) /\ Agreed(Snapshot)
  BY DEF AgreeInv, At, Levels, Types
<1> QED
  BY <1>1 DEF RanksAgree, Agreed, Snapshot

LEMMA AgreeInvariant ==
  ASSUME Disciplined
  PROVE  Spec => [](RestoreInv /\ AgreeInv)
<1>1. Init => AgreeInv
  BY InitAgree
<1>2. RestoreInv /\ AgreeInv /\ [Next]_vars => AgreeInv'
  BY NextAgree
<1> QED
  BY <1>1, <1>2, RestoreInvariant, PTL DEF Spec

(* In a disciplined program ranks that have not assigned a parameter since *)
(* it was synchronized have the same value of it, however many ranks there *)
(* are and however deep retained states are nested: the flags that a       *)
(* retained state puts back never hide an assignment.                      *)
THEOREM RanksStayAgreed ==
  ASSUME Disciplined
  PROVE  Spec => []RanksAgree
<1>1. RestoreInv /\ AgreeInv => RanksAgree
  BY AgreeOfSnapshot DEF RestoreInv
<1> QED
  BY <1>1, AgreeInvariant, PTL

(* A synchronization that succeeds in such a program gives every rank what *)
(* any rank has assigned, and leaves alone what none has.                  *)
THEOREM UpdatesArrive ==
  ASSUME Disciplined
  PROVE  Spec => NoUpdateIsLost
<1>1. ASSUME RestoreInv, AgreeInv, Sync, ~failed',
             NEW r \in Ranks, NEW b \in Blocks, NEW p \in Params
      PROVE  /\ \A s \in Ranks : <<b, p>> \in changed[r] => param'[s][b][p] = param[r][b][p]
             /\ param'[r][b][p] # param[r][b][p] => \E s \in Ranks : <<b, p>> \in changed[s]
  <2>1. ~failed /\ ~Overlap /\ \A s \in Ranks : param'[s][b][p] = Received(s, b, p)
    BY <1>1 DEF Sync
  <2>2. Marked(Snapshot) /\ Agreed(Snapshot)
    BY <1>1, <2>1, AgreeOfSnapshot DEF RestoreInv
  <2>3. \A s \in Senders(b, p) : s \in Ranks /\ param[s][b][p] = Received(s, b, p)
    BY <2>1 DEF Overlap, Senders
  <2>4. \A s \in Ranks : <<b, p>> \in changed[s] => s \in Senders(b, p)
    BY <2>2 DEF Marked, Snapshot, Senders, SyncData
  <2>5. \A s, t \in Ranks : Senders(b, p) # {} => Received(s, b, p) = Received(t, b, p)
    BY DEF Received
  <2>6. \A s \in Ranks : <<b, p>> \in changed[r] => param'[s][b][p] = param[r][b][p]
    BY <2>1, <2>3, <2>4, <2>5
  <2>7. ASSUME param'[r][b][p] # param[r][b][p] PROVE \E s \in Ranks : <<b, p>> \in changed[s]
    <3> SUFFICES ASSUME \A s \in Ranks : <<b, p>> \notin changed[s] PROVE FALSE
      OBVIOUS
    <3>1. Senders(b, p) # {}
      BY <2>1, <2>7 DEF Received
    <3>2. PICK t \in Senders(b, p) : TRUE
      BY <3>1
    <3>3. param[t][b][p] = param[r][b][p]
      BY <2>2, <2>3, <3>2 DEF Agreed, Snapshot
    <3> QED
      BY <2>1, <2>3, <2>5, <2>7, <3>1, <3>2, <3>3
  <2> QED
    BY <2>6, <2>7
<1>2. RestoreInv /\ AgreeInv =>
        (Sync /\ ~failed' => \A r \in Ranks, b \in Blocks, p \in Params :
           /\ \A s \in Ranks : <<b, p>> \in changed[r] => param'[s][b][p] = param[r][b][p]
           /\ param'[r][b][p] # param[r][b][p] => \E s \in Ranks : <<b, p>> \in changed[s])
  BY <1>1
<1> QED
  BY <1>2, AgreeInvariant, PTL DEF NoUpdateIsLost
=============================================================================
