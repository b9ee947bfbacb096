------------------------------ MODULE Database ------------------------------
(***************************************************************************)
(* The database file of a run (armi/bookkeeping/db/database.py): an HDF5   *)
(* file written in the process's fast path, copied to the working          *)
(* directory after each write if the case asks for it, and moved there     *)
(* when it is closed.                                                      *)
(*                                                                         *)
(* A file maps statepoint keys <<cycle, node, name>> to reactor states.    *)
(* name is "" for the statepoint of a time node, "EOL" and "error" for the *)
(* two extra groups that the end of a run adds.                            *)
(***************************************************************************)
EXTENDS Schedule

VARIABLES
  h5,    \* "none": no Database; "open"; "syncing": inside syncToSharedFolder;
         \* "shut": a Database whose h5db is None
  fast,  \* the file under the fast path
  disk   \* the file of the same name in the working directory

dbVars == <<h5, fast, disk>>

StatepointNames == {"", "EOL", "error"}

NoSteps == [k \in {} |-> 0]

EmptyFile(status, plan) ==
  [status |-> status, plan |-> plan, steps |-> NoSteps, done |-> FALSE]

NewFile(plan) == EmptyFile("whole", plan)

AnyPlan == CHOOSE p \in Plans : TRUE

NoFile == EmptyFile("none", AnyPlan)

(* A copy that has not been, or will never be, completed. *)
TornFile == EmptyFile("torn", AnyPlan)

(* The groups of a file with one more of them, or with one replaced. *)
WithStep(steps, key, state) ==
  [k \in DOMAIN steps \cup {key} |-> IF k = key THEN state ELSE steps[k]]

OnlySteps(steps, keys) == [k \in DOMAIN steps \cap keys |-> steps[k]]

At(key) == <<key[1], key[2]>>

(* Mutant of MergedKeys: the group of the start node is copied too.        *)
MergedKeys_Inclusive(steps, start) ==
  {k \in DOMAIN steps : Before(At(k), start) \/ At(k) = start}

(* The groups that mergeHistory copies.  Groups are visited in order of    *)
(* time and the copy stops at the first one of the start node, so nothing  *)
(* stops it in a file that has no group of that very node.                 *)
MergedKeys(steps, start) ==
  IF \E k \in DOMAIN steps : At(k) = start
  THEN {k \in DOMAIN steps : Before(At(k), start)}
  ELSE DOMAIN steps

-----------------------------------------------------------------------------
(* initDB: a new Database, opened for writing under the fast path. *)
OpenForWriting(plan) ==
  /\ h5' = "open"
  /\ fast' = NewFile(plan)
  /\ UNCHANGED disk

MergeHistory(input, start) ==
  /\ fast' = [fast EXCEPT !.steps = OnlySteps(input.steps, MergedKeys(input.steps, start))]
  /\ UNCHANGED <<h5, disk>>

(* writeToDB needs an open file and an empty group. *)
CanWrite(key) == h5 = "open" /\ key \notin DOMAIN fast.steps

Written(key, state) == [fast EXCEPT !.steps = WithStep(@, key, state)]

(* Mutant of CloseFile: every file that is closed claims success.          *)
CloseFile_Flag(file, success) ==
  IF h5 = "open"
  THEN /\ disk' = [file EXCEPT !.done = TRUE]
       /\ fast' = NoFile
       /\ h5' = "shut"
  ELSE /\ fast' = file
       /\ UNCHANGED <<h5, disk>>

(* close: nothing happens to a Database that holds no open file; otherwise *)
(* the outcome is recorded and the file moves to the working directory.    *)
CloseFile(file, success) ==
  IF h5 = "open"
  THEN /\ disk' = [file EXCEPT !.done = success]
       /\ fast' = NoFile
       /\ h5' = "shut"
  ELSE /\ fast' = file
       /\ UNCHANGED <<h5, disk>>

(* syncToSharedFolder closes the file and overwrites the copy in place;    *)
(* the copy is whole, and the file open again, only at its end.            *)
BeginSync ==
  /\ h5' = "syncing"
  /\ disk' = TornFile

(* Mutant of FinishSync: the file was not flushed before it was copied.    *)
FinishSync_Unflushed ==
  /\ h5 = "syncing"
  /\ h5' = "open"
  /\ disk' = [fast EXCEPT !.steps =
                OnlySteps(@, {k \in DOMAIN @ : \E j \in DOMAIN @ : Before(At(k), At(j))})]
  /\ UNCHANGED fast

FinishSync ==
  /\ h5 = "syncing"
  /\ h5' = "open"
  /\ disk' = fast
  /\ UNCHANGED fast

(* safeCopy gives up on a copy that stays too short and only warns. *)
ShortSync ==
  /\ h5 = "syncing"
  /\ h5' = "open"
  /\ UNCHANGED <<fast, disk>>

(* The process ends: every open Database is closed without success, then   *)
(* the fast path is deleted (cleanFastPathAfterSimulation).                *)
ExitProcess ==
  /\ disk' = IF h5 = "open" THEN [fast EXCEPT !.done = FALSE] ELSE disk
  /\ fast' = NoFile
  /\ h5' = "none"

(* The process is killed: the file under its fast path is lost to later    *)
(* runs, and a copy being made stays torn.                                 *)
LoseProcess ==
  /\ fast' = NoFile
  /\ h5' = "none"
  /\ UNCHANGED disk
=============================================================================
