------------------------ MODULE StatepointProperties ------------------------
(***************************************************************************)
(* What a restarted case and the readers of the database rely on.          *)
(***************************************************************************)
EXTENDS Statepoints

Assemblies(r) == ToSet(GroupedAssemblies(r))
Blocks(r)     == ToSet(GroupedBlocks(r))

(* Objects of the tree as pairs of identity and serial number.             *)
Objects(r) == {<<a.id, a.sn>> : a \in Assemblies(r)} \cup {<<b.id, b.sn>> : b \in Blocks(r)}

(***************************************************************************)
(* Names find assemblies (Core.add and _removeListFromAuxiliaries,         *)
(* cores.py:427-560; incrementAssemNum, reactors.py:103): no two           *)
(* assemblies of the reactor have the same number, each number was given   *)
(* out, and the core finds each of its own by name, so that adding one     *)
(* never raises "Core already contains an assembly with the same name".    *)
(***************************************************************************)
NamesFindAssemblies ==
  /\ \A a, b \in Assemblies(reactor) : a.num = b.num => a.id = b.id
  /\ \A a \in Assemblies(reactor) : a.num \in 0..reactor.max - 1
  /\ \A a \in ToSet(AssembliesOf(reactor.core)) :
       a.num \in DOMAIN assembliesByName /\ assembliesByName[a.num] = a.id

(***************************************************************************)
(* A serial number is never given twice (database.py:742-743, "so we don't *)
(* reuse a number"): of the objects in the reactor and in the statepoints  *)
(* that the file keeps, two with the same number are the same object.      *)
(***************************************************************************)
SerialsAreUnique ==
  LET all == Objects(reactor) \cup UNION {Objects(truth[t]) : t \in DOMAIN truth}
  IN  \A x, y \in all : x[2] = y[2] => x[1] = y[1]

(***************************************************************************)
(* Histories are right (Database.getHistories, getHistoriesByLocation):    *)
(* the history of a block of the core holds, for each statepoint that has  *)
(* the block, the value the block had, wherever it was then; that of its   *)
(* place, for every statepoint, the value of the block that was there.     *)
(***************************************************************************)
HistoryOf(id) ==
  LET Had(t) == {b \in Blocks(truth[t]) : b.id = id}
  IN  [t \in {u \in DOMAIN truth : Had(u) # {}} |-> (CHOOSE b \in Had(t) : TRUE).p]

HistoryAt(c, k) == [t \in DOMAIN truth |-> truth[t].core.holds[c].blocks[k].p]

HistoriesAreRight ==
  \A c \in Cells : \A k \in 1..NBlocks :
    LET b == reactor.core.holds[c].blocks[k]
    IN  /\ GetHistories(b.sn) = HistoryOf(b.id)
        /\ GetHistoriesByLocation(<<c[1], c[2], k - 1>>) = HistoryAt(c, k)

(***************************************************************************)
(* What is loaded is what was written (Database.load, database.py:671-753):*)
(* a restart gives every object of the tree back at its place, with its    *)
(* serial number and its parameters, the charge time and the moves         *)
(* included.  Only the last location is now "the database".                *)
(***************************************************************************)
RestartsLoad == restarts' # restarts => LocateAll(reactor') = LocateAll(truth'[now' - 1])

LoadsWhatWasWritten == [][RestartsLoad]_vars
=============================================================================
