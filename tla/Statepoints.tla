---------------------------- MODULE Statepoints ----------------------------
(***************************************************************************)
(* A reactor that is shuffled, depleted, written to the database at every  *)
(* node, and loaded from it by a restarted case: reactor/cores.py,         *)
(* reactors.py, assemblies.py, spentFuelPool.py, fuelHandlers.py           *)
(* (dischargeSwap, swapAssemblies) and database.py (load, _compose, the    *)
(* histories), over the layout of module Layout.                           *)
(***************************************************************************)
EXTENDS Layout

CONSTANTS
  Cells,       (* of the core, <<i, j>>                                    *)
  NBlocks,     (* in an assembly                                           *)
  Settings,    (* pairs <<trackAssems, assemblies in the pool at first>>   *)
  QValues,     (* a sequence: the values that a solver gives q in turn     *)
  MaxTime,     (* bound: the statepoints of a case                         *)
  MaxMoves,    (* bound: shuffling operations, by trackAssems              *)
  MaxRestarts  (* bound                                                    *)

ASSUME CellsAssumption   == IsFiniteSet(Cells) /\ Cells \subseteq (Nat \X Nat) /\ Cells # {}
ASSUME NumbersAssumption == {NBlocks, MaxTime, MaxRestarts} \subseteq Nat
ASSUME SettingsAssumption == /\ Settings \subseteq (BOOLEAN \X Nat)
                             /\ MaxMoves \in [BOOLEAN -> Nat]

VARIABLES
  trackAssems,   (* whether discharged assemblies go to the pool           *)
  pooled,        (* the assemblies in the pool of the blueprints           *)
  reactor,       (* the tree: its core and its spent fuel pool             *)
  serial,        (* parameterCollections.GLOBAL_SERIAL_NUM                 *)
  assembliesByName, (* of the core: the number in the name -> the object   *)
  now, phase,    (* the node, and how far it is                            *)
  groups,        (* the file: node -> rows and columns                     *)
  truth,         (* node -> the tree that was written (history variable)   *)
  made,          (* objects ever made; their identities (history variable) *)
  moves, restarts   (* counters for the bounds                             *)

vars == <<trackAssems, pooled, reactor, serial, assembliesByName, now, phase,
          groups, truth, made, moves, restarts>>

(***************************************************************************)
(* A new object takes the next serial number.  An assembly made from its   *)
(* design is not in the core yet: its number is a placeholder.             *)
(***************************************************************************)
NewAssembly(sn, id) ==
  [sn |-> sn + 1, id |-> id + 1, num |-> -1, fromDatabase |-> FALSE,
   charge |-> 0, numMoves |-> 0,
   blocks |-> [k \in 1..NBlocks |->
                 [sn |-> sn + 1 + k, id |-> id + 1 + k, p |-> <<0, 0>>, q |-> None]]]

ObjectsOfAssembly == 1 + NBlocks

(* incrementAssemNum returns the number it had.                            *)
Renumbered(a, max) == IF a.num < 0 THEN [a EXCEPT !.num = max] ELSE a
NextAssemNum(a, max) == IF a.num < 0 THEN max + 1 ELSE max

(* Core.add: a loaded assembly was charged and moved before.               *)
Charged_Always(a, time) == [a EXCEPT !.charge = time, !.numMoves = @ + 1]

Charged(a, time) ==
  IF a.fromDatabase THEN a
  ELSE [a EXCEPT !.charge = time, !.numMoves = @ + 1]

NObjects(inPool) == 3 + ObjectsOfAssembly * (Cardinality(Cells) + inPool)

(* Core.add charges an assembly, ExcoreStructure.add only numbers it.      *)
FromBlueprints(inPool) ==
  LET Nth(n) == Renumbered(NewAssembly(3 + (n - 1) * ObjectsOfAssembly,
                                       3 + (n - 1) * ObjectsOfAssembly), n - 1)
      inCore == Cardinality(Cells)
  IN  [sn   |-> 1,
       max  |-> inCore + inPool,
       core |-> [sn |-> 2, holds |-> [c \in Cells |-> Charged(Nth(PlaceInOrder(c, Cells)), 0)]],
       pool |-> [sn |-> 3, holds |-> [c \in (0..inPool - 1) \X {0} |-> Nth(inCore + 1 + c[1])]]]

Registered(r) == LET core == AssembliesOf(r.core)
                 IN  [n \in {core[k].num : k \in 1..Len(core)} |->
                        (CHOOSE a \in ToSet(core) : a.num = n).id]

Init ==
  \E s \in Settings :
    /\ trackAssems = s[1] /\ pooled = s[2]
    /\ reactor = FromBlueprints(s[2])
    /\ serial = NObjects(s[2]) /\ made = NObjects(s[2])
    /\ assembliesByName = Registered(FromBlueprints(s[2]))
    /\ now = 0 /\ phase = "shuffle"
    /\ groups = <<>> /\ truth = <<>>
    /\ moves = 0 /\ restarts = 0

(***************************************************************************)
(* Shuffling, at the beginning of a node.                                  *)
(***************************************************************************)
(* locateAllAssemblies: the last location is no longer "the database".     *)
LocateAll(r) ==
  LET Located(holds) == [c \in DOMAIN holds |-> [holds[c] EXCEPT !.fromDatabase = FALSE]]
  IN  [r EXCEPT !.core.holds = Located(@), !.pool.holds = Located(@)]

With(holds, cell, x) == [c \in DOMAIN holds \cup {cell} |-> IF c = cell THEN x ELSE holds[c]]
Without(holds, cell) == [c \in DOMAIN holds \ {cell} |-> holds[c]]

(* The pool fills the first free cell of its row.                          *)
NextLocation(holds) ==
  <<Min({i \in 0..Cardinality(DOMAIN holds) : <<i, 0>> \notin DOMAIN holds}), 0>>

RemoveAssembly(r, cell) ==
  LET a == r.core.holds[cell]
  IN  [r EXCEPT !.core.holds = Without(@, cell),
                !.pool.holds = IF trackAssems THEN With(@, NextLocation(@), a) ELSE @]

CoreAdd(r, a, cell) ==
  [r EXCEPT !.max = NextAssemNum(a, r.max),
            !.core.holds = With(@, cell, Charged(Renumbered(a, r.max), now))]

(* A removed assembly that is not kept leaves the registry of names.       *)
NamesAfter(out, in, r) ==
  LET gone == IF trackAssems THEN {} ELSE {out.num}
  IN  With([n \in DOMAIN assembliesByName \ gone |-> assembliesByName[n]],
           Renumbered(in, r.max).num, in.id)

MayShuffle == /\ phase = "shuffle" /\ moves < MaxMoves[trackAssems]
              /\ moves' = moves + 1
              /\ UNCHANGED <<trackAssems, pooled, now, phase, groups, truth, restarts>>

LoadFresh(cell) ==
  /\ MayShuffle
  /\ LET r  == LocateAll(reactor)
         in == NewAssembly(serial, made)
     IN  /\ reactor' = CoreAdd(RemoveAssembly(r, cell), in, cell)
         /\ assembliesByName' = NamesAfter(r.core.holds[cell], in, r)
  /\ serial' = serial + ObjectsOfAssembly
  /\ made'   = made + ObjectsOfAssembly

(* The incoming assembly leaves the pool after the outgoing one came.      *)
LoadFromPool(cell, place) ==
  /\ MayShuffle
  /\ LET r  == LocateAll(reactor)
         in == r.pool.holds[place]
         emptied == [RemoveAssembly(r, cell) EXCEPT !.pool.holds = Without(@, place)]
     IN  /\ reactor' = CoreAdd(emptied, in, cell)
         /\ assembliesByName' = NamesAfter(r.core.holds[cell], in, r)
  /\ UNCHANGED <<serial, made>>

SwapAssemblies(c, d) ==
  /\ MayShuffle
  /\ LET r == LocateAll(reactor)
         Moved(a) == [a EXCEPT !.numMoves = @ + 1]
     IN  reactor' = [r EXCEPT !.core.holds[c] = Moved(r.core.holds[d]),
                              !.core.holds[d] = Moved(r.core.holds[c])]
  /\ UNCHANGED <<serial, assembliesByName, made>>

(* The solvers: p tells which block it is of and when, q is one of QValues.*)
Deplete ==
  /\ phase = "shuffle"
  /\ phase' = "write"
  /\ LET Burned(b) == [b EXCEPT !.p = <<b.id, now>>,
                                !.q = QValues[1 + ((b.id + now) % Len(QValues))]]
         Depleted(a) == [a EXCEPT !.blocks = [k \in 1..NBlocks |-> Burned(a.blocks[k])]]
     IN  reactor' = [reactor EXCEPT !.core.holds = [c \in DOMAIN @ |-> Depleted(@[c])]]
  /\ UNCHANGED <<trackAssems, pooled, serial, assembliesByName, now, groups, truth, made,
                 moves, restarts>>

(***************************************************************************)
(* Writing a statepoint: a column per parameter and type of object.        *)
(***************************************************************************)
Column(objects, Get(_)) == Packed([n \in 1..Len(objects) |-> Get(objects[n])])

AssemblyColumns(assems) ==
  [id       |-> Column(assems, LAMBDA a : Number(a.id)),
   num      |-> Column(assems, LAMBDA a : Number(a.num)),
   charge   |-> Column(assems, LAMBDA a : Number(a.charge)),
   numMoves |-> Column(assems, LAMBDA a : Number(a.numMoves))]

BlockColumns(blocks) ==
  [id |-> Column(blocks, LAMBDA b : Number(b.id)),
   p  |-> Column(blocks, LAMBDA b : Number(b.p)),
   q  |-> Column(blocks, LAMBDA b : b.q)]

Statepoint(r) ==
  [rows     |-> CreateLayout(r),
   reactor  |-> [max |-> Packed(<<Number(r.max)>>)],
   assembly |-> AssemblyColumns(GroupedAssemblies(r)),
   block    |-> BlockColumns(GroupedBlocks(r))]

WriteToDB ==
  /\ phase = "write" /\ now < MaxTime
  /\ groups' = With(groups, now, Statepoint(reactor))
  /\ truth'  = With(truth, now, reactor)
  /\ now' = now + 1 /\ phase' = "shuffle"
  /\ UNCHANGED <<trackAssems, pooled, reactor, serial, assembliesByName, made, moves, restarts>>

(***************************************************************************)
(* Loading one: the n-th object of a type takes the n-th values of its     *)
(* columns (_readParams), and _compose gives it its children back.         *)
(***************************************************************************)
ReadParams(columns, size) ==
  [name \in DOMAIN columns |-> Unpacked(columns[name], size)]

CountOf(rows, type) == Cardinality(RowsOf(rows, type))

LoadedBlock(rows, n, params) ==
  LET i == IndexInData(rows, n)
  IN  [sn |-> rows[n].sn, id |-> params.id[i].is, p |-> params.p[i].is, q |-> params.q[i]]

LoadedAssembly(rows, node, params, blockParams) ==
  LET i == IndexInData(rows, node.row)
  IN  [sn       |-> rows[node.row].sn,
       id       |-> params.id[i].is,
       num      |-> params.num[i].is,
       charge   |-> params.charge[i].is,
       numMoves |-> params.numMoves[i].is,
       fromDatabase |-> TRUE,
       blocks   |-> [k \in 1..Len(node.children) |->
                       LoadedBlock(rows, node.children[k].row, blockParams)]]

(* The number that the next assembly gets is a parameter of the reactor.   *)
MaxAssemNum_OfCore(statepoint) ==
  LET rows == statepoint.rows
      inCore == {n \in RowsOf(rows, "Assembly") : n < CHOOSE m \in RowsOf(rows, "SpentFuelPool") : TRUE}
      nums == ReadParams(statepoint.assembly, CountOf(rows, "Assembly")).num
  IN  1 + Max({nums[IndexInData(rows, n)].is : n \in inCore})

MaxAssemNum(statepoint) == ReadParams(statepoint.reactor, 1).max[1].is

Load(statepoint) ==
  LET rows == statepoint.rows
      assemblies == ReadParams(statepoint.assembly, CountOf(rows, "Assembly"))
      blocks     == ReadParams(statepoint.block, CountOf(rows, "Block"))
      root       == Compose(rows)
      Place(node) == <<rows[node.row].location[1], rows[node.row].location[2]>>
      System(node) ==
        [sn |-> rows[node.row].sn,
         holds |-> [c \in {Place(child) : child \in ToSet(node.children)} |->
           LET child == CHOOSE m \in ToSet(node.children) : Place(m) = c
               a     == LoadedAssembly(rows, child, assemblies, blocks)
           IN  IF rows[node.row].type = "Core" THEN Charged(a, now) ELSE a]]
  IN  [sn |-> rows[root.row].sn,
       max |-> MaxAssemNum(statepoint),
       core |-> System(root.children[1]), pool |-> System(root.children[2])]

(***************************************************************************)
(* The new process has made the blueprints' reactor and the objects that   *)
(* are loaded; the next serial number is above those of both.              *)
(***************************************************************************)
SerialAfterLoad_NoMax(rows) == NObjects(pooled) + Len(rows)

SerialAfterLoad(rows) ==
  Max({NObjects(pooled) + Len(rows)} \cup {rows[n].sn : n \in 1..Len(rows)})

(* A case that restarts at `start` keeps the nodes before it and loads the *)
(* last of them.                                                           *)
Restart(start) ==
  /\ restarts < MaxRestarts
  /\ start \in 1..now
  /\ groups' = [t \in 0..start - 1 |-> groups[t]]
  /\ truth'  = [t \in 0..start - 1 |-> truth[t]]
  /\ reactor' = Load(groups[start - 1])
  /\ serial'  = SerialAfterLoad(groups[start - 1].rows)
  /\ assembliesByName' = Registered(Load(groups[start - 1]))
  /\ now' = start /\ phase' = "shuffle"
  /\ restarts' = restarts + 1
  /\ UNCHANGED <<trackAssems, pooled, made, moves>>

Done == now = MaxTime /\ UNCHANGED vars

Next ==
  \/ \E cell \in Cells :
       \/ LoadFresh(cell)
       \/ \E place \in DOMAIN reactor.pool.holds : LoadFromPool(cell, place)
       \/ \E other \in Cells \ {cell} : SwapAssemblies(cell, other)
  \/ Deplete
  \/ WriteToDB
  \/ \E start \in 1..MaxTime : Restart(start)
  \/ Done

Spec == Init /\ [][Next]_vars

(***************************************************************************)
(* The histories of a parameter.  By object: the value in each group of    *)
(* the row with its serial number.  By location: of the row at its place   *)
(* whose ancestor, as far up as the core is from the object, is the core   *)
(* (the last of them, if there were several).                              *)
(***************************************************************************)
BlockValue(statepoint, n) ==
  ReadParams(statepoint.block, CountOf(statepoint.rows, "Block"))
    .p[IndexInData(statepoint.rows, n)].is

ValuesAt(rowsIn) ==
  [t \in {u \in DOMAIN groups : rowsIn[u] # {}} |-> BlockValue(groups[t], Max(rowsIn[t]))]

GetHistories(sn) ==
  ValuesAt([t \in DOMAIN groups |->
    {n \in RowsOf(groups[t].rows, "Block") : groups[t].rows[n].sn = sn}])

DepthBelowCore == 2

RowsAt_AnySystem(rows, location) ==
  {n \in RowsOf(rows, "Block") : rows[n].location = location}

RowsAt(rows, location) ==
  LET ancestors == ComputeAncestors(rows, DepthBelowCore)
  IN  {n \in 1..Len(rows) : ancestors[n] = reactor.core.sn /\ rows[n].location = location}

GetHistoriesByLocation(location) ==
  ValuesAt([t \in DOMAIN groups |-> RowsAt(groups[t].rows, location)])
=============================================================================
