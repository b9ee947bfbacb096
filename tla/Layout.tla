------------------------------- MODULE Layout -------------------------------
(***************************************************************************)
(* How a statepoint of the database holds the tree of a reactor            *)
(* (bookkeeping/db/layout.py, jaggedArray.py and database.py): one row per *)
(* object, in depth-first order, and for each type of object one column    *)
(* per parameter.  Nothing in a row says who the parent is; loading and    *)
(* the histories recover it from the numbers of children.                  *)
(*                                                                         *)
(* The tree is a reactor of a core and a spent fuel pool, which hold       *)
(* assemblies in cells <<i, j>>, which are stacks of blocks.               *)
(***************************************************************************)
EXTENDS Integers, FiniteSets, Sequences, SequencesExt, FiniteSetsExt

(***************************************************************************)
(* Parameter values that a column has to tell apart: nothing, a number, an *)
(* array (a tuple of numbers).                                             *)
(***************************************************************************)
None      == [kind |-> "none"]
Number(n) == [kind |-> "number", is |-> n]
Array(s)  == [kind |-> "array", is |-> s]
NaN       == [kind |-> "number", is |-> "nan"]

Types == {"Reactor", "Core", "SpentFuelPool", "Assembly", "Block"}

(***************************************************************************)
(* The rows, counted from 0: Layout._createLayout.                         *)
(***************************************************************************)
Row(type, sn, children, loc) ==
  [type |-> type, sn |-> sn, numChildren |-> children, location |-> loc]

(* Assemblies are sorted by their locations, the last index first.         *)
Before(l, m) == \/ l[2] < m[2]
                \/ l[2] = m[2] /\ l[1] < m[1]

PlaceInOrder(c, cells) == 1 + Cardinality({d \in cells : Before(d, c)})

InOrder(cells) == [n \in 1..Cardinality(cells) |-> CHOOSE c \in cells : PlaceInOrder(c, cells) = n]

BlockRows(a, l) ==
  [k \in 1..Len(a.blocks) |->
     Row("Block", a.blocks[k].sn, 0, <<l[1], l[2], k - 1>>)]

AssemblyRows(a, l) ==
  <<Row("Assembly", a.sn, Len(a.blocks), <<l[1], l[2], 0>>)>> \o BlockRows(a, l)

SystemRows(type, system) ==
  LET cells == InOrder(DOMAIN system.holds)
  IN  <<Row(type, system.sn, Len(cells), <<0, 0, 0>>)>>
        \o FlattenSeq([n \in 1..Len(cells) |-> AssemblyRows(system.holds[cells[n]], cells[n])])

CreateLayout(r) ==
  <<Row("Reactor", r.sn, 2, <<0, 0, 0>>)>>
    \o SystemRows("Core", r.core) \o SystemRows("SpentFuelPool", r.pool)

(* The place of a row's object in the columns of its type, from 1.         *)
IndexInData(rows, n) == Cardinality({m \in 1..n : rows[m].type = rows[n].type})

RowsOf(rows, type) == {n \in 1..Len(rows) : rows[n].type = type}

(***************************************************************************)
(* The objects of a type in the order of their rows: groupedComps.         *)
(***************************************************************************)
AssembliesOf(system) ==
  LET cells == InOrder(DOMAIN system.holds)
  IN  [n \in 1..Len(cells) |-> system.holds[cells[n]]]

GroupedAssemblies(r) == AssembliesOf(r.core) \o AssembliesOf(r.pool)

GroupedBlocks(r) ==
  LET assems == GroupedAssemblies(r)
  IN  FlattenSeq([n \in 1..Len(assems) |-> assems[n].blocks])

(***************************************************************************)
(* Serial numbers of ancestors.  ComputeAncestors walks the rows with a    *)
(* stack of the objects whose children are not all seen.                   *)
(***************************************************************************)
NoAncestor == -1

WithoutFinished(stack) ==
  SubSeq(stack, 1, Max({0} \cup {n \in 1..Len(stack) : stack[n].left # 0}))

Parents(rows) ==
  LET Open(n) == [sn |-> rows[n].sn, left |-> rows[n].numChildren]
      walk[n \in 1..Len(rows)] ==
        IF n = 1 THEN [parents |-> <<NoAncestor>>, stack |-> <<Open(1)>>]
        ELSE LET last  == walk[n-1]
                 top   == Len(last.stack)
                 seen  == [last.stack EXCEPT ![top].left = @ - 1]
             IN  [parents |-> Append(last.parents, seen[top].sn),
                  stack   |-> WithoutFinished(
                                IF rows[n].numChildren > 0 THEN Append(seen, Open(n))
                                ELSE seen)]
  IN  walk[Len(rows)].parents

ComputeAncestors(rows, depth) ==
  LET parents == Parents(rows)
      RowWith(sn) == CHOOSE n \in 1..Len(rows) : rows[n].sn = sn
      up[d \in 1..depth] ==
        IF d = 1 THEN parents
        ELSE LET below == up[d-1]
             IN  [n \in 1..Len(rows) |->
                    IF below[n] = NoAncestor THEN NoAncestor
                    ELSE parents[RowWith(below[n])]]
  IN  up[depth]

(***************************************************************************)
(* Columns.  A jagged column is flattened, with the offset of each array   *)
(* and the places of the Nones; in any other a None becomes a NaN, and one *)
(* of only Nones is not written at all.                                    *)
(***************************************************************************)
Nones(col)  == {n \in 1..Len(col) : col[n] = None}
Arrays(col) == {n \in 1..Len(col) : col[n].kind = "array"}

(* Anything but an array has the shape 1, which is not that of an array of *)
(* one number, (1,).                                                       *)
Shape(v) == IF v.kind = "array" THEN Len(v.is) ELSE -1

IsJagged(col) == /\ Arrays(col) # {}
                 /\ Cardinality({Shape(v) : v \in ToSet(col)}) # 1

Flattened(v) == CASE v.kind = "array"  -> v.is
                  [] v.kind = "number" -> <<v.is>>
                  [] OTHER             -> <<>>

NoArrays == [form |-> "jagged", flat |-> <<>>, offsets |-> <<>>, shapes |-> <<>>, nones |-> {}]

(* The n-th value goes to the end of the flat array.                       *)
Extended(ds, n, value) ==
  IF value = <<>> THEN [ds EXCEPT !.nones = @ \cup {n}]
  ELSE [ds EXCEPT !.flat    = @ \o value,
                  !.offsets = Append(@, Len(ds.flat)),
                  !.shapes  = Append(@, Len(value))]

JaggedArray(col) ==
  LET after[n \in 0..Len(col)] ==
        IF n = 0 THEN NoArrays ELSE Extended(after[n-1], n, Flattened(col[n]))
  IN  after[Len(col)]

NotWritten == [form |-> "absent"]

Packed(col) ==
  IF IsJagged(col)
  THEN IF \A n \in 1..Len(col) : Flattened(col[n]) = <<>> THEN NotWritten
       ELSE JaggedArray(col)
  ELSE IF Nones(col) = 1..Len(col) THEN NotWritten
  ELSE [form |-> IF Nones(col) = {} THEN "plain" ELSE "nones",
        data |-> [n \in 1..Len(col) |-> IF col[n] = None THEN NaN ELSE col[n]]]

Unjagged(ds) ==
  LET n0 == Len(ds.shapes) + Cardinality(ds.nones)
      (* the n-th object's place among those that are not None *)
      Filled(n) == n - Cardinality({m \in ds.nones : m < n})
      Slice(k)  == SubSeq(ds.flat, ds.offsets[k] + 1, ds.offsets[k] + ds.shapes[k])
  IN  [n \in 1..n0 |-> IF n \in ds.nones THEN None ELSE Array(Slice(Filled(n)))]

(* What the `size` objects get: without a dataset they keep the default.   *)
Unpacked(ds, size) ==
  CASE ds.form = "absent" -> [n \in 1..size |-> None]
    [] ds.form = "plain"  -> ds.data
    [] ds.form = "nones"  -> [n \in 1..size |-> IF ds.data[n] = NaN THEN None ELSE ds.data[n]]
    [] ds.form = "jagged" -> Unjagged(ds)

(***************************************************************************)
(* The tree of the rows: Database._compose consumes as many subtrees as    *)
(* an object has children.  A node is the number of a row with the nodes   *)
(* of its children.                                                        *)
(***************************************************************************)
Compose(rows) ==
  LET past == Len(rows) + 1
      (* `count` subtrees from row n on, and the row after them *)
      forest[n \in 1..past] ==
        [count \in Nat |->
          IF count = 0 \/ n = past THEN [nodes |-> <<>>, next |-> n]
          ELSE LET below == forest[n + 1][rows[n].numChildren]
                   rest  == forest[below.next][count - 1]
               IN  [nodes |-> <<[row |-> n, children |-> below.nodes]>> \o rest.nodes,
                    next  |-> rest.next]]
  IN  forest[1][1].nodes[1]
=============================================================================
