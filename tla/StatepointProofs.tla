-------------------------- MODULE StatepointProofs --------------------------
(***************************************************************************)
(* Proofs about the database, for any core, any number of blocks, any      *)
(* settings and any length of a case: the layout of a tree in rows and     *)
(* columns and the way back (_compose, the ancestors of a row, jagged      *)
(* columns), and the invariants of a case that shuffles, depletes, writes  *)
(* and restarts.                                                           *)
(***************************************************************************)
EXTENDS StatepointProperties, FiniteSetTheorems, SequenceTheorems, TLAPS

-----------------------------------------------------------------------------
(***************************************************************************)
(* Lists.                                                                  *)
(***************************************************************************)

IsList(f) == Len(f) \in Nat /\ f = [i \in 1..Len(f) |-> f[i]]
-----------------------------------------------------------------------------

(* A set of numbers that is not empty has a least one: the induction of this module. *)
LEMMA LeastNumber ==
  ASSUME NEW S, S \subseteq Nat, S # {}
  PROVE  \E m \in S : \A k \in S : m <= k
<1>1. PICK m \in S : \A k \in S : <<k, m>> \notin OpToRel(<, Nat)
  BY NatLessThanWellFounded, WFMin
<1>2. ASSUME NEW k \in S PROVE m <= k
  <2>1. <<k, m>> \in Nat \X Nat
    OBVIOUS
  <2>2. ~(k < m)
    BY <1>1, <2>1 DEF OpToRel
  <2> QED
    BY <2>1, <2>2
<1> QED
  BY <1>2

(* The length of a function on 1..n. *)
LEMMA LenOf ==
  ASSUME NEW f, NEW n \in Nat, f = [i \in 1..n |-> f[i]]
  PROVE  Len(f) = n /\ IsList(f) /\ DOMAIN f = 1..n
<1>1. f \in Seq({f[i] : i \in 1..n})
  BY SeqDef
<1>2. Len(f) \in Nat /\ DOMAIN f = 1..Len(f)
  BY <1>1
<1>3. DOMAIN f = 1..n
  OBVIOUS
<1>4. Len(f) = n
  BY <1>2, <1>3
<1> QED
  BY <1>3, <1>4 DEF IsList

(* Lists with the same elements are the same. *)
LEMMA SameLists ==
  ASSUME NEW f, NEW g, IsList(f), IsList(g), Len(f) = Len(g), \A i \in 1..Len(f) : f[i] = g[i]
  PROVE  f = g
BY DEF IsList

(* The elements of a concatenation. *)
LEMMA ConcatLists ==
  ASSUME NEW s, NEW t, IsList(s), IsList(t)
  PROVE  /\ IsList(s \o t) /\ Len(s \o t) = Len(s) + Len(t)
         /\ \A i \in 1..Len(s) : (s \o t)[i] = s[i]
         /\ \A i \in 1..Len(t) : (s \o t)[Len(s) + i] = t[i]
<1> DEFINE E == {s[i] : i \in 1..Len(s)} \cup {t[i] : i \in 1..Len(t)}
<1>1. s \in Seq(E) /\ t \in Seq(E)
  BY SeqDef DEF IsList
<1> HIDE DEF E
<1>2. s \o t \in Seq(E) /\ Len(s \o t) = Len(s) + Len(t)
  BY <1>1
<1>3. IsList(s \o t)
  <2>1. PICK n \in Nat : s \o t \in [1..n -> E]
    BY <1>2, LenProperties
  <2>2. s \o t = [i \in 1..n |-> (s \o t)[i]]
    BY <2>1
  <2> QED
    BY <2>2, LenOf
<1>4. \A i \in 1..Len(s) + Len(t) : (s \o t)[i] = IF i <= Len(s) THEN s[i] ELSE t[i - Len(s)]
  BY <1>1
<1>5. Len(s) \in Nat /\ Len(t) \in Nat
  BY DEF IsList
<1> QED
  BY <1>2, <1>3, <1>4, <1>5 DEF IsList

(* A list of one. *)
LEMMA OneList ==
  ASSUME NEW x
  PROVE  IsList(<<x>>) /\ Len(<<x>>) = 1 /\ <<x>>[1] = x
BY DEF IsList

(* What the provers need to know of multiples. *)
LEMMA Products ==
  ASSUME NEW m \in Nat, NEW n \in Nat
  PROVE  /\ m * n \in Nat /\ (m + 1) * n = m * n + n /\ 0 * n = 0 /\ 1 * n = n
         /\ \A k \in Nat : k <= m => k * n <= m * n
<1>1. m * n \in Nat /\ (m + 1) * n = m * n + n /\ 0 * n = 0 /\ 1 * n = n
  OBVIOUS
<1>2. ASSUME NEW k \in Nat, k <= m PROVE k * n <= m * n
  <2>1. PICK d \in Nat : m = k + d
    <3>1. m - k \in Nat /\ m = k + (m - k)
      BY <1>2
    <3> QED
      BY <3>1
  <2>2. m * n = k * n + d * n
    BY <2>1
  <2>3. k * n \in Nat /\ d * n \in Nat
    OBVIOUS
  <2> QED
    BY <2>2, <2>3
<1> QED
  BY <1>1, <1>2

(* The k-th of w places after a is within c. *)
LEMMA Within ==
  ASSUME NEW a \in Nat, NEW b, NEW c \in Nat, NEW w \in Nat, NEW k \in 1..w, b = a + w, b <= c
  PROVE  a + k \in 1..c
OBVIOUS
-----------------------------------------------------------------------------
(* Sorting.                                                                *)
LEMMA BeforeIsTotal ==
  ASSUME NEW c \in Nat \X Nat, NEW d \in Nat \X Nat
  PROVE  /\ ~Before(c, c)
         /\ c # d => Before(c, d) \/ Before(d, c)
         /\ \A e \in Nat \X Nat : Before(c, d) /\ Before(d, e) => Before(c, e)
BY DEF Before

(* InOrder is a list of the cells, each at its place in the order. *)
LEMMA PlacesInOrder ==
  ASSUME NEW cells, IsFiniteSet(cells), cells \subseteq Nat \X Nat
  PROVE  /\ Cardinality(cells) \in Nat
         /\ IsList(InOrder(cells)) /\ Len(InOrder(cells)) = Cardinality(cells)
         /\ \A c \in cells : /\ PlaceInOrder(c, cells) \in 1..Cardinality(cells)
                             /\ InOrder(cells)[PlaceInOrder(c, cells)] = c
         /\ \A k \in 1..Cardinality(cells) : /\ InOrder(cells)[k] \in cells
                                             /\ PlaceInOrder(InOrder(cells)[k], cells) = k
<1> DEFINE n == Cardinality(cells)
           Below(c) == {d \in cells : Before(d, c)}
           f == [c \in cells |-> PlaceInOrder(c, cells)]
<1>1. n \in Nat
  BY FS_CardinalityType
<1>2. ASSUME NEW c \in cells
      PROVE  /\ IsFiniteSet(Below(c)) /\ Cardinality(Below(c)) \in Nat
             /\ PlaceInOrder(c, cells) = 1 + Cardinality(Below(c))
             /\ PlaceInOrder(c, cells) \in 1..n
  <2>1. IsFiniteSet(cells \ {c}) /\ Cardinality(cells \ {c}) = n - 1
    BY FS_RemoveElement
  <2>2. ~Before(c, c)
    BY BeforeIsTotal
  <2>3. Below(c) \in SUBSET (cells \ {c})
    BY <2>2
  <2>4. IsFiniteSet(Below(c)) /\ Cardinality(Below(c)) <= n - 1
    BY <2>1, <2>3, FS_Subset
  <2>5. Cardinality(Below(c)) \in Nat
    BY <2>4, FS_CardinalityType
  <2>6. PlaceInOrder(c, cells) = 1 + Cardinality(Below(c))
    BY DEF PlaceInOrder
  <2> HIDE DEF Below, n
  <2> QED
    BY <1>1, <2>4, <2>5, <2>6
<1>3. ASSUME NEW c \in cells, NEW d \in cells, Before(c, d)
      PROVE  PlaceInOrder(c, cells) < PlaceInOrder(d, cells)
  <2>1. Below(c) \in SUBSET Below(d)
    BY <1>3, BeforeIsTotal
  <2>2. c \in Below(d) /\ c \notin Below(c)
    BY <1>3, BeforeIsTotal
  <2>3. Cardinality(Below(c)) <= Cardinality(Below(d))
    BY <1>2, <2>1, FS_Subset
  <2>4. Cardinality(Below(c)) # Cardinality(Below(d))
    BY <1>2, <2>1, <2>2, FS_Subset
  <2> HIDE DEF Below
  <2> QED
    BY <1>2, <2>3, <2>4
<1>4. \A c, d \in cells : PlaceInOrder(c, cells) = PlaceInOrder(d, cells) => c = d
  <2> SUFFICES ASSUME NEW c \in cells, NEW d \in cells, c # d
               PROVE  PlaceInOrder(c, cells) # PlaceInOrder(d, cells)
    OBVIOUS
  <2>1. Before(c, d) \/ Before(d, c)
    BY BeforeIsTotal
  <2>2. PlaceInOrder(c, cells) \in Nat /\ PlaceInOrder(d, cells) \in Nat
    <3>1. PlaceInOrder(c, cells) \in 1..n /\ PlaceInOrder(d, cells) \in 1..n
      BY <1>2
    <3> HIDE DEF n
    <3> QED
      BY <3>1
  <2> QED
    BY <1>3, <2>1, <2>2
<1>5. f \in Injection(cells, 1..n)
  BY <1>2, <1>4 DEF Injection, IsInjective
<1>6. IsFiniteSet(1..n) /\ Cardinality(1..n) = n
  BY <1>1, FS_Interval
<1>7. f \in Surjection(cells, 1..n)
  BY <1>5, <1>6, FS_Injection
<1>8. \A k \in 1..n : \E c \in cells : PlaceInOrder(c, cells) = k
  BY <1>7 DEF Surjection
<1>9. \A k \in 1..n : InOrder(cells)[k] \in cells /\ PlaceInOrder(InOrder(cells)[k], cells) = k
  BY <1>8 DEF InOrder
<1>10. InOrder(cells) = [k \in 1..n |-> InOrder(cells)[k]]
  BY DEF InOrder
<1>11. IsList(InOrder(cells)) /\ Len(InOrder(cells)) = n
  BY <1>1, <1>10, LenOf
<1>12. \A c \in cells : InOrder(cells)[PlaceInOrder(c, cells)] = c
  BY <1>2, <1>4, <1>9
<1> QED
  BY <1>1, <1>2, <1>9, <1>11, <1>12
-----------------------------------------------------------------------------
(* Flattening a list of lists.                                             *)
Flattening(f, seqs, n) == f = [i \in 1..n |-> IF i = 1 THEN seqs[i] ELSE f[i-1] \o seqs[i]]

(* The loop of FlattenSeq exists, whatever its length. *)
LEMMA FlatteningExists ==
  ASSUME NEW seqs, NEW n \in Nat
  PROVE  \E f : Flattening(f, seqs, n)
<1> DEFINE Lacks(m) == ~ \E f : Flattening(f, seqs, m)
           S == {m \in Nat : Lacks(m)}
<1>1. SUFFICES ASSUME S # {} PROVE FALSE
  OBVIOUS
<1>2. PICK m \in S : \A k \in S : m <= k
  BY <1>1, LeastNumber
<1>3. m \in Nat /\ Lacks(m) /\ \A k \in Nat : k < m => ~Lacks(k)
  BY <1>2
<1>4. CASE m = 0
  <2> DEFINE f == [i \in 1..m |-> 0]
  <2>1. f = [i \in 1..m |-> IF i = 1 THEN seqs[i] ELSE f[i-1] \o seqs[i]]
    BY <1>4
  <2> QED
    BY <1>3, <2>1 DEF Flattening
<1>5. CASE m # 0
  <2>1. m - 1 \in Nat /\ ~Lacks(m - 1)
    BY <1>3, <1>5
  <2>2. PICK g : Flattening(g, seqs, m - 1)
    BY <2>1
  <2> DEFINE f == [i \in 1..m |-> IF i = m THEN IF m = 1 THEN seqs[1] ELSE g[m - 1] \o seqs[m] ELSE g[i]]
  <2>3. \A i \in 1..m - 1 : f[i] = g[i]
    BY <1>3
  <2>4. \A i \in 1..m : f[i] = IF i = 1 THEN seqs[i] ELSE f[i-1] \o seqs[i]
    <3> SUFFICES ASSUME NEW i \in 1..m PROVE f[i] = IF i = 1 THEN seqs[i] ELSE f[i-1] \o seqs[i]
      OBVIOUS
    <3>1. CASE i = m
      <4>1. f[i] = IF m = 1 THEN seqs[1] ELSE g[m - 1] \o seqs[m]
        BY <3>1
      <4>2. i # 1 => i - 1 \in 1..m - 1
        BY <1>3, <3>1
      <4>3. i # 1 => f[i - 1] = g[m - 1]
        BY <2>3, <3>1, <4>2
      <4> HIDE DEF f
      <4> QED
        BY <3>1, <4>1, <4>3
    <3>2. CASE i # m
      <4>1. i \in 1..m - 1
        BY <1>3, <3>2
      <4>2. g[i] = IF i = 1 THEN seqs[i] ELSE g[i-1] \o seqs[i]
        BY <2>2, <4>1 DEF Flattening
      <4>3. i # 1 => i - 1 \in 1..m - 1
        BY <4>1
      <4>4. f[i] = g[i] /\ (i # 1 => f[i - 1] = g[i - 1])
        BY <2>3, <4>1, <4>3
      <4> HIDE DEF f
      <4> QED
        BY <4>2, <4>4
    <3> QED
      BY <3>1, <3>2
  <2>5. f = [i \in 1..m |-> f[i]]
    OBVIOUS
  <2> HIDE DEF f
  <2>6. f = [i \in 1..m |-> IF i = 1 THEN seqs[i] ELSE f[i-1] \o seqs[i]]
    BY <2>4, <2>5
  <2> QED
    BY <1>3, <2>6 DEF Flattening
<1> QED
  BY <1>4, <1>5

(* FlattenSeq is the last value of that loop. *)
LEMMA FlatteningOf ==
  ASSUME NEW seqs, Len(seqs) \in Nat, Len(seqs) # 0
  PROVE  \E f : Flattening(f, seqs, Len(seqs)) /\ FlattenSeq(seqs) = f[Len(seqs)]
<1> DEFINE f == CHOOSE f : Flattening(f, seqs, Len(seqs))
<1>1. Flattening(f, seqs, Len(seqs))
  BY FlatteningExists
<1>2. FlattenSeq(seqs) = f[Len(seqs)]
  BY DEF FlattenSeq, Flattening
<1> HIDE DEF f
<1> QED
  BY <1>1, <1>2

(* Lists of one length w end up w places apart. *)
LEMMA FlatFacts ==
  ASSUME NEW seqs, IsList(seqs), NEW w \in Nat,
         \A i \in 1..Len(seqs) : IsList(seqs[i]) /\ Len(seqs[i]) = w
  PROVE  /\ IsList(FlattenSeq(seqs)) /\ Len(FlattenSeq(seqs)) = Len(seqs) * w
         /\ \A i \in 1..Len(seqs), k \in 1..w : FlattenSeq(seqs)[(i - 1) * w + k] = seqs[i][k]
<1> DEFINE n == Len(seqs)
<1>1. n \in Nat
  BY DEF IsList
<1>2. CASE n = 0
  <2>1. FlattenSeq(seqs) = seqs
    BY <1>2 DEF FlattenSeq
  <2>2. 0 * w = 0
    OBVIOUS
  <2> QED
    BY <1>2, <2>1, <2>2
<1>3. CASE n # 0
  <2>1. PICK f : Flattening(f, seqs, n) /\ FlattenSeq(seqs) = f[n]
    BY <1>1, <1>3, FlatteningOf
  <2>2. FlattenSeq(seqs) = f[n]
    BY <2>1
  <2> DEFINE Right(m) == /\ IsList(f[m]) /\ Len(f[m]) = m * w
                         /\ \A i \in 1..m, k \in 1..w : f[m][(i - 1) * w + k] = seqs[i][k]
             S == {m \in Nat : m >= 1 /\ m <= n /\ ~Right(m)}
  <2>3. ASSUME S # {} PROVE FALSE
    <3>1. PICK m \in S : \A k \in S : m <= k
      BY <2>3, LeastNumber
    <3>2. m \in 1..n /\ ~Right(m) /\ (m # 1 => m - 1 \in 1..n /\ Right(m - 1))
      <4>1. m \in Nat /\ m >= 1 /\ m <= n /\ ~Right(m)
        BY <3>1
      <4>2. m # 1 => m - 1 \notin S
        BY <3>1, <4>1
      <4> QED
        BY <1>1, <4>1, <4>2
    <3>3. IsList(seqs[m]) /\ Len(seqs[m]) = w
      BY <3>2
    <3>4. CASE m = 1
      <4>1. f[1] = seqs[1]
        BY <2>1, <3>2, <3>4 DEF Flattening
      <4>2. 1 * w = w /\ (1 - 1) * w = 0
        OBVIOUS
      <4>3. \A i \in 1..1 : i = 1
        OBVIOUS
      <4>4. \A i \in 1..1, k \in 1..w : f[1][(i - 1) * w + k] = seqs[i][k]
        BY <4>1, <4>2, <4>3
      <4> QED
        BY <3>2, <3>3, <3>4, <4>1, <4>2, <4>4
    <3>5. CASE m # 1
      <4>1. f[m] = f[m - 1] \o seqs[m]
        BY <2>1, <3>2, <3>5 DEF Flattening
      <4>2. Right(m - 1) /\ m - 1 \in Nat
        BY <3>2, <3>5
      <4>3. IsList(f[m - 1]) /\ Len(f[m - 1]) = (m - 1) * w /\ (m - 1) * w \in Nat /\ m * w = (m - 1) * w + w
        BY <4>2, Products
      <4>4. /\ IsList(f[m]) /\ Len(f[m]) = (m - 1) * w + w
            /\ \A i \in 1..(m - 1) * w : f[m][i] = f[m - 1][i]
            /\ \A i \in 1..w : f[m][(m - 1) * w + i] = seqs[m][i]
        <5>1. PICK x, y, p : x = f[m - 1] /\ y = seqs[m] /\ p = (m - 1) * w
          OBVIOUS
        <5>2. IsList(x) /\ IsList(y) /\ Len(x) = p /\ Len(y) = w /\ f[m] = x \o y
          BY <3>3, <4>1, <4>3, <5>1
        <5>5. IsList(x) /\ IsList(y)
          BY <5>2
        <5>3. /\ IsList(x \o y) /\ Len(x \o y) = Len(x) + Len(y)
              /\ \A i \in 1..Len(x) : (x \o y)[i] = x[i]
              /\ \A i \in 1..Len(y) : (x \o y)[Len(x) + i] = y[i]
          BY ONLY <5>5, ConcatLists
        <5>4. /\ IsList(f[m]) /\ Len(f[m]) = p + w
              /\ \A i \in 1..p : f[m][i] = x[i]
              /\ \A i \in 1..w : f[m][p + i] = y[i]
          BY <5>2, <5>3
        <5> QED
          BY <5>1, <5>4
      <4>5. ASSUME NEW i \in 1..m, NEW k \in 1..w
            PROVE  f[m][(i - 1) * w + k] = seqs[i][k]
        <5>1. CASE i = m
          BY <4>4, <5>1
        <5>2. CASE i # m
          <6>1. i \in 1..m - 1 /\ i - 1 \in Nat /\ i \in Nat
            BY <3>2, <5>2
          <6>2. i * w = (i - 1) * w + w /\ (i - 1) * w \in Nat /\ i * w <= (m - 1) * w
            BY <4>2, <6>1, Products
          <6>3. (i - 1) * w + k \in 1..(m - 1) * w
            BY <4>3, <6>2, Within
          <6>4. f[m - 1][(i - 1) * w + k] = seqs[i][k]
            BY <4>2, <6>1
          <6> QED
            BY <4>4, <6>3, <6>4
        <5> QED
          BY <5>1, <5>2
      <4> QED
        BY <3>2, <4>3, <4>4, <4>5
    <3> QED
      BY <3>4, <3>5
  <2>4. Right(n)
    <3> HIDE DEF Right
    <3>0. S = {}
      BY <2>3
    <3>1. n \notin S /\ n >= 1 /\ n <= n
      BY <1>1, <1>3, <3>0
    <3> QED
      BY <1>1, <3>1
  <2> QED
    BY <2>2, <2>4
<1> QED
  BY <1>2, <1>3

-----------------------------------------------------------------------------
(***************************************************************************)
(* The layout of a reactor (layout.py, _createLayout).                     *)
(***************************************************************************)

(* The rows of a statepoint.                                               *)
Width   == NBlocks + 1
Span(m) == m * Width

HasBlocks(a) == IsList(a.blocks) /\ Len(a.blocks) = NBlocks

HoldsAssemblies(h) ==
  /\ IsFiniteSet(DOMAIN h) /\ DOMAIN h \subseteq Nat \X Nat
  /\ \A c \in DOMAIN h : HasBlocks(h[c])

AssemblyRow(a, l) == Row("Assembly", a.sn, NBlocks, <<l[1], l[2], 0>>)
BlockRow(a, l, k) == Row("Block", a.blocks[k].sn, 0, <<l[1], l[2], k - 1>>)

(* An assembly takes as many rows as its blocks and one more. *)
LEMMA NBlocksNumber == NBlocks \in Nat /\ Width \in Nat /\ Width = NBlocks + 1
BY NumbersAssumption DEF Width

(* The rows of m assemblies. *)
LEMMA SpanFacts ==
  /\ \A m \in Nat : Span(m) \in Nat /\ Span(m + 1) = Span(m) + Width
  /\ \A m \in Nat, n \in Nat : Span(m + n) = Span(m) + Span(n)
  /\ \A m \in Nat, n \in Nat : m <= n => Span(m) <= Span(n)
  /\ Span(0) = 0
<1>1. ASSUME NEW m \in Nat PROVE Span(m) \in Nat /\ Span(m + 1) = Span(m) + Width
  BY Products, NBlocksNumber DEF Span
<1>2. ASSUME NEW m \in Nat, NEW n \in Nat, m <= n PROVE Span(m) <= Span(n)
  BY <1>2, Products, NBlocksNumber DEF Span
<1>3. ASSUME NEW m \in Nat, NEW n \in Nat PROVE Span(m + n) = Span(m) + Span(n)
  BY NBlocksNumber DEF Span
<1>4. Span(0) = 0
  BY NBlocksNumber DEF Span
<1> QED
  BY <1>1, <1>2, <1>3, <1>4

(* An assembly is a row that its blocks follow. *)
LEMMA AssemblyRowsFacts ==
  ASSUME NEW a, HasBlocks(a), NEW l
  PROVE  /\ IsList(AssemblyRows(a, l)) /\ Len(AssemblyRows(a, l)) = Width
         /\ AssemblyRows(a, l)[1] = AssemblyRow(a, l)
         /\ \A k \in 1..NBlocks : AssemblyRows(a, l)[1 + k] = BlockRow(a, l, k)
<1> DEFINE s == <<AssemblyRow(a, l)>>
           t == BlockRows(a, l)
<1>1. t = [k \in 1..NBlocks |-> BlockRow(a, l, k)]
  BY DEF BlockRows, BlockRow, HasBlocks
<1>2. IsList(t) /\ Len(t) = NBlocks
  <2>1. t = [k \in 1..NBlocks |-> t[k]]
    BY <1>1
  <2> HIDE DEF t
  <2> QED
    BY <2>1, LenOf, NBlocksNumber
<1>3. IsList(s) /\ Len(s) = 1 /\ s[1] = AssemblyRow(a, l)
  BY OneList
<1>4. AssemblyRows(a, l) = s \o t
  BY DEF AssemblyRows, AssemblyRow, HasBlocks
<1>5. \A k \in 1..NBlocks : t[k] = BlockRow(a, l, k)
  BY <1>1
<1> HIDE DEF s, t
<1>6. PICK x, y : x = s /\ y = t
  OBVIOUS
<1>7. IsList(x) /\ IsList(y)
  BY <1>2, <1>3, <1>6
<1>8. /\ IsList(x \o y) /\ Len(x \o y) = Len(x) + Len(y)
      /\ \A i \in 1..Len(x) : (x \o y)[i] = x[i]
      /\ \A i \in 1..Len(y) : (x \o y)[Len(x) + i] = y[i]
  BY ONLY <1>7, ConcatLists
<1>9. AssemblyRows(a, l) = x \o y /\ Len(x) = 1 /\ Len(y) = NBlocks
  BY <1>2, <1>3, <1>4, <1>6
<1>10. IsList(AssemblyRows(a, l)) /\ Len(AssemblyRows(a, l)) = Width
  BY <1>8, <1>9, NBlocksNumber
<1>11. AssemblyRows(a, l)[1] = AssemblyRow(a, l)
  <2>1. 1 \in 1..Len(x)
    BY <1>9
  <2>2. x[1] = AssemblyRow(a, l)
    BY <1>3, <1>6
  <2> QED
    BY <1>8, <1>9, <2>1, <2>2
<1>12. \A k \in 1..NBlocks : AssemblyRows(a, l)[1 + k] = BlockRow(a, l, k)
  BY <1>5, <1>6, <1>8, <1>9
<1> QED
  BY <1>10, <1>11, <1>12

(* The assemblies of a system are in the order of their cells. *)
LEMMA AssembliesOfFacts ==
  ASSUME NEW system, HoldsAssemblies(system.holds)
  PROVE  /\ IsList(AssembliesOf(system))
         /\ Len(AssembliesOf(system)) = Cardinality(DOMAIN system.holds)
         /\ \A j \in 1..Cardinality(DOMAIN system.holds) :
              AssembliesOf(system)[j] = system.holds[InOrder(DOMAIN system.holds)[j]]
<1> DEFINE D == DOMAIN system.holds
<1>1. Cardinality(D) \in Nat /\ Len(InOrder(D)) = Cardinality(D)
  BY PlacesInOrder DEF HoldsAssemblies
<1>2. AssembliesOf(system) = [j \in 1..Cardinality(D) |-> system.holds[InOrder(D)[j]]]
  BY <1>1 DEF AssembliesOf
<1>3. AssembliesOf(system) = [j \in 1..Cardinality(D) |-> AssembliesOf(system)[j]]
  BY <1>2
<1> QED
  BY <1>1, <1>2, <1>3, LenOf

(* A system is a row that its assemblies follow. *)
LEMMA SystemRowsFacts ==
  ASSUME NEW type, NEW system, HoldsAssemblies(system.holds)
  PROVE  LET rows  == SystemRows(type, system)
             n     == Cardinality(DOMAIN system.holds)
             L(j)  == InOrder(DOMAIN system.holds)[j]
             A(j)  == system.holds[L(j)]
         IN  /\ IsList(rows) /\ Len(rows) = 1 + Span(n)
             /\ rows[1] = Row(type, system.sn, n, <<0, 0, 0>>)
             /\ \A j \in 1..n : rows[2 + Span(j - 1)] = AssemblyRow(A(j), L(j))
             /\ \A j \in 1..n, k \in 1..NBlocks :
                  rows[2 + Span(j - 1) + k] = BlockRow(A(j), L(j), k)
<1> DEFINE D    == DOMAIN system.holds
           rows == SystemRows(type, system)
           n    == Cardinality(D)
           L(j) == InOrder(D)[j]
           A(j) == system.holds[L(j)]
           head == Row(type, system.sn, n, <<0, 0, 0>>)
           of   == [j \in 1..n |-> AssemblyRows(A(j), L(j))]
<1>1. n \in Nat /\ Len(InOrder(D)) = n
  BY PlacesInOrder DEF HoldsAssemblies
<1>2. \A j \in 1..n : L(j) \in D
  BY PlacesInOrder DEF HoldsAssemblies
<1>3. rows = <<head>> \o FlattenSeq(of)
  BY <1>1 DEF SystemRows
<1>4. \A j \in 1..n : HasBlocks(A(j))
  BY <1>2 DEF HoldsAssemblies
<1>5. \A j \in 1..n : of[j] = AssemblyRows(A(j), L(j))
  OBVIOUS
<1>6. IsList(of) /\ Len(of) = n
  <2>1. of = [j \in 1..n |-> of[j]]
    OBVIOUS
  <2> HIDE DEF of, n
  <2> QED
    BY <1>1, <2>1, LenOf
<1> HIDE DEF of, n, L, A, head
<1>7. \A j \in 1..n :
        /\ IsList(of[j]) /\ Len(of[j]) = Width
        /\ of[j][1] = AssemblyRow(A(j), L(j))
        /\ \A k \in 1..NBlocks : of[j][1 + k] = BlockRow(A(j), L(j), k)
  BY <1>4, <1>5, AssemblyRowsFacts
<1>8. PICK x, y : x = <<head>> /\ y = FlattenSeq(of)
  OBVIOUS
<1>9. PICK z : z = of
  OBVIOUS
<1>10. /\ IsList(z) /\ Width \in Nat /\ Len(z) = n
       /\ \A j \in 1..Len(z) : IsList(z[j]) /\ Len(z[j]) = Width
  BY <1>6, <1>7, <1>9, NBlocksNumber
<1>11. /\ IsList(FlattenSeq(z)) /\ Len(FlattenSeq(z)) = Len(z) * Width
       /\ \A i \in 1..Len(z), k \in 1..Width : FlattenSeq(z)[(i - 1) * Width + k] = z[i][k]
  BY ONLY <1>10, FlatFacts
<1>12. /\ IsList(y) /\ Len(y) = Span(n)
       /\ \A i \in 1..n, k \in 1..Width : y[Span(i - 1) + k] = of[i][k]
  BY <1>8, <1>9, <1>10, <1>11 DEF Span
<1>13. IsList(x) /\ Len(x) = 1 /\ x[1] = head
  BY <1>8, OneList
<1>14. IsList(x) /\ IsList(y)
  BY <1>12, <1>13
<1>15. /\ IsList(x \o y) /\ Len(x \o y) = Len(x) + Len(y)
       /\ \A i \in 1..Len(x) : (x \o y)[i] = x[i]
       /\ \A i \in 1..Len(y) : (x \o y)[Len(x) + i] = y[i]
  BY ONLY <1>14, ConcatLists
<1>16. rows = x \o y
  BY <1>3, <1>8
<1> HIDE DEF rows
<1>17. IsList(rows) /\ Len(rows) = 1 + Span(n) /\ rows[1] = head
  BY <1>12, <1>13, <1>15, <1>16
<1>18. ASSUME NEW j \in 1..n, NEW k \in 1..Width
       PROVE  rows[1 + (Span(j - 1) + k)] = of[j][k]
  <2>1. Span(j - 1) \in Nat /\ Span(j) = Span(j - 1) + Width /\ Span(j) <= Span(n) /\ Span(n) \in Nat
    <3>1. j \in Nat /\ j - 1 \in Nat /\ j = (j - 1) + 1 /\ j <= n
      BY <1>1
    <3> QED
      BY <1>1, <3>1, SpanFacts
  <2>2. Span(j - 1) + k \in 1..Span(n)
    BY <2>1, Within, NBlocksNumber
  <2> QED
    BY <1>12, <1>13, <1>15, <1>16, <2>2
<1>19. ASSUME NEW j \in 1..n PROVE rows[2 + Span(j - 1)] = AssemblyRow(A(j), L(j))
  <2>1. 1 \in 1..Width /\ Span(j - 1) \in Nat
    <3>1. j - 1 \in Nat
      BY <1>1
    <3>2. Span(j - 1) \in Nat
      BY <3>1, SpanFacts
    <3>3. 1 \in 1..Width
      BY NBlocksNumber
    <3> QED
      BY <3>2, <3>3
  <2>2. 1 + (Span(j - 1) + 1) = 2 + Span(j - 1)
    BY <2>1
  <2> QED
    BY <1>7, <1>18, <2>1, <2>2
<1>20. ASSUME NEW j \in 1..n, NEW k \in 1..NBlocks
       PROVE  rows[2 + Span(j - 1) + k] = BlockRow(A(j), L(j), k)
  <2>1. 1 + k \in 1..Width /\ Span(j - 1) \in Nat /\ k \in Nat
    <3>1. j - 1 \in Nat
      BY <1>1
    <3>2. Span(j - 1) \in Nat
      BY <3>1, SpanFacts
    <3>3. 1 + k \in 1..Width /\ k \in Nat
      BY NBlocksNumber
    <3> QED
      BY <3>2, <3>3
  <2>2. 1 + (Span(j - 1) + (1 + k)) = 2 + Span(j - 1) + k
    BY <2>1
  <2> QED
    BY <1>7, <1>18, <2>1, <2>2
<1> QED
  BY <1>17, <1>19, <1>20 DEF n, L, A, rows, head

(* The objects of a reactor in the order of their rows. *)
IsTree(r) == HoldsAssemblies(r.core.holds) /\ HoldsAssemblies(r.pool.holds)

NCore(r) == Cardinality(DOMAIN r.core.holds)
NPool(r) == Cardinality(DOMAIN r.pool.holds)
NAll(r)  == NCore(r) + NPool(r)

CorePlace(r, j) == InOrder(DOMAIN r.core.holds)[j]
PoolPlace(r, j) == InOrder(DOMAIN r.pool.holds)[j]

PlaceAt(r, j) == IF j <= NCore(r) THEN CorePlace(r, j) ELSE PoolPlace(r, j - NCore(r))

AssemblyAt(r, j) == IF j <= NCore(r) THEN r.core.holds[CorePlace(r, j)]
                    ELSE r.pool.holds[PoolPlace(r, j - NCore(r))]

PoolRow(r)  == 3 + Span(NCore(r))
RowAt(r, j) == IF j <= NCore(r) THEN 3 + Span(j - 1) ELSE 4 + Span(j - 1)

(* How many assemblies a reactor has, and how many rows they take. *)
LEMMA TreeNumbers ==
  ASSUME NEW r, IsTree(r)
  PROVE  /\ NCore(r) \in Nat /\ NPool(r) \in Nat /\ NAll(r) \in Nat
         /\ Span(NCore(r)) \in Nat /\ Span(NPool(r)) \in Nat /\ Span(NAll(r)) \in Nat
         /\ Span(NAll(r)) = Span(NCore(r)) + Span(NPool(r))
         /\ Span(NCore(r)) <= Span(NAll(r))
<1>1. NCore(r) \in Nat /\ NPool(r) \in Nat
  BY PlacesInOrder DEF IsTree, HoldsAssemblies, NCore, NPool
<1>2. NAll(r) = NCore(r) + NPool(r)
  BY DEF NAll
<1>3. NAll(r) \in Nat
  BY <1>1, <1>2
<1>4. Span(NCore(r)) \in Nat /\ Span(NPool(r)) \in Nat /\ Span(NAll(r)) \in Nat
  BY <1>1, <1>3, SpanFacts
<1>5. Span(NAll(r)) = Span(NCore(r)) + Span(NPool(r))
  BY <1>1, <1>2, SpanFacts
<1>6. Span(NCore(r)) <= Span(NAll(r))
  BY <1>4, <1>5
<1> QED
  BY <1>1, <1>3, <1>4, <1>5, <1>6

(* The j-th assembly is at a cell of its system. *)
LEMMA PlacesOfTree ==
  ASSUME NEW r, IsTree(r)
  PROVE  /\ \A j \in 1..NCore(r) : CorePlace(r, j) \in DOMAIN r.core.holds
         /\ \A j \in 1..NPool(r) : PoolPlace(r, j) \in DOMAIN r.pool.holds
         /\ \A j \in 1..NAll(r) : HasBlocks(AssemblyAt(r, j))
<1>1. \A j \in 1..NCore(r) : CorePlace(r, j) \in DOMAIN r.core.holds
  BY PlacesInOrder DEF IsTree, HoldsAssemblies, NCore, CorePlace
<1>2. \A j \in 1..NPool(r) : PoolPlace(r, j) \in DOMAIN r.pool.holds
  BY PlacesInOrder DEF IsTree, HoldsAssemblies, NPool, PoolPlace
<1>3. ASSUME NEW j \in 1..NAll(r) PROVE HasBlocks(AssemblyAt(r, j))
  <2>1. CASE j <= NCore(r)
    <3>1. j \in 1..NCore(r)
      BY <2>1, TreeNumbers
    <3> QED
      BY <1>1, <2>1, <3>1 DEF IsTree, HoldsAssemblies, AssemblyAt
  <2>2. CASE ~(j <= NCore(r))
    <3>1. j - NCore(r) \in 1..NPool(r)
      <4> HIDE DEF NCore, NPool
      <4> QED
        BY <2>2, TreeNumbers DEF NAll
    <3> QED
      BY <1>2, <2>2, <3>1 DEF IsTree, HoldsAssemblies, AssemblyAt
  <2> QED
    BY <2>1, <2>2
<1> QED
  BY <1>1, <1>2, <1>3

(* Every row of the layout of a reactor (Layout._createLayout). *)
LEMMA LayoutRows ==
  ASSUME NEW r, IsTree(r)
  PROVE  LET rows == CreateLayout(r)
         IN  /\ IsList(rows) /\ Len(rows) = 3 + Span(NAll(r))
             /\ rows[1] = Row("Reactor", r.sn, 2, <<0, 0, 0>>)
             /\ rows[2] = Row("Core", r.core.sn, NCore(r), <<0, 0, 0>>)
             /\ rows[PoolRow(r)] = Row("SpentFuelPool", r.pool.sn, NPool(r), <<0, 0, 0>>)
             /\ \A j \in 1..NAll(r) :
                  /\ rows[RowAt(r, j)] = AssemblyRow(AssemblyAt(r, j), PlaceAt(r, j))
                  /\ \A k \in 1..NBlocks :
                       rows[RowAt(r, j) + k] = BlockRow(AssemblyAt(r, j), PlaceAt(r, j), k)
<1> DEFINE rows == CreateLayout(r)
           head == Row("Reactor", r.sn, 2, <<0, 0, 0>>)
           n == NCore(r)
           m == NPool(r)
<1>1. n \in Nat /\ m \in Nat /\ Span(n) \in Nat /\ Span(m) \in Nat /\ Span(NAll(r)) = Span(n) + Span(m)
      /\ NAll(r) = n + m
  BY TreeNumbers DEF NAll
<1>2. PICK x, y, z : x = <<head>> /\ y = SystemRows("Core", r.core) /\ z = SystemRows("SpentFuelPool", r.pool)
  OBVIOUS
<1>3. IsList(x) /\ Len(x) = 1 /\ x[1] = head
  BY <1>2, OneList
<1>4. /\ IsList(y) /\ Len(y) = 1 + Span(n)
      /\ y[1] = Row("Core", r.core.sn, n, <<0, 0, 0>>)
      /\ \A j \in 1..n : y[2 + Span(j - 1)] = AssemblyRow(r.core.holds[CorePlace(r, j)], CorePlace(r, j))
      /\ \A j \in 1..n, k \in 1..NBlocks :
           y[2 + Span(j - 1) + k] = BlockRow(r.core.holds[CorePlace(r, j)], CorePlace(r, j), k)
  <2>1. PICK c : c = r.core
    OBVIOUS
  <2>2. HoldsAssemblies(c.holds)
    BY <2>1 DEF IsTree
  <2>3. PICK w : w = SystemRows("Core", c)
    OBVIOUS
  <2>4. PICK l : l = InOrder(DOMAIN c.holds)
    OBVIOUS
  <2>5. PICK q : q = Cardinality(DOMAIN c.holds)
    OBVIOUS
  <2>6. /\ IsList(w) /\ Len(w) = 1 + Span(q) /\ w[1] = Row("Core", c.sn, q, <<0, 0, 0>>)
        /\ \A j \in 1..q : w[2 + Span(j - 1)] = AssemblyRow(c.holds[l[j]], l[j])
        /\ \A j \in 1..q, k \in 1..NBlocks : w[2 + Span(j - 1) + k] = BlockRow(c.holds[l[j]], l[j], k)
    BY ONLY <2>2, <2>3, <2>4, <2>5, SystemRowsFacts
  <2>7. y = w /\ n = q
    BY <1>2, <2>1, <2>3, <2>5 DEF NCore
  <2>8. \A j : CorePlace(r, j) = l[j]
    BY <2>1, <2>4 DEF CorePlace
  <2> HIDE DEF n
  <2> QED
    BY ONLY <2>1, <2>6, <2>7, <2>8
<1>5. /\ IsList(z) /\ Len(z) = 1 + Span(m)
      /\ z[1] = Row("SpentFuelPool", r.pool.sn, m, <<0, 0, 0>>)
      /\ \A j \in 1..m : z[2 + Span(j - 1)] = AssemblyRow(r.pool.holds[PoolPlace(r, j)], PoolPlace(r, j))
      /\ \A j \in 1..m, k \in 1..NBlocks :
           z[2 + Span(j - 1) + k] = BlockRow(r.pool.holds[PoolPlace(r, j)], PoolPlace(r, j), k)
  <2>1. PICK c : c = r.pool
    OBVIOUS
  <2>2. HoldsAssemblies(c.holds)
    BY <2>1 DEF IsTree
  <2>3. PICK w : w = SystemRows("SpentFuelPool", c)
    OBVIOUS
  <2>4. PICK l : l = InOrder(DOMAIN c.holds)
    OBVIOUS
  <2>5. PICK q : q = Cardinality(DOMAIN c.holds)
    OBVIOUS
  <2>6. /\ IsList(w) /\ Len(w) = 1 + Span(q) /\ w[1] = Row("SpentFuelPool", c.sn, q, <<0, 0, 0>>)
        /\ \A j \in 1..q : w[2 + Span(j - 1)] = AssemblyRow(c.holds[l[j]], l[j])
        /\ \A j \in 1..q, k \in 1..NBlocks : w[2 + Span(j - 1) + k] = BlockRow(c.holds[l[j]], l[j], k)
    BY ONLY <2>2, <2>3, <2>4, <2>5, SystemRowsFacts
  <2>7. z = w /\ m = q
    BY <1>2, <2>1, <2>3, <2>5 DEF NPool
  <2>8. \A j : PoolPlace(r, j) = l[j]
    BY <2>1, <2>4 DEF PoolPlace
  <2> HIDE DEF m
  <2> QED
    BY ONLY <2>1, <2>6, <2>7, <2>8
<1>6. rows = (x \o y) \o z
  BY <1>2 DEF CreateLayout
<1> HIDE DEF rows, head, n, m
<1>7. PICK w : w = x \o y
  OBVIOUS
<1>8. IsList(x) /\ IsList(y)
  BY <1>3, <1>4
<1>9. /\ IsList(x \o y) /\ Len(x \o y) = Len(x) + Len(y)
      /\ \A i \in 1..Len(x) : (x \o y)[i] = x[i]
      /\ \A i \in 1..Len(y) : (x \o y)[Len(x) + i] = y[i]
  BY ONLY <1>8, ConcatLists
<1>10. /\ IsList(w) /\ Len(w) = 2 + Span(n) /\ w[1] = head
       /\ \A i \in 1..1 + Span(n) : w[1 + i] = y[i]
  <2>1. IsList(w) /\ Len(w) = 1 + (1 + Span(n))
    BY <1>3, <1>4, <1>7, <1>9
  <2>2. w[1] = head
    BY <1>3, <1>7, <1>9, 1 \in 1..1
  <2>3. \A i \in 1..1 + Span(n) : w[1 + i] = y[i]
    BY <1>3, <1>4, <1>7, <1>9
  <2> QED
    BY <1>1, <2>1, <2>2, <2>3
<1>11. IsList(w) /\ IsList(z)
  BY <1>5, <1>10
<1>12. /\ IsList(w \o z) /\ Len(w \o z) = Len(w) + Len(z)
       /\ \A i \in 1..Len(w) : (w \o z)[i] = w[i]
       /\ \A i \in 1..Len(z) : (w \o z)[Len(w) + i] = z[i]
  BY ONLY <1>11, ConcatLists
<1>13. rows = w \o z
  BY <1>6, <1>7
<1>14. IsList(rows) /\ Len(rows) = 3 + Span(NAll(r))
  BY <1>1, <1>5, <1>10, <1>12, <1>13
<1>15. rows[1] = head /\ \A i \in 1..1 + Span(n) : rows[1 + i] = y[i]
  <2>1. \A i \in 1..2 + Span(n) : rows[i] = w[i]
    BY <1>10, <1>12, <1>13
  <2>2. \A i \in 1..1 + Span(n) : 1 + i \in 1..2 + Span(n)
    BY <1>1
  <2>3. 1 \in 1..2 + Span(n)
    BY <1>1
  <2> QED
    BY <1>10, <2>1, <2>2, <2>3
<1>16. \A i \in 1..1 + Span(m) : rows[2 + Span(n) + i] = z[i]
  BY <1>5, <1>10, <1>12, <1>13
<1>17. rows[2] = y[1] /\ rows[PoolRow(r)] = z[1]
  <2>1. 1 \in 1..1 + Span(n) /\ 1 \in 1..1 + Span(m)
    BY <1>1
  <2>2. 1 + 1 = 2 /\ 2 + Span(n) + 1 = PoolRow(r)
    BY <1>1 DEF PoolRow, n
  <2>3. rows[1 + 1] = y[1] /\ rows[2 + Span(n) + 1] = z[1]
    BY <1>15, <1>16, <2>1
  <2> QED
    BY <2>2, <2>3
<1>18. ASSUME NEW j \in 1..NAll(r)
       PROVE  /\ rows[RowAt(r, j)] = AssemblyRow(AssemblyAt(r, j), PlaceAt(r, j))
              /\ \A k \in 1..NBlocks :
                   rows[RowAt(r, j) + k] = BlockRow(AssemblyAt(r, j), PlaceAt(r, j), k)
  <2>1. CASE j <= n
    <3>1. j \in 1..n /\ j - 1 \in Nat /\ j \in Nat /\ j = (j - 1) + 1
      BY <1>1, <2>1
    <3>2. Span(j - 1) \in Nat /\ Span(j) = Span(j - 1) + Width /\ Span(j) <= Span(n)
      BY <1>1, <2>1, <3>1, SpanFacts
    <3>3. RowAt(r, j) = 1 + (2 + Span(j - 1))
      BY <2>1, <3>2 DEF RowAt, n
    <3>4. AssemblyAt(r, j) = r.core.holds[CorePlace(r, j)] /\ PlaceAt(r, j) = CorePlace(r, j)
      BY <2>1 DEF AssemblyAt, PlaceAt, n
    <3>5. 2 + Span(j - 1) \in 1..1 + Span(n)
      BY <1>1, <3>2, NBlocksNumber
    <3>6. rows[RowAt(r, j)] = y[2 + Span(j - 1)]
      BY <1>15, <3>3, <3>5
    <3>7. ASSUME NEW k \in 1..NBlocks
          PROVE  rows[RowAt(r, j) + k] = y[2 + Span(j - 1) + k]
      <4>1. 2 + Span(j - 1) + k \in 1..1 + Span(n)
        BY <1>1, <3>2, NBlocksNumber
      <4>2. RowAt(r, j) + k = 1 + (2 + Span(j - 1) + k)
        BY <3>2, <3>3, NBlocksNumber
      <4> QED
        BY <1>15, <4>1, <4>2
    <3> QED
      BY <1>4, <3>1, <3>4, <3>6, <3>7
  <2>2. CASE ~(j <= n)
    <3> DEFINE i == j - n
    <3>1. i \in 1..m /\ i - 1 \in Nat /\ i \in Nat /\ i = (i - 1) + 1 /\ j - 1 = n + (i - 1)
      BY <1>1, <2>2
    <3>2. Span(i - 1) \in Nat /\ Span(i) = Span(i - 1) + Width /\ Span(i) <= Span(m)
          /\ Span(j - 1) = Span(n) + Span(i - 1)
      <4>1. i <= m
        BY <1>1, <3>1
      <4> HIDE DEF i
      <4>2. PICK h \in Nat : h = i - 1 /\ h + 1 = i
        BY <3>1
      <4>3. Span(h) \in Nat /\ Span(h + 1) = Span(h) + Width
        BY SpanFacts
      <4>4. Span(i) <= Span(m)
        BY <1>1, <3>1, <4>1, SpanFacts
      <4>5. Span(n + h) = Span(n) + Span(h)
        BY <1>1, SpanFacts
      <4> QED
        BY <3>1, <4>2, <4>3, <4>4, <4>5
    <3>3. RowAt(r, j) = 2 + Span(n) + (2 + Span(i - 1))
      <4>1. RowAt(r, j) = 4 + Span(j - 1)
        BY <2>2 DEF RowAt, n
      <4> HIDE DEF i
      <4> QED
        BY <1>1, <3>2, <4>1
    <3>4. AssemblyAt(r, j) = r.pool.holds[PoolPlace(r, i)] /\ PlaceAt(r, j) = PoolPlace(r, i)
      BY <2>2 DEF AssemblyAt, PlaceAt, n
    <3> HIDE DEF i
    <3>5. 2 + Span(i - 1) \in 1..1 + Span(m)
      BY <1>1, <3>2, NBlocksNumber
    <3>6. rows[RowAt(r, j)] = z[2 + Span(i - 1)]
      BY <1>16, <3>3, <3>5
    <3>7. ASSUME NEW k \in 1..NBlocks
          PROVE  rows[RowAt(r, j) + k] = z[2 + Span(i - 1) + k]
      <4>1. 2 + Span(i - 1) + k \in 1..1 + Span(m)
        BY <1>1, <3>2, NBlocksNumber
      <4>2. RowAt(r, j) + k = 2 + Span(n) + (2 + Span(i - 1) + k)
        BY <1>1, <3>2, <3>3, NBlocksNumber
      <4> QED
        BY <1>16, <4>1, <4>2
    <3> QED
      BY <1>5, <3>1, <3>4, <3>6, <3>7
  <2> QED
    BY <2>1, <2>2
<1> QED
  BY <1>4, <1>5, <1>14, <1>15, <1>17, <1>18 DEF rows, head, n, m

(* Counting the rows of a type. *)
CountUp(rows, type, n) == Cardinality({m \in 1..n : rows[m].type = type})

(* One row more adds one to the count of its type. *)
LEMMA OneMore ==
  ASSUME NEW rows, NEW type, NEW n \in Nat
  PROVE  /\ CountUp(rows, type, n) \in Nat
         /\ CountUp(rows, type, n + 1) = IF rows[n + 1].type = type THEN CountUp(rows, type, n) + 1
                                         ELSE CountUp(rows, type, n)
<1> DEFINE S(k) == {m \in 1..k : rows[m].type = type}
<1>1. IsFiniteSet(1..n)
  BY FS_Interval
<1>2. IsFiniteSet(S(n)) /\ Cardinality(S(n)) \in Nat
  <2>1. S(n) \in SUBSET (1..n)
    OBVIOUS
  <2> QED
    BY <1>1, <2>1, FS_Subset, FS_CardinalityType
<1>3. CASE rows[n + 1].type = type
  <2>1. S(n + 1) = S(n) \cup {n + 1} /\ n + 1 \notin S(n)
    BY <1>3
  <2>2. Cardinality(S(n) \cup {n + 1}) = Cardinality(S(n)) + 1
    BY <1>2, <2>1, FS_AddElement
  <2> QED
    BY <1>2, <1>3, <2>1, <2>2 DEF CountUp
<1>4. CASE rows[n + 1].type # type
  <2>1. S(n + 1) = S(n)
    BY <1>4
  <2> QED
    BY <1>2, <1>4, <2>1 DEF CountUp
<1> QED
  BY <1>3, <1>4

(* No row, no count. *)
LEMMA NoneYet ==
  ASSUME NEW rows, NEW type
  PROVE  CountUp(rows, type, 0) = 0
<1>1. {m \in 1..0 : rows[m].type = type} = {}
  OBVIOUS
<1> QED
  BY <1>1, FS_EmptySet DEF CountUp

(* What the rows of an assembly add to the counts. *)
LEMMA OneAssembly ==
  ASSUME NEW rows, NEW b \in Nat, NEW n \in Nat, NEW m \in Nat,
         CountUp(rows, "Assembly", b) = n, CountUp(rows, "Block", b) = m,
         rows[b + 1].type = "Assembly",
         \A k \in 1..NBlocks : rows[b + 1 + k].type = "Block"
  PROVE  \A k \in 0..NBlocks : /\ CountUp(rows, "Assembly", b + 1 + k) = n + 1
                               /\ CountUp(rows, "Block", b + 1 + k) = m + k
<1> DEFINE Right(k) == /\ CountUp(rows, "Assembly", b + 1 + k) = n + 1
                       /\ CountUp(rows, "Block", b + 1 + k) = m + k
           S == {k \in Nat : k <= NBlocks /\ ~Right(k)}
<1>1. SUFFICES ASSUME S # {} PROVE FALSE
  <2>1. \A k \in 0..NBlocks : k \in Nat /\ k <= NBlocks
    BY NBlocksNumber
  <2> QED
    BY <2>1
<1>2. PICK k \in S : \A l \in S : k <= l
  BY <1>1, LeastNumber
<1>3. k \in Nat /\ k <= NBlocks /\ ~Right(k)
  BY <1>2
<1>4. CASE k = 0
  <2>1. /\ CountUp(rows, "Assembly", b + 1) = n + 1
        /\ CountUp(rows, "Block", b + 1) = m
    BY OneMore, "Assembly" # "Block"
  <2>2. b + 1 + 0 = b + 1 /\ m + 0 = m
    OBVIOUS
  <2> QED
    BY <1>3, <1>4, <2>1, <2>2
<1>5. CASE k # 0
  <2>1. k - 1 \in Nat /\ k - 1 <= NBlocks /\ k - 1 \notin S /\ k \in 1..NBlocks
    BY <1>2, <1>3, <1>5, NBlocksNumber
  <2>2. Right(k - 1)
    BY <2>1
  <2> DEFINE c == b + 1 + (k - 1)
  <2>3. c \in Nat /\ c + 1 = b + 1 + k /\ (m + (k - 1)) + 1 = m + k
    BY <1>3, <1>5
  <2>4. rows[c + 1].type = "Block"
    BY <2>1, <2>3
  <2>5. CountUp(rows, "Assembly", c) = n + 1 /\ CountUp(rows, "Block", c) = m + (k - 1)
    BY <2>2
  <2> HIDE DEF c
  <2>6. /\ CountUp(rows, "Assembly", c + 1) = n + 1
        /\ CountUp(rows, "Block", c + 1) = (m + (k - 1)) + 1
    BY <2>3, <2>4, <2>5, OneMore, "Assembly" # "Block"
  <2> QED
    BY <1>3, <2>3, <2>6
<1> QED
  BY <1>4, <1>5

(* The types of the rows. *)
LEMMA TypesOfRows ==
  /\ \A type, sn, children, loc : Row(type, sn, children, loc).type = type
  /\ \A a, l : AssemblyRow(a, l).type = "Assembly"
  /\ \A a, l, k : BlockRow(a, l, k).type = "Block"
BY DEF Row, AssemblyRow, BlockRow

(* The rows of the m-th assembly follow those of the ones before. *)
LEMMA NextAssembly ==
  ASSUME NEW rows, NEW b \in Nat, NEW m \in Nat,
         CountUp(rows, "Assembly", b) = m, CountUp(rows, "Block", b) = m * NBlocks,
         rows[b + 1].type = "Assembly",
         \A k \in 1..NBlocks : rows[b + 1 + k].type = "Block"
  PROVE  /\ CountUp(rows, "Assembly", b + Width) = m + 1
         /\ CountUp(rows, "Block", b + Width) = (m + 1) * NBlocks
<1>1. m * NBlocks \in Nat /\ (m + 1) * NBlocks = m * NBlocks + NBlocks
  BY NBlocksNumber, Products
<1>2. /\ CountUp(rows, "Assembly", b + 1 + NBlocks) = m + 1
      /\ CountUp(rows, "Block", b + 1 + NBlocks) = m * NBlocks + NBlocks
  <2>1. PICK q \in Nat : q = m * NBlocks
    BY <1>1
  <2>2. /\ CountUp(rows, "Assembly", b) = m /\ CountUp(rows, "Block", b) = q
        /\ rows[b + 1].type = "Assembly" /\ \A k \in 1..NBlocks : rows[b + 1 + k].type = "Block"
    BY <2>1
  <2>3. \A k \in 0..NBlocks : /\ CountUp(rows, "Assembly", b + 1 + k) = m + 1
                              /\ CountUp(rows, "Block", b + 1 + k) = q + k
    BY ONLY <2>2, OneAssembly
  <2>4. NBlocks \in 0..NBlocks
    BY NBlocksNumber
  <2> QED
    BY <2>1, <2>3, <2>4
<1>3. b + 1 + NBlocks = b + Width
  BY NBlocksNumber
<1> QED
  BY <1>1, <1>2, <1>3

(* The types of the rows of a reactor. *)
LEMMA LayoutTypes ==
  ASSUME NEW r, IsTree(r)
  PROVE  LET rows == CreateLayout(r)
         IN  /\ rows[1].type = "Reactor" /\ rows[2].type = "Core"
             /\ rows[PoolRow(r)].type = "SpentFuelPool"
             /\ \A j \in 1..NAll(r) : /\ rows[RowAt(r, j)].type = "Assembly"
                                      /\ \A k \in 1..NBlocks : rows[RowAt(r, j) + k].type = "Block"
BY LayoutRows, TypesOfRows

(* Before the m-th assembly of the core m assemblies were counted. *)
LEMMA CountsInCore ==
  ASSUME NEW r, IsTree(r)
  PROVE  \A m \in Nat : m <= NCore(r) =>
           /\ CountUp(CreateLayout(r), "Assembly", 2 + Span(m)) = m
           /\ CountUp(CreateLayout(r), "Block", 2 + Span(m)) = m * NBlocks
<1> DEFINE rows == CreateLayout(r)
           Right(m) == /\ CountUp(rows, "Assembly", 2 + Span(m)) = m
                       /\ CountUp(rows, "Block", 2 + Span(m)) = m * NBlocks
           S == {m \in Nat : m <= NCore(r) /\ ~Right(m)}
<1>1. SUFFICES ASSUME S # {} PROVE FALSE
  OBVIOUS
<1>2. PICK m \in S : \A l \in S : m <= l
  BY <1>1, LeastNumber
<1>3. m \in Nat /\ m <= NCore(r) /\ ~Right(m)
  BY <1>2
<1>4. CASE m = 0
  <2>1. \A type \in {"Assembly", "Block"} : CountUp(rows, type, 2) = 0
    <3> SUFFICES ASSUME NEW type \in {"Assembly", "Block"} PROVE CountUp(rows, type, 2) = 0
      OBVIOUS
    <3>1. rows[1].type # type /\ rows[2].type # type
      BY LayoutTypes
    <3> HIDE DEF rows
    <3>2. CountUp(rows, type, 0 + 1) = 0
      BY <3>1, NoneYet, OneMore
    <3>3. CountUp(rows, type, 1 + 1) = 0
      BY <3>1, <3>2, OneMore
    <3> QED
      BY <3>3
  <2>2. 2 + Span(0) = 2 /\ 0 * NBlocks = 0
    BY SpanFacts, NBlocksNumber
  <2> QED
    BY <1>3, <1>4, <2>1, <2>2
<1>5. CASE m # 0
  <2>1. m - 1 \in Nat /\ m - 1 <= NCore(r) /\ m - 1 \notin S
    BY <1>2, <1>3, <1>5, TreeNumbers
  <2>2. Right(m - 1)
    BY <2>1
  <2>3. m \in 1..NAll(r) /\ m \in Nat /\ m = (m - 1) + 1
    BY <1>3, <1>5, TreeNumbers DEF NAll
  <2>4. Span(m - 1) \in Nat /\ Span(m) = Span(m - 1) + Width
    BY <2>1, <2>3, SpanFacts
  <2> DEFINE b == 2 + Span(m - 1)
  <2>5. b \in Nat /\ RowAt(r, m) = b + 1 /\ b + Width = 2 + Span(m)
    BY <1>3, <2>4, NBlocksNumber DEF RowAt
  <2>6. rows[b + 1].type = "Assembly" /\ \A k \in 1..NBlocks : rows[b + 1 + k].type = "Block"
    BY <2>3, <2>5, LayoutTypes
  <2>7. CountUp(rows, "Assembly", b) = m - 1 /\ CountUp(rows, "Block", b) = (m - 1) * NBlocks
    BY <2>2
  <2> HIDE DEF b, rows
  <2>8. CountUp(rows, "Assembly", b + Width) = m - 1 + 1 /\ CountUp(rows, "Block", b + Width) = (m - 1 + 1) * NBlocks
    BY <2>1, <2>5, <2>6, <2>7, NextAssembly
  <2> QED
    BY <1>3, <2>3, <2>5, <2>8
<1> QED
  BY <1>4, <1>5

(* The same in the pool. *)
LEMMA CountsInPool ==
  ASSUME NEW r, IsTree(r)
  PROVE  \A m \in Nat : NCore(r) <= m /\ m <= NAll(r) =>
           /\ CountUp(CreateLayout(r), "Assembly", 3 + Span(m)) = m
           /\ CountUp(CreateLayout(r), "Block", 3 + Span(m)) = m * NBlocks
<1> DEFINE rows == CreateLayout(r)
           Right(m) == /\ CountUp(rows, "Assembly", 3 + Span(m)) = m
                       /\ CountUp(rows, "Block", 3 + Span(m)) = m * NBlocks
           S == {m \in Nat : NCore(r) <= m /\ m <= NAll(r) /\ ~Right(m)}
<1>1. SUFFICES ASSUME S # {} PROVE FALSE
  OBVIOUS
<1>2. PICK m \in S : \A l \in S : m <= l
  BY <1>1, LeastNumber
<1>3. m \in Nat /\ NCore(r) <= m /\ m <= NAll(r) /\ ~Right(m)
  BY <1>2
<1>4. CASE m = NCore(r)
  <2>1. CountUp(rows, "Assembly", 2 + Span(m)) = m /\ CountUp(rows, "Block", 2 + Span(m)) = m * NBlocks
    BY <1>3, <1>4, CountsInCore
  <2>2. Span(m) \in Nat /\ 2 + Span(m) + 1 = 3 + Span(m) /\ PoolRow(r) = 3 + Span(m)
    BY <1>3, <1>4, SpanFacts DEF PoolRow
  <2>3. rows[2 + Span(m) + 1].type = "SpentFuelPool"
    BY <2>2, LayoutTypes
  <2> HIDE DEF rows
  <2>4. 2 + Span(m) \in Nat
    BY <2>2
  <2>5. CountUp(rows, "Assembly", 2 + Span(m) + 1) = m
    BY <2>1, <2>3, <2>4, OneMore
  <2>6. CountUp(rows, "Block", 2 + Span(m) + 1) = m * NBlocks
    BY <2>1, <2>3, <2>4, OneMore
  <2> QED
    BY <1>3, <2>2, <2>5, <2>6
<1>5. CASE m # NCore(r)
  <2>1. m - 1 \in Nat /\ NCore(r) <= m - 1 /\ m - 1 <= NAll(r) /\ m - 1 \notin S
    BY <1>2, <1>3, <1>5, TreeNumbers
  <2>2. Right(m - 1)
    BY <2>1
  <2>3. m \in 1..NAll(r) /\ m \in Nat /\ m = (m - 1) + 1 /\ ~(m <= NCore(r))
    BY <1>3, <1>5, TreeNumbers
  <2>4. Span(m - 1) \in Nat /\ Span(m) = Span(m - 1) + Width
    BY <2>1, <2>3, SpanFacts
  <2> DEFINE b == 3 + Span(m - 1)
  <2>5. b \in Nat /\ RowAt(r, m) = b + 1 /\ b + Width = 3 + Span(m)
    BY <2>3, <2>4, NBlocksNumber DEF RowAt
  <2>6. rows[b + 1].type = "Assembly" /\ \A k \in 1..NBlocks : rows[b + 1 + k].type = "Block"
    BY <2>3, <2>5, LayoutTypes
  <2>7. CountUp(rows, "Assembly", b) = m - 1 /\ CountUp(rows, "Block", b) = (m - 1) * NBlocks
    BY <2>2
  <2> HIDE DEF b, rows
  <2>8. CountUp(rows, "Assembly", b + Width) = m - 1 + 1 /\ CountUp(rows, "Block", b + Width) = (m - 1 + 1) * NBlocks
    BY <2>1, <2>5, <2>6, <2>7, NextAssembly
  <2> QED
    BY <1>3, <2>3, <2>5, <2>8
<1> QED
  BY <1>4, <1>5

(* The j-th assembly and its blocks have the j-th places in the columns. *)
LEMMA IndexesInData ==
  ASSUME NEW r, IsTree(r)
  PROVE  LET rows == CreateLayout(r)
         IN  /\ \A j \in 1..NAll(r) :
                  /\ IndexInData(rows, RowAt(r, j)) = j
                  /\ \A k \in 1..NBlocks : IndexInData(rows, RowAt(r, j) + k) = (j - 1) * NBlocks + k
             /\ CountOf(rows, "Assembly") = NAll(r)
             /\ CountOf(rows, "Block") = NAll(r) * NBlocks
<1> DEFINE rows == CreateLayout(r)
<1>1. ASSUME NEW j \in 1..NAll(r)
      PROVE  /\ IndexInData(rows, RowAt(r, j)) = j
             /\ \A k \in 1..NBlocks : IndexInData(rows, RowAt(r, j) + k) = (j - 1) * NBlocks + k
  <2>1. j - 1 \in Nat /\ (j - 1) * NBlocks \in Nat /\ Span(j - 1) \in Nat
    <3>1. j - 1 \in Nat
      BY TreeNumbers
    <3> QED
      BY <3>1, NBlocksNumber, Products, SpanFacts
  <2>2. PICK b \in Nat : /\ RowAt(r, j) = b + 1 /\ CountUp(rows, "Assembly", b) = j - 1
                         /\ CountUp(rows, "Block", b) = (j - 1) * NBlocks
    <3>1. CASE j <= NCore(r)
      <4>1. RowAt(r, j) = 2 + Span(j - 1) + 1 /\ 2 + Span(j - 1) \in Nat
        BY <2>1, <3>1 DEF RowAt
      <4>2. j - 1 <= NCore(r)
        BY <2>1, <3>1, TreeNumbers
      <4> QED
        BY <2>1, <4>1, <4>2, CountsInCore
    <3>2. CASE ~(j <= NCore(r))
      <4>1. RowAt(r, j) = 3 + Span(j - 1) + 1 /\ 3 + Span(j - 1) \in Nat
        BY <2>1, <3>2 DEF RowAt
      <4>2. NCore(r) <= j - 1 /\ j - 1 <= NAll(r)
        BY <3>2, TreeNumbers
      <4> QED
        BY <2>1, <4>1, <4>2, CountsInPool
    <3> QED
      BY <3>1, <3>2
  <2>3. rows[b + 1].type = "Assembly" /\ \A k \in 1..NBlocks : rows[b + 1 + k].type = "Block"
    BY <2>2, LayoutTypes
  <2> HIDE DEF rows
  <2>4. \A k \in 0..NBlocks : /\ CountUp(rows, "Assembly", b + 1 + k) = (j - 1) + 1
                              /\ CountUp(rows, "Block", b + 1 + k) = (j - 1) * NBlocks + k
    BY <2>1, <2>2, <2>3, OneAssembly
  <2>5. CountUp(rows, "Assembly", b + 1) = j
    <3>1. 0 \in 0..NBlocks /\ b + 1 + 0 = b + 1 /\ (j - 1) + 1 = j
      BY NBlocksNumber
    <3> QED
      BY <2>4, <3>1
  <2>6. IndexInData(rows, b + 1) = j
    BY <2>3, <2>5 DEF IndexInData, CountUp
  <2>7. ASSUME NEW k \in 1..NBlocks PROVE IndexInData(rows, b + 1 + k) = (j - 1) * NBlocks + k
    <3>1. CountUp(rows, "Block", b + 1 + k) = (j - 1) * NBlocks + k
      BY <2>4, NBlocksNumber
    <3> QED
      BY <2>3, <3>1 DEF IndexInData, CountUp
  <2> QED
    BY <2>2, <2>6, <2>7
<1>2. /\ CountOf(rows, "Assembly") = NAll(r)
      /\ CountOf(rows, "Block") = NAll(r) * NBlocks
  <2>1. NCore(r) <= NAll(r) /\ NAll(r) \in Nat
    BY TreeNumbers DEF NAll
  <2>2. Len(rows) = 3 + Span(NAll(r))
    BY LayoutRows
  <2>3. /\ CountUp(rows, "Assembly", 3 + Span(NAll(r))) = NAll(r)
        /\ CountUp(rows, "Block", 3 + Span(NAll(r))) = NAll(r) * NBlocks
    BY <2>1, CountsInPool
  <2>4. \A type : CountOf(rows, type) = CountUp(rows, type, Len(rows))
    BY DEF CountOf, RowsOf, CountUp
  <2> HIDE DEF rows
  <2> QED
    BY <2>2, <2>3, <2>4
<1> QED
  BY <1>1, <1>2

(* Every row is one of these. *)
LEMMA Division ==
  ASSUME NEW m \in Nat, NEW x \in Nat, x < Span(m)
  PROVE  \E i \in 1..m : \E k \in 0..NBlocks : x = Span(i - 1) + k
<1> DEFINE S == {l \in Nat : x < Span(l)}
<1>1. m \in S
  OBVIOUS
<1>2. PICK i \in S : \A l \in S : i <= l
  BY <1>1, LeastNumber
<1>3. i # 0
  BY <1>2, SpanFacts
<1>4. i \in 1..m /\ i - 1 \in Nat /\ i = (i - 1) + 1
  BY <1>1, <1>2, <1>3
<1>5. ~(x < Span(i - 1))
  <2>1. i - 1 \notin S
    BY <1>2, <1>4
  <2> QED
    BY <1>4, <2>1
<1>6. Span(i - 1) \in Nat /\ Span(i) = Span(i - 1) + Width
  BY <1>4, SpanFacts
<1>7. x < Span(i)
  BY <1>2
<1>8. x - Span(i - 1) \in 0..NBlocks /\ x = Span(i - 1) + (x - Span(i - 1))
  BY <1>5, <1>6, <1>7, NBlocksNumber
<1> QED
  BY <1>4, <1>8

(* There are no other rows. *)
LEMMA EveryRow ==
  ASSUME NEW r, IsTree(r), NEW n \in 1..Len(CreateLayout(r))
  PROVE  \/ n \in {1, 2, PoolRow(r)}
         \/ \E j \in 1..NAll(r) : n = RowAt(r, j) \/ \E k \in 1..NBlocks : n = RowAt(r, j) + k
<1> DEFINE c == Span(NCore(r))
<1>1. n \in 1..3 + Span(NAll(r)) /\ c \in Nat /\ Span(NAll(r)) \in Nat
  BY LayoutRows, TreeNumbers
<1>2. PoolRow(r) = 3 + c
  BY DEF PoolRow
<1>3. ASSUME NEW j \in 1..NAll(r), NEW k \in 0..NBlocks, n = RowAt(r, j) + k
      PROVE  n = RowAt(r, j) \/ \E l \in 1..NBlocks : n = RowAt(r, j) + l
  <2>1. RowAt(r, j) \in Nat
    <3>1. j - 1 \in Nat
      BY TreeNumbers
    <3>2. Span(j - 1) \in Nat
      BY <3>1, SpanFacts
    <3> QED
      BY <3>2 DEF RowAt
  <2> QED
    BY <1>3, <2>1, NBlocksNumber
<1>4. CASE n > 2 /\ n < 3 + c
  <2>1. n - 3 \in Nat /\ n - 3 < c
    BY <1>1, <1>4
  <2>2. PICK j \in 1..NCore(r), k \in 0..NBlocks : n - 3 = Span(j - 1) + k
    BY <2>1, Division, TreeNumbers
  <2>3. j \in 1..NAll(r) /\ j <= NCore(r) /\ j - 1 \in Nat
    BY TreeNumbers DEF NAll
  <2>4. n = RowAt(r, j) + k
    <3>1. Span(j - 1) \in Nat
      BY <2>3, SpanFacts
    <3> QED
      BY <1>1, <2>2, <2>3, <3>1, NBlocksNumber DEF RowAt
  <2> QED
    BY <1>3, <2>3, <2>4
<1>5. CASE n > 3 + c
  <2>1. n - 4 \in Nat /\ n - 4 < Span(NAll(r)) /\ ~(n - 4 < c)
    BY <1>1, <1>5
  <2>2. PICK j \in 1..NAll(r), k \in 0..NBlocks : n - 4 = Span(j - 1) + k
    BY <2>1, Division, TreeNumbers
  <2>3. j - 1 \in Nat /\ j \in Nat /\ j = (j - 1) + 1
    BY TreeNumbers
  <2>4. Span(j - 1) \in Nat /\ Span(j) = Span(j - 1) + Width
    BY <2>3, SpanFacts
  <2>5. ~(j <= NCore(r))
    <3> SUFFICES ASSUME j <= NCore(r) PROVE FALSE
      OBVIOUS
    <3>1. Span(j) <= c
      BY <2>3, SpanFacts, TreeNumbers
    <3> QED
      BY <1>1, <2>1, <2>2, <2>4, <3>1, NBlocksNumber
  <2>6. n = RowAt(r, j) + k
    <3>1. RowAt(r, j) = 4 + Span(j - 1)
      BY <2>5 DEF RowAt
    <3>2. PICK x \in Nat : x = Span(j - 1)
      BY <2>4
    <3>3. n \in Nat /\ k \in Nat /\ n - 4 = x + k
      BY <1>1, <2>2, <3>2, NBlocksNumber
    <3>4. n = 4 + x + k
      BY ONLY <3>2, <3>3
    <3> QED
      BY <3>1, <3>2, <3>4
  <2> QED
    BY <1>3, <2>6
<1> QED
  BY <1>1, <1>2, <1>4, <1>5

-----------------------------------------------------------------------------
(***************************************************************************)
(* Composing the tree again (database.py, _compose).                       *)
(***************************************************************************)

(* The recursive function of Compose. *)
Past(rows)          == Len(rows) + 1
Below(F, rows, n)   == F[n + 1][rows[n].numChildren]
Rest(F, rows, n, c) == F[Below(F, rows, n).next][c - 1]

SubForest(F, rows, n, c) ==
  IF c = 0 \/ n = Past(rows) THEN [nodes |-> <<>>, next |-> n]
  ELSE [nodes |-> <<[row |-> n, children |-> Below(F, rows, n).nodes]>> \o Rest(F, rows, n, c).nodes,
        next  |-> Rest(F, rows, n, c).next]

Forest(F, rows, k) == F = [n \in k..Past(rows) |-> [c \in Nat |-> SubForest(F, rows, n, c)]]

GoesOn(F, rows, k) == \A n \in k..Past(rows), c \in Nat : F[n][c].next \in n..Past(rows)

Counted(rows) == IsList(rows) /\ \A n \in 1..Len(rows) : rows[n].numChildren \in Nat

(* The recursion of Compose is well founded: it always goes on to later rows. *)
LEMMA ForestExists ==
  ASSUME NEW rows, Counted(rows)
  PROVE  \E F : Forest(F, rows, 1) /\ GoesOn(F, rows, 1)
<1> DEFINE past == Past(rows)
           Has(k) == \E F : Forest(F, rows, k) /\ GoesOn(F, rows, k)
           S == {d \in Nat : d < past /\ ~Has(past - d)}
<1>1. past \in Nat /\ past - 1 \in Nat /\ Len(rows) = past - 1
  BY DEF Past, Counted, IsList
<1>2. ASSUME S # {} PROVE FALSE
  <2>1. PICK d \in S : \A l \in S : d <= l
    BY <1>2, LeastNumber
  <2> DEFINE k == past - d
  <2>2. d \in Nat /\ d < past /\ ~Has(k) /\ k \in 1..past
    BY <1>1, <2>1
  <2>3. CASE d = 0
    <3> DEFINE F == [n \in k..past |-> [c \in Nat |-> [nodes |-> <<>>, next |-> n]]]
    <3>1. k = past
      BY <1>1, <2>3
    <3>2. \A n \in k..past : n = past
      BY <1>1, <3>1
    <3>3. \A n \in k..past, c \in Nat : SubForest(F, rows, n, c) = [nodes |-> <<>>, next |-> n]
      BY <3>2 DEF SubForest
    <3>4. Forest(F, rows, k)
      BY <3>3 DEF Forest
    <3>5. GoesOn(F, rows, k)
      BY <1>1, <3>2 DEF GoesOn
    <3> QED
      BY <2>2, <3>4, <3>5
  <2>4. CASE d # 0
    <3>1. d - 1 \in Nat /\ d - 1 < past /\ d - 1 \notin S /\ k + 1 = past - (d - 1) /\ k < past
      BY <1>1, <2>1, <2>2, <2>4
    <3>2. PICK g : Forest(g, rows, k + 1) /\ GoesOn(g, rows, k + 1)
      BY <3>1
    <3> DEFINE f == [n \in k..past |-> IF n = k THEN [c \in Nat |-> SubForest(g, rows, k, c)] ELSE g[n]]
    <3> HIDE DEF past, k
    <3>3. \A n \in k + 1..past : f[n] = g[n] /\ n \in k..past /\ n # k
      BY <1>1, <2>2
    <3>4. f[k] = [c \in Nat |-> SubForest(g, rows, k, c)]
      BY <1>1, <2>2, <3>1
    <3>5. f = [n \in k..past |-> f[n]]
      OBVIOUS
    <3> HIDE DEF f
    <3>6. ASSUME NEW n \in k..past, NEW c \in Nat, n # past
          PROVE  /\ Below(f, rows, n) = Below(g, rows, n) /\ Below(g, rows, n).next \in n + 1..past
                 /\ Rest(f, rows, n, c) = Rest(g, rows, n, c)
                 /\ (c # 0 => Rest(g, rows, n, c).next \in n + 1..past)
      <4>1. n + 1 \in k + 1..past /\ n \in 1..Len(rows) /\ n \in Nat
        BY <1>1, <2>2, <3>6
      <4>2. rows[n].numChildren \in Nat
        BY <4>1 DEF Counted
      <4>3. Below(f, rows, n) = Below(g, rows, n)
        BY <3>3, <4>1 DEF Below
      <4>4. Below(g, rows, n).next \in n + 1..past
        BY <3>2, <4>1, <4>2 DEF GoesOn, Below, past
      <4>5. Below(g, rows, n).next \in k + 1..past
        BY <1>1, <2>2, <4>1, <4>4
      <4>6. Rest(f, rows, n, c) = Rest(g, rows, n, c)
        BY <3>3, <4>3, <4>5 DEF Rest
      <4>7. ASSUME c # 0 PROVE Rest(g, rows, n, c).next \in n + 1..past
        <5>1. c - 1 \in Nat
          BY <4>7
        <5>2. Rest(g, rows, n, c).next \in Below(g, rows, n).next..past
          BY <3>2, <4>5, <5>1 DEF GoesOn, Rest, past
        <5> QED
          BY <1>1, <4>1, <4>4, <5>2
      <4> QED
        BY <4>3, <4>4, <4>6, <4>7
    <3>7. ASSUME NEW n \in k..past, NEW c \in Nat
          PROVE  SubForest(f, rows, n, c) = SubForest(g, rows, n, c) /\ SubForest(g, rows, n, c).next \in n..past
      <4>1. CASE c = 0 \/ n = past
        BY <1>1, <2>2, <4>1 DEF SubForest, past
      <4>2. CASE ~(c = 0 \/ n = past)
        <5>1. /\ Below(f, rows, n) = Below(g, rows, n)
              /\ Rest(f, rows, n, c) = Rest(g, rows, n, c)
              /\ Rest(g, rows, n, c).next \in n + 1..past
          BY <3>6, <4>2
        <5>2. SubForest(f, rows, n, c) = SubForest(g, rows, n, c)
          BY <5>1 DEF SubForest
        <5>3. SubForest(g, rows, n, c).next = Rest(g, rows, n, c).next
          BY <4>2 DEF SubForest, past
        <5> QED
          BY <1>1, <2>2, <5>1, <5>2, <5>3
      <4> QED
        BY <4>1, <4>2
    <3>8. \A n \in k..past : f[n] = [c \in Nat |-> SubForest(g, rows, n, c)]
      <4> SUFFICES ASSUME NEW n \in k..past PROVE f[n] = [c \in Nat |-> SubForest(g, rows, n, c)]
        OBVIOUS
      <4>1. CASE n = k
        BY <3>4, <4>1
      <4>2. CASE n # k
        <5>1. n \in k + 1..past
          BY <1>1, <2>2, <4>2
        <5>2. g[n] = [c \in Nat |-> SubForest(g, rows, n, c)]
          BY <3>2, <5>1 DEF Forest, past
        <5> QED
          BY <3>3, <5>1, <5>2
      <4> QED
        BY <4>1, <4>2
    <3>9. \A n \in k..past : f[n] = [c \in Nat |-> SubForest(f, rows, n, c)]
      BY <3>7, <3>8
    <3>10. Forest(f, rows, k)
      BY <3>5, <3>9 DEF Forest, past
    <3>11. GoesOn(f, rows, k)
      <4> SUFFICES ASSUME NEW n \in k..past, NEW c \in Nat PROVE f[n][c].next \in n..past
        BY DEF GoesOn, past
      <4>1. PICK x : x = SubForest(g, rows, n, c)
        OBVIOUS
      <4>2. x.next \in n..past
        BY <3>7, <4>1
      <4>3. f[n][c] = x
        BY <3>8, <4>1
      <4> QED
        BY ONLY <4>2, <4>3
    <3> QED
      BY <2>2, <3>10, <3>11 DEF k, past
  <2> QED
    BY <2>3, <2>4
<1>3. past - 1 \notin S /\ past - 1 < past /\ past - (past - 1) = 1
  BY <1>1, <1>2
<1>4. Has(past - (past - 1))
  BY <1>1, <1>3
<1> QED
  BY <1>3, <1>4

IsForest(F, rows) == \A n \in 1..Past(rows), c \in Nat : F[n][c] = SubForest(F, rows, n, c)

(* Compose is the first node of that function. *)
LEMMA ForestOf ==
  ASSUME NEW rows, Counted(rows)
  PROVE  \E F : IsForest(F, rows) /\ Compose(rows) = F[1][1].nodes[1]
<1> DEFINE F == CHOOSE F : Forest(F, rows, 1)
<1>1. Forest(F, rows, 1)
  BY ForestExists
<1>2. Compose(rows) = F[1][1].nodes[1]
  BY DEF Compose, Forest, SubForest, Past, Below, Rest
<1> HIDE DEF F
<1>3. PICK G : G = F
  OBVIOUS
<1>4. Forest(G, rows, 1) /\ Compose(rows) = G[1][1].nodes[1]
  BY <1>1, <1>2, <1>3
<1>5. ASSUME NEW n \in 1..Past(rows), NEW c \in Nat PROVE G[n][c] = SubForest(G, rows, n, c)
  <2>1. G = [m \in 1..Past(rows) |-> [d \in Nat |-> SubForest(G, rows, m, d)]]
    BY <1>4 DEF Forest
  <2>2. G[n] = [d \in Nat |-> SubForest(G, rows, n, d)]
    BY <2>1
  <2> QED
    BY <2>2
<1> QED
  BY <1>4, <1>5 DEF IsForest

(* A node before others. *)
LEMMA OneMoreNode ==
  ASSUME NEW x, NEW s, IsList(s)
  PROVE  /\ IsList(<<x>> \o s) /\ Len(<<x>> \o s) = 1 + Len(s)
         /\ (<<x>> \o s)[1] = x /\ \A i \in 1..Len(s) : (<<x>> \o s)[1 + i] = s[i]
<1>1. PICK y : y = <<x>>
  OBVIOUS
<1>2. IsList(y) /\ Len(y) = 1 /\ y[1] = x
  BY <1>1, OneList
<1>5. IsList(y) /\ IsList(s)
  BY <1>2
<1>3. /\ IsList(y \o s) /\ Len(y \o s) = Len(y) + Len(s)
      /\ \A i \in 1..Len(y) : (y \o s)[i] = y[i]
      /\ \A i \in 1..Len(s) : (y \o s)[Len(y) + i] = s[i]
  BY ONLY <1>5, ConcatLists
<1>4. 1 \in 1..Len(y)
  BY <1>2
<1> QED
  BY <1>1, <1>2, <1>3, <1>4

Leaf(n) == [row |-> n, children |-> <<>>]

LeafList(n, c) == [i \in 1..c |-> Leaf(n + i - 1)]

(* No children. *)
LEMMA NoNodes ==
  ASSUME NEW F, NEW rows, IsForest(F, rows), NEW n \in 1..Past(rows)
  PROVE  F[n][0].nodes = <<>> /\ F[n][0].next = n
<1>1. F[n][0] = SubForest(F, rows, n, 0)
  BY DEF IsForest
<1> QED
  BY <1>1 DEF SubForest

(* Blocks have no children. *)
LEMMA Leaves ==
  ASSUME NEW F, NEW rows, IsForest(F, rows), Counted(rows)
  PROVE  \A c \in Nat, n \in Nat :
           n >= 1 /\ n + c <= Past(rows) /\ (\A i \in 0..c - 1 : rows[n + i].numChildren = 0)
             => F[n][c].nodes = LeafList(n, c) /\ F[n][c].next = n + c
<1> USE DEF LeafList
<1> DEFINE past == Past(rows)
           Given(c, n) == n >= 1 /\ n + c <= past /\ (\A i \in 0..c - 1 : rows[n + i].numChildren = 0)
           Right(c, n) == F[n][c].nodes = LeafList(n, c) /\ F[n][c].next = n + c
           S == {c \in Nat : \E n \in Nat : Given(c, n) /\ ~Right(c, n)}
<1>1. SUFFICES ASSUME S # {} PROVE FALSE
  OBVIOUS
<1>2. PICK c \in S : \A l \in S : c <= l
  BY <1>1, LeastNumber
<1>3. PICK n \in Nat : Given(c, n) /\ ~Right(c, n)
  BY <1>2
<1>4. c \in Nat /\ past \in Nat /\ past = Len(rows) + 1 /\ n \in 1..past /\ n + c <= past
  BY <1>2, <1>3 DEF Past, Counted, IsList
<1>5. CASE c = 0
  <2>1. F[n][0].nodes = <<>> /\ F[n][0].next = n
    BY <1>4, NoNodes
  <2>2. [i \in 1..0 |-> Leaf(n + i - 1)] = <<>> /\ n + 0 = n
    BY <1>4
  <2> QED
    BY <1>3, <1>5, <2>1, <2>2
<1>6. CASE c # 0
  <2>1. c - 1 \in Nat /\ c - 1 \notin S /\ n + 1 \in Nat /\ n + 1 >= 1 /\ (n + 1) + (c - 1) = n + c
        /\ n + 1 \in 1..past /\ n # past
    <3> HIDE DEF S, past
    <3>0. c - 1 \in Nat /\ ~(c <= c - 1)
      BY <1>4, <1>6
    <3>1. c - 1 \in Nat /\ c - 1 \notin S
      BY <1>2, <3>0
    <3> QED
      BY <1>4, <1>6, <3>1
  <2>2. \A i \in 0..c - 1 : rows[n + i].numChildren = 0
    BY <1>3
  <2>3. Given(c - 1, n + 1)
    <3>1. ASSUME NEW i \in 0..(c - 1) - 1 PROVE rows[(n + 1) + i].numChildren = 0
      <4>1. i + 1 \in 0..c - 1 /\ (n + 1) + i = n + (i + 1)
        BY <1>4
      <4> QED
        BY <2>2, <4>1
    <3> QED
      BY <1>4, <2>1, <3>1
  <2>4. Right(c - 1, n + 1)
    BY <2>1, <2>3
  <2>5. rows[n].numChildren = 0
    BY <1>4, <1>6, <2>2, 0 \in 0..c - 1, n + 0 = n
  <2>6. Below(F, rows, n).nodes = <<>> /\ Below(F, rows, n).next = n + 1
    BY <2>1, <2>5, NoNodes DEF Below, past
  <2> DEFINE s == [i \in 1..c - 1 |-> Leaf((n + 1) + i - 1)]
  <2>7. Rest(F, rows, n, c).nodes = s /\ Rest(F, rows, n, c).next = n + c
    BY <2>1, <2>4, <2>6 DEF Rest
  <2>8. F[n][c] = SubForest(F, rows, n, c)
    BY <1>4 DEF IsForest
  <2>9. F[n][c].nodes = <<Leaf(n)>> \o s /\ F[n][c].next = n + c
    BY <1>6, <2>1, <2>6, <2>7, <2>8 DEF SubForest, Leaf
  <2>10. IsList(s) /\ Len(s) = c - 1
    <3>1. s = [i \in 1..c - 1 |-> s[i]]
      OBVIOUS
    <3> HIDE DEF s
    <3> QED
      BY <2>1, <3>1, LenOf
  <2>11. \A i \in 1..c - 1 : s[i] = Leaf((n + 1) + i - 1)
    OBVIOUS
  <2> HIDE DEF s
  <2> DEFINE t == <<Leaf(n)>> \o s
             u == [i \in 1..c |-> Leaf(n + i - 1)]
  <2>12. IsList(t) /\ Len(t) = c /\ t[1] = Leaf(n) /\ \A i \in 1..c - 1 : t[1 + i] = Leaf((n + 1) + i - 1)
    <3>1. /\ IsList(t) /\ Len(t) = 1 + (c - 1) /\ t[1] = Leaf(n) /\ \A i \in 1..c - 1 : t[1 + i] = s[i]
      BY <2>10, OneMoreNode
    <3>2. 1 + (c - 1) = c
      BY <1>4
    <3> HIDE DEF t
    <3> QED
      BY <2>11, <3>1, <3>2
  <2>13. IsList(u) /\ Len(u) = c
    <3>1. u = [i \in 1..c |-> u[i]]
      OBVIOUS
    <3> HIDE DEF u
    <3> QED
      BY <1>4, <3>1, LenOf
  <2>14. ASSUME NEW i \in 1..c PROVE t[i] = u[i]
    <3> HIDE DEF t
    <3>1. u[i] = Leaf(n + i - 1)
      OBVIOUS
    <3>2. CASE i = 1
      <4>1. n + 1 - 1 = n
        BY <1>4
      <4> HIDE DEF u
      <4> QED
        BY <2>12, <3>1, <3>2, <4>1
    <3>3. CASE i # 1
      <4>1. i - 1 \in 1..c - 1 /\ 1 + (i - 1) = i /\ (n + 1) + (i - 1) - 1 = n + i - 1
        BY <1>4, <3>3
      <4> HIDE DEF u
      <4> QED
        BY <2>12, <3>1, <4>1
    <3> QED
      BY <3>2, <3>3
  <2>15. t = u
    <3> HIDE DEF t, u
    <3> QED
      BY <2>12, <2>13, <2>14, SameLists
  <2> QED
    BY <1>3, <2>9, <2>15
<1> QED
  BY <1>5, <1>6

AssemblyNode(b) == [row |-> b, children |-> [k \in 1..NBlocks |-> Leaf(b + k)]]

AssemblyList(n, c) == [i \in 1..c |-> AssemblyNode(n + Span(i - 1))]

(* Assemblies one after the other from row n on. *)
StackRows(rows, n, c) ==
  \A i \in 1..c : /\ rows[n + Span(i - 1)].numChildren = NBlocks
                  /\ \A k \in 1..NBlocks : rows[n + Span(i - 1) + k].numChildren = 0

(* Assemblies that follow each other become nodes that follow each other. *)
LEMMA Stacks ==
  ASSUME NEW F, NEW rows, IsForest(F, rows), Counted(rows)
  PROVE  \A c \in Nat, n \in Nat :
           n >= 1 /\ n + Span(c) <= Past(rows) /\ StackRows(rows, n, c)
             => /\ F[n][c].nodes = AssemblyList(n, c)
                /\ F[n][c].next = n + Span(c)
<1> USE DEF AssemblyList
<1> DEFINE past == Past(rows)
           Given(c, n) == n >= 1 /\ n + Span(c) <= past /\ StackRows(rows, n, c)
           Right(c, n) == /\ F[n][c].nodes = AssemblyList(n, c)
                          /\ F[n][c].next = n + Span(c)
           S == {c \in Nat : \E n \in Nat : Given(c, n) /\ ~Right(c, n)}
<1>1. SUFFICES ASSUME S # {} PROVE FALSE
  OBVIOUS
<1>2. PICK c \in S : \A l \in S : c <= l
  BY <1>1, LeastNumber
<1>3. PICK n \in Nat : Given(c, n) /\ ~Right(c, n)
  BY <1>2
<1>4. c \in Nat /\ past \in Nat /\ past = Len(rows) + 1 /\ n + Span(c) <= past /\ Span(c) \in Nat /\ n \in 1..past
  <2>1. c \in Nat /\ past \in Nat /\ past = Len(rows) + 1 /\ n + Span(c) <= past /\ n >= 1
    BY <1>2, <1>3 DEF Past, Counted, IsList
  <2>2. Span(c) \in Nat
    BY <2>1, SpanFacts
  <2> HIDE DEF past
  <2> QED
    BY <2>1, <2>2
<1>5. CASE c = 0
  <2>1. F[n][0].nodes = <<>> /\ F[n][0].next = n
    BY <1>4, NoNodes
  <2>2. [i \in 1..0 |-> AssemblyNode(n + Span(i - 1))] = <<>> /\ n + Span(0) = n
    BY <1>4, SpanFacts
  <2> QED
    BY <1>3, <1>5, <2>1, <2>2
<1>6. CASE c # 0
  <2> HIDE DEF S, past
  <2>1. c - 1 \in Nat /\ c - 1 \notin S
    <3>1. c - 1 \in Nat /\ ~(c <= c - 1)
      BY <1>4, <1>6
    <3> QED
      BY <1>2, <3>1
  <2>2. /\ Span(c - 1) \in Nat /\ Span(c) = Span(c - 1) + Width /\ Span(1) = Width /\ Span(1 - 1) = 0
    <3>1. c = (c - 1) + 1 /\ 1 = 0 + 1 /\ 1 - 1 = 0 /\ 0 \in Nat
      BY <1>4
    <3> QED
      BY <2>1, <3>1, SpanFacts, NBlocksNumber
  <2> DEFINE m == n + Width
  <2>3. /\ m \in Nat /\ m >= 1 /\ m + Span(c - 1) = n + Span(c)
        /\ m \in 1..past /\ n # past /\ n + 1 \in Nat /\ n + 1 >= 1 /\ n + 1 + NBlocks = m /\ m <= past
        /\ n + 1 \in 1..past
    BY <1>4, <2>2, NBlocksNumber
  <2>4. StackRows(rows, n, c)
    BY <1>3
  <2>5. StackRows(rows, m, c - 1)
    <3> SUFFICES ASSUME NEW i \in 1..c - 1
                 PROVE  /\ rows[m + Span(i - 1)].numChildren = NBlocks
                        /\ \A k \in 1..NBlocks : rows[m + Span(i - 1) + k].numChildren = 0
      BY DEF StackRows
    <3>1. i + 1 \in 1..c /\ i - 1 \in Nat /\ (i - 1) + 1 = (i + 1) - 1
      BY <1>4
    <3>2. m + Span(i - 1) = n + Span((i + 1) - 1)
      <4>1. Span((i - 1) + 1) = Span(i - 1) + Width /\ Span(i - 1) \in Nat
        BY <3>1, SpanFacts
      <4> QED
        BY <1>4, <3>1, <4>1, NBlocksNumber
    <3> HIDE DEF m
    <3> QED
      BY <2>4, <3>1, <3>2 DEF StackRows
  <2>6. Right(c - 1, m)
    <3>1. Given(c - 1, m)
      BY <1>4, <2>3, <2>5
    <3> HIDE DEF Right, Given, m
    <3> QED
      BY <2>1, <2>3, <3>1 DEF S
  <2>7. rows[n].numChildren = NBlocks /\ \A k \in 1..NBlocks : rows[n + k].numChildren = 0
    <3>1. 1 \in 1..c /\ n + Span(1 - 1) = n
      BY <1>4, <1>6, <2>2
    <3>2. rows[n + Span(1 - 1)].numChildren = NBlocks
          /\ \A k \in 1..NBlocks : rows[n + Span(1 - 1) + k].numChildren = 0
      BY <2>4, <3>1 DEF StackRows
    <3> QED
      BY <3>1, <3>2
  <2>8. Below(F, rows, n).nodes = [k \in 1..NBlocks |-> Leaf(n + k)] /\ Below(F, rows, n).next = m
    <3> HIDE DEF m
    <3>1. \A i \in 0..NBlocks - 1 : rows[(n + 1) + i].numChildren = 0
      <4> SUFFICES ASSUME NEW i \in 0..NBlocks - 1 PROVE rows[(n + 1) + i].numChildren = 0
        OBVIOUS
      <4>1. i + 1 \in 1..NBlocks /\ (n + 1) + i = n + (i + 1)
        BY <1>4, NBlocksNumber
      <4> QED
        BY <2>7, <4>1
    <3>9. NBlocks \in Nat
      BY NBlocksNumber
    <3>2. F[n + 1][NBlocks].nodes = LeafList(n + 1, NBlocks) /\ F[n + 1][NBlocks].next = (n + 1) + NBlocks
      <4>1. n + 1 >= 1 /\ (n + 1) + NBlocks <= Past(rows) /\ n + 1 \in Nat
        BY <2>3 DEF past
      <4>2. PICK q, c1 : q = n + 1 /\ c1 = NBlocks
        OBVIOUS
      <4>3. /\ IsForest(F, rows) /\ Counted(rows) /\ q \in Nat /\ c1 \in Nat
            /\ q >= 1 /\ q + c1 <= Past(rows) /\ \A i \in 0..c1 - 1 : rows[q + i].numChildren = 0
        BY <3>1, <3>9, <4>1, <4>2
      <4>4. F[q][c1].nodes = LeafList(q, c1) /\ F[q][c1].next = q + c1
        BY ONLY <4>3, Leaves
      <4> QED
        BY <4>2, <4>4
    <3>3. \A k \in 1..NBlocks : (n + 1) + k - 1 = n + k
      BY <1>4, NBlocksNumber
    <3>4. LeafList(n + 1, NBlocks) = [k \in 1..NBlocks |-> Leaf(n + k)]
      BY <3>3 DEF LeafList
    <3> QED
      BY <2>3, <2>7, <3>2, <3>4 DEF Below
  <2> DEFINE s == [i \in 1..c - 1 |-> AssemblyNode(m + Span(i - 1))]
  <2>9. Rest(F, rows, n, c).nodes = s /\ Rest(F, rows, n, c).next = n + Span(c)
    BY <2>3, <2>6, <2>8 DEF Rest
  <2>10. F[n][c] = SubForest(F, rows, n, c)
    BY <1>4 DEF IsForest, past
  <2>11. F[n][c].nodes = <<AssemblyNode(n)>> \o s /\ F[n][c].next = n + Span(c)
    <3> HIDE DEF s, m
    <3>1. [row |-> n, children |-> Below(F, rows, n).nodes] = AssemblyNode(n)
      BY <2>8 DEF AssemblyNode
    <3>2. F[n][c] = [nodes |-> <<[row |-> n, children |-> Below(F, rows, n).nodes]>> \o Rest(F, rows, n, c).nodes,
                     next  |-> Rest(F, rows, n, c).next]
      BY <1>6, <2>3, <2>10 DEF SubForest, past
    <3> QED
      BY <2>9, <3>1, <3>2
  <2>12. IsList(s) /\ Len(s) = c - 1
    <3>1. s = [i \in 1..c - 1 |-> s[i]]
      OBVIOUS
    <3> HIDE DEF s
    <3> QED
      BY <2>1, <3>1, LenOf
  <2>13. \A i \in 1..c - 1 : s[i] = AssemblyNode(m + Span(i - 1))
    OBVIOUS
  <2> HIDE DEF s
  <2> DEFINE t == <<AssemblyNode(n)>> \o s
             u == [i \in 1..c |-> AssemblyNode(n + Span(i - 1))]
  <2>14. /\ IsList(t) /\ Len(t) = c /\ t[1] = AssemblyNode(n)
         /\ \A i \in 1..c - 1 : t[1 + i] = AssemblyNode(m + Span(i - 1))
    <3>1. /\ IsList(t) /\ Len(t) = 1 + (c - 1) /\ t[1] = AssemblyNode(n) /\ \A i \in 1..c - 1 : t[1 + i] = s[i]
      BY <2>12, OneMoreNode
    <3>2. 1 + (c - 1) = c
      BY <1>4
    <3> HIDE DEF t
    <3> QED
      BY <2>13, <3>1, <3>2
  <2>15. IsList(u) /\ Len(u) = c
    <3>1. u = [i \in 1..c |-> u[i]]
      OBVIOUS
    <3> HIDE DEF u
    <3> QED
      BY <1>4, <3>1, LenOf
  <2>16. ASSUME NEW i \in 1..c PROVE t[i] = u[i]
    <3> HIDE DEF t
    <3>1. u[i] = AssemblyNode(n + Span(i - 1))
      OBVIOUS
    <3>2. CASE i = 1
      <4>1. n + Span(1 - 1) = n
        BY <1>4, <2>2
      <4> HIDE DEF u
      <4> QED
        BY <2>14, <3>1, <3>2, <4>1
    <3>3. CASE i # 1
      <4>1. i - 1 \in 1..c - 1 /\ 1 + (i - 1) = i /\ (i - 1) - 1 \in Nat /\ i - 1 = ((i - 1) - 1) + 1
        BY <1>4, <3>3
      <4>2. m + Span((i - 1) - 1) = n + Span(i - 1)
        <5>1. Span(((i - 1) - 1) + 1) = Span((i - 1) - 1) + Width /\ Span((i - 1) - 1) \in Nat
          BY <4>1, SpanFacts
        <5> QED
          BY <1>4, <4>1, <5>1, NBlocksNumber
      <4> HIDE DEF u, m
      <4> QED
        BY <2>14, <3>1, <4>1, <4>2
    <3> QED
      BY <3>2, <3>3
  <2>17. t = u
    <3> HIDE DEF t, u
    <3> QED
      BY <2>14, <2>15, <2>16, SameLists
  <2> QED
    BY <1>3, <2>11, <2>17
<1> QED
  BY <1>5, <1>6

(* The tree that the rows of a reactor give back. *)
LEMMA LayoutChildren ==
  ASSUME NEW r, IsTree(r)
  PROVE  LET rows == CreateLayout(r)
         IN  /\ Counted(rows)
             /\ rows[1].numChildren = 2 /\ rows[2].numChildren = NCore(r)
             /\ rows[PoolRow(r)].numChildren = NPool(r)
             /\ \A j \in 1..NAll(r) : /\ rows[RowAt(r, j)].numChildren = NBlocks
                                      /\ \A k \in 1..NBlocks : rows[RowAt(r, j) + k].numChildren = 0
<1> DEFINE rows == CreateLayout(r)
<1>1. /\ \A type, sn, children, loc : Row(type, sn, children, loc).numChildren = children
      /\ \A a, l : AssemblyRow(a, l).numChildren = NBlocks
      /\ \A a, l, k : BlockRow(a, l, k).numChildren = 0
  BY DEF Row, AssemblyRow, BlockRow
<1>2. /\ rows[1].numChildren = 2 /\ rows[2].numChildren = NCore(r)
      /\ rows[PoolRow(r)].numChildren = NPool(r)
      /\ \A j \in 1..NAll(r) : /\ rows[RowAt(r, j)].numChildren = NBlocks
                               /\ \A k \in 1..NBlocks : rows[RowAt(r, j) + k].numChildren = 0
  BY <1>1, LayoutRows
<1>3. ASSUME NEW n \in 1..Len(rows) PROVE rows[n].numChildren \in Nat
  <2>1. NCore(r) \in Nat /\ NPool(r) \in Nat /\ NBlocks \in Nat /\ 2 \in Nat /\ 0 \in Nat
    BY TreeNumbers, NBlocksNumber
  <2>2. \/ n \in {1, 2, PoolRow(r)}
        \/ \E j \in 1..NAll(r) : n = RowAt(r, j) \/ \E k \in 1..NBlocks : n = RowAt(r, j) + k
    BY EveryRow
  <2> HIDE DEF rows
  <2> QED
    BY <1>2, <2>1, <2>2
<1>4. Counted(rows)
  BY <1>3, LayoutRows DEF Counted
<1> QED
  BY <1>2, <1>4

CoreNode(r) == [row |-> 2, children |-> AssemblyList(3, NCore(r))]
PoolNode(r) == [row |-> PoolRow(r), children |-> AssemblyList(PoolRow(r) + 1, NPool(r))]

(* The nodes of the core and of the pool are those of the assemblies. *)
LEMMA PlacesOfRows ==
  ASSUME NEW r, IsTree(r)
  PROVE  /\ \A j \in 1..NCore(r) : /\ j \in 1..NAll(r) /\ 3 + Span(j - 1) = RowAt(r, j)
                                   /\ AssemblyList(3, NCore(r))[j] = AssemblyNode(RowAt(r, j))
         /\ \A j \in 1..NPool(r) :
              /\ NCore(r) + j \in 1..NAll(r) /\ PoolRow(r) + 1 + Span(j - 1) = RowAt(r, NCore(r) + j)
              /\ AssemblyList(PoolRow(r) + 1, NPool(r))[j] = AssemblyNode(RowAt(r, NCore(r) + j))
<1>1. ASSUME NEW j \in 1..NCore(r)
      PROVE  /\ j \in 1..NAll(r) /\ 3 + Span(j - 1) = RowAt(r, j)
             /\ AssemblyList(3, NCore(r))[j] = AssemblyNode(RowAt(r, j))
  <2>1. j \in 1..NAll(r) /\ j <= NCore(r)
    BY TreeNumbers DEF NAll
  <2>2. 3 + Span(j - 1) = RowAt(r, j)
    BY <2>1 DEF RowAt
  <2>3. AssemblyList(3, NCore(r))[j] = AssemblyNode(3 + Span(j - 1))
    BY DEF AssemblyList
  <2> QED
    BY <2>1, <2>2, <2>3
<1>2. ASSUME NEW j \in 1..NPool(r)
      PROVE  /\ NCore(r) + j \in 1..NAll(r) /\ PoolRow(r) + 1 + Span(j - 1) = RowAt(r, NCore(r) + j)
             /\ AssemblyList(PoolRow(r) + 1, NPool(r))[j] = AssemblyNode(RowAt(r, NCore(r) + j))
  <2>1. NCore(r) + j \in 1..NAll(r) /\ ~(NCore(r) + j <= NCore(r)) /\ (NCore(r) + j) - 1 = NCore(r) + (j - 1)
        /\ j - 1 \in Nat
    <3> HIDE DEF NCore, NPool
    <3> QED
      BY TreeNumbers DEF NAll
  <2>2. Span((NCore(r) + j) - 1) = Span(NCore(r)) + Span(j - 1) /\ Span(j - 1) \in Nat /\ Span(NCore(r)) \in Nat
    BY <2>1, TreeNumbers, SpanFacts
  <2>3. PoolRow(r) + 1 + Span(j - 1) = RowAt(r, NCore(r) + j)
    BY <2>1, <2>2 DEF RowAt, PoolRow
  <2>4. AssemblyList(PoolRow(r) + 1, NPool(r))[j] = AssemblyNode(PoolRow(r) + 1 + Span(j - 1))
    BY DEF AssemblyList
  <2> QED
    BY <2>1, <2>3, <2>4
<1> QED
  BY <1>1, <1>2

(* The empty list. *)
LEMMA NoList == IsList(<<>>) /\ Len(<<>>) = 0
BY DEF IsList

(* Two nodes, one after the other. *)
LEMMA TwoNodes == ASSUME NEW x, NEW y PROVE <<x>> \o (<<y>> \o <<>>) = <<x, y>>
<1>1. PICK s : s = <<y>> \o <<>>
  OBVIOUS
<1>2. IsList(s) /\ Len(s) = 1 /\ s[1] = y
  <2>1. PICK e : e = <<>>
    OBVIOUS
  <2>2. IsList(e) /\ Len(e) = 0
    BY <2>1, NoList
  <2>3. IsList(<<y>> \o e) /\ Len(<<y>> \o e) = 1 + Len(e) /\ (<<y>> \o e)[1] = y
    BY ONLY <2>2, OneMoreNode
  <2> QED
    BY <1>1, <2>1, <2>2, <2>3
<1>3. PICK t : t = <<x>> \o s
  OBVIOUS
<1>4. IsList(t) /\ Len(t) = 2 /\ t[1] = x /\ t[2] = y
  <2>1. /\ IsList(t) /\ Len(t) = 1 + Len(s)
        /\ t[1] = x /\ \A i \in 1..Len(s) : t[1 + i] = s[i]
    BY <1>2, <1>3, OneMoreNode
  <2>2. t[1 + 1] = s[1]
    BY <1>2, <2>1, 1 \in 1..1
  <2> QED
    BY <1>2, <2>1, <2>2
<1>5. IsList(<<x, y>>) /\ Len(<<x, y>>) = 2 /\ <<x, y>>[1] = x /\ <<x, y>>[2] = y
  BY DEF IsList
<1>6. PICK u : u = <<x, y>>
  OBVIOUS
<1>7. IsList(u) /\ Len(u) = 2 /\ u[1] = x /\ u[2] = y
  BY <1>5, <1>6
<1>8. t = u
  <2>1. \A i \in 1..2 : i = 1 \/ i = 2
    OBVIOUS
  <2> QED
    BY <1>4, <1>7, <2>1, SameLists
<1> QED
  BY <1>1, <1>3, <1>6, <1>8

(* Database._compose gives back the tree that was laid out. *)
LEMMA ComposeLayout ==
  ASSUME NEW r, IsTree(r)
  PROVE  Compose(CreateLayout(r)) = [row |-> 1, children |-> <<CoreNode(r), PoolNode(r)>>]
<1> DEFINE rows == CreateLayout(r)
           n == NCore(r)
           m == NPool(r)
           p == PoolRow(r)
<1>1. Counted(rows)
  BY LayoutChildren
<1>2. PICK F : IsForest(F, rows) /\ Compose(rows) = F[1][1].nodes[1]
  BY <1>1, ForestOf
<1>3. /\ n \in Nat /\ m \in Nat /\ Span(n) \in Nat /\ Span(m) \in Nat
      /\ p = 3 + Span(n) /\ Past(rows) = 4 + Span(n) + Span(m) /\ Len(rows) = 3 + Span(n) + Span(m)
  <2>1. /\ n \in Nat /\ m \in Nat /\ Span(n) \in Nat /\ Span(m) \in Nat
        /\ Span(NAll(r)) = Span(n) + Span(m)
    BY TreeNumbers
  <2>2. Len(rows) = 3 + Span(NAll(r))
    BY LayoutRows
  <2>3. p = 3 + Span(n) /\ Past(rows) = Len(rows) + 1
    BY DEF PoolRow, Past
  <2> HIDE DEF n, m, p, rows
  <2> QED
    BY <2>1, <2>2, <2>3
<1>4. rows[1].numChildren = 2 /\ rows[2].numChildren = n /\ rows[p].numChildren = m
  BY LayoutChildren
<1>5. StackRows(rows, 3, n) /\ StackRows(rows, p + 1, m)
  <2>1. \A j \in 1..NAll(r) : /\ rows[RowAt(r, j)].numChildren = NBlocks
                              /\ \A k \in 1..NBlocks : rows[RowAt(r, j) + k].numChildren = 0
    BY LayoutChildren
  <2> HIDE DEF rows
  <2> QED
    BY <2>1, PlacesOfRows DEF StackRows
<1> HIDE DEF rows, n, m, p
<1>6. /\ 3 \in Nat /\ p + 1 \in Nat /\ 3 >= 1 /\ p + 1 >= 1
      /\ 3 + Span(n) <= Past(rows) /\ p + 1 + Span(m) <= Past(rows)
      /\ 3 + Span(n) = p /\ p + 1 + Span(m) = Past(rows)
      /\ 1 \in 1..Past(rows) /\ 2 \in 1..Past(rows) /\ p \in 1..Past(rows) /\ Past(rows) \in 1..Past(rows)
      /\ 1 # Past(rows) /\ 2 # Past(rows) /\ p # Past(rows)
      /\ 1 + 1 = 2 /\ 2 + 1 = 3 /\ 2 - 1 = 1 /\ 1 - 1 = 0 /\ 1 # 0 /\ 2 # 0 /\ 1 \in Nat /\ 2 \in Nat
  <2>1. PICK a \in Nat, b \in Nat, q \in Nat : a = Span(n) /\ b = Span(m) /\ q = Past(rows)
    BY <1>3
  <2>2. p = 3 + a /\ q = 4 + a + b
    BY <1>3, <2>1
  <2>3. /\ p + 1 \in Nat /\ p + 1 >= 1 /\ 3 + a <= q /\ p + 1 + b <= q /\ 3 + a = p /\ p + 1 + b = q
        /\ 1 \in 1..q /\ 2 \in 1..q /\ p \in 1..q /\ q \in 1..q /\ 1 # q /\ 2 # q /\ p # q
    BY ONLY <2>1, <2>2
  <2> QED
    BY <2>1, <2>3
<1>7. F[3][n].nodes = AssemblyList(3, n) /\ F[3][n].next = p
  <2>1. IsForest(F, rows) /\ Counted(rows) /\ n \in Nat /\ 3 \in Nat /\ 3 >= 1 /\ 3 + Span(n) <= Past(rows)
        /\ StackRows(rows, 3, n)
    BY <1>1, <1>2, <1>3, <1>5, <1>6
  <2>2. F[3][n].nodes = AssemblyList(3, n) /\ F[3][n].next = 3 + Span(n)
    BY ONLY <2>1, Stacks
  <2> QED
    BY <1>6, <2>2
<1>8. F[p + 1][m].nodes = AssemblyList(p + 1, m) /\ F[p + 1][m].next = Past(rows)
  <2>1. PICK q : q = p + 1
    OBVIOUS
  <2>2. IsForest(F, rows) /\ Counted(rows) /\ m \in Nat /\ q \in Nat /\ q >= 1 /\ q + Span(m) <= Past(rows)
        /\ StackRows(rows, q, m)
    BY <1>1, <1>2, <1>3, <1>5, <1>6, <2>1
  <2>3. F[q][m].nodes = AssemblyList(q, m) /\ F[q][m].next = q + Span(m)
    BY ONLY <2>2, Stacks
  <2> QED
    BY <1>6, <2>1, <2>3
<1>9. F[Past(rows)][0].nodes = <<>> /\ F[Past(rows)][0].next = Past(rows)
  BY <1>2, <1>6, NoNodes
<1>10. F[p][1].nodes = <<PoolNode(r)>> \o <<>> /\ F[p][1].next = Past(rows)
  <2>1. F[p][1] = SubForest(F, rows, p, 1)
    BY <1>2, <1>6 DEF IsForest
  <2>2. Below(F, rows, p) = F[p + 1][m]
    BY <1>4 DEF Below
  <2>3. Rest(F, rows, p, 1) = F[Past(rows)][0]
    BY <1>6, <1>8, <2>2 DEF Rest
  <2>4. PoolNode(r) = [row |-> p, children |-> Below(F, rows, p).nodes]
    BY <1>8, <2>2 DEF PoolNode, p, m
  <2>5. F[p][1] = [nodes |-> <<[row |-> p, children |-> Below(F, rows, p).nodes]>> \o Rest(F, rows, p, 1).nodes,
                  next  |-> Rest(F, rows, p, 1).next]
    BY <1>6, <2>1 DEF SubForest
  <2>6. PICK x, y, z : x = F[p][1] /\ y = Rest(F, rows, p, 1) /\ z = PoolNode(r)
    OBVIOUS
  <2>7. x = [nodes |-> <<z>> \o y.nodes, next |-> y.next]
    BY <2>4, <2>5, <2>6
  <2>8. x.nodes = <<z>> \o y.nodes /\ x.next = y.next
    BY ONLY <2>7
  <2>9. y.nodes = <<>> /\ y.next = Past(rows)
    BY <1>9, <2>3, <2>6
  <2> QED
    BY <2>6, <2>8, <2>9
<1>11. F[2][2].nodes = <<CoreNode(r)>> \o (<<PoolNode(r)>> \o <<>>) /\ F[2][2].next = Past(rows)
  <2>1. F[2][2] = SubForest(F, rows, 2, 2)
    BY <1>2, <1>6 DEF IsForest
  <2>2. Below(F, rows, 2) = F[3][n]
    BY <1>4, <1>6 DEF Below
  <2>3. Rest(F, rows, 2, 2) = F[p][1]
    BY <1>6, <1>7, <2>2 DEF Rest
  <2>4. CoreNode(r) = [row |-> 2, children |-> Below(F, rows, 2).nodes]
    BY <1>7, <2>2 DEF CoreNode, n
  <2>5. F[2][2] = [nodes |-> <<[row |-> 2, children |-> Below(F, rows, 2).nodes]>> \o Rest(F, rows, 2, 2).nodes,
                  next  |-> Rest(F, rows, 2, 2).next]
    BY <1>6, <2>1 DEF SubForest
  <2>6. PICK z : z = <<PoolNode(r)>> \o <<>>
    OBVIOUS
  <2>7. Rest(F, rows, 2, 2).nodes = z /\ Rest(F, rows, 2, 2).next = Past(rows)
    BY <1>10, <2>3, <2>6
  <2>8. F[2][2].nodes = <<CoreNode(r)>> \o z /\ F[2][2].next = Past(rows)
    BY <2>4, <2>5, <2>7
  <2> QED
    BY <2>6, <2>8
<1>12. F[1][1].nodes = <<[row |-> 1, children |-> <<CoreNode(r), PoolNode(r)>>]>> \o <<>>
  <2>1. F[1][1] = SubForest(F, rows, 1, 1)
    BY <1>2, <1>6 DEF IsForest
  <2>2. Below(F, rows, 1) = F[2][2]
    BY <1>4, <1>6 DEF Below
  <2>3. Rest(F, rows, 1, 1) = F[Past(rows)][0]
    BY <1>6, <1>11, <2>2 DEF Rest
  <2>4. F[2][2].nodes = <<CoreNode(r), PoolNode(r)>>
    BY <1>11, TwoNodes
  <2>5. F[1][1] = [nodes |-> <<[row |-> 1, children |-> Below(F, rows, 1).nodes]>> \o Rest(F, rows, 1, 1).nodes,
                  next  |-> Rest(F, rows, 1, 1).next]
    BY <1>6, <2>1 DEF SubForest
  <2>6. PICK z : z = <<CoreNode(r), PoolNode(r)>>
    OBVIOUS
  <2>7. Below(F, rows, 1).nodes = z
    BY <2>2, <2>4, <2>6
  <2>8. Rest(F, rows, 1, 1).nodes = <<>>
    BY <1>9, <2>3
  <2>9. F[1][1].nodes = <<[row |-> 1, children |-> z]>> \o <<>>
    <3>1. PICK x, y : x = <<[row |-> 1, children |-> Below(F, rows, 1).nodes]>> /\ y = Rest(F, rows, 1, 1).nodes
      OBVIOUS
    <3>2. F[1][1].nodes = x \o y
      BY <2>5, <3>1
    <3>3. x = <<[row |-> 1, children |-> z]>>
      BY <2>7, <3>1
    <3> QED
      BY <2>8, <3>1, <3>2, <3>3
  <2> QED
    BY <2>6, <2>9
<1>13. F[1][1].nodes[1] = [row |-> 1, children |-> <<CoreNode(r), PoolNode(r)>>]
  BY <1>12
<1> QED
  BY <1>2, <1>13 DEF rows

-----------------------------------------------------------------------------
(***************************************************************************)
(* Columns (database.py, packing and _readParams), and what a statepoint   *)
(* gives back.                                                             *)
(***************************************************************************)

(* The objects of a type, in the order of their rows. *)
LEMMA Grouped ==
  ASSUME NEW r, IsTree(r)
  PROVE  /\ IsList(GroupedAssemblies(r)) /\ Len(GroupedAssemblies(r)) = NAll(r)
         /\ \A j \in 1..NAll(r) : GroupedAssemblies(r)[j] = AssemblyAt(r, j)
         /\ IsList(GroupedBlocks(r)) /\ Len(GroupedBlocks(r)) = NAll(r) * NBlocks
         /\ \A j \in 1..NAll(r), k \in 1..NBlocks :
              GroupedBlocks(r)[(j - 1) * NBlocks + k] = AssemblyAt(r, j).blocks[k]
<1> DEFINE n == NCore(r)
           m == NPool(r)
<1>1. n \in Nat /\ m \in Nat /\ NAll(r) = n + m
  BY TreeNumbers DEF NAll
<1>2. PICK x, y : x = AssembliesOf(r.core) /\ y = AssembliesOf(r.pool)
  OBVIOUS
<1>3. /\ IsList(x) /\ Len(x) = n /\ \A j \in 1..n : x[j] = r.core.holds[CorePlace(r, j)]
      /\ IsList(y) /\ Len(y) = m /\ \A j \in 1..m : y[j] = r.pool.holds[PoolPlace(r, j)]
  BY <1>2, AssembliesOfFacts DEF IsTree, NCore, NPool, CorePlace, PoolPlace
<1> HIDE DEF n, m
<1>4. IsList(x) /\ IsList(y)
  BY <1>3
<1>5. /\ IsList(x \o y) /\ Len(x \o y) = Len(x) + Len(y)
      /\ \A i \in 1..Len(x) : (x \o y)[i] = x[i]
      /\ \A i \in 1..Len(y) : (x \o y)[Len(x) + i] = y[i]
  BY ONLY <1>4, ConcatLists
<1>6. PICK w : w = GroupedAssemblies(r)
  OBVIOUS
<1>7. w = x \o y
  BY <1>2, <1>6 DEF GroupedAssemblies
<1>8. IsList(w) /\ Len(w) = NAll(r)
  BY <1>1, <1>3, <1>5, <1>7
<1>9. ASSUME NEW j \in 1..NAll(r) PROVE w[j] = AssemblyAt(r, j)
  <2>1. CASE j <= n
    <3>1. j \in 1..n
      BY <1>1, <2>1
    <3>2. AssemblyAt(r, j) = r.core.holds[CorePlace(r, j)]
      BY <2>1 DEF AssemblyAt, n
    <3> QED
      BY <1>3, <1>5, <1>7, <3>1, <3>2
  <2>2. CASE ~(j <= n)
    <3>1. j - n \in 1..m /\ n + (j - n) = j
      BY <1>1, <2>2
    <3>2. AssemblyAt(r, j) = r.pool.holds[PoolPlace(r, j - n)]
      BY <2>2 DEF AssemblyAt, n
    <3>3. w[n + (j - n)] = y[j - n]
      BY <1>3, <1>5, <1>7, <3>1
    <3> QED
      BY <1>3, <3>1, <3>2, <3>3
  <2> QED
    BY <2>1, <2>2
<1> DEFINE of == [j \in 1..NAll(r) |-> w[j].blocks]
<1>10. GroupedBlocks(r) = FlattenSeq(of)
  BY <1>6, <1>8 DEF GroupedBlocks
<1>11. NAll(r) \in Nat
  BY TreeNumbers
<1>12. \A j \in 1..NAll(r) : of[j] = AssemblyAt(r, j).blocks /\ IsList(of[j]) /\ Len(of[j]) = NBlocks
  <2>1. \A j \in 1..NAll(r) : of[j] = AssemblyAt(r, j).blocks
    BY <1>9
  <2> HIDE DEF of
  <2> QED
    BY <2>1, PlacesOfTree DEF HasBlocks
<1>13. IsList(of) /\ Len(of) = NAll(r)
  <2>1. of = [j \in 1..NAll(r) |-> of[j]]
    OBVIOUS
  <2> HIDE DEF of
  <2> QED
    BY <1>11, <2>1, LenOf
<1> HIDE DEF of
<1>14. PICK z : z = of
  OBVIOUS
<1>15. /\ IsList(z) /\ NBlocks \in Nat /\ \A i \in 1..Len(z) : IsList(z[i]) /\ Len(z[i]) = NBlocks
  BY <1>12, <1>13, <1>14, NBlocksNumber
<1>16. /\ IsList(FlattenSeq(z)) /\ Len(FlattenSeq(z)) = Len(z) * NBlocks
       /\ \A i \in 1..Len(z), k \in 1..NBlocks : FlattenSeq(z)[(i - 1) * NBlocks + k] = z[i][k]
  BY ONLY <1>15, FlatFacts
<1> QED
  BY <1>6, <1>8, <1>9, <1>10, <1>12, <1>13, <1>14, <1>16
-----------------------------------------------------------------------------
(* Columns. *)
LEMMA Kinds ==
  /\ \A x : Number(x).kind = "number" /\ Number(x).is = x /\ Number(x) # None
  /\ \A s : Array(s).kind = "array" /\ Array(s).is = s /\ Array(s) # None
  /\ None.kind = "none"
BY DEF Number, None, Array

(* A column of numbers, with no None among them, comes back as it is. *)
LEMMA NumberColumn ==
  ASSUME NEW col, IsList(col), Len(col) # 0, NEW size,
         \A n \in 1..Len(col) : \E x : col[n] = Number(x)
  PROVE  Unpacked(Packed(col), size) = col
<1>1. \A n \in 1..Len(col) : col[n] # None /\ col[n].kind = "number"
  BY Kinds
<1>2. Arrays(col) = {} /\ Nones(col) = {}
  BY <1>1 DEF Arrays, Nones
<1>3. ~IsJagged(col)
  BY <1>2 DEF IsJagged
<1>4. Nones(col) # 1..Len(col)
  <2>1. Len(col) \in Nat
    BY DEF IsList
  <2>2. 1 \in 1..Len(col)
    BY <2>1
  <2> QED
    BY <1>2, <2>2
<1>5. [n \in 1..Len(col) |-> IF col[n] = None THEN NaN ELSE col[n]] = col
  BY <1>1 DEF IsList
<1>6. Packed(col) = [form |-> "plain", data |-> col]
  BY <1>2, <1>3, <1>4, <1>5 DEF Packed
<1> QED
  BY <1>6 DEF Unpacked

(* The next number of an assembly comes back. *)
LEMMA MaxOfCore ==
  ASSUME NEW r
  PROVE  MaxAssemNum(Statepoint(r)) = r.max
<1> DEFINE col == <<Number(r.max)>>
<1>1. IsList(col) /\ Len(col) = 1 /\ col[1] = Number(r.max)
  BY OneList
<1>2. \A n \in 1..1 : n = 1
  OBVIOUS
<1>3. Statepoint(r).reactor = [max |-> Packed(col)]
  BY DEF Statepoint
<1> HIDE DEF col
<1>4. Unpacked(Packed(col), 1) = col
  BY <1>1, <1>2, NumberColumn
<1>5. ReadParams([max |-> Packed(col)], 1).max = Unpacked(Packed(col), 1)
  BY DEF ReadParams
<1> QED
  BY <1>1, <1>3, <1>4, <1>5, Kinds DEF MaxAssemNum

(* The parameters of the assemblies come back. *)
LEMMA AssemblyParams ==
  ASSUME NEW objects, IsList(objects), Len(objects) # 0, NEW size
  PROVE  LET params == ReadParams(AssemblyColumns(objects), size)
         IN  \A i \in 1..Len(objects) : /\ params.id[i].is = objects[i].id
                                        /\ params.num[i].is = objects[i].num
                                        /\ params.charge[i].is = objects[i].charge
                                        /\ params.numMoves[i].is = objects[i].numMoves
<1> DEFINE n == Len(objects)
           params == ReadParams(AssemblyColumns(objects), size)
           ids     == [i \in 1..n |-> Number(objects[i].id)]
           nums    == [i \in 1..n |-> Number(objects[i].num)]
           charges == [i \in 1..n |-> Number(objects[i].charge)]
           moved   == [i \in 1..n |-> Number(objects[i].numMoves)]
<1>1. n \in Nat
  BY DEF IsList
<1>2. /\ params.id = Unpacked(Packed(ids), size) /\ params.num = Unpacked(Packed(nums), size)
      /\ params.charge = Unpacked(Packed(charges), size)
      /\ params.numMoves = Unpacked(Packed(moved), size)
  BY DEF ReadParams, AssemblyColumns, Column
<1>3. ASSUME NEW col, col = [i \in 1..n |-> col[i]], \A i \in 1..n : \E x : col[i] = Number(x)
      PROVE  Unpacked(Packed(col), size) = col
  <2>1. IsList(col) /\ Len(col) = n
    BY <1>1, <1>3, LenOf
  <2> QED
    BY <1>3, <2>1, NumberColumn
<1>4. Unpacked(Packed(ids), size) = ids
  BY <1>3
<1>5. Unpacked(Packed(nums), size) = nums
  BY <1>3
<1>6. Unpacked(Packed(charges), size) = charges
  BY <1>3
<1>7. Unpacked(Packed(moved), size) = moved
  BY <1>3
<1>8. \A i \in 1..n : /\ ids[i].is = objects[i].id /\ nums[i].is = objects[i].num
                      /\ charges[i].is = objects[i].charge /\ moved[i].is = objects[i].numMoves
  BY Kinds
<1> HIDE DEF ids, nums, charges, moved, params
<1> QED
  BY <1>2, <1>4, <1>5, <1>6, <1>7, <1>8 DEF params

(* The values of q, as a column. *)
QColumn(objects) == [i \in 1..Len(objects) |-> objects[i].q]

(* Those of the blocks do, q if its column does. *)
LEMMA BlockParams ==
  ASSUME NEW objects, IsList(objects), Len(objects) # 0, NEW size
  PROVE  LET params == ReadParams(BlockColumns(objects), size)
         IN  \A i \in 1..Len(objects) : /\ params.id[i].is = objects[i].id
                                        /\ params.p[i].is = objects[i].p
                                        /\ Unpacked(Packed(QColumn(objects)), size) = QColumn(objects)
                                             => params.q[i] = objects[i].q
<1> DEFINE n == Len(objects)
           params == ReadParams(BlockColumns(objects), size)
           ids     == [i \in 1..n |-> Number(objects[i].id)]
           ps      == [i \in 1..n |-> Number(objects[i].p)]
<1>1. n \in Nat
  BY DEF IsList
<1>2. /\ params.id = Unpacked(Packed(ids), size) /\ params.p = Unpacked(Packed(ps), size)
      /\ params.q = Unpacked(Packed(QColumn(objects)), size)
  BY DEF ReadParams, BlockColumns, Column, QColumn
<1>3. ASSUME NEW col, col = [i \in 1..n |-> col[i]], \A i \in 1..n : \E x : col[i] = Number(x)
      PROVE  Unpacked(Packed(col), size) = col
  <2>1. IsList(col) /\ Len(col) = n
    BY <1>1, <1>3, LenOf
  <2> QED
    BY <1>3, <2>1, NumberColumn
<1>4. Unpacked(Packed(ids), size) = ids
  BY <1>3
<1>5. Unpacked(Packed(ps), size) = ps
  BY <1>3
<1>6. \A i \in 1..n : ids[i].is = objects[i].id /\ ps[i].is = objects[i].p /\ QColumn(objects)[i] = objects[i].q
  BY Kinds DEF QColumn
<1> HIDE DEF ids, ps, params
<1> QED
  BY <1>2, <1>4, <1>5, <1>6 DEF params

(* The shapes of the objects. *)
IsBlock(b) == b = [sn |-> b.sn, id |-> b.id, p |-> b.p, q |-> b.q]

IsAssembly(a) ==
  /\ a = [sn |-> a.sn, id |-> a.id, num |-> a.num, fromDatabase |-> a.fromDatabase,
          charge |-> a.charge, numMoves |-> a.numMoves, blocks |-> a.blocks]
  /\ HasBlocks(a) /\ \A k \in 1..NBlocks : IsBlock(a.blocks[k])

IsHolds(h) ==
  /\ h = [c \in DOMAIN h |-> h[c]]
  /\ IsFiniteSet(DOMAIN h) /\ DOMAIN h \subseteq Nat \X Nat
  /\ \A c \in DOMAIN h : IsAssembly(h[c])

IsReactor(r) ==
  /\ r = [sn |-> r.sn, max |-> r.max, core |-> r.core, pool |-> r.pool]
  /\ r.core = [sn |-> r.core.sn, holds |-> r.core.holds]
  /\ r.pool = [sn |-> r.pool.sn, holds |-> r.pool.holds]
  /\ IsHolds(r.core.holds) /\ IsHolds(r.pool.holds)

(* A reactor is a tree that can be laid out. *)
LEMMA ReactorIsTree ==
  ASSUME NEW r, IsReactor(r)
  PROVE  IsTree(r) /\ \A j \in 1..NAll(r) : IsAssembly(AssemblyAt(r, j))
<1>1. IsTree(r)
  BY DEF IsReactor, IsHolds, IsAssembly, IsTree, HoldsAssemblies
<1>2. ASSUME NEW j \in 1..NAll(r) PROVE IsAssembly(AssemblyAt(r, j))
  <2>1. CASE j <= NCore(r)
    <3>1. j \in 1..NCore(r)
      BY <1>1, <2>1, TreeNumbers
    <3> QED
      BY <1>1, <2>1, <3>1, PlacesOfTree DEF IsReactor, IsHolds, AssemblyAt
  <2>2. CASE ~(j <= NCore(r))
    <3>1. j - NCore(r) \in 1..NPool(r)
      <4> HIDE DEF NCore, NPool
      <4> QED
        BY <1>1, <2>2, TreeNumbers DEF NAll
    <3> QED
      BY <1>1, <2>2, <3>1, PlacesOfTree DEF IsReactor, IsHolds, AssemblyAt
  <2> QED
    BY <2>1, <2>2
<1> QED
  BY <1>1, <1>2

(* What is loaded of an assembly `a`: all of it but the values of q. *)
Alike(x, a) ==
  /\ IsAssembly(x) /\ x.fromDatabase = TRUE
  /\ x.sn = a.sn /\ x.id = a.id /\ x.num = a.num /\ x.charge = a.charge /\ x.numMoves = a.numMoves
  /\ \A k \in 1..NBlocks : /\ x.blocks[k].sn = a.blocks[k].sn /\ x.blocks[k].id = a.blocks[k].id
                           /\ x.blocks[k].p = a.blocks[k].p

FromDb(a) == [a EXCEPT !.fromDatabase = TRUE]

(* The fields of a loaded assembly. *)
LEMMA FromDbFields ==
  ASSUME NEW a, IsAssembly(a)
  PROVE  FromDb(a) = [sn |-> a.sn, id |-> a.id, num |-> a.num, charge |-> a.charge, numMoves |-> a.numMoves,
                      fromDatabase |-> TRUE, blocks |-> a.blocks]
<1>1. PICK x : x = TRUE
  OBVIOUS
<1>2. [a EXCEPT !.fromDatabase = x] =
        [sn |-> a.sn, id |-> a.id, num |-> a.num, charge |-> a.charge, numMoves |-> a.numMoves,
         fromDatabase |-> x, blocks |-> a.blocks]
  BY DEF IsAssembly
<1> QED
  BY <1>1, <1>2 DEF FromDb

LoadedFrom(r) ==
  [sn   |-> r.sn, max |-> r.max,
   core |-> [sn |-> r.core.sn, holds |-> [c \in DOMAIN r.core.holds |-> FromDb(r.core.holds[c])]],
   pool |-> [sn |-> r.pool.sn, holds |-> [c \in DOMAIN r.pool.holds |-> FromDb(r.pool.holds[c])]]]

QComesBack(r) ==
  LET col == QColumn(GroupedBlocks(r))
  IN  NAll(r) * NBlocks # 0 => Unpacked(Packed(col), NAll(r) * NBlocks) = col

(* The serial numbers and locations in the rows of a reactor. *)
LEMMA LayoutNumbers ==
  ASSUME NEW r, IsTree(r)
  PROVE  LET rows == CreateLayout(r)
         IN  /\ rows[1].sn = r.sn /\ rows[2].sn = r.core.sn /\ rows[PoolRow(r)].sn = r.pool.sn
             /\ \A j \in 1..NAll(r) :
                  /\ rows[RowAt(r, j)].sn = AssemblyAt(r, j).sn
                  /\ rows[RowAt(r, j)].location = <<PlaceAt(r, j)[1], PlaceAt(r, j)[2], 0>>
                  /\ \A k \in 1..NBlocks :
                       /\ rows[RowAt(r, j) + k].sn = AssemblyAt(r, j).blocks[k].sn
                       /\ rows[RowAt(r, j) + k].location = <<PlaceAt(r, j)[1], PlaceAt(r, j)[2], k - 1>>
<1>1. /\ \A type, sn, children, loc : /\ Row(type, sn, children, loc).sn = sn
                                      /\ Row(type, sn, children, loc).location = loc
      /\ \A a, l : AssemblyRow(a, l).sn = a.sn /\ AssemblyRow(a, l).location = <<l[1], l[2], 0>>
      /\ \A a, l, k : BlockRow(a, l, k).sn = a.blocks[k].sn /\ BlockRow(a, l, k).location = <<l[1], l[2], k - 1>>
  BY DEF Row, AssemblyRow, BlockRow
<1> QED
  BY <1>1, LayoutRows

(* The j-th assembly is loaded as it was. *)
LEMMA OneLoaded ==
  ASSUME NEW r, IsReactor(r), NEW j \in 1..NAll(r)
  PROVE  LET statepoint == Statepoint(r)
             rows == statepoint.rows
             x == LoadedAssembly(rows, AssemblyNode(RowAt(r, j)),
                                 ReadParams(statepoint.assembly, CountOf(rows, "Assembly")),
                                 ReadParams(statepoint.block, CountOf(rows, "Block")))
         IN  Alike(x, AssemblyAt(r, j)) /\ (QComesBack(r) => x = FromDb(AssemblyAt(r, j)))
<1> DEFINE a == AssemblyAt(r, j)
           rows == CreateLayout(r)
           b == RowAt(r, j)
           params == ReadParams(AssemblyColumns(GroupedAssemblies(r)), CountOf(rows, "Assembly"))
           blockParams == ReadParams(BlockColumns(GroupedBlocks(r)), CountOf(rows, "Block"))
           i(k) == (j - 1) * NBlocks + k
<1>1. IsTree(r) /\ IsAssembly(a)
  BY ReactorIsTree
<1>2. NAll(r) \in Nat /\ NAll(r) # 0 /\ j - 1 \in Nat /\ j \in Nat
  BY <1>1, TreeNumbers
<1>3. /\ IsList(GroupedAssemblies(r)) /\ Len(GroupedAssemblies(r)) = NAll(r)
      /\ GroupedAssemblies(r)[j] = a
      /\ IsList(GroupedBlocks(r)) /\ Len(GroupedBlocks(r)) = NAll(r) * NBlocks
      /\ \A k \in 1..NBlocks : GroupedBlocks(r)[i(k)] = a.blocks[k]
  BY <1>1, Grouped
<1>4. /\ IndexInData(rows, b) = j /\ \A k \in 1..NBlocks : IndexInData(rows, b + k) = i(k)
      /\ CountOf(rows, "Block") = NAll(r) * NBlocks
  BY <1>1, IndexesInData
<1>5. /\ rows[b].sn = a.sn /\ \A k \in 1..NBlocks : rows[b + k].sn = a.blocks[k].sn
  BY <1>1, LayoutNumbers
<1> HIDE DEF a, rows, b
<1>6. /\ params.id[j].is = a.id /\ params.num[j].is = a.num
      /\ params.charge[j].is = a.charge /\ params.numMoves[j].is = a.numMoves
  <2>1. j \in 1..Len(GroupedAssemblies(r)) /\ Len(GroupedAssemblies(r)) # 0
    BY <1>2, <1>3
  <2> QED
    BY <1>3, <2>1, AssemblyParams
<1>7. ASSUME NEW k \in 1..NBlocks
      PROVE  /\ blockParams.id[i(k)].is = a.blocks[k].id /\ blockParams.p[i(k)].is = a.blocks[k].p
             /\ QComesBack(r) => blockParams.q[i(k)] = a.blocks[k].q
  <2>1. i(k) \in 1..NAll(r) * NBlocks /\ NAll(r) * NBlocks # 0
    <3>1. (j - 1) * NBlocks \in Nat /\ j * NBlocks = (j - 1) * NBlocks + NBlocks /\ j * NBlocks <= NAll(r) * NBlocks
          /\ NAll(r) * NBlocks \in Nat
      <4>1. j = (j - 1) + 1 /\ j <= NAll(r)
        BY <1>2
      <4> QED
        BY <1>2, <4>1, Products, NBlocksNumber
    <3> QED
      BY <3>1, NBlocksNumber
  <2>2. i(k) \in 1..Len(GroupedBlocks(r)) /\ Len(GroupedBlocks(r)) # 0
    BY <1>3, <2>1
  <2>3. QComesBack(r) => Unpacked(Packed(QColumn(GroupedBlocks(r))), CountOf(rows, "Block")) = QColumn(GroupedBlocks(r))
    BY <1>4, <2>1 DEF QComesBack
  <2>4. GroupedBlocks(r)[i(k)] = a.blocks[k]
    BY <1>3
  <2> HIDE DEF i
  <2> QED
    BY <1>3, <2>2, <2>3, <2>4, BlockParams
<1> HIDE DEF params, blockParams, i
<1> DEFINE blocks == [k \in 1..NBlocks |-> LoadedBlock(rows, b + k, blockParams)]
<1>8. /\ blocks = [k \in 1..NBlocks |-> blocks[k]]
      /\ \A k \in 1..NBlocks :
           blocks[k] = [sn |-> a.blocks[k].sn, id |-> a.blocks[k].id, p |-> a.blocks[k].p,
                        q |-> blockParams.q[i(k)]]
  BY <1>4, <1>5, <1>7 DEF LoadedBlock
<1>18. /\ IsList(blocks) /\ Len(blocks) = NBlocks
       /\ \A k \in 1..NBlocks : /\ IsBlock(blocks[k]) /\ blocks[k].sn = a.blocks[k].sn
                                /\ blocks[k].id = a.blocks[k].id /\ blocks[k].p = a.blocks[k].p
  <2> HIDE DEF blocks
  <2>1. \A k \in 1..NBlocks : /\ IsBlock(blocks[k]) /\ blocks[k].sn = a.blocks[k].sn
                              /\ blocks[k].id = a.blocks[k].id /\ blocks[k].p = a.blocks[k].p
    BY <1>8 DEF IsBlock
  <2>2. IsList(blocks) /\ Len(blocks) = NBlocks
    BY <1>8, LenOf, NBlocksNumber
  <2> QED
    BY <2>1, <2>2
<1>19. QComesBack(r) => blocks = a.blocks
  <2> SUFFICES ASSUME QComesBack(r) PROVE blocks = a.blocks
    OBVIOUS
  <2>1. \A k \in 1..NBlocks : IsBlock(a.blocks[k])
    BY <1>1 DEF IsAssembly
  <2>2. a.blocks = [k \in 1..NBlocks |-> a.blocks[k]]
    BY <1>1 DEF IsAssembly, HasBlocks, IsList
  <2> HIDE DEF blocks
  <2>3. \A k \in 1..NBlocks : blocks[k] = a.blocks[k]
    BY <1>7, <1>8, <2>1 DEF IsBlock
  <2> QED
    BY <1>8, <2>2, <2>3
<1> DEFINE node == AssemblyNode(b)
<1>9. /\ node.row = b /\ IsList(node.children) /\ Len(node.children) = NBlocks
      /\ \A k \in 1..NBlocks : node.children[k].row = b + k
  <2> DEFINE children == [k \in 1..NBlocks |-> Leaf(b + k)]
  <2>1. node.row = b /\ node.children = children
    BY DEF AssemblyNode
  <2>2. children = [k \in 1..NBlocks |-> children[k]] /\ \A k \in 1..NBlocks : children[k].row = b + k
    BY DEF Leaf
  <2> HIDE DEF children, node
  <2>3. IsList(children) /\ Len(children) = NBlocks
    BY <2>2, LenOf, NBlocksNumber
  <2> QED
    BY <2>1, <2>2, <2>3
<1> HIDE DEF node
<1>11. [k \in 1..Len(node.children) |-> LoadedBlock(rows, node.children[k].row, blockParams)] = blocks
  BY <1>9
<1> HIDE DEF blocks
<1> DEFINE x == LoadedAssembly(rows, node, params, blockParams)
<1>12. x = [sn |-> a.sn, id |-> a.id, num |-> a.num, charge |-> a.charge, numMoves |-> a.numMoves,
            fromDatabase |-> TRUE, blocks |-> blocks]
  BY <1>4, <1>5, <1>6, <1>9, <1>11 DEF LoadedAssembly
<1> HIDE DEF x
<1>13. Alike(x, a)
  <2>1. /\ x.sn = a.sn /\ x.id = a.id /\ x.num = a.num /\ x.charge = a.charge /\ x.numMoves = a.numMoves
        /\ x.blocks = blocks /\ x.fromDatabase = TRUE
    BY <1>12
  <2>2. IsAssembly(x)
    <3>1. PICK y : y = TRUE
      OBVIOUS
    <3>2. x = [sn |-> a.sn, id |-> a.id, num |-> a.num, charge |-> a.charge, numMoves |-> a.numMoves,
               fromDatabase |-> y, blocks |-> blocks]
      BY <1>12, <3>1
    <3> QED
      BY <1>18, <3>2 DEF IsAssembly, HasBlocks
  <2> QED
    BY <1>18, <2>1, <2>2 DEF Alike
<1>14. QComesBack(r) => x = FromDb(a)
  <2>1. FromDb(a) = [sn |-> a.sn, id |-> a.id, num |-> a.num, charge |-> a.charge, numMoves |-> a.numMoves,
                     fromDatabase |-> TRUE, blocks |-> a.blocks]
    BY <1>1, FromDbFields
  <2> QED
    BY <1>12, <1>19, <2>1
<1>15. Statepoint(r).rows = rows /\ Statepoint(r).assembly = AssemblyColumns(GroupedAssemblies(r))
       /\ Statepoint(r).block = BlockColumns(GroupedBlocks(r))
  BY DEF Statepoint, rows
<1> QED
  BY <1>13, <1>14, <1>15 DEF params, blockParams, node, a, b, x

PlaceOf(rows, node) == <<rows[node.row].location[1], rows[node.row].location[2]>>

Read(r, node) ==
  LET statepoint == Statepoint(r)
      rows == statepoint.rows
  IN  LoadedAssembly(rows, node, ReadParams(statepoint.assembly, CountOf(rows, "Assembly")),
                     ReadParams(statepoint.block, CountOf(rows, "Block")))

ChildrenPlaces(r, nodes) == {PlaceOf(CreateLayout(r), child) : child \in ToSet(nodes)}
ChildAt(r, nodes, c)     == CHOOSE m \in ToSet(nodes) : PlaceOf(CreateLayout(r), m) = c

(* Every cell is in the order once. *)
LEMMA InOrderIsOneToOne ==
  ASSUME NEW cells, IsFiniteSet(cells), cells \subseteq Nat \X Nat
  PROVE  /\ \A c \in cells : \E i \in 1..Cardinality(cells) : InOrder(cells)[i] = c
         /\ \A i, j \in 1..Cardinality(cells) : InOrder(cells)[i] = InOrder(cells)[j] => i = j
<1>1. \A c \in cells : \E i \in 1..Cardinality(cells) : InOrder(cells)[i] = c
  BY PlacesInOrder
<1>2. \A i \in 1..Cardinality(cells) : PlaceInOrder(InOrder(cells)[i], cells) = i
  BY PlacesInOrder
<1> QED
  BY <1>1, <1>2

(* The nodes of a core or a pool `h`, whose assemblies come after o others. *)
Fits(r, h, nodes, places, o) ==
  /\ IsList(nodes)
  /\ \A i \in 1..Len(nodes) :
       /\ o + i \in 1..NAll(r) /\ nodes[i] = AssemblyNode(RowAt(r, o + i))
       /\ places[i] \in DOMAIN h /\ places[i] \in Nat \X Nat
       /\ PlaceAt(r, o + i) = places[i] /\ AssemblyAt(r, o + i) = h[places[i]]
  /\ \A c \in DOMAIN h : \E i \in 1..Len(nodes) : places[i] = c
  /\ \A i, j \in 1..Len(nodes) : places[i] = places[j] => i = j

(* The row of a node. *)
LEMMA NodeRow == \A b : AssemblyNode(b).row = b
BY DEF AssemblyNode

ComesBack(r, x, a) == Alike(x, a) /\ (QComesBack(r) => x = FromDb(a))

(* The cells of a system get their assemblies back. *)
LEMMA HoldsComeBack ==
  ASSUME NEW r, IsReactor(r), NEW h, NEW nodes, NEW places, NEW o, Fits(r, h, nodes, places, o)
  PROVE  /\ ChildrenPlaces(r, nodes) = DOMAIN h
         /\ \A c \in DOMAIN h : ComesBack(r, Read(r, ChildAt(r, nodes, c)), h[c])
<1> DEFINE rows == CreateLayout(r)
<1> USE DEF Fits
<1>1. IsTree(r)
  BY ReactorIsTree
<1>2. Len(nodes) \in Nat /\ DOMAIN nodes = 1..Len(nodes)
  BY DEF IsList
<1>3. ToSet(nodes) = {nodes[i] : i \in 1..Len(nodes)}
  BY <1>2 DEF ToSet
<1>4. ASSUME NEW i \in 1..Len(nodes) PROVE PlaceOf(rows, nodes[i]) = places[i]
  <2>0. PICK j \in 1..NAll(r) : j = o + i
    OBVIOUS
  <2>1. nodes[i].row = RowAt(r, j)
    BY <2>0, NodeRow
  <2>2. rows[RowAt(r, j)].location = <<places[i][1], places[i][2], 0>>
    BY <1>1, <2>0, LayoutNumbers
  <2>3. places[i] = <<places[i][1], places[i][2]>>
    OBVIOUS
  <2> HIDE DEF rows
  <2>4. PlaceOf(rows, nodes[i]) = <<places[i][1], places[i][2]>>
    BY <2>1, <2>2 DEF PlaceOf
  <2> QED
    BY <2>3, <2>4
<1> HIDE DEF rows
<1>5. {PlaceOf(rows, child) : child \in ToSet(nodes)} = DOMAIN h
  <2>1. \A child \in ToSet(nodes) : PlaceOf(rows, child) \in DOMAIN h
    BY <1>3, <1>4
  <2>2. \A c \in DOMAIN h : \E child \in ToSet(nodes) : PlaceOf(rows, child) = c
    BY <1>3, <1>4
  <2>3. {PlaceOf(rows, child) : child \in ToSet(nodes)} \subseteq DOMAIN h
    BY <2>1
  <2>4. DOMAIN h \subseteq {PlaceOf(rows, child) : child \in ToSet(nodes)}
    BY <2>2
  <2> QED
    BY <2>3, <2>4
<1>6. ASSUME NEW c \in DOMAIN h
      PROVE  ComesBack(r, Read(r, ChildAt(r, nodes, c)), h[c])
  <2> DEFINE m == CHOOSE m \in ToSet(nodes) : PlaceOf(rows, m) = c
  <2>1. \E x \in ToSet(nodes) : PlaceOf(rows, x) = c
    BY <1>3, <1>4
  <2>2. m \in ToSet(nodes) /\ PlaceOf(rows, m) = c
    BY <2>1
  <2> HIDE DEF m
  <2>3. PICK i \in 1..Len(nodes) : m = nodes[i]
    BY <1>3, <2>2
  <2>4. places[i] = c
    BY <1>4, <2>2, <2>3
  <2>5. ComesBack(r, Read(r, nodes[i]), AssemblyAt(r, o + i))
    <3>1. o + i \in 1..NAll(r)
      OBVIOUS
    <3>2. PICK j \in 1..NAll(r) : j = o + i
      BY <3>1
    <3>3. nodes[i] = AssemblyNode(RowAt(r, j))
      BY <3>2
    <3>4. ComesBack(r, Read(r, AssemblyNode(RowAt(r, j))), AssemblyAt(r, j))
      BY OneLoaded DEF Read, ComesBack
    <3> QED
      BY <3>2, <3>3, <3>4
  <2>6. ComesBack(r, Read(r, m), h[c])
    BY <2>3, <2>4, <2>5
  <2> QED
    BY <2>6 DEF m, ChildAt, rows
<1> QED
  BY <1>5, <1>6 DEF rows, ChildrenPlaces

(* Core.add does not charge a loaded assembly again. *)
LEMMA LoadedAlready ==
  ASSUME NEW x, NEW a, Alike(x, a), NEW t
  PROVE  Charged(x, t) = x
BY DEF Alike, Charged

AlikeHolds(g, h) ==
  /\ IsHolds(g) /\ DOMAIN g = DOMAIN h
  /\ \A c \in DOMAIN h : Alike(g[c], h[c])

(* What a statepoint gives back of a reactor: all of it but the values of q. *)
AlikeReactor(l, r) ==
  /\ IsReactor(l) /\ l.sn = r.sn /\ l.max = r.max
  /\ l.core.sn = r.core.sn /\ l.pool.sn = r.pool.sn
  /\ AlikeHolds(l.core.holds, r.core.holds) /\ AlikeHolds(l.pool.holds, r.pool.holds)

(* The nodes of a system are a list. *)
LEMMA IsListOfAssemblies ==
  ASSUME NEW b, NEW n \in Nat
  PROVE  IsList(AssemblyList(b, n)) /\ Len(AssemblyList(b, n)) = n
<1>1. AssemblyList(b, n) = [i \in 1..n |-> AssemblyList(b, n)[i]]
  BY DEF AssemblyList
<1> QED
  BY <1>1, LenOf

(* Loading a statepoint gives back the reactor that was written (Database.load). *)
LEMMA LoadStatepoint ==
  ASSUME NEW r, IsReactor(r)
  PROVE  /\ AlikeReactor(Load(Statepoint(r)), r)
         /\ QComesBack(r) => Load(Statepoint(r)) = LoadedFrom(r)
<1> DEFINE rows == CreateLayout(r)
           n == NCore(r)
           m == NPool(r)
           core == r.core.holds
           pool == r.pool.holds
           inCore == AssemblyList(3, n)
           inPool == AssemblyList(PoolRow(r) + 1, m)
<1>1. IsTree(r) /\ n \in Nat /\ m \in Nat
  BY ReactorIsTree, TreeNumbers
<1>2. /\ IsList(inCore) /\ Len(inCore) = n /\ IsList(inPool) /\ Len(inPool) = m
  BY <1>1, IsListOfAssemblies
<1>3. /\ \A i \in 1..n : /\ i \in 1..NAll(r) /\ inCore[i] = AssemblyNode(RowAt(r, i))
                         /\ CorePlace(r, i) \in DOMAIN core
      /\ \A i \in 1..m : /\ n + i \in 1..NAll(r) /\ inPool[i] = AssemblyNode(RowAt(r, n + i))
                         /\ PoolPlace(r, i) \in DOMAIN pool
  BY <1>1, PlacesOfRows, PlacesOfTree
<1>4. /\ \A c \in DOMAIN core : \E i \in 1..n : CorePlace(r, i) = c
      /\ \A i, j \in 1..n : CorePlace(r, i) = CorePlace(r, j) => i = j
      /\ \A c \in DOMAIN pool : \E i \in 1..m : PoolPlace(r, i) = c
      /\ \A i, j \in 1..m : PoolPlace(r, i) = PoolPlace(r, j) => i = j
  <2>1. /\ IsFiniteSet(DOMAIN core) /\ DOMAIN core \subseteq Nat \X Nat
        /\ IsFiniteSet(DOMAIN pool) /\ DOMAIN pool \subseteq Nat \X Nat
    BY DEF IsReactor, IsHolds
  <2> QED
    BY <2>1, InOrderIsOneToOne DEF NCore, NPool, CorePlace, PoolPlace
<1>5. DOMAIN core \subseteq Nat \X Nat /\ DOMAIN pool \subseteq Nat \X Nat
  BY DEF IsReactor, IsHolds
<1>6. \A i \in 1..n : PlaceAt(r, i) = CorePlace(r, i) /\ AssemblyAt(r, i) = core[CorePlace(r, i)]
  BY <1>1 DEF PlaceAt, AssemblyAt
<1>7. \A i \in 1..m : PlaceAt(r, n + i) = PoolPlace(r, i) /\ AssemblyAt(r, n + i) = pool[PoolPlace(r, i)]
  <2> SUFFICES ASSUME NEW i \in 1..m
               PROVE  PlaceAt(r, n + i) = PoolPlace(r, i) /\ AssemblyAt(r, n + i) = pool[PoolPlace(r, i)]
    OBVIOUS
  <2>1. ~(n + i <= n) /\ (n + i) - n = i
    <3> HIDE DEF n, m
    <3> QED
      BY <1>1
  <2> QED
    BY <2>1 DEF PlaceAt, AssemblyAt
<1> HIDE DEF rows, n, m, core, pool, inCore, inPool
<1>8. /\ ChildrenPlaces(r, inCore) = DOMAIN core
      /\ \A c \in DOMAIN core : ComesBack(r, Read(r, ChildAt(r, inCore, c)), core[c])
  <2> DEFINE places == [i \in 1..n |-> CorePlace(r, i)]
  <2>1. \A i \in 1..n : places[i] = CorePlace(r, i)
    OBVIOUS
  <2> HIDE DEF places
  <2>2. \A i \in 1..Len(inCore) :
           /\ 0 + i \in 1..NAll(r) /\ inCore[i] = AssemblyNode(RowAt(r, 0 + i))
           /\ places[i] \in DOMAIN core /\ places[i] \in Nat \X Nat
           /\ PlaceAt(r, 0 + i) = places[i] /\ AssemblyAt(r, 0 + i) = core[places[i]]
    <3>1. \A i \in 1..n : 0 + i = i
      BY <1>1
    <3> QED
      BY <1>2, <1>3, <1>5, <1>6, <2>1, <3>1
  <2>3. /\ \A c \in DOMAIN core : \E i \in 1..Len(inCore) : places[i] = c
        /\ \A i, j \in 1..Len(inCore) : places[i] = places[j] => i = j
    BY <1>2, <1>4, <2>1
  <2>4. PICK o : o = 0
    OBVIOUS
  <2>5. \A i \in 1..Len(inCore) :
           /\ o + i \in 1..NAll(r) /\ inCore[i] = AssemblyNode(RowAt(r, o + i))
           /\ places[i] \in DOMAIN core /\ places[i] \in Nat \X Nat
           /\ PlaceAt(r, o + i) = places[i] /\ AssemblyAt(r, o + i) = core[places[i]]
    BY <2>2, <2>4
  <2>6. Fits(r, core, inCore, places, o)
    BY <1>2, <2>3, <2>5 DEF Fits
  <2> QED
    BY <2>6, HoldsComeBack
<1>9. /\ ChildrenPlaces(r, inPool) = DOMAIN pool
      /\ \A c \in DOMAIN pool : ComesBack(r, Read(r, ChildAt(r, inPool, c)), pool[c])
  <2> DEFINE places == [i \in 1..m |-> PoolPlace(r, i)]
  <2>1. \A i \in 1..m : places[i] = PoolPlace(r, i)
    OBVIOUS
  <2> HIDE DEF places
  <2>2. \A i \in 1..Len(inPool) :
           /\ n + i \in 1..NAll(r) /\ inPool[i] = AssemblyNode(RowAt(r, n + i))
           /\ places[i] \in DOMAIN pool /\ places[i] \in Nat \X Nat
           /\ PlaceAt(r, n + i) = places[i] /\ AssemblyAt(r, n + i) = pool[places[i]]
    BY <1>2, <1>3, <1>5, <1>7, <2>1
  <2>3. /\ \A c \in DOMAIN pool : \E i \in 1..Len(inPool) : places[i] = c
        /\ \A i, j \in 1..Len(inPool) : places[i] = places[j] => i = j
    BY <1>2, <1>4, <2>1
  <2>4. Fits(r, pool, inPool, places, n)
    BY <1>2, <2>2, <2>3 DEF Fits
  <2> QED
    BY <2>4, HoldsComeBack
<1> DEFINE coreNode == CoreNode(r)
           poolNode == PoolNode(r)
           Holds(node) ==
             [c \in ChildrenPlaces(r, node.children) |->
                LET a == Read(r, ChildAt(r, node.children, c))
                IN  IF rows[node.row].type = "Core" THEN Charged(a, now) ELSE a]
<1>10. /\ coreNode.row = 2 /\ coreNode.children = inCore /\ poolNode.row = PoolRow(r) /\ poolNode.children = inPool
  BY DEF CoreNode, PoolNode, inCore, inPool, n, m
<1>11. /\ rows[2].type = "Core" /\ rows[PoolRow(r)].type = "SpentFuelPool"
       /\ rows[1].sn = r.sn /\ rows[2].sn = r.core.sn /\ rows[PoolRow(r)].sn = r.pool.sn
  BY <1>1, LayoutTypes, LayoutNumbers DEF rows
<1>12. Compose(rows) = [row |-> 1, children |-> <<coreNode, poolNode>>]
  BY <1>1, ComposeLayout DEF rows
<1> HIDE DEF coreNode, poolNode
<1>13. Holds(coreNode) = [c \in DOMAIN core |-> Read(r, ChildAt(r, inCore, c))]
  <2>1. \A c \in DOMAIN core :
          Charged(Read(r, ChildAt(r, inCore, c)), now) = Read(r, ChildAt(r, inCore, c))
    BY <1>8, LoadedAlready DEF ComesBack
  <2> QED
    BY <1>8, <1>10, <1>11, <2>1
<1>14. Holds(poolNode) = [c \in DOMAIN pool |-> Read(r, ChildAt(r, inPool, c))]
  BY <1>9, <1>10, <1>11
<1>15. Load(Statepoint(r)) =
         [sn |-> rows[1].sn, max |-> MaxAssemNum(Statepoint(r)),
          core |-> [sn |-> rows[coreNode.row].sn, holds |-> Holds(coreNode)],
          pool |-> [sn |-> rows[poolNode.row].sn, holds |-> Holds(poolNode)]]
  <2>1. Statepoint(r).rows = rows
    BY DEF Statepoint, rows
  <2>2. Compose(rows).row = 1 /\ Compose(rows).children[1] = coreNode /\ Compose(rows).children[2] = poolNode
    BY <1>12
  <2> QED
    BY <2>1, <2>2 DEF Load, PlaceOf, Read, ChildrenPlaces, ChildAt, rows
<1> HIDE DEF Holds
<1>16. PICK l, g, h : /\ l = Load(Statepoint(r)) /\ g = Holds(coreNode) /\ h = Holds(poolNode)
  OBVIOUS
<1>17. l = [sn |-> r.sn, max |-> r.max, core |-> [sn |-> r.core.sn, holds |-> g],
            pool |-> [sn |-> r.pool.sn, holds |-> h]]
  BY <1>10, <1>11, <1>15, <1>16, MaxOfCore
<1>18. IsFiniteSet(DOMAIN core) /\ IsFiniteSet(DOMAIN pool)
  BY DEF IsReactor, IsHolds, core, pool
<1>19. AlikeHolds(g, core) /\ (QComesBack(r) => g = [c \in DOMAIN core |-> FromDb(core[c])])
  <2>1. DOMAIN g = DOMAIN core /\ g = [c \in DOMAIN core |-> g[c]]
        /\ \A c \in DOMAIN core : ComesBack(r, g[c], core[c])
    BY <1>8, <1>13, <1>16
  <2>2. IsHolds(g)
    BY <1>5, <1>18, <2>1 DEF IsHolds, ComesBack, Alike
  <2> QED
    BY <2>1, <2>2 DEF AlikeHolds, ComesBack
<1>20. AlikeHolds(h, pool) /\ (QComesBack(r) => h = [c \in DOMAIN pool |-> FromDb(pool[c])])
  <2>1. DOMAIN h = DOMAIN pool /\ h = [c \in DOMAIN pool |-> h[c]]
        /\ \A c \in DOMAIN pool : ComesBack(r, h[c], pool[c])
    BY <1>9, <1>14, <1>16
  <2>2. IsHolds(h)
    BY <1>5, <1>18, <2>1 DEF IsHolds, ComesBack, Alike
  <2> QED
    BY <2>1, <2>2 DEF AlikeHolds, ComesBack
<1>21. AlikeReactor(l, r)
  <2>1. /\ l.sn = r.sn /\ l.max = r.max /\ l.core.sn = r.core.sn /\ l.pool.sn = r.pool.sn
        /\ l.core.holds = g /\ l.pool.holds = h
        /\ l.core = [sn |-> r.core.sn, holds |-> g] /\ l.pool = [sn |-> r.pool.sn, holds |-> h]
    BY <1>17
  <2>2. l = [sn |-> l.sn, max |-> l.max, core |-> l.core, pool |-> l.pool]
    BY <1>17, <2>1
  <2>3. IsReactor(l)
    BY <1>19, <1>20, <2>1, <2>2 DEF IsReactor, AlikeHolds
  <2> QED
    BY <1>19, <1>20, <2>1, <2>3 DEF AlikeReactor, core, pool
<1>22. QComesBack(r) => l = LoadedFrom(r)
  BY <1>17, <1>19, <1>20 DEF LoadedFrom, core, pool
<1> QED
  BY <1>16, <1>21, <1>22

-----------------------------------------------------------------------------
(***************************************************************************)
(* Shuffling (fuelHandlers.py, cores.py, spentFuelPool.py).                *)
(***************************************************************************)

(* The same object, whatever was charged, moved or located of it. *)
SameObject(x, a) == x.sn = a.sn /\ x.id = a.id /\ x.num = a.num /\ x.blocks = a.blocks

(* A new assembly. *)
LEMMA NewShape ==
  ASSUME NEW sn \in Nat, NEW id \in Nat
  PROVE  LET a == NewAssembly(sn, id)
         IN  /\ IsAssembly(a) /\ a.sn = sn + 1 /\ a.id = id + 1 /\ a.num = -1
             /\ \A k \in 1..NBlocks : a.blocks[k].sn = sn + 1 + k /\ a.blocks[k].id = id + 1 + k
                                      /\ a.blocks[k].q = None
<1> DEFINE blocks == [k \in 1..NBlocks |->
                        [sn |-> sn + 1 + k, id |-> id + 1 + k, p |-> <<0, 0>>, q |-> None]]
           a == NewAssembly(sn, id)
<1>1. \A k \in 1..NBlocks : IsBlock(blocks[k]) /\ blocks[k].sn = sn + 1 + k /\ blocks[k].id = id + 1 + k
                            /\ blocks[k].q = None
  BY DEF IsBlock
<1>2. IsList(blocks) /\ Len(blocks) = NBlocks
  <2>1. blocks = [k \in 1..NBlocks |-> blocks[k]]
    OBVIOUS
  <2> HIDE DEF blocks
  <2> QED
    BY <2>1, LenOf, NBlocksNumber
<1>3. a = [sn |-> sn + 1, id |-> id + 1, num |-> -1, fromDatabase |-> FALSE, charge |-> 0, numMoves |-> 0,
           blocks |-> blocks]
  BY DEF NewAssembly
<1> HIDE DEF a, blocks
<1>4. PICK f : f = FALSE
  OBVIOUS
<1>5. a = [sn |-> sn + 1, id |-> id + 1, num |-> -1, fromDatabase |-> f, charge |-> 0, numMoves |-> 0,
           blocks |-> blocks]
  BY <1>3, <1>4
<1>6. IsAssembly(a)
  BY <1>1, <1>2, <1>5 DEF IsAssembly, HasBlocks
<1> QED
  BY <1>1, <1>5, <1>6 DEF a

(* An assembly with one parameter changed is the same object. *)
LEMMA FieldShape ==
  ASSUME NEW a, IsAssembly(a), NEW x, NEW y
  PROVE  /\ IsAssembly([a EXCEPT !.fromDatabase = x]) /\ SameObject([a EXCEPT !.fromDatabase = x], a)
         /\ IsAssembly([a EXCEPT !.num = x])
         /\ [a EXCEPT !.num = x].num = x /\ [a EXCEPT !.num = x].sn = a.sn
         /\ [a EXCEPT !.num = x].id = a.id /\ [a EXCEPT !.num = x].blocks = a.blocks
         /\ IsAssembly([a EXCEPT !.charge = x, !.numMoves = y])
         /\ SameObject([a EXCEPT !.charge = x, !.numMoves = y], a)
         /\ IsAssembly([a EXCEPT !.numMoves = x]) /\ SameObject([a EXCEPT !.numMoves = x], a)
<1> DEFINE R(num, from, charge, moved) ==
             [sn |-> a.sn, id |-> a.id, num |-> num, fromDatabase |-> from, charge |-> charge,
              numMoves |-> moved, blocks |-> a.blocks]
<1>1. /\ [a EXCEPT !.fromDatabase = x] = R(a.num, x, a.charge, a.numMoves)
      /\ [a EXCEPT !.num = x] = R(x, a.fromDatabase, a.charge, a.numMoves)
      /\ [a EXCEPT !.charge = x, !.numMoves = y] = R(a.num, a.fromDatabase, x, y)
      /\ [a EXCEPT !.numMoves = x] = R(a.num, a.fromDatabase, a.charge, x)
  <2>1. [a EXCEPT !.fromDatabase = x] = R(a.num, x, a.charge, a.numMoves)
    BY DEF IsAssembly
  <2>2. [a EXCEPT !.num = x] = R(x, a.fromDatabase, a.charge, a.numMoves)
    BY DEF IsAssembly
  <2>3. [a EXCEPT !.charge = x, !.numMoves = y] = R(a.num, a.fromDatabase, x, y)
    <3>1. PICK b : b = [a EXCEPT !.charge = x]
      OBVIOUS
    <3>2. b = R(a.num, a.fromDatabase, x, a.numMoves)
      BY <3>1 DEF IsAssembly
    <3>3. [b EXCEPT !.numMoves = y] = R(a.num, a.fromDatabase, x, y)
      <4>1. /\ b = R(b.num, b.fromDatabase, b.charge, b.numMoves) /\ b.num = a.num
            /\ b.fromDatabase = a.fromDatabase /\ b.charge = x
        BY <3>2
      <4>2. [b EXCEPT !.numMoves = y] = R(b.num, b.fromDatabase, b.charge, y)
        BY <3>2, <4>1
      <4> QED
        BY <4>1, <4>2
    <3>4. [a EXCEPT !.charge = x, !.numMoves = y] = [b EXCEPT !.numMoves = y]
      BY <3>1
    <3> QED
      BY <3>3, <3>4
  <2>4. [a EXCEPT !.numMoves = x] = R(a.num, a.fromDatabase, a.charge, x)
    BY DEF IsAssembly
  <2> QED
    BY <2>1, <2>2, <2>3, <2>4
<1>2. ASSUME NEW n, NEW f, NEW c, NEW m
      PROVE  /\ IsAssembly(R(n, f, c, m)) /\ R(n, f, c, m).num = n /\ R(n, f, c, m).sn = a.sn
             /\ R(n, f, c, m).id = a.id /\ R(n, f, c, m).blocks = a.blocks
  BY DEF IsAssembly, HasBlocks
<1> HIDE DEF R
<1> QED
  BY <1>1, <1>2 DEF SameObject

(* Charging keeps the object. *)
LEMMA ChargedShape ==
  ASSUME NEW a, IsAssembly(a), NEW t
  PROVE  IsAssembly(Charged(a, t)) /\ SameObject(Charged(a, t), a)
<1>1. CASE a.fromDatabase
  BY <1>1 DEF Charged, SameObject
<1>2. CASE ~a.fromDatabase
  <2>1. Charged(a, t) = [a EXCEPT !.charge = t, !.numMoves = @ + 1]
    BY <1>2 DEF Charged
  <2>2. [a EXCEPT !.charge = t, !.numMoves = @ + 1] = [a EXCEPT !.charge = t, !.numMoves = a.numMoves + 1]
    OBVIOUS
  <2>3. PICK y : y = a.numMoves + 1
    OBVIOUS
  <2>4. Charged(a, t) = [a EXCEPT !.charge = t, !.numMoves = y]
    BY <2>1, <2>2, <2>3
  <2>5. /\ IsAssembly([a EXCEPT !.charge = t, !.numMoves = y])
        /\ SameObject([a EXCEPT !.charge = t, !.numMoves = y], a)
    BY FieldShape
  <2> QED
    BY <2>4, <2>5
<1> QED
  BY <1>1, <1>2

(* An assembly with a placeholder takes the next number; another keeps its own. *)
LEMMA RenumberedShape ==
  ASSUME NEW a, IsAssembly(a), a.num \in Int, NEW max \in Nat
  PROVE  /\ IsAssembly(Renumbered(a, max)) /\ Renumbered(a, max).sn = a.sn /\ Renumbered(a, max).id = a.id
         /\ Renumbered(a, max).blocks = a.blocks
         /\ a.num < 0 => Renumbered(a, max).num = max /\ NextAssemNum(a, max) = max + 1
         /\ ~(a.num < 0) => Renumbered(a, max) = a /\ NextAssemNum(a, max) = max
BY FieldShape DEF Renumbered, NextAssemNum

IsSystem(s) == s = [sn |-> s.sn, holds |-> s.holds] /\ IsHolds(s.holds)

(* locateAllAssemblies keeps the objects and their places. *)
LEMMA LocateAllShape ==
  ASSUME NEW r, IsReactor(r)
  PROVE  LET l == LocateAll(r)
         IN  /\ IsReactor(l) /\ l.sn = r.sn /\ l.max = r.max
             /\ l.core.sn = r.core.sn /\ l.pool.sn = r.pool.sn
             /\ DOMAIN l.core.holds = DOMAIN r.core.holds
             /\ \A c \in DOMAIN r.core.holds : SameObject(l.core.holds[c], r.core.holds[c])
             /\ DOMAIN l.pool.holds = DOMAIN r.pool.holds
             /\ \A c \in DOMAIN r.pool.holds : SameObject(l.pool.holds[c], r.pool.holds[c])
<1> DEFINE Located(h) == [c \in DOMAIN h |-> [h[c] EXCEPT !.fromDatabase = FALSE]]
           l == LocateAll(r)
<1>1. ASSUME NEW h, IsHolds(h)
      PROVE  /\ IsHolds(Located(h)) /\ DOMAIN Located(h) = DOMAIN h
             /\ \A c \in DOMAIN h : SameObject(Located(h)[c], h[c])
  <2>1. PICK f : f = FALSE
    OBVIOUS
  <2>2. Located(h) = [c \in DOMAIN h |-> [h[c] EXCEPT !.fromDatabase = f]]
    BY <2>1
  <2>3. \A c \in DOMAIN h : IsAssembly(Located(h)[c]) /\ SameObject(Located(h)[c], h[c])
    BY <1>1, <2>2, FieldShape DEF IsHolds
  <2>4. DOMAIN Located(h) = DOMAIN h /\ Located(h) = [c \in DOMAIN h |-> Located(h)[c]]
    OBVIOUS
  <2> HIDE DEF Located
  <2> QED
    BY <1>1, <2>3, <2>4 DEF IsHolds
<1>2. l = [r EXCEPT !.core.holds = Located(r.core.holds), !.pool.holds = Located(r.pool.holds)]
  BY DEF LocateAll
<1> HIDE DEF Located, l
<1>3. PICK g, h : g = Located(r.core.holds) /\ h = Located(r.pool.holds)
  OBVIOUS
<1>4. l = [r EXCEPT !.core.holds = g, !.pool.holds = h]
  BY <1>2, <1>3
<1>5. l = [sn |-> r.sn, max |-> r.max, core |-> [sn |-> r.core.sn, holds |-> g],
           pool |-> [sn |-> r.pool.sn, holds |-> h]]
  BY <1>4 DEF IsReactor
<1>6. IsReactor(l)
  BY <1>1, <1>3, <1>5 DEF IsReactor
<1> QED
  BY <1>1, <1>3, <1>5, <1>6 DEF l, IsReactor

(* A cell that gets an assembly. *)
LEMMA WithShape ==
  ASSUME NEW h, IsHolds(h), NEW cell \in Nat \X Nat, NEW x, IsAssembly(x)
  PROVE  /\ IsHolds(With(h, cell, x)) /\ DOMAIN With(h, cell, x) = DOMAIN h \cup {cell}
         /\ With(h, cell, x)[cell] = x /\ \A c \in DOMAIN h : c # cell => With(h, cell, x)[c] = h[c]
<1> DEFINE w == With(h, cell, x)
<1>1. DOMAIN w = DOMAIN h \cup {cell} /\ w = [c \in DOMAIN w |-> w[c]]
  BY DEF With
<1>2. w[cell] = x /\ \A c \in DOMAIN h : c # cell => w[c] = h[c]
  BY DEF With
<1> HIDE DEF w
<1>3. IsFiniteSet(DOMAIN h \cup {cell})
  <2>1. IsFiniteSet(DOMAIN h)
    BY DEF IsHolds
  <2> QED
    BY <2>1, FS_AddElement
<1>4. IsHolds(w)
  BY <1>1, <1>2, <1>3 DEF IsHolds
<1> QED
  BY <1>1, <1>2, <1>4 DEF w

(* A cell that loses one. *)
LEMMA WithoutShape ==
  ASSUME NEW h, IsHolds(h), NEW cell
  PROVE  /\ IsHolds(Without(h, cell)) /\ DOMAIN Without(h, cell) = DOMAIN h \ {cell}
         /\ \A c \in DOMAIN h : c # cell => Without(h, cell)[c] = h[c]
<1> DEFINE w == Without(h, cell)
<1>1. DOMAIN w = DOMAIN h \ {cell} /\ w = [c \in DOMAIN w |-> w[c]]
  BY DEF Without
<1>2. \A c \in DOMAIN h : c # cell => w[c] = h[c]
  BY DEF Without
<1> HIDE DEF w
<1>3. IsFiniteSet(DOMAIN h \ {cell})
  <2>1. IsFiniteSet(DOMAIN h)
    BY DEF IsHolds
  <2> QED
    BY <2>1, FS_RemoveElement
<1>4. IsHolds(w)
  BY <1>1, <1>2, <1>3 DEF IsHolds
<1> QED
  BY <1>1, <1>2, <1>4 DEF w

(* The first row of the pool has a free cell. *)
LEMMA FreeCell ==
  ASSUME NEW h, IsHolds(h)
  PROVE  NextLocation(h) \in Nat \X Nat /\ NextLocation(h) \notin DOMAIN h
<1> DEFINE D == DOMAIN h
           n == Cardinality(D)
           free == {i \in 0..n : <<i, 0>> \notin D}
<1>1. IsFiniteSet(D) /\ n \in Nat
  BY FS_CardinalityType DEF IsHolds
<1>2. free # {}
  <2> SUFFICES ASSUME free = {} PROVE FALSE
    OBVIOUS
  <2> HIDE DEF n
  <2> DEFINE f == [i \in 0..n |-> <<i, 0>>]
  <2>1. \A i \in 0..n : f[i] \in D
    OBVIOUS
  <2>2. f \in [0..n -> D]
    BY <2>1
  <2>3. \A i, j \in 0..n : f[i] = f[j] => i = j
    OBVIOUS
  <2>4. f \in Injection(0..n, D)
    BY <2>2, <2>3 DEF Injection, IsInjective
  <2>5. Cardinality(0..n) <= Cardinality(D)
    BY <1>1, <2>4, FS_Injection
  <2>6. Cardinality(0..n) = n + 1
    BY <1>1, FS_Interval
  <2> QED
    BY <1>1, <2>5, <2>6 DEF n
<1>3. \E m \in free : \A k \in free : m <= k
  <2>1. free \subseteq Nat
    BY <1>1
  <2> HIDE DEF free
  <2> QED
    BY <1>2, <2>1, LeastNumber
<1>4. Min(free) \in free
  BY <1>3 DEF Min
<1>5. NextLocation(h) = <<Min(free), 0>>
  BY DEF NextLocation
<1> QED
  BY <1>1, <1>4, <1>5
-----------------------------------------------------------------------------
(* The places of a reactor, and how shuffling rearranges what they hold. *)
PlacesOf(r) == ({"core"} \X DOMAIN r.core.holds) \cup ({"pool"} \X DOMAIN r.pool.holds)
At(r, p)    == IF p[1] = "core" THEN r.core.holds[p[2]] ELSE r.pool.holds[p[2]]

NewPlace == <<"new", 0>>

(* What r holds at p was held by `old` at s[p], or it is new. *)
Rearranged(s, r, old, new) ==
  /\ \A p \in PlacesOf(r) : \/ s[p] \in PlacesOf(old) /\ SameObject(At(r, p), At(old, s[p]))
                            \/ s[p] = NewPlace /\ \E a \in new : SameObject(At(r, p), a)
  /\ \A p, q \in PlacesOf(r) : s[p] = s[q] => p = q

(* The places of the core and of the pool. *)
LEMMA InPlaces ==
  ASSUME NEW r
  PROVE  /\ \A c \in DOMAIN r.core.holds : <<"core", c>> \in PlacesOf(r) /\ At(r, <<"core", c>>) = r.core.holds[c]
         /\ \A c \in DOMAIN r.pool.holds : <<"pool", c>> \in PlacesOf(r) /\ At(r, <<"pool", c>>) = r.pool.holds[c]
         /\ \A p \in PlacesOf(r) : \/ \E c \in DOMAIN r.core.holds : p = <<"core", c>>
                                   \/ \E c \in DOMAIN r.pool.holds : p = <<"pool", c>>
         /\ NewPlace \notin PlacesOf(r)
BY DEF PlacesOf, At, NewPlace

(* Removing an assembly moves it to the pool, if the case tracks assemblies. *)
LEMMA RemoveShape ==
  ASSUME NEW r, IsReactor(r), NEW cell \in DOMAIN r.core.holds
  PROVE  LET l == RemoveAssembly(r, cell)
             a == r.core.holds[cell]
         IN  /\ IsReactor(l) /\ l.sn = r.sn /\ l.max = r.max /\ l.core.sn = r.core.sn /\ l.pool.sn = r.pool.sn
             /\ l.core.holds = Without(r.core.holds, cell)
             /\ l.pool.holds = IF trackAssems THEN With(r.pool.holds, NextLocation(r.pool.holds), a)
                               ELSE r.pool.holds
<1> DEFINE l == RemoveAssembly(r, cell)
           a == r.core.holds[cell]
<1>1. PICK g, h : /\ g = Without(r.core.holds, cell)
                  /\ h = IF trackAssems THEN With(r.pool.holds, NextLocation(r.pool.holds), a)
                         ELSE r.pool.holds
  OBVIOUS
<1>2. l = [r EXCEPT !.core.holds = g, !.pool.holds = h]
  BY <1>1 DEF RemoveAssembly
<1>3. l = [sn |-> r.sn, max |-> r.max, core |-> [sn |-> r.core.sn, holds |-> g],
           pool |-> [sn |-> r.pool.sn, holds |-> h]]
  BY <1>2 DEF IsReactor
<1>4. IsAssembly(a)
  BY DEF IsReactor, IsHolds
<1>5. IsHolds(g)
  BY <1>1, WithoutShape DEF IsReactor
<1>6. IsHolds(h)
  <2>1. IsHolds(r.pool.holds)
    BY DEF IsReactor
  <2> QED
    BY <1>1, <1>4, <2>1, FreeCell, WithShape
<1>7. IsReactor(l)
  BY <1>3, <1>5, <1>6 DEF IsReactor
<1> QED
  BY <1>1, <1>3, <1>7

(* Adding one to the core. *)
LEMMA CoreAddShape ==
  ASSUME NEW r, IsReactor(r), r.max \in Nat, NEW a, IsAssembly(a), a.num \in Int, NEW cell \in Nat \X Nat
  PROVE  LET l == CoreAdd(r, a, cell)
         IN  /\ IsReactor(l) /\ l.sn = r.sn /\ l.max = NextAssemNum(a, r.max)
             /\ l.core.sn = r.core.sn /\ l.pool = r.pool
             /\ l.core.holds = With(r.core.holds, cell, Charged(Renumbered(a, r.max), now))
             /\ IsAssembly(Charged(Renumbered(a, r.max), now))
<1> DEFINE l == CoreAdd(r, a, cell)
<1>1. PICK g, m, x : /\ g = With(r.core.holds, cell, x) /\ x = Charged(Renumbered(a, r.max), now)
                     /\ m = NextAssemNum(a, r.max)
  OBVIOUS
<1>2. l = [r EXCEPT !.max = m, !.core.holds = g]
  BY <1>1 DEF CoreAdd
<1>3. l = [sn |-> r.sn, max |-> m, core |-> [sn |-> r.core.sn, holds |-> g], pool |-> r.pool]
  BY <1>2 DEF IsReactor
<1>4. IsAssembly(x)
  BY <1>1, RenumberedShape, ChargedShape
<1>5. IsHolds(g)
  BY <1>1, <1>4, WithShape DEF IsReactor
<1>6. IsReactor(l)
  BY <1>3, <1>5 DEF IsReactor
<1> QED
  BY <1>1, <1>3, <1>4, <1>6

(* w is h with x at the cell. *)
Placed(w, h, cell, x) ==
  /\ DOMAIN w = DOMAIN h \cup {cell} /\ w[cell] = x
  /\ \A c \in DOMAIN h : c # cell => w[c] = h[c]

(* The same, said of the places. *)
LEMMA WithPlaces ==
  ASSUME NEW h, IsHolds(h), NEW cell \in Nat \X Nat, NEW x, IsAssembly(x)
  PROVE  Placed(With(h, cell, x), h, cell, x)
BY WithShape DEF Placed

(* What the operations of shuffling do to a reactor. *)
Shuffled(r, old, new) ==
  /\ IsReactor(r) /\ r.sn = old.sn /\ r.core.sn = old.core.sn /\ r.pool.sn = old.pool.sn
  /\ DOMAIN r.core.holds = DOMAIN old.core.holds
  /\ ~trackAssems => DOMAIN r.pool.holds \subseteq DOMAIN old.pool.holds
  /\ \E s : /\ Rearranged(s, r, old, new)
            /\ trackAssems => \A p \in PlacesOf(old) : \E q \in PlacesOf(r) : s[q] = p

Numbered(r) == r.max \in Nat /\ \A p \in PlacesOf(r) : At(r, p).num \in 0..r.max - 1

(* The same object as the same object. *)
LEMMA SameIsTransitive ==
  ASSUME NEW x, NEW y, NEW z, SameObject(x, y), SameObject(y, z)
  PROVE  SameObject(x, z)
BY DEF SameObject

FreshIn(cell) ==
  CoreAdd(RemoveAssembly(LocateAll(reactor), cell), NewAssembly(serial, made), cell)

FreshAssembly == Renumbered(NewAssembly(serial, made), reactor.max)

(* Loading a fresh assembly rearranges the objects and adds a new one. *)
LEMMA FreshShuffles ==
  ASSUME IsReactor(reactor), Numbered(reactor), serial \in Nat, made \in Nat,
         NEW cell \in DOMAIN reactor.core.holds
  PROVE  /\ Shuffled(FreshIn(cell), reactor, {FreshAssembly})
         /\ FreshIn(cell).max = reactor.max + 1
         /\ SameObject(FreshIn(cell).core.holds[cell], FreshAssembly)
         /\ \A c \in DOMAIN reactor.core.holds :
              c # cell => SameObject(FreshIn(cell).core.holds[c], reactor.core.holds[c])
<1> DEFINE l == LocateAll(reactor)
           q == RemoveAssembly(l, cell)
           in == NewAssembly(serial, made)
           r == FreshIn(cell)
           core == reactor.core.holds
           pool == reactor.pool.holds
           next == NextLocation(l.pool.holds)
<1>1. /\ IsReactor(l) /\ l.sn = reactor.sn /\ l.max = reactor.max
      /\ l.core.sn = reactor.core.sn /\ l.pool.sn = reactor.pool.sn
      /\ DOMAIN l.core.holds = DOMAIN core /\ DOMAIN l.pool.holds = DOMAIN pool
      /\ \A c \in DOMAIN core : SameObject(l.core.holds[c], core[c])
      /\ \A c \in DOMAIN pool : SameObject(l.pool.holds[c], pool[c])
  BY LocateAllShape
<1>2. /\ IsReactor(q) /\ q.sn = l.sn /\ q.max = l.max /\ q.core.sn = l.core.sn /\ q.pool.sn = l.pool.sn
      /\ q.core.holds = Without(l.core.holds, cell)
      /\ q.pool.holds = IF trackAssems THEN With(l.pool.holds, next, l.core.holds[cell]) ELSE l.pool.holds
  BY <1>1, RemoveShape
<1>3. IsAssembly(in) /\ in.num = -1
  BY NewShape
<1>4. reactor.max \in Nat /\ cell \in Nat \X Nat
  BY DEF Numbered, IsReactor, IsHolds
<1>5. r = CoreAdd(q, in, cell)
  BY DEF FreshIn
<1> HIDE DEF l, q, in, r
<1>6. /\ IsReactor(r) /\ r.sn = reactor.sn /\ r.max = NextAssemNum(in, reactor.max)
      /\ r.core.sn = reactor.core.sn /\ r.pool = q.pool
      /\ r.core.holds = With(q.core.holds, cell, Charged(Renumbered(in, reactor.max), now))
      /\ IsAssembly(Charged(Renumbered(in, reactor.max), now))
  <2>1. q.max \in Nat /\ q.max = reactor.max /\ in.num \in Int
    BY <1>1, <1>2, <1>3, <1>4
  <2> QED
    BY <1>1, <1>2, <1>3, <1>4, <1>5, <2>1, CoreAddShape
<1>7. /\ r.max = reactor.max + 1
      /\ SameObject(Charged(Renumbered(in, reactor.max), now), Renumbered(in, reactor.max))
  BY <1>3, <1>4, <1>6, RenumberedShape, ChargedShape
<1>8. /\ IsHolds(l.core.holds) /\ IsHolds(l.pool.holds) /\ IsAssembly(l.core.holds[cell])
      /\ IsHolds(q.core.holds)
  BY <1>1, <1>2 DEF IsReactor, IsHolds
<1>9. /\ DOMAIN q.core.holds = DOMAIN core \ {cell}
      /\ \A c \in DOMAIN core : c # cell => q.core.holds[c] = l.core.holds[c]
  <2>1. PICK h : h = l.core.holds
    OBVIOUS
  <2>2. /\ DOMAIN Without(h, cell) = DOMAIN h \ {cell}
        /\ \A c \in DOMAIN h : c # cell => Without(h, cell)[c] = h[c]
    <3>1. IsHolds(h)
      BY <1>8, <2>1
    <3> QED
      BY ONLY <3>1, WithoutShape
  <2> QED
    BY <1>1, <1>2, <2>1, <2>2
<1>10. /\ DOMAIN r.core.holds = DOMAIN core
       /\ SameObject(r.core.holds[cell], Renumbered(in, reactor.max))
       /\ \A c \in DOMAIN core : c # cell => SameObject(r.core.holds[c], core[c])
  <2>1. /\ DOMAIN r.core.holds = DOMAIN q.core.holds \cup {cell}
        /\ r.core.holds[cell] = Charged(Renumbered(in, reactor.max), now)
        /\ \A c \in DOMAIN q.core.holds : c # cell => r.core.holds[c] = q.core.holds[c]
    <3>1. PICK h, x : h = q.core.holds /\ x = Charged(Renumbered(in, reactor.max), now)
      OBVIOUS
    <3>2. Placed(With(h, cell, x), h, cell, x)
      <4>1. IsHolds(h) /\ IsAssembly(x) /\ cell \in Nat \X Nat
        BY <1>4, <1>6, <1>8, <3>1
      <4> QED
        BY ONLY <4>1, WithPlaces
    <3>3. r.core.holds = With(h, cell, x)
      BY <1>6, <3>1
    <3> QED
      BY <3>1, <3>2, <3>3 DEF Placed
  <2> QED
    BY <1>1, <1>7, <1>9, <2>1
<1>11. next \in Nat \X Nat /\ next \notin DOMAIN pool
  BY <1>1, <1>8, FreeCell
<1>12. trackAssems => /\ DOMAIN r.pool.holds = DOMAIN pool \cup {next}
                      /\ SameObject(r.pool.holds[next], core[cell])
                      /\ \A c \in DOMAIN pool : c # next /\ SameObject(r.pool.holds[c], pool[c])
  <2>1. PICK h, x : h = l.pool.holds /\ x = l.core.holds[cell]
    OBVIOUS
  <2>2. Placed(With(h, next, x), h, next, x)
    <3> HIDE DEF next
    <3> QED
      BY <1>8, <1>11, <2>1, WithPlaces
  <2>3. trackAssems => r.pool.holds = With(h, next, x)
    BY <1>2, <1>6, <2>1
  <2>4. SameObject(x, core[cell]) /\ DOMAIN h = DOMAIN pool /\ \A c \in DOMAIN pool : SameObject(h[c], pool[c])
    BY <1>1, <2>1
  <2> HIDE DEF next, core, pool
  <2> QED
    BY <1>11, <2>2, <2>3, <2>4 DEF Placed
<1>13. ~trackAssems => /\ DOMAIN r.pool.holds = DOMAIN pool
                       /\ \A c \in DOMAIN pool : SameObject(r.pool.holds[c], pool[c])
  BY <1>1, <1>2, <1>6
<1> HIDE DEF next, core, pool
<1> DEFINE s == [p \in PlacesOf(r) |->
                   IF p = <<"core", cell>> THEN NewPlace
                   ELSE IF trackAssems /\ p = <<"pool", next>> THEN <<"core", cell>> ELSE p]
<1>14. Rearranged(s, r, reactor, {Renumbered(in, reactor.max)})
       /\ (trackAssems => \A p \in PlacesOf(reactor) : \E x \in PlacesOf(r) : s[x] = p)
  <2>1. ASSUME NEW p \in PlacesOf(r)
        PROVE  \/ s[p] \in PlacesOf(reactor) /\ SameObject(At(r, p), At(reactor, s[p]))
               \/ s[p] = NewPlace /\ \E a \in {Renumbered(in, reactor.max)} : SameObject(At(r, p), a)
    <3>1. CASE p = <<"core", cell>>
      BY <1>10, <3>1, InPlaces DEF core
    <3>2. ASSUME NEW c \in DOMAIN r.core.holds, p = <<"core", c>>, c # cell
          PROVE  s[p] \in PlacesOf(reactor) /\ SameObject(At(r, p), At(reactor, s[p]))
      <4>1. s[p] = p
        BY <3>2
      <4> QED
        BY <1>10, <3>2, <4>1, InPlaces DEF core
    <3>3. ASSUME NEW c \in DOMAIN r.pool.holds, p = <<"pool", c>>
          PROVE  s[p] \in PlacesOf(reactor) /\ SameObject(At(r, p), At(reactor, s[p]))
      <4>1. CASE trackAssems /\ c = next
        <5>1. s[p] = <<"core", cell>>
          BY <3>3, <4>1
        <5> QED
          BY <1>12, <3>3, <4>1, <5>1, InPlaces DEF core
      <4>2. CASE ~(trackAssems /\ c = next)
        <5>1. s[p] = p
          BY <3>3, <4>2
        <5>2. c \in DOMAIN pool /\ SameObject(r.pool.holds[c], pool[c])
          BY <1>12, <1>13, <4>2
        <5> QED
          BY <3>3, <5>1, <5>2, InPlaces DEF pool
      <4> QED
        BY <4>1, <4>2
    <3> QED
      BY <3>1, <3>2, <3>3, InPlaces
  <2>2. ASSUME NEW p \in PlacesOf(r), NEW x \in PlacesOf(r), s[p] = s[x]
        PROVE  p = x
    <3>1. <<"core", cell>> # NewPlace /\ <<"core", cell>> \in PlacesOf(r) /\ NewPlace \notin PlacesOf(r)
      BY <1>10, InPlaces DEF NewPlace, core
    <3> QED
      BY <2>2, <3>1
  <2>3. ASSUME trackAssems, NEW p \in PlacesOf(reactor)
        PROVE  \E x \in PlacesOf(r) : s[x] = p
    <3>1. CASE p = <<"core", cell>>
      <4>1. <<"pool", next>> \in PlacesOf(r) /\ <<"pool", next>> # <<"core", cell>>
        BY <1>12, <2>3, InPlaces
      <4>2. s[<<"pool", next>>] = p
        BY <2>3, <3>1, <4>1
      <4> QED
        BY <4>1, <4>2
    <3>2. CASE p # <<"core", cell>>
      <4>1. p \in PlacesOf(r) /\ p # <<"pool", next>>
        BY <1>10, <1>12, <2>3, InPlaces DEF core, pool
      <4>2. s[p] = p
        BY <3>2, <4>1
      <4> QED
        BY <4>1, <4>2
    <3> QED
      BY <3>1, <3>2
  <2> HIDE DEF s
  <2> QED
    BY <2>1, <2>2, <2>3 DEF Rearranged
<1> HIDE DEF s
<1>15. Shuffled(r, reactor, {Renumbered(in, reactor.max)})
  BY <1>1, <1>2, <1>6, <1>10, <1>13, <1>14 DEF Shuffled, core, pool
<1> QED
  BY <1>7, <1>10, <1>15 DEF r, in, core, FreshAssembly

(* The incoming assembly leaves the pool after the outgoing one came. *)
PoolIn(cell, place) ==
  LET l == LocateAll(reactor)
      q == RemoveAssembly(l, cell)
  IN  CoreAdd([q EXCEPT !.pool.holds = Without(q.pool.holds, place)], l.pool.holds[place], cell)

(* Loading one from the pool rearranges them. *)
LEMMA PoolShuffles ==
  ASSUME IsReactor(reactor), Numbered(reactor),
         NEW cell \in DOMAIN reactor.core.holds, NEW place \in DOMAIN reactor.pool.holds
  PROVE  /\ Shuffled(PoolIn(cell, place), reactor, {})
         /\ PoolIn(cell, place).max = reactor.max
         /\ SameObject(PoolIn(cell, place).core.holds[cell], reactor.pool.holds[place])
         /\ \A c \in DOMAIN reactor.core.holds :
              c # cell => SameObject(PoolIn(cell, place).core.holds[c], reactor.core.holds[c])
<1> DEFINE l == LocateAll(reactor)
           q == RemoveAssembly(l, cell)
           e == [q EXCEPT !.pool.holds = Without(q.pool.holds, place)]
           in == l.pool.holds[place]
           r == PoolIn(cell, place)
           core == reactor.core.holds
           pool == reactor.pool.holds
           next == NextLocation(l.pool.holds)
<1>1. /\ IsReactor(l) /\ l.sn = reactor.sn /\ l.max = reactor.max
      /\ l.core.sn = reactor.core.sn /\ l.pool.sn = reactor.pool.sn
      /\ DOMAIN l.core.holds = DOMAIN core /\ DOMAIN l.pool.holds = DOMAIN pool
      /\ \A c \in DOMAIN core : SameObject(l.core.holds[c], core[c])
      /\ \A c \in DOMAIN pool : SameObject(l.pool.holds[c], pool[c])
  BY LocateAllShape
<1>2. /\ IsReactor(q) /\ q.sn = l.sn /\ q.max = l.max /\ q.core.sn = l.core.sn /\ q.pool.sn = l.pool.sn
      /\ q.core.holds = Without(l.core.holds, cell)
      /\ q.pool.holds = IF trackAssems THEN With(l.pool.holds, next, l.core.holds[cell]) ELSE l.pool.holds
  BY <1>1, RemoveShape
<1>3. /\ reactor.max \in Nat /\ cell \in Nat \X Nat /\ in.num \in Int /\ ~(in.num < 0)
      /\ IsAssembly(in) /\ SameObject(in, pool[place])
  <2>1. <<"pool", place>> \in PlacesOf(reactor) /\ At(reactor, <<"pool", place>>) = pool[place]
    BY InPlaces
  <2>2. reactor.max \in Nat /\ pool[place].num \in 0..reactor.max - 1
    BY <2>1 DEF Numbered
  <2>3. SameObject(in, pool[place]) /\ IsAssembly(in)
    BY <1>1 DEF IsReactor, IsHolds
  <2>4. in.num = pool[place].num
    BY <2>3 DEF SameObject
  <2>5. cell \in Nat \X Nat
    BY DEF IsReactor, IsHolds
  <2> HIDE DEF in, pool
  <2> QED
    BY <2>2, <2>3, <2>4, <2>5
<1>4. r = CoreAdd(e, in, cell)
  BY DEF PoolIn
<1>5. /\ IsHolds(l.core.holds) /\ IsHolds(l.pool.holds) /\ IsAssembly(l.core.holds[cell])
      /\ IsHolds(q.core.holds) /\ IsHolds(q.pool.holds)
  BY <1>1, <1>2 DEF IsReactor, IsHolds
<1> HIDE DEF l, q, in, r
<1>6. /\ IsReactor(e) /\ e.sn = q.sn /\ e.max = q.max /\ e.core = q.core /\ e.pool.sn = q.pool.sn
      /\ e.pool.holds = Without(q.pool.holds, place)
  <2>1. PICK g : g = Without(q.pool.holds, place)
    OBVIOUS
  <2>2. e = [q EXCEPT !.pool.holds = g]
    BY <2>1
  <2>3. e = [sn |-> q.sn, max |-> q.max, core |-> q.core, pool |-> [sn |-> q.pool.sn, holds |-> g]]
    BY <1>2, <2>2 DEF IsReactor
  <2>4. IsHolds(g)
    BY <1>5, <2>1, WithoutShape
  <2> HIDE DEF e
  <2>5. IsReactor(e)
    BY <1>2, <2>3, <2>4 DEF IsReactor
  <2> QED
    BY <2>1, <2>3, <2>5
<1> HIDE DEF e
<1>7. /\ IsReactor(r) /\ r.sn = reactor.sn /\ r.max = reactor.max
      /\ r.core.sn = reactor.core.sn /\ r.pool = e.pool
      /\ \E x : r.core.holds = With(q.core.holds, cell, x) /\ SameObject(x, in) /\ IsAssembly(x)
  <2>1. e.max \in Nat /\ e.max = reactor.max
    BY <1>1, <1>2, <1>3, <1>6
  <2>2. /\ IsReactor(r) /\ r.sn = e.sn /\ r.max = NextAssemNum(in, e.max)
        /\ r.core.sn = e.core.sn /\ r.pool = e.pool
        /\ r.core.holds = With(e.core.holds, cell, Charged(Renumbered(in, e.max), now))
        /\ IsAssembly(Charged(Renumbered(in, e.max), now))
    BY <1>3, <1>4, <1>6, <2>1, CoreAddShape
  <2>3. Renumbered(in, e.max) = in /\ NextAssemNum(in, e.max) = e.max
    BY <1>3, <2>1, RenumberedShape
  <2>4. SameObject(Charged(in, now), in)
    BY <1>3, ChargedShape
  <2> QED
    BY <1>1, <1>2, <1>6, <2>1, <2>2, <2>3, <2>4
<1>8. PICK x : r.core.holds = With(q.core.holds, cell, x) /\ SameObject(x, in) /\ IsAssembly(x)
  BY <1>7
<1>9. /\ DOMAIN q.core.holds = DOMAIN core \ {cell}
      /\ \A c \in DOMAIN core : c # cell => q.core.holds[c] = l.core.holds[c]
  <2>1. PICK h : h = l.core.holds
    OBVIOUS
  <2>2. /\ DOMAIN Without(h, cell) = DOMAIN h \ {cell}
        /\ \A c \in DOMAIN h : c # cell => Without(h, cell)[c] = h[c]
    <3>1. IsHolds(h)
      BY <1>5, <2>1
    <3> QED
      BY ONLY <3>1, WithoutShape
  <2> QED
    BY <1>1, <1>2, <2>1, <2>2
<1>10. /\ DOMAIN r.core.holds = DOMAIN core
       /\ SameObject(r.core.holds[cell], pool[place])
       /\ \A c \in DOMAIN core : c # cell => SameObject(r.core.holds[c], core[c])
  <2>1. PICK h : h = q.core.holds
    OBVIOUS
  <2>2. Placed(With(h, cell, x), h, cell, x)
    <3>1. IsHolds(h) /\ IsAssembly(x) /\ cell \in Nat \X Nat
      BY <1>3, <1>5, <1>8, <2>1
    <3> QED
      BY ONLY <3>1, WithPlaces
  <2>3. r.core.holds = With(h, cell, x)
    BY <1>8, <2>1
  <2>4. SameObject(x, pool[place])
    BY <1>3, <1>8, SameIsTransitive
  <2> QED
    BY <1>1, <1>9, <2>1, <2>2, <2>3, <2>4 DEF Placed
<1>11. next \in Nat \X Nat /\ next \notin DOMAIN pool
  BY <1>1, <1>5, FreeCell
<1>12. /\ DOMAIN r.pool.holds = DOMAIN q.pool.holds \ {place}
       /\ \A c \in DOMAIN q.pool.holds : c # place => r.pool.holds[c] = q.pool.holds[c]
  <2>1. PICK h : h = q.pool.holds
    OBVIOUS
  <2>2. /\ DOMAIN Without(h, place) = DOMAIN h \ {place}
        /\ \A c \in DOMAIN h : c # place => Without(h, place)[c] = h[c]
    <3>1. IsHolds(h)
      BY <1>5, <2>1
    <3> QED
      BY ONLY <3>1, WithoutShape
  <2> QED
    BY <1>6, <1>7, <2>1, <2>2
<1>13. trackAssems => /\ DOMAIN q.pool.holds = DOMAIN pool \cup {next}
                      /\ SameObject(q.pool.holds[next], core[cell])
                      /\ \A c \in DOMAIN pool : c # next /\ SameObject(q.pool.holds[c], pool[c])
  <2>1. PICK h, y : h = l.pool.holds /\ y = l.core.holds[cell]
    OBVIOUS
  <2>2. Placed(With(h, next, y), h, next, y)
    <3> HIDE DEF next
    <3> QED
      BY <1>5, <1>11, <2>1, WithPlaces
  <2>3. trackAssems => q.pool.holds = With(h, next, y)
    BY <1>2, <2>1
  <2>4. SameObject(y, core[cell]) /\ DOMAIN h = DOMAIN pool /\ \A c \in DOMAIN pool : SameObject(h[c], pool[c])
    BY <1>1, <2>1
  <2> HIDE DEF next, core, pool
  <2> QED
    BY <1>11, <2>2, <2>3, <2>4 DEF Placed
<1>14. ~trackAssems => /\ DOMAIN q.pool.holds = DOMAIN pool
                       /\ \A c \in DOMAIN pool : SameObject(q.pool.holds[c], pool[c])
  BY <1>1, <1>2
<1> HIDE DEF next, core, pool
<1>15. /\ DOMAIN r.pool.holds = (IF trackAssems THEN DOMAIN pool \cup {next} ELSE DOMAIN pool) \ {place}
       /\ trackAssems => next # place /\ SameObject(r.pool.holds[next], core[cell])
       /\ \A c \in DOMAIN pool : c # place => SameObject(r.pool.holds[c], pool[c])
       /\ trackAssems => \A c \in DOMAIN pool : c # next
  <2>1. place \in DOMAIN pool
    BY DEF pool
  <2> QED
    BY <1>11, <1>12, <1>13, <1>14, <2>1
<1> DEFINE s == [p \in PlacesOf(r) |->
                   IF p = <<"core", cell>> THEN <<"pool", place>>
                   ELSE IF trackAssems /\ p = <<"pool", next>> THEN <<"core", cell>> ELSE p]
<1>16. Rearranged(s, r, reactor, {})
       /\ (trackAssems => \A p \in PlacesOf(reactor) : \E z \in PlacesOf(r) : s[z] = p)
  <2>1. ASSUME NEW p \in PlacesOf(r)
        PROVE  s[p] \in PlacesOf(reactor) /\ SameObject(At(r, p), At(reactor, s[p]))
    <3>1. CASE p = <<"core", cell>>
      BY <1>10, <3>1, InPlaces DEF core, pool
    <3>2. ASSUME NEW c \in DOMAIN r.core.holds, p = <<"core", c>>, c # cell
          PROVE  s[p] \in PlacesOf(reactor) /\ SameObject(At(r, p), At(reactor, s[p]))
      <4>1. s[p] = p
        BY <3>2
      <4> QED
        BY <1>10, <3>2, <4>1, InPlaces DEF core
    <3>3. ASSUME NEW c \in DOMAIN r.pool.holds, p = <<"pool", c>>
          PROVE  s[p] \in PlacesOf(reactor) /\ SameObject(At(r, p), At(reactor, s[p]))
      <4>1. CASE trackAssems /\ c = next
        <5>1. s[p] = <<"core", cell>>
          BY <3>3, <4>1
        <5> QED
          BY <1>15, <3>3, <4>1, <5>1, InPlaces DEF core
      <4>2. CASE ~(trackAssems /\ c = next)
        <5>1. s[p] = p
          BY <3>3, <4>2
        <5>2. c \in DOMAIN pool /\ SameObject(r.pool.holds[c], pool[c])
          BY <1>15, <4>2
        <5> QED
          BY <3>3, <5>1, <5>2, InPlaces DEF pool
      <4> QED
        BY <4>1, <4>2
    <3> QED
      BY <3>1, <3>2, <3>3, InPlaces
  <2>2. ASSUME NEW p \in PlacesOf(r), NEW z \in PlacesOf(r), s[p] = s[z]
        PROVE  p = z
    <3>1. <<"core", cell>> # <<"pool", place>> /\ <<"core", cell>> \in PlacesOf(r)
      BY <1>10, InPlaces DEF core
    <3>2. <<"pool", place>> \notin PlacesOf(r)
      BY <1>15, InPlaces
    <3>3. \A y \in PlacesOf(r) : s[y] = IF y = <<"core", cell>> THEN <<"pool", place>>
                                       ELSE IF trackAssems /\ y = <<"pool", next>> THEN <<"core", cell>> ELSE y
      OBVIOUS
    <3> HIDE DEF s
    <3> QED
      BY <2>2, <3>1, <3>2, <3>3
  <2>3. ASSUME trackAssems, NEW p \in PlacesOf(reactor)
        PROVE  \E z \in PlacesOf(r) : s[z] = p
    <3>1. CASE p = <<"core", cell>>
      <4>1. <<"pool", next>> \in PlacesOf(r) /\ <<"pool", next>> # <<"core", cell>>
        BY <1>15, <2>3, InPlaces
      <4>2. s[<<"pool", next>>] = p
        BY <2>3, <3>1, <4>1
      <4> QED
        BY <4>1, <4>2
    <3>2. CASE p = <<"pool", place>>
      <4>1. <<"core", cell>> \in PlacesOf(r)
        BY <1>10, InPlaces DEF core
      <4>2. s[<<"core", cell>>] = p
        BY <3>2, <4>1
      <4> QED
        BY <4>1, <4>2
    <3>3. CASE p # <<"core", cell>> /\ p # <<"pool", place>>
      <4>1. p \in PlacesOf(r) /\ p # <<"pool", next>>
        BY <1>10, <1>15, <2>3, <3>3, InPlaces DEF core, pool
      <4>2. s[p] = p
        BY <3>3, <4>1
      <4> QED
        BY <4>1, <4>2
    <3> QED
      BY <3>1, <3>2, <3>3
  <2> HIDE DEF s
  <2> QED
    BY <2>1, <2>2, <2>3 DEF Rearranged
<1> HIDE DEF s
<1>17. Shuffled(r, reactor, {})
  <2>1. ~trackAssems => DOMAIN r.pool.holds \subseteq DOMAIN reactor.pool.holds
    BY <1>15 DEF pool
  <2>2. /\ r.pool.sn = reactor.pool.sn
    BY <1>1, <1>2, <1>6, <1>7
  <2>3. DOMAIN r.core.holds = DOMAIN reactor.core.holds
    BY <1>10 DEF core
  <2> QED
    BY <1>7, <1>16, <2>1, <2>2, <2>3 DEF Shuffled
<1> QED
  BY <1>7, <1>10, <1>17 DEF r, core, pool

MovedFrom(l, c) == [l.core.holds[c] EXCEPT !.numMoves = @ + 1]

Swapped(c, d) ==
  LET l == LocateAll(reactor)
  IN  [l EXCEPT !.core.holds[c] = MovedFrom(l, d), !.core.holds[d] = MovedFrom(l, c)]

WithBoth(r, c, d, x, y) == [r EXCEPT !.core.holds[c] = x, !.core.holds[d] = y]

(* Two cells that get other assemblies. *)
LEMMA SwapShape ==
  ASSUME NEW r, IsReactor(r), NEW c \in DOMAIN r.core.holds, NEW d \in DOMAIN r.core.holds, c # d,
         NEW x, IsAssembly(x), NEW y, IsAssembly(y)
  PROVE  LET l == WithBoth(r, c, d, x, y)
         IN  /\ IsReactor(l) /\ l.sn = r.sn /\ l.max = r.max /\ l.core.sn = r.core.sn /\ l.pool = r.pool
             /\ DOMAIN l.core.holds = DOMAIN r.core.holds
             /\ l.core.holds[c] = x /\ l.core.holds[d] = y
             /\ \A e \in DOMAIN r.core.holds : e # c /\ e # d => l.core.holds[e] = r.core.holds[e]
<1> DEFINE l == WithBoth(r, c, d, x, y)
<1>1. PICK g, h : /\ g = [r.core.holds EXCEPT ![c] = x] /\ h = [g EXCEPT ![d] = y]
  OBVIOUS
<1>2. PICK m : m = [r EXCEPT !.core.holds = g]
  OBVIOUS
<1>3. m = [sn |-> r.sn, max |-> r.max, core |-> [sn |-> r.core.sn, holds |-> g], pool |-> r.pool]
  BY <1>2 DEF IsReactor
<1>4. m = [r EXCEPT !.core.holds[c] = x]
  BY <1>1, <1>2
<1>5. m.core.holds = g
  BY <1>3
<1>6. l = [m EXCEPT !.core.holds[d] = y]
  BY <1>4 DEF WithBoth
<1>7. l = [m EXCEPT !.core.holds = h]
  BY <1>1, <1>5, <1>6
<1>8. l = [sn |-> r.sn, max |-> r.max, core |-> [sn |-> r.core.sn, holds |-> h], pool |-> r.pool]
  BY <1>3, <1>7
<1> HIDE DEF l
<1>9. /\ DOMAIN h = DOMAIN r.core.holds /\ h = [e \in DOMAIN h |-> h[e]]
      /\ h[c] = x /\ h[d] = y
      /\ \A e \in DOMAIN r.core.holds : e # c /\ e # d => h[e] = r.core.holds[e]
  BY <1>1 DEF IsReactor, IsHolds
<1>10. IsHolds(h)
  BY <1>9 DEF IsReactor, IsHolds
<1>11. IsReactor(l)
  BY <1>8, <1>10 DEF IsReactor
<1>12. /\ l.sn = r.sn /\ l.max = r.max /\ l.core.sn = r.core.sn /\ l.pool = r.pool /\ l.core.holds = h
  BY <1>8
<1> QED
  BY <1>9, <1>11, <1>12 DEF l

(* Swapping two assemblies rearranges them. *)
LEMMA SwapShuffles ==
  ASSUME IsReactor(reactor), NEW c \in DOMAIN reactor.core.holds,
         NEW d \in DOMAIN reactor.core.holds, c # d
  PROVE  /\ Shuffled(Swapped(c, d), reactor, {})
         /\ Swapped(c, d).max = reactor.max
         /\ SameObject(Swapped(c, d).core.holds[c], reactor.core.holds[d])
         /\ SameObject(Swapped(c, d).core.holds[d], reactor.core.holds[c])
         /\ \A e \in DOMAIN reactor.core.holds :
              e # c /\ e # d => SameObject(Swapped(c, d).core.holds[e], reactor.core.holds[e])
<1> DEFINE l == LocateAll(reactor)
           r == Swapped(c, d)
           core == reactor.core.holds
           pool == reactor.pool.holds
<1>1. /\ IsReactor(l) /\ l.sn = reactor.sn /\ l.max = reactor.max
      /\ l.core.sn = reactor.core.sn /\ l.pool.sn = reactor.pool.sn
      /\ DOMAIN l.core.holds = DOMAIN core /\ DOMAIN l.pool.holds = DOMAIN pool
      /\ \A e \in DOMAIN core : SameObject(l.core.holds[e], core[e])
      /\ \A e \in DOMAIN pool : SameObject(l.pool.holds[e], pool[e])
  BY LocateAllShape
<1>2. r = [l EXCEPT !.core.holds[c] = MovedFrom(l, d), !.core.holds[d] = MovedFrom(l, c)]
  BY DEF Swapped
<1> HIDE DEF l, r
<1>3. ASSUME NEW e \in DOMAIN core
      PROVE  IsAssembly(MovedFrom(l, e)) /\ SameObject(MovedFrom(l, e), core[e])
  <2>1. PICK a : a = l.core.holds[e]
    OBVIOUS
  <2>2. PICK n : n = a.numMoves + 1
    OBVIOUS
  <2>3. IsAssembly(a) /\ SameObject(a, core[e])
    BY <1>1, <1>3, <2>1 DEF IsReactor, IsHolds
  <2>4. MovedFrom(l, e) = [a EXCEPT !.numMoves = n]
    BY <2>1, <2>2 DEF MovedFrom
  <2>5. IsAssembly([a EXCEPT !.numMoves = n]) /\ SameObject([a EXCEPT !.numMoves = n], a)
    BY <2>3, FieldShape
  <2> QED
    BY <2>3, <2>4, <2>5, SameIsTransitive
<1>4. PICK x, y : x = MovedFrom(l, d) /\ y = MovedFrom(l, c)
  OBVIOUS
<1>5. /\ IsReactor(r) /\ r.sn = l.sn /\ r.max = l.max /\ r.core.sn = l.core.sn /\ r.pool = l.pool
      /\ DOMAIN r.core.holds = DOMAIN l.core.holds
      /\ r.core.holds[c] = x /\ r.core.holds[d] = y
      /\ \A e \in DOMAIN l.core.holds : e # c /\ e # d => r.core.holds[e] = l.core.holds[e]
  <2>1. IsAssembly(x) /\ IsAssembly(y) /\ c \in DOMAIN l.core.holds /\ d \in DOMAIN l.core.holds
    BY <1>1, <1>3, <1>4
  <2>2. r = [l EXCEPT !.core.holds[c] = x, !.core.holds[d] = y]
    BY <1>2, <1>4
  <2>3. PICK m : m = WithBoth(l, c, d, x, y)
    OBVIOUS
  <2>4. /\ IsReactor(l) /\ c \in DOMAIN l.core.holds /\ d \in DOMAIN l.core.holds /\ c # d
        /\ IsAssembly(x) /\ IsAssembly(y)
    BY <1>1, <2>1
  <2>5. /\ IsReactor(m) /\ m.sn = l.sn /\ m.max = l.max /\ m.core.sn = l.core.sn /\ m.pool = l.pool
        /\ DOMAIN m.core.holds = DOMAIN l.core.holds
        /\ m.core.holds[c] = x /\ m.core.holds[d] = y
        /\ \A e \in DOMAIN l.core.holds : e # c /\ e # d => m.core.holds[e] = l.core.holds[e]
    BY ONLY <2>3, <2>4, SwapShape
  <2> QED
    BY <2>2, <2>3, <2>5 DEF WithBoth
<1>6. /\ SameObject(r.core.holds[c], core[d]) /\ SameObject(r.core.holds[d], core[c])
      /\ \A e \in DOMAIN core : e # c /\ e # d => SameObject(r.core.holds[e], core[e])
      /\ \A e \in DOMAIN pool : SameObject(r.pool.holds[e], pool[e])
      /\ DOMAIN r.core.holds = DOMAIN core /\ DOMAIN r.pool.holds = DOMAIN pool
  BY <1>1, <1>3, <1>4, <1>5
<1> HIDE DEF core, pool
<1> DEFINE s == [p \in PlacesOf(r) |->
                   IF p = <<"core", c>> THEN <<"core", d>>
                   ELSE IF p = <<"core", d>> THEN <<"core", c>> ELSE p]
<1>7. \A p \in PlacesOf(r) : p \in PlacesOf(reactor)
  BY <1>6, InPlaces DEF core, pool
<1>8. \A p \in PlacesOf(reactor) : p \in PlacesOf(r)
  BY <1>6, InPlaces DEF core, pool
<1>9. <<"core", c>> \in PlacesOf(r) /\ <<"core", d>> \in PlacesOf(r) /\ <<"core", c>> # <<"core", d>>
  BY <1>8, InPlaces
<1>10. \A p \in PlacesOf(r) : s[p] = IF p = <<"core", c>> THEN <<"core", d>>
                                     ELSE IF p = <<"core", d>> THEN <<"core", c>> ELSE p
  OBVIOUS
<1> HIDE DEF s
<1>11. ASSUME NEW p \in PlacesOf(r)
       PROVE  s[p] \in PlacesOf(reactor) /\ SameObject(At(r, p), At(reactor, s[p]))
  <2>1. CASE p = <<"core", c>>
    BY <1>6, <1>10, <2>1, InPlaces DEF core
  <2>2. CASE p = <<"core", d>>
    BY <1>6, <1>9, <1>10, <2>2, InPlaces DEF core
  <2>3. CASE p # <<"core", c>> /\ p # <<"core", d>>
    <3>1. s[p] = p
      BY <1>10, <2>3
    <3>2. ASSUME NEW e \in DOMAIN r.core.holds, p = <<"core", e>>
          PROVE  SameObject(At(r, p), At(reactor, p))
      BY <1>6, <2>3, <3>2, InPlaces DEF core
    <3>3. ASSUME NEW e \in DOMAIN r.pool.holds, p = <<"pool", e>>
          PROVE  SameObject(At(r, p), At(reactor, p))
      BY <1>6, <2>3, <3>3, InPlaces DEF pool
    <3> QED
      BY <1>7, <3>1, <3>2, <3>3, InPlaces
  <2> QED
    BY <2>1, <2>2, <2>3
<1>12. \A p, q \in PlacesOf(r) : s[p] = s[q] => p = q
  BY <1>9, <1>10
<1>13. \A p \in PlacesOf(reactor) : \E q \in PlacesOf(r) : s[q] = p
  BY <1>8, <1>9, <1>10
<1>14. Rearranged(s, r, reactor, {})
  BY <1>11, <1>12 DEF Rearranged
<1>15. Shuffled(r, reactor, {})
  BY <1>1, <1>5, <1>6, <1>13, <1>14 DEF Shuffled, core, pool
<1> QED
  BY <1>1, <1>5, <1>6, <1>15 DEF r, core

-----------------------------------------------------------------------------
(***************************************************************************)
(* The objects of a reactor, step by step.                                 *)
(***************************************************************************)

(* The serial number and the identity of an assembly (k = 0) and of its blocks. *)
SnOf(a, k) == IF k = 0 THEN a.sn ELSE a.blocks[k].sn
IdOf(a, k) == IF k = 0 THEN a.id ELSE a.blocks[k].id

SameIds(x, a) ==
  /\ x.num = a.num
  /\ \A k \in 0..NBlocks : SnOf(x, k) = SnOf(a, k) /\ IdOf(x, k) = IdOf(a, k)

Succeeds(s, r, old, new) ==
  /\ \A p \in PlacesOf(r) : \/ s[p] \in PlacesOf(old) /\ SameIds(At(r, p), At(old, s[p]))
                            \/ s[p] = NewPlace /\ \E a \in new : SameIds(At(r, p), a)
  /\ \A p, q \in PlacesOf(r) : s[p] = s[q] => p = q

(* What any step does to the objects: they stay, or are new, or leave. *)
Follows(r, old, new) ==
  /\ IsReactor(r) /\ r.sn = old.sn /\ r.core.sn = old.core.sn /\ r.pool.sn = old.pool.sn
  /\ DOMAIN r.core.holds = DOMAIN old.core.holds
  /\ ~trackAssems => DOMAIN r.pool.holds \subseteq DOMAIN old.pool.holds
  /\ \E s : /\ Succeeds(s, r, old, new)
            /\ trackAssems => \A p \in PlacesOf(old) : \E q \in PlacesOf(r) : s[q] = p

(* The same object has the same numbers. *)
LEMMA SameObjectSameIds ==
  ASSUME NEW x, NEW a, SameObject(x, a)
  PROVE  SameIds(x, a)
BY DEF SameObject, SameIds, SnOf, IdOf

(* A shuffling is such a step. *)
LEMMA ShuffledFollows ==
  ASSUME NEW r, NEW old, NEW new, Shuffled(r, old, new)
  PROVE  Follows(r, old, new)
<1>1. PICK s : /\ Rearranged(s, r, old, new)
               /\ trackAssems => \A p \in PlacesOf(old) : \E q \in PlacesOf(r) : s[q] = p
  BY DEF Shuffled
<1>2. Succeeds(s, r, old, new)
  BY <1>1, SameObjectSameIds DEF Rearranged, Succeeds
<1> QED
  BY <1>1, <1>2 DEF Shuffled, Follows

(* Nothing moves: the objects of r are those of old at the same places. *)
Stays(r, old) ==
  /\ IsReactor(r) /\ r.sn = old.sn /\ r.core.sn = old.core.sn /\ r.pool.sn = old.pool.sn
  /\ DOMAIN r.core.holds = DOMAIN old.core.holds /\ DOMAIN r.pool.holds = DOMAIN old.pool.holds
  /\ \A c \in DOMAIN r.core.holds : SameIds(r.core.holds[c], old.core.holds[c])
  /\ \A c \in DOMAIN r.pool.holds : SameIds(r.pool.holds[c], old.pool.holds[c])

(* So is one that moves nothing. *)
LEMMA StaysFollows ==
  ASSUME NEW r, NEW old, Stays(r, old)
  PROVE  Follows(r, old, {})
<1> DEFINE s == [p \in PlacesOf(r) |-> p]
<1>1. \A p \in PlacesOf(r) : s[p] = p
  OBVIOUS
<1>2. PlacesOf(r) = PlacesOf(old)
  BY DEF Stays, PlacesOf
<1> HIDE DEF s
<1>3. ASSUME NEW p \in PlacesOf(r) PROVE SameIds(At(r, p), At(old, p))
  <2>1. CASE \E c \in DOMAIN r.core.holds : p = <<"core", c>>
    BY <2>1, InPlaces DEF Stays
  <2>2. CASE \E c \in DOMAIN r.pool.holds : p = <<"pool", c>>
    BY <2>2, InPlaces DEF Stays
  <2> QED
    BY <2>1, <2>2, InPlaces
<1>4. Succeeds(s, r, old, {})
  BY <1>1, <1>2, <1>3 DEF Succeeds
<1>5. \A p \in PlacesOf(old) : s[p] = p /\ p \in PlacesOf(r)
  BY <1>1, <1>2
<1> QED
  BY <1>4, <1>5 DEF Stays, Follows

(* When two assemblies have the same numbers. *)
LEMMA SameIdsOf ==
  ASSUME NEW x, NEW a, x.num = a.num, x.sn = a.sn, x.id = a.id,
         \A k \in 1..NBlocks : x.blocks[k].sn = a.blocks[k].sn /\ x.blocks[k].id = a.blocks[k].id
  PROVE  SameIds(x, a)
BY NBlocksNumber DEF SameIds, SnOf, IdOf

(* A loaded reactor has the objects of the written one. *)
LEMMA AlikeStays ==
  ASSUME NEW l, NEW r, AlikeReactor(l, r)
  PROVE  Stays(l, r)
<1>1. ASSUME NEW x, NEW a, Alike(x, a) PROVE SameIds(x, a)
  BY <1>1, SameIdsOf DEF Alike
<1> QED
  BY <1>1 DEF AlikeReactor, AlikeHolds, Stays

BurnedBlock(b) ==
  [b EXCEPT !.p = <<b.id, now>>, !.q = QValues[1 + ((b.id + now) % Len(QValues))]]

BurnedAssembly(a) == [a EXCEPT !.blocks = [k \in 1..NBlocks |-> BurnedBlock(a.blocks[k])]]

DepletedReactor ==
  [reactor EXCEPT !.core.holds =
     [c \in DOMAIN reactor.core.holds |-> BurnedAssembly(reactor.core.holds[c])]]

(* What the solvers do to a block. *)
LEMMA DepletesBlock ==
  ASSUME NEW b, IsBlock(b)
  PROVE  LET x == BurnedBlock(b)
         IN  /\ IsBlock(x) /\ x.sn = b.sn /\ x.id = b.id /\ x.p = <<b.id, now>>
             /\ x.q = QValues[1 + ((b.id + now) % Len(QValues))]
<1> DEFINE x == BurnedBlock(b)
<1>1. PICK p, q : p = <<b.id, now>> /\ q = QValues[1 + ((b.id + now) % Len(QValues))]
  OBVIOUS
<1>2. x = [b EXCEPT !.p = p, !.q = q]
  BY <1>1 DEF BurnedBlock
<1> HIDE DEF x
<1>3. x = [sn |-> b.sn, id |-> b.id, p |-> p, q |-> q]
  <2>1. PICK y : y = [b EXCEPT !.p = p]
    OBVIOUS
  <2>2. y = [sn |-> b.sn, id |-> b.id, p |-> p, q |-> b.q]
    BY <2>1 DEF IsBlock
  <2>3. [y EXCEPT !.q = q] = [sn |-> b.sn, id |-> b.id, p |-> p, q |-> q]
    BY <2>2
  <2> QED
    BY <1>2, <2>1, <2>3
<1>4. IsBlock(x) /\ x.sn = b.sn /\ x.id = b.id /\ x.p = p /\ x.q = q
  BY <1>3 DEF IsBlock
<1> QED
  BY <1>1, <1>4 DEF x

(* What they do to an assembly. *)
LEMMA DepletesAssembly ==
  ASSUME NEW a, IsAssembly(a)
  PROVE  /\ IsAssembly(BurnedAssembly(a)) /\ SameIds(BurnedAssembly(a), a)
         /\ \A k \in 1..NBlocks : BurnedAssembly(a).blocks[k] = BurnedBlock(a.blocks[k])
<1>1. PICK f : f = [k \in 1..NBlocks |-> BurnedBlock(a.blocks[k])]
  OBVIOUS
<1>2. BurnedAssembly(a) = [a EXCEPT !.blocks = f]
  BY <1>1 DEF BurnedAssembly
<1>3. BurnedAssembly(a) = [sn |-> a.sn, id |-> a.id, num |-> a.num, fromDatabase |-> a.fromDatabase,
                           charge |-> a.charge, numMoves |-> a.numMoves, blocks |-> f]
  BY <1>2 DEF IsAssembly
<1>4. f = [k \in 1..NBlocks |-> f[k]] /\ \A k \in 1..NBlocks : f[k] = BurnedBlock(a.blocks[k])
  BY <1>1
<1>5. IsList(f) /\ Len(f) = NBlocks
  BY <1>4, LenOf, NBlocksNumber
<1>6. \A k \in 1..NBlocks : IsBlock(f[k]) /\ f[k].sn = a.blocks[k].sn /\ f[k].id = a.blocks[k].id
  BY <1>4, DepletesBlock DEF IsAssembly
<1>7. PICK x : x = BurnedAssembly(a)
  OBVIOUS
<1>8. /\ x = [sn |-> x.sn, id |-> x.id, num |-> x.num, fromDatabase |-> x.fromDatabase,
              charge |-> x.charge, numMoves |-> x.numMoves, blocks |-> x.blocks]
      /\ x.blocks = f /\ x.sn = a.sn /\ x.id = a.id /\ x.num = a.num
  BY <1>3, <1>7
<1>9. IsAssembly(x)
  BY <1>5, <1>6, <1>8 DEF IsAssembly, HasBlocks
<1>10. SameIds(x, a)
  BY <1>6, <1>8, SameIdsOf
<1> QED
  BY <1>4, <1>7, <1>8, <1>9, <1>10

(* What they do to a reactor: nothing moves. *)
LEMMA DepletedStays ==
  ASSUME IsReactor(reactor)
  PROVE  /\ Stays(DepletedReactor, reactor) /\ DepletedReactor.max = reactor.max /\ DepletedReactor.pool = reactor.pool
         /\ \A c \in DOMAIN reactor.core.holds : DepletedReactor.core.holds[c] = BurnedAssembly(reactor.core.holds[c])
<1>1. PICK h : h = [c \in DOMAIN reactor.core.holds |-> BurnedAssembly(reactor.core.holds[c])]
  OBVIOUS
<1>2. PICK r : r = DepletedReactor
  OBVIOUS
<1>3. r = [reactor EXCEPT !.core.holds = h]
  BY <1>1, <1>2 DEF DepletedReactor
<1>4. r = [sn |-> reactor.sn, max |-> reactor.max, core |-> [sn |-> reactor.core.sn, holds |-> h],
           pool |-> reactor.pool]
  BY <1>3 DEF IsReactor
<1>5. /\ DOMAIN h = DOMAIN reactor.core.holds /\ h = [c \in DOMAIN h |-> h[c]]
      /\ \A c \in DOMAIN h : h[c] = BurnedAssembly(reactor.core.holds[c])
  BY <1>1
<1>6. \A c \in DOMAIN reactor.core.holds : IsAssembly(reactor.core.holds[c])
  BY DEF IsReactor, IsHolds
<1>7. \A c \in DOMAIN h : IsAssembly(h[c]) /\ SameIds(h[c], reactor.core.holds[c])
  BY <1>5, <1>6, DepletesAssembly
<1>8. IsHolds(h)
  BY <1>5, <1>7 DEF IsReactor, IsHolds
<1>9. IsReactor(r)
  BY <1>4, <1>8 DEF IsReactor
<1>10. \A c \in DOMAIN reactor.pool.holds : SameIds(reactor.pool.holds[c], reactor.pool.holds[c])
  BY DEF SameIds
<1>11. /\ r.sn = reactor.sn /\ r.core.sn = reactor.core.sn /\ r.pool = reactor.pool
       /\ r.core.holds = h /\ r.max = reactor.max
  BY <1>4
<1>12. Stays(r, reactor)
  BY <1>5, <1>7, <1>9, <1>10, <1>11 DEF Stays
<1> QED
  BY <1>2, <1>5, <1>11, <1>12
-----------------------------------------------------------------------------
(* Names. *)
OneName(r) == \A p, q \in PlacesOf(r) : At(r, p).num = At(r, q).num => p = q

Named(r) == IsReactor(r) /\ DOMAIN r.core.holds = Cells /\ Numbered(r) /\ OneName(r)

(* Distinct names stay distinct as long as a new assembly takes the next one. *)
LEMMA NamesFollow ==
  ASSUME NEW r, NEW old, NEW new, Follows(r, old, new), Named(old),
         r.max \in Nat, r.max >= old.max,
         \A a \in new : a.num = old.max /\ r.max > old.max
  PROVE  Named(r)
<1>1. PICK s : Succeeds(s, r, old, new)
  BY DEF Follows
<1>2. old.max \in Nat
  BY DEF Named, Numbered
<1>3. ASSUME NEW p \in PlacesOf(r)
      PROVE  \/ /\ s[p] \in PlacesOf(old) /\ At(r, p).num = At(old, s[p]).num
                /\ At(old, s[p]).num \in 0..old.max - 1
             \/ s[p] = NewPlace /\ At(r, p).num = old.max /\ r.max > old.max
  BY <1>1 DEF Succeeds, SameIds, Named, Numbered
<1>4. ASSUME NEW p \in PlacesOf(r) PROVE At(r, p).num \in 0..r.max - 1
  BY <1>2, <1>3
<1>5. ASSUME NEW p \in PlacesOf(r), NEW q \in PlacesOf(r), At(r, p).num = At(r, q).num
      PROVE  p = q
  <2>1. s[p] = s[q]
    <3>1. CASE s[p] \in PlacesOf(old) /\ s[q] \in PlacesOf(old)
      BY <1>3, <1>5, <3>1, InPlaces DEF Named, OneName
    <3>2. CASE s[p] = NewPlace /\ s[q] = NewPlace
      BY <3>2
    <3> QED
      BY <1>2, <1>3, <1>5, <3>1, <3>2
  <2> QED
    BY <1>1, <2>1 DEF Succeeds
<1>6. IsReactor(r) /\ DOMAIN r.core.holds = Cells
  BY DEF Follows, Named
<1> QED
  BY <1>4, <1>5, <1>6 DEF Named, Numbered, OneName

-----------------------------------------------------------------------------
(***************************************************************************)
(* The reactor of the blueprints, and the numbers that a process goes on   *)
(* with.                                                                   *)
(***************************************************************************)

(* The registry of names finds the assemblies of the core. *)
Finds(names, r) ==
  \A c \in DOMAIN r.core.holds : /\ r.core.holds[c].num \in DOMAIN names
                                 /\ names[r.core.holds[c].num] = r.core.holds[c].id

(* The registry that is made from a core finds its assemblies. *)
LEMMA RegisteredFinds ==
  ASSUME NEW r, Named(r)
  PROVE  Finds(Registered(r), r)
<1> DEFINE core == AssembliesOf(r.core)
           h == r.core.holds
           nums == {core[k].num : k \in 1..Len(core)}
<1>1. HoldsAssemblies(r.core.holds)
  BY ReactorIsTree DEF IsTree, Named
<1>2. /\ IsList(core) /\ Len(core) = Cardinality(DOMAIN h)
      /\ \A j \in 1..Cardinality(DOMAIN h) : core[j] = h[InOrder(DOMAIN h)[j]]
  BY <1>1, AssembliesOfFacts
<1>3. /\ Cardinality(DOMAIN h) \in Nat
      /\ \A j \in 1..Cardinality(DOMAIN h) : InOrder(DOMAIN h)[j] \in DOMAIN h
      /\ \A c \in DOMAIN h : \E j \in 1..Cardinality(DOMAIN h) : InOrder(DOMAIN h)[j] = c
  BY <1>1, PlacesInOrder DEF HoldsAssemblies
<1>4. DOMAIN core = 1..Len(core)
  BY <1>2, LenOf DEF IsList
<1>5. ToSet(core) = {core[k] : k \in 1..Len(core)}
  BY <1>4 DEF ToSet
<1> HIDE DEF core, h
<1>6. /\ \A a \in ToSet(core) : \E c \in DOMAIN h : a = h[c]
      /\ \A c \in DOMAIN h : h[c] \in ToSet(core) /\ h[c].num \in nums
  <2>1. ASSUME NEW a \in ToSet(core) PROVE \E c \in DOMAIN h : a = h[c]
    <3>1. PICK k \in 1..Len(core) : a = core[k]
      BY <1>5, <2>1
    <3>2. k \in 1..Cardinality(DOMAIN h) /\ core[k] = h[InOrder(DOMAIN h)[k]]
      BY <1>2, <3>1
    <3>3. InOrder(DOMAIN h)[k] \in DOMAIN h
      BY <1>3, <3>2
    <3> QED
      BY <3>1, <3>2, <3>3
  <2>2. ASSUME NEW c \in DOMAIN h PROVE h[c] \in ToSet(core) /\ h[c].num \in nums
    <3>1. PICK j \in 1..Cardinality(DOMAIN h) : InOrder(DOMAIN h)[j] = c
      BY <1>3, <2>2
    <3>2. j \in 1..Len(core) /\ core[j] = h[c]
      BY <1>2, <3>1
    <3>3. core[j].num \in nums
      BY <3>2
    <3> QED
      BY <1>5, <3>2, <3>3
  <2> QED
    BY <2>1, <2>2
<1>7. \A c, d \in DOMAIN h : h[c].num = h[d].num => c = d
  <2> SUFFICES ASSUME NEW c \in DOMAIN h, NEW d \in DOMAIN h, h[c].num = h[d].num PROVE c = d
    OBVIOUS
  <2>1. /\ <<"core", c>> \in PlacesOf(r) /\ At(r, <<"core", c>>) = h[c]
        /\ <<"core", d>> \in PlacesOf(r) /\ At(r, <<"core", d>>) = h[d]
    BY InPlaces DEF h
  <2>2. <<"core", c>> = <<"core", d>>
    BY <2>1 DEF Named, OneName
  <2> QED
    BY <2>2
<1>8. Registered(r) = [n \in nums |-> (CHOOSE a \in ToSet(core) : a.num = n).id]
  BY DEF Registered, core
<1>9. ASSUME NEW c \in DOMAIN h
      PROVE  h[c].num \in DOMAIN Registered(r) /\ Registered(r)[h[c].num] = h[c].id
  <2> DEFINE a == CHOOSE a \in ToSet(core) : a.num = h[c].num
  <2>1. a \in ToSet(core) /\ a.num = h[c].num
    BY <1>6
  <2>2. a = h[c]
    BY <1>6, <1>7, <2>1
  <2>3. Registered(r)[h[c].num] = a.id
    BY <1>6, <1>8
  <2> HIDE DEF a
  <2> QED
    BY <1>6, <1>8, <2>2, <2>3
<1> QED
  BY <1>9 DEF Finds, h
-----------------------------------------------------------------------------
(* The blueprints.  The n-th assembly. *)
Base(n)      == 3 + (n - 1) * ObjectsOfAssembly
Blueprint(n) == Renumbered(NewAssembly(Base(n), Base(n)), n - 1)

(* The last serial number before the n-th assembly. *)
LEMMA BaseFacts ==
  ASSUME NEW n \in Nat, n >= 1
  PROVE  /\ Base(n) \in Nat /\ Base(n) = 3 + Span(n - 1) /\ n - 1 \in Nat
<1>1. n - 1 \in Nat
  OBVIOUS
<1>2. ObjectsOfAssembly = Width
  BY NBlocksNumber DEF ObjectsOfAssembly
<1>3. Base(n) = 3 + Span(n - 1)
  BY <1>2 DEF Base, Span
<1>4. Span(n - 1) \in Nat
  BY <1>1, SpanFacts
<1> HIDE DEF Base, Span
<1> QED
  BY <1>1, <1>3, <1>4

(* Its name and its serial numbers. *)
LEMMA BlueprintFacts ==
  ASSUME NEW n \in Nat, n >= 1
  PROVE  LET a == Blueprint(n)
         IN  /\ IsAssembly(a) /\ a.num = n - 1
             /\ \A k \in 0..NBlocks : SnOf(a, k) = 4 + Span(n - 1) + k /\ IdOf(a, k) = 4 + Span(n - 1) + k
             /\ \A k \in 1..NBlocks : a.blocks[k].q = None
<1>1. Base(n) \in Nat /\ Base(n) = 3 + Span(n - 1) /\ n - 1 \in Nat /\ Span(n - 1) \in Nat
  BY BaseFacts, SpanFacts
<1>2. PICK a : a = NewAssembly(Base(n), Base(n))
  OBVIOUS
<1>3. /\ IsAssembly(a) /\ a.sn = Base(n) + 1 /\ a.id = Base(n) + 1 /\ a.num = -1
      /\ \A k \in 1..NBlocks : /\ a.blocks[k].sn = Base(n) + 1 + k /\ a.blocks[k].id = Base(n) + 1 + k
                               /\ a.blocks[k].q = None
  <2>1. PICK b \in Nat : b = Base(n)
    BY <1>1
  <2>2. /\ IsAssembly(NewAssembly(b, b)) /\ NewAssembly(b, b).sn = b + 1
        /\ NewAssembly(b, b).id = b + 1 /\ NewAssembly(b, b).num = -1
        /\ \A k \in 1..NBlocks : /\ NewAssembly(b, b).blocks[k].sn = b + 1 + k
                                 /\ NewAssembly(b, b).blocks[k].id = b + 1 + k
                                 /\ NewAssembly(b, b).blocks[k].q = None
    BY NewShape
  <2> QED
    BY <1>2, <2>1, <2>2
<1>4. a.num \in Int /\ a.num < 0
  BY <1>3
<1>5. PICK x : x = Blueprint(n)
  OBVIOUS
<1>6. x = Renumbered(a, n - 1)
  BY <1>2, <1>5 DEF Blueprint
<1>7. /\ IsAssembly(x) /\ x.sn = a.sn /\ x.id = a.id /\ x.blocks = a.blocks /\ x.num = n - 1
  BY <1>1, <1>3, <1>4, <1>6, RenumberedShape
<1>8. \A k \in 1..NBlocks : x.blocks[k] = a.blocks[k]
  BY <1>7
<1> HIDE DEF Base
<1>9. \A k \in 0..NBlocks : SnOf(x, k) = 4 + Span(n - 1) + k /\ IdOf(x, k) = 4 + Span(n - 1) + k
  <2> SUFFICES ASSUME NEW k \in 0..NBlocks
               PROVE  SnOf(x, k) = 4 + Span(n - 1) + k /\ IdOf(x, k) = 4 + Span(n - 1) + k
    OBVIOUS
  <2>1. CASE k = 0
    <3>1. SnOf(x, k) = 3 + Span(n - 1) + 1 /\ IdOf(x, k) = 3 + Span(n - 1) + 1
      BY <1>1, <1>3, <1>7, <2>1 DEF SnOf, IdOf
    <3> QED
      BY <1>1, <2>1, <3>1
  <2>2. CASE k # 0
    <3>1. k \in 1..NBlocks
      BY <2>2, NBlocksNumber
    <3>2. SnOf(x, k) = 3 + Span(n - 1) + 1 + k /\ IdOf(x, k) = 3 + Span(n - 1) + 1 + k
      BY <1>1, <1>3, <1>8, <2>2, <3>1 DEF SnOf, IdOf
    <3> QED
      BY <1>1, <3>2
  <2> QED
    BY <2>1, <2>2
<1> QED
  BY <1>3, <1>5, <1>7, <1>8, <1>9

InFirstPool(n)  == (0..n - 1) \X {0}
FirstCore       == [c \in Cells |-> Charged(Blueprint(PlaceInOrder(c, Cells)), 0)]
FirstPool(n)    == [c \in InFirstPool(n) |-> Blueprint(Cardinality(Cells) + 1 + c[1])]

(* The number of the assembly of the blueprints that is at a place. *)
BlueprintAt(p) == IF p[1] = "core" THEN PlaceInOrder(p[2], Cells) ELSE Cardinality(Cells) + 1 + p[2][1]

(* The reactor of the blueprints. *)
LEMMA BlueprintsReactor ==
  ASSUME NEW n
  PROVE  FromBlueprints(n) = [sn |-> 1, max |-> Cardinality(Cells) + n,
                              core |-> [sn |-> 2, holds |-> FirstCore],
                              pool |-> [sn |-> 3, holds |-> FirstPool(n)]]
BY DEF FromBlueprints, FirstCore, FirstPool, InFirstPool, Blueprint, Base

(* The cells of its pool. *)
LEMMA FirstPlaces ==
  ASSUME NEW n \in Nat
  PROVE  /\ InFirstPool(n) \subseteq Nat \X Nat /\ IsFiniteSet(InFirstPool(n))
         /\ Cardinality(Cells) \in Nat
         /\ n = 0 => InFirstPool(n) = {}
<1>1. IsFiniteSet(0..n - 1) /\ IsFiniteSet({0})
  <2>1. PICK m \in Int : m = n - 1
    OBVIOUS
  <2>2. IsFiniteSet(0..m)
    BY FS_Interval
  <2> QED
    BY <2>1, <2>2, FS_Singleton
<1>2. IsFiniteSet((0..n - 1) \X {0})
  BY <1>1, FS_Product
<1>3. Cardinality(Cells) \in Nat
  BY CellsAssumption, FS_CardinalityType
<1> QED
  BY <1>2, <1>3 DEF InFirstPool

(* It holds the n-th assembly at the n-th place. *)
LEMMA FirstReactor ==
  ASSUME NEW n \in Nat
  PROVE  LET r == FromBlueprints(n)
         IN  /\ IsReactor(r) /\ r.sn = 1 /\ r.core.sn = 2 /\ r.pool.sn = 3
             /\ r.max = Cardinality(Cells) + n
             /\ DOMAIN r.core.holds = Cells /\ DOMAIN r.pool.holds = InFirstPool(n)
             /\ \A p \in PlacesOf(r) : /\ BlueprintAt(p) \in 1..Cardinality(Cells) + n
                                       /\ SameObject(At(r, p), Blueprint(BlueprintAt(p)))
             /\ \A p, q \in PlacesOf(r) : BlueprintAt(p) = BlueprintAt(q) => p = q
<1>1. PICK r, g, h : r = FromBlueprints(n) /\ g = FirstCore /\ h = FirstPool(n)
  OBVIOUS
<1>2. r = [sn |-> 1, max |-> Cardinality(Cells) + n, core |-> [sn |-> 2, holds |-> g], pool |-> [sn |-> 3, holds |-> h]]
  BY <1>1, BlueprintsReactor
<1>3. /\ InFirstPool(n) \subseteq Nat \X Nat /\ IsFiniteSet(InFirstPool(n)) /\ Cardinality(Cells) \in Nat
  BY FirstPlaces
<1>4. /\ \A c \in Cells : PlaceInOrder(c, Cells) \in 1..Cardinality(Cells)
      /\ \A c, d \in Cells : PlaceInOrder(c, Cells) = PlaceInOrder(d, Cells) => c = d
  <2>1. \A c \in Cells : /\ PlaceInOrder(c, Cells) \in 1..Cardinality(Cells)
                         /\ InOrder(Cells)[PlaceInOrder(c, Cells)] = c
    BY CellsAssumption, PlacesInOrder
  <2> QED
    BY <2>1
<1>5. /\ \A c \in InFirstPool(n) : Cardinality(Cells) + 1 + c[1] \in Cardinality(Cells) + 1 .. Cardinality(Cells) + n
      /\ \A c, d \in InFirstPool(n) : c[1] = d[1] => c = d
  <2>1. \A c \in InFirstPool(n) : c[1] \in 0..n-1 /\ c[2] = 0 /\ c = <<c[1], c[2]>>
    BY DEF InFirstPool
  <2> QED
    BY <1>3, <2>1
<1>6. /\ DOMAIN g = Cells /\ g = [c \in DOMAIN g |-> g[c]]
      /\ \A c \in Cells : g[c] = Charged(Blueprint(PlaceInOrder(c, Cells)), 0)
  BY <1>1 DEF FirstCore
<1>7. /\ DOMAIN h = InFirstPool(n) /\ h = [c \in DOMAIN h |-> h[c]]
      /\ \A c \in InFirstPool(n) : h[c] = Blueprint(Cardinality(Cells) + 1 + c[1])
  BY <1>1 DEF FirstPool
<1>8. ASSUME NEW c \in Cells
      PROVE  IsAssembly(g[c]) /\ SameObject(g[c], Blueprint(PlaceInOrder(c, Cells)))
  <2>1. PICK i : i = PlaceInOrder(c, Cells)
    OBVIOUS
  <2>2. i \in Nat /\ i >= 1
    BY <1>3, <1>4, <2>1
  <2>3. IsAssembly(Blueprint(i))
    BY <2>2, BlueprintFacts
  <2>4. IsAssembly(Charged(Blueprint(i), 0)) /\ SameObject(Charged(Blueprint(i), 0), Blueprint(i))
    BY <2>3, ChargedShape
  <2> QED
    BY <1>6, <2>1, <2>4
<1>9. ASSUME NEW c \in InFirstPool(n)
      PROVE  IsAssembly(h[c]) /\ SameObject(h[c], Blueprint(Cardinality(Cells) + 1 + c[1]))
  <2>1. PICK i : i = Cardinality(Cells) + 1 + c[1]
    OBVIOUS
  <2>2. i \in Nat /\ i >= 1
    BY <1>3, <1>5, <2>1
  <2>3. IsAssembly(Blueprint(i))
    BY <2>2, BlueprintFacts
  <2> QED
    BY <1>7, <2>1, <2>3 DEF SameObject
<1>10. IsHolds(g)
  BY <1>6, <1>8, CellsAssumption DEF IsHolds
<1>11. IsHolds(h)
  BY <1>3, <1>7, <1>9 DEF IsHolds
<1>12. /\ r.sn = 1 /\ r.core.sn = 2 /\ r.pool.sn = 3 /\ r.max = Cardinality(Cells) + n
       /\ r.core.holds = g /\ r.pool.holds = h
       /\ r.core = [sn |-> 2, holds |-> g] /\ r.pool = [sn |-> 3, holds |-> h]
  BY <1>2
<1>13. IsReactor(r)
  BY <1>2, <1>10, <1>11, <1>12 DEF IsReactor
<1>14. \A c \in Cells : BlueprintAt(<<"core", c>>) = PlaceInOrder(c, Cells)
  BY DEF BlueprintAt
<1>15. \A c \in InFirstPool(n) : BlueprintAt(<<"pool", c>>) = Cardinality(Cells) + 1 + c[1]
  BY DEF BlueprintAt
<1>16. \A p \in PlacesOf(r) : \/ \E c \in Cells : p = <<"core", c>> /\ At(r, p) = g[c]
                              \/ \E c \in InFirstPool(n) : p = <<"pool", c>> /\ At(r, p) = h[c]
  BY <1>6, <1>7, <1>12, InPlaces
<1>17. ASSUME NEW p \in PlacesOf(r)
       PROVE  /\ BlueprintAt(p) \in 1..Cardinality(Cells) + n
              /\ SameObject(At(r, p), Blueprint(BlueprintAt(p)))
  <2>1. ASSUME NEW c \in Cells, p = <<"core", c>>, At(r, p) = g[c]
        PROVE  /\ BlueprintAt(p) \in 1..Cardinality(Cells) + n
               /\ SameObject(At(r, p), Blueprint(BlueprintAt(p)))
    <3>1. BlueprintAt(p) = PlaceInOrder(c, Cells) /\ BlueprintAt(p) \in 1..Cardinality(Cells)
      BY <1>4, <1>14, <2>1
    <3>2. BlueprintAt(p) \in 1..Cardinality(Cells) + n
      BY <1>3, <3>1
    <3> QED
      BY <1>8, <2>1, <3>1, <3>2
  <2>2. ASSUME NEW c \in InFirstPool(n), p = <<"pool", c>>, At(r, p) = h[c]
        PROVE  /\ BlueprintAt(p) \in 1..Cardinality(Cells) + n
               /\ SameObject(At(r, p), Blueprint(BlueprintAt(p)))
    <3>1. BlueprintAt(p) = Cardinality(Cells) + 1 + c[1]
      BY <1>15, <2>2
    <3>2. BlueprintAt(p) \in 1..Cardinality(Cells) + n
      BY <1>3, <1>5, <3>1
    <3> QED
      BY <1>9, <2>2, <3>1, <3>2
  <2> QED
    BY <1>16, <2>1, <2>2
<1>18. ASSUME NEW p \in PlacesOf(r), NEW q \in PlacesOf(r), BlueprintAt(p) = BlueprintAt(q)
       PROVE  p = q
  <2>1. ASSUME NEW c \in Cells, NEW d \in Cells, p = <<"core", c>>, q = <<"core", d>>
        PROVE  p = q
    BY <1>4, <1>14, <1>18, <2>1
  <2>2. ASSUME NEW c \in InFirstPool(n), NEW d \in InFirstPool(n), p = <<"pool", c>>, q = <<"pool", d>>
        PROVE  p = q
    <3>1. Cardinality(Cells) + 1 + c[1] = Cardinality(Cells) + 1 + d[1]
      BY <1>15, <1>18, <2>2
    <3>2. c[1] \in Nat /\ d[1] \in Nat
      BY <1>3
    <3>3. c[1] = d[1]
      BY <1>3, <3>1, <3>2
    <3> QED
      BY <1>5, <2>2, <3>3
  <2>3. ASSUME NEW c \in Cells, NEW d \in InFirstPool(n)
        PROVE  BlueprintAt(<<"core", c>>) # BlueprintAt(<<"pool", d>>)
    <3>1. PICK i, j : i = BlueprintAt(<<"core", c>>) /\ j = BlueprintAt(<<"pool", d>>)
      OBVIOUS
    <3>2. i \in 1..Cardinality(Cells) /\ j \in Cardinality(Cells) + 1 .. Cardinality(Cells) + n
      BY <1>4, <1>5, <1>14, <1>15, <3>1
    <3>3. i # j
      BY <1>3, <3>2
    <3> QED
      BY <3>1, <3>3
  <2> QED
    BY <1>16, <1>18, <2>1, <2>2, <2>3
<1> QED
  BY <1>1, <1>6, <1>7, <1>12, <1>13, <1>17, <1>18

(* Its names are distinct. *)
LEMMA FirstNamed ==
  ASSUME NEW n \in Nat
  PROVE  Named(FromBlueprints(n))
<1>1. PICK r : r = FromBlueprints(n)
  OBVIOUS
<1>2. /\ IsReactor(r) /\ r.max = Cardinality(Cells) + n /\ DOMAIN r.core.holds = Cells
      /\ \A p \in PlacesOf(r) : /\ BlueprintAt(p) \in 1..Cardinality(Cells) + n
                                /\ SameObject(At(r, p), Blueprint(BlueprintAt(p)))
      /\ \A p, q \in PlacesOf(r) : BlueprintAt(p) = BlueprintAt(q) => p = q
  BY <1>1, FirstReactor
<1>3. r.max \in Nat
  BY <1>2, FirstPlaces
<1>4. ASSUME NEW p \in PlacesOf(r)
      PROVE  At(r, p).num = BlueprintAt(p) - 1 /\ At(r, p).num \in 0..r.max - 1 /\ BlueprintAt(p) \in Nat
  <2>1. PICK i : i = BlueprintAt(p)
    OBVIOUS
  <2>2. i \in 1..r.max
    BY <1>2, <2>1
  <2>3. i \in Nat /\ i >= 1
    BY <1>3, <2>2
  <2>4. Blueprint(i).num = i - 1
    BY <2>3, BlueprintFacts
  <2>5. At(r, p).num = i - 1
    BY <1>2, <2>1, <2>4 DEF SameObject
  <2> QED
    BY <1>3, <2>1, <2>2, <2>5
<1>5. ASSUME NEW p \in PlacesOf(r), NEW q \in PlacesOf(r), At(r, p).num = At(r, q).num
      PROVE  p = q
  <2>1. PICK i, j : i = BlueprintAt(p) /\ j = BlueprintAt(q)
    OBVIOUS
  <2>2. i - 1 = j - 1 /\ i \in Nat /\ j \in Nat
    BY <1>4, <1>5, <2>1
  <2>3. i = j
    BY <2>2
  <2> QED
    BY <1>2, <2>1, <2>3
<1> QED
  BY <1>1, <1>2, <1>3, <1>4, <1>5 DEF Named, Numbered, OneName

(* A finite set of numbers has a greatest one. *)
LEMMA GreatestNumber ==
  ASSUME NEW S, S \subseteq Nat, S # {}, IsFiniteSet(S)
  PROVE  Max(S) \in S /\ \A x \in S : x <= Max(S)
<1> DEFINE cells == S \X {0}
           n == Cardinality(cells)
<1>1. IsFiniteSet(cells) /\ cells \subseteq Nat \X Nat
  <2>1. IsFiniteSet({0})
    BY FS_Singleton
  <2> QED
    BY <2>1, FS_Product
<1>2. cells # {}
  <2>1. PICK x : x \in S
    OBVIOUS
  <2>2. <<x, 0>> \in cells
    BY <2>1
  <2> QED
    BY <2>2
<1>3. \A x \in S : <<x, 0>> \in cells
  OBVIOUS
<1>4. \A c \in cells : c[1] \in S /\ c = <<c[1], 0>>
  OBVIOUS
<1> HIDE DEF cells
<1>5. n \in Nat /\ n # 0
  BY <1>1, <1>2, FS_CardinalityType, FS_EmptySet
<1>6. n \in 1..n
  BY <1>5
<1> DEFINE c == InOrder(cells)[n]
           below == {d \in cells : Before(d, c)}
<1>7. c \in cells /\ PlaceInOrder(c, cells) = n
  BY <1>1, <1>6, PlacesInOrder
<1>8. Cardinality(below) = n - 1
  <2>1. n = 1 + Cardinality(below)
    BY <1>7 DEF PlaceInOrder
  <2>2. Cardinality(below) \in Nat
    BY <1>1, FS_Subset, FS_CardinalityType
  <2> HIDE DEF below, n
  <2> QED
    BY <2>1, <2>2
<1>9. IsFiniteSet(cells \ {c}) /\ Cardinality(cells \ {c}) = n - 1
  BY <1>1, <1>7, FS_RemoveElement
<1>10. below \in SUBSET (cells \ {c})
  BY <1>1, <1>7, BeforeIsTotal
<1> HIDE DEF below
<1>11. below = cells \ {c}
  BY <1>8, <1>9, <1>10, FS_Subset
<1>12. \A d \in cells : d # c => Before(d, c)
  BY <1>11 DEF below
<1> HIDE DEF c
<1>13. \A x \in S : x # c[1] => x < c[1]
  <2> SUFFICES ASSUME NEW x \in S, x # c[1] PROVE x < c[1]
    OBVIOUS
  <2>1. <<x, 0>> \in cells /\ <<x, 0>> # c
    BY <1>3
  <2>2. Before(<<x, 0>>, c) /\ c[2] = 0
    BY <1>4, <1>7, <1>12, <2>1
  <2>3. <<x, 0>>[1] = x /\ <<x, 0>>[2] = 0
    OBVIOUS
  <2> QED
    BY <2>2, <2>3 DEF Before
<1>14. c[1] \in S /\ \A x \in S : x <= c[1]
  BY <1>4, <1>7, <1>13
<1>15. \E m \in S : \A x \in S : m >= x
  BY <1>14
<1>16. Max(S) \in S /\ \A x \in S : Max(S) >= x
  BY <1>15 DEF Max
<1> QED
  BY <1>16
-----------------------------------------------------------------------------
(* The serial numbers that a process goes on with. *)
HasSerials(r) ==
  /\ r.sn = 1 /\ r.core.sn = 2 /\ r.pool.sn = 3
  /\ \A p \in PlacesOf(r) : \A k \in 0..NBlocks :
       /\ SnOf(At(r, p), k) \in Nat /\ SnOf(At(r, p), k) > 3
       /\ IdOf(At(r, p), k) \in Nat

(* The assemblies of the rows are those of the places. *)
LEMMA PlacesAndRows ==
  ASSUME NEW r, IsReactor(r)
  PROVE  /\ \A j \in 1..NAll(r) : \E p \in PlacesOf(r) : AssemblyAt(r, j) = At(r, p)
         /\ \A p \in PlacesOf(r) : \E j \in 1..NAll(r) : AssemblyAt(r, j) = At(r, p)
<1>1. IsTree(r) /\ NCore(r) \in Nat /\ NPool(r) \in Nat /\ NAll(r) = NCore(r) + NPool(r)
  BY ReactorIsTree, TreeNumbers DEF NAll
<1>2. ASSUME NEW j \in 1..NAll(r) PROVE \E p \in PlacesOf(r) : AssemblyAt(r, j) = At(r, p)
  <2>1. CASE j <= NCore(r)
    <3>1. CorePlace(r, j) \in DOMAIN r.core.holds
      BY <1>1, <2>1, PlacesOfTree
    <3>2. AssemblyAt(r, j) = r.core.holds[CorePlace(r, j)]
      BY <2>1 DEF AssemblyAt
    <3>3. PICK c \in DOMAIN r.core.holds : c = CorePlace(r, j)
      BY <3>1
    <3>4. <<"core", c>> \in PlacesOf(r) /\ At(r, <<"core", c>>) = r.core.holds[c]
      BY ONLY <3>3, InPlaces
    <3> QED
      BY <3>2, <3>3, <3>4
  <2>2. CASE ~(j <= NCore(r))
    <3>1. j - NCore(r) \in 1..NPool(r)
      <4> HIDE DEF NCore, NPool, NAll
      <4> QED
        BY <1>1, <2>2
    <3>2. PoolPlace(r, j - NCore(r)) \in DOMAIN r.pool.holds
      BY <1>1, <3>1, PlacesOfTree
    <3>3. AssemblyAt(r, j) = r.pool.holds[PoolPlace(r, j - NCore(r))]
      BY <2>2 DEF AssemblyAt
    <3>4. PICK c \in DOMAIN r.pool.holds : c = PoolPlace(r, j - NCore(r))
      BY <3>2
    <3>5. <<"pool", c>> \in PlacesOf(r) /\ At(r, <<"pool", c>>) = r.pool.holds[c]
      BY ONLY <3>4, InPlaces
    <3> QED
      BY <3>3, <3>4, <3>5
  <2> QED
    BY <2>1, <2>2
<1>3. ASSUME NEW c \in DOMAIN r.core.holds
      PROVE  \E j \in 1..NAll(r) : AssemblyAt(r, j) = At(r, <<"core", c>>)
  <2>1. PICK j \in 1..NCore(r) : CorePlace(r, j) = c
    BY InOrderIsOneToOne DEF IsReactor, IsHolds, NCore, CorePlace
  <2>2. j \in 1..NAll(r) /\ j <= NCore(r)
    BY <1>1, <2>1
  <2> QED
    BY <2>1, <2>2, InPlaces DEF AssemblyAt
<1>4. ASSUME NEW c \in DOMAIN r.pool.holds
      PROVE  \E j \in 1..NAll(r) : AssemblyAt(r, j) = At(r, <<"pool", c>>)
  <2>1. PICK i \in 1..NPool(r) : PoolPlace(r, i) = c
    BY InOrderIsOneToOne DEF IsReactor, IsHolds, NPool, PoolPlace
  <2>2. PICK j : j = NCore(r) + i
    OBVIOUS
  <2>3. j \in 1..NAll(r) /\ ~(j <= NCore(r)) /\ j - NCore(r) = i
    <3> HIDE DEF NCore, NPool, NAll
    <3> QED
      BY <1>1, <2>1, <2>2
  <2> QED
    BY <2>1, <2>3, InPlaces DEF AssemblyAt
<1> QED
  BY <1>2, <1>3, <1>4, InPlaces

(* Their rows are in the layout. *)
LEMMA RowsInside ==
  ASSUME NEW r, IsTree(r), NEW j \in 1..NAll(r)
  PROVE  /\ RowAt(r, j) \in 3..Len(CreateLayout(r))
         /\ \A k \in 1..NBlocks : RowAt(r, j) + k \in 3..Len(CreateLayout(r))
<1>1. NAll(r) \in Nat /\ Len(CreateLayout(r)) = 3 + Span(NAll(r)) /\ Span(NAll(r)) \in Nat
  BY TreeNumbers, LayoutRows
<1>2. PICK i \in Nat : i = j - 1 /\ j = i + 1 /\ j \in Nat /\ j <= NAll(r)
  <2>1. j - 1 \in Nat
    BY <1>1
  <2> QED
    BY <1>1, <2>1
<1>3. Span(i) \in Nat /\ Span(j) = Span(i) + Width /\ Span(j) <= Span(NAll(r)) /\ Width = NBlocks + 1
      /\ NBlocks \in Nat /\ Span(j) \in Nat
  BY <1>1, <1>2, SpanFacts, NBlocksNumber
<1>4. RowAt(r, j) = 3 + Span(i) \/ RowAt(r, j) = 4 + Span(i)
  BY <1>2 DEF RowAt
<1> HIDE DEF RowAt, NAll, Span, Width
<1>5. PICK l, x, y : l = Len(CreateLayout(r)) /\ x = Span(i) /\ y = RowAt(r, j)
  OBVIOUS
<1>6. x \in Nat /\ l \in Nat /\ x + NBlocks + 4 <= l /\ (y = 3 + x \/ y = 4 + x) /\ NBlocks \in Nat
  BY <1>1, <1>3, <1>4, <1>5
<1>7. y \in 3..l /\ \A k \in 1..NBlocks : y + k \in 3..l
  BY ONLY <1>6
<1> QED
  BY <1>5, <1>7

(* Every serial number of the reactor is in a row. *)
LEMMA SerialsOfRows ==
  ASSUME NEW r, IsReactor(r), HasSerials(r)
  PROVE  LET rows == CreateLayout(r)
         IN  /\ \A n \in 1..Len(rows) : rows[n].sn \in Nat
             /\ \A p \in PlacesOf(r) : \A k \in 0..NBlocks :
                  \E n \in 1..Len(rows) : rows[n].sn = SnOf(At(r, p), k)
<1> DEFINE rows == CreateLayout(r)
<1>1. IsTree(r)
  BY ReactorIsTree
<1>2. /\ rows[1].sn = r.sn /\ rows[2].sn = r.core.sn /\ rows[PoolRow(r)].sn = r.pool.sn
      /\ \A j \in 1..NAll(r) : /\ rows[RowAt(r, j)].sn = AssemblyAt(r, j).sn
                               /\ \A k \in 1..NBlocks : rows[RowAt(r, j) + k].sn = AssemblyAt(r, j).blocks[k].sn
  BY <1>1, LayoutNumbers
<1>3. \A j \in 1..NAll(r) : \A k \in 0..NBlocks : SnOf(AssemblyAt(r, j), k) \in Nat
  BY PlacesAndRows DEF HasSerials
<1>4. ASSUME NEW j \in 1..NAll(r)
      PROVE  /\ AssemblyAt(r, j).sn \in Nat
             /\ \A k \in 1..NBlocks : AssemblyAt(r, j).blocks[k].sn \in Nat
  <2>1. SnOf(AssemblyAt(r, j), 0) \in Nat /\ \A k \in 1..NBlocks : SnOf(AssemblyAt(r, j), k) \in Nat
    BY <1>3, NBlocksNumber
  <2> QED
    BY <2>1, NBlocksNumber DEF SnOf
<1> HIDE DEF rows
<1>5. ASSUME NEW n \in 1..Len(rows) PROVE rows[n].sn \in Nat
  <2>1. \/ n \in {1, 2, PoolRow(r)}
        \/ \E j \in 1..NAll(r) : n = RowAt(r, j) \/ \E k \in 1..NBlocks : n = RowAt(r, j) + k
    BY <1>1, EveryRow DEF rows
  <2>2. CASE n \in {1, 2, PoolRow(r)}
    BY <1>2, <2>2 DEF HasSerials
  <2>3. ASSUME NEW j \in 1..NAll(r), n = RowAt(r, j) \/ \E k \in 1..NBlocks : n = RowAt(r, j) + k
        PROVE  rows[n].sn \in Nat
    BY <1>2, <1>4, <2>3
  <2> QED
    BY <2>1, <2>2, <2>3
<1>6. ASSUME NEW p \in PlacesOf(r), NEW k \in 0..NBlocks
      PROVE  \E n \in 1..Len(rows) : rows[n].sn = SnOf(At(r, p), k)
  <2>1. PICK j \in 1..NAll(r) : AssemblyAt(r, j) = At(r, p)
    BY PlacesAndRows
  <2>2. RowAt(r, j) \in 1..Len(rows) /\ \A l \in 1..NBlocks : RowAt(r, j) + l \in 1..Len(rows)
    <3>1. /\ RowAt(r, j) \in 3..Len(rows) /\ \A l \in 1..NBlocks : RowAt(r, j) + l \in 3..Len(rows)
          /\ Len(rows) \in Nat
      BY <1>1, RowsInside, LayoutRows DEF rows, IsList
    <3> QED
      BY <3>1
  <2>3. CASE k = 0
    BY <1>2, <2>1, <2>2, <2>3 DEF SnOf
  <2>4. CASE k # 0
    <3>1. k \in 1..NBlocks
      BY <2>4, NBlocksNumber
    <3> QED
      BY <1>2, <2>1, <2>2, <2>4, <3>1 DEF SnOf
  <2> QED
    BY <2>3, <2>4
<1> QED
  BY <1>5, <1>6 DEF rows

(* The objects of the blueprints. *)
LEMMA NObjectsNumber ==
  ASSUME NEW n \in Nat
  PROVE  NObjects(n) \in Nat /\ NObjects(n) = 3 + Span(Cardinality(Cells) + n) /\ NObjects(n) >= 3
<1>1. PICK m \in Nat : m = Cardinality(Cells) + n
  BY FirstPlaces
<1>2. ObjectsOfAssembly = Width /\ Width \in Nat
  BY NBlocksNumber DEF ObjectsOfAssembly
<1>3. m * Width = Width * m
  BY <1>2
<1>4. NObjects(n) = 3 + Span(m)
  BY <1>1, <1>2, <1>3 DEF NObjects, Span
<1>5. Span(m) \in Nat
  BY SpanFacts
<1> HIDE DEF NObjects, Span
<1> QED
  BY <1>1, <1>4, <1>5

(* After a load the next serial number is above those that were loaded. *)
LEMMA SerialGoesOn ==
  ASSUME NEW r, IsReactor(r), HasSerials(r), pooled \in Nat
  PROVE  LET next == SerialAfterLoad(CreateLayout(r))
         IN  /\ next \in Nat /\ next >= 3
             /\ \A p \in PlacesOf(r) : \A k \in 0..NBlocks : SnOf(At(r, p), k) <= next
<1> DEFINE rows == CreateLayout(r)
           L == NObjects(pooled) + Len(rows)
           T == {rows[n].sn : n \in 1..Len(rows)}
           f == [n \in 1..Len(rows) |-> rows[n].sn]
           next == SerialAfterLoad(CreateLayout(r))
<1>1. Len(rows) \in Nat
  BY ReactorIsTree, LayoutRows DEF IsList
<1>2. L \in Nat /\ L >= 3
  <2>1. NObjects(pooled) \in Nat /\ NObjects(pooled) >= 3
    BY NObjectsNumber
  <2> HIDE DEF rows
  <2> QED
    BY <1>1, <2>1
<1>3. /\ \A n \in 1..Len(rows) : rows[n].sn \in Nat
      /\ \A p \in PlacesOf(r) : \A k \in 0..NBlocks :
           \E n \in 1..Len(rows) : rows[n].sn = SnOf(At(r, p), k)
  BY SerialsOfRows
<1>4. next = Max({L} \cup T)
  BY DEF SerialAfterLoad
<1> HIDE DEF rows, L, next
<1>5. IsFiniteSet(T)
  <2>1. f \in Surjection(1..Len(rows), T)
    BY DEF Surjection
  <2>2. IsFiniteSet(1..Len(rows))
    BY <1>1, FS_Interval
  <2> QED
    BY <2>1, <2>2, FS_Surjection
<1>6. IsFiniteSet({L} \cup T) /\ {L} \cup T \subseteq Nat /\ {L} \cup T # {}
  <2>1. IsFiniteSet(T \cup {L}) /\ T \cup {L} = {L} \cup T
    BY <1>5, FS_AddElement
  <2> QED
    BY <1>2, <1>3, <2>1
<1>7. next \in {L} \cup T /\ \A x \in {L} \cup T : x <= next
  BY <1>4, <1>6, GreatestNumber
<1>8. next \in Nat /\ next >= 3
  BY <1>2, <1>6, <1>7
<1>9. ASSUME NEW p \in PlacesOf(r), NEW k \in 0..NBlocks PROVE SnOf(At(r, p), k) <= next
  BY <1>3, <1>7
<1> QED
  BY <1>8, <1>9 DEF next

(* The numbers of a fresh assembly. *)
LEMMA FreshFacts ==
  ASSUME serial \in Nat, made \in Nat, reactor.max \in Nat
  PROVE  /\ FreshAssembly.num = reactor.max
         /\ \A k \in 0..NBlocks : SnOf(FreshAssembly, k) = serial + 1 + k /\ IdOf(FreshAssembly, k) = made + 1 + k
         /\ FreshAssembly.id = NewAssembly(serial, made).id
         /\ \A k \in 1..NBlocks : FreshAssembly.blocks[k].q = None
         /\ FreshAssembly.num = Renumbered(NewAssembly(serial, made), reactor.max).num
<1>1. PICK a, x : a = NewAssembly(serial, made) /\ x = FreshAssembly
  OBVIOUS
<1>2. /\ IsAssembly(a) /\ a.sn = serial + 1 /\ a.id = made + 1 /\ a.num = -1
      /\ \A k \in 1..NBlocks : a.blocks[k].sn = serial + 1 + k /\ a.blocks[k].id = made + 1 + k
                               /\ a.blocks[k].q = None
  BY <1>1, NewShape
<1>3. a.num \in Int /\ a.num < 0
  BY <1>2
<1>4. x = Renumbered(a, reactor.max)
  BY <1>1 DEF FreshAssembly
<1>5. x.sn = a.sn /\ x.id = a.id /\ x.blocks = a.blocks /\ x.num = reactor.max
  BY <1>2, <1>3, <1>4, RenumberedShape
<1>6. ASSUME NEW k \in 0..NBlocks PROVE SnOf(x, k) = serial + 1 + k /\ IdOf(x, k) = made + 1 + k
  <2>1. CASE k = 0
    BY <1>2, <1>5, <2>1 DEF SnOf, IdOf
  <2>2. CASE k # 0
    <3>1. k \in 1..NBlocks
      BY <2>2, NBlocksNumber
    <3> QED
      BY <1>2, <1>5, <2>2, <3>1 DEF SnOf, IdOf
  <2> QED
    BY <2>1, <2>2
<1> QED
  BY <1>1, <1>2, <1>4, <1>5, <1>6

(* The numbers of the objects stay numbers. *)
LEMMA SerialsFollow ==
  ASSUME NEW r, NEW old, NEW new, Follows(r, old, new), HasSerials(old),
         \A a \in new : \A k \in 0..NBlocks : SnOf(a, k) \in Nat /\ SnOf(a, k) > 3 /\ IdOf(a, k) \in Nat
  PROVE  HasSerials(r)
<1>1. PICK s : Succeeds(s, r, old, new)
  BY DEF Follows
<1>2. ASSUME NEW p \in PlacesOf(r), NEW k \in 0..NBlocks
      PROVE  /\ SnOf(At(r, p), k) \in Nat /\ SnOf(At(r, p), k) > 3 /\ IdOf(At(r, p), k) \in Nat
  <2>1. CASE s[p] \in PlacesOf(old) /\ SameIds(At(r, p), At(old, s[p]))
    BY <2>1 DEF SameIds, HasSerials
  <2>2. CASE \E a \in new : SameIds(At(r, p), a)
    BY <2>2 DEF SameIds
  <2> QED
    BY <1>1, <2>1, <2>2 DEF Succeeds
<1> QED
  BY <1>2 DEF Follows, HasSerials

(* The serial numbers of the blueprints. *)
LEMMA FirstSerials ==
  ASSUME NEW n \in Nat
  PROVE  /\ HasSerials(FromBlueprints(n))
         /\ \A p \in PlacesOf(FromBlueprints(n)) : \A k \in 0..NBlocks :
              /\ SnOf(At(FromBlueprints(n), p), k) = IdOf(At(FromBlueprints(n), p), k)
              /\ SnOf(At(FromBlueprints(n), p), k) = 4 + Span(BlueprintAt(p) - 1) + k
              /\ SnOf(At(FromBlueprints(n), p), k) <= NObjects(n)
<1>1. PICK r : r = FromBlueprints(n)
  OBVIOUS
<1>2. /\ r.sn = 1 /\ r.core.sn = 2 /\ r.pool.sn = 3
      /\ \A p \in PlacesOf(r) : /\ BlueprintAt(p) \in 1..Cardinality(Cells) + n
                                /\ SameObject(At(r, p), Blueprint(BlueprintAt(p)))
  BY <1>1, FirstReactor
<1>3. PICK m \in Nat : m = Cardinality(Cells) + n
  BY FirstPlaces
<1>4. NObjects(n) = 3 + Span(m) /\ Span(m) \in Nat
  BY <1>3, NObjectsNumber, SpanFacts
<1>5. ASSUME NEW p \in PlacesOf(r), NEW k \in 0..NBlocks
      PROVE  /\ SnOf(At(r, p), k) = IdOf(At(r, p), k) /\ SnOf(At(r, p), k) \in Nat /\ SnOf(At(r, p), k) > 3
             /\ SnOf(At(r, p), k) = 4 + Span(BlueprintAt(p) - 1) + k
             /\ SnOf(At(r, p), k) <= NObjects(n)
  <2>1. PICK i : i = BlueprintAt(p)
    OBVIOUS
  <2>2. i \in 1..m
    BY <1>2, <1>3, <2>1
  <2>3. i \in Nat /\ i >= 1 /\ i <= m /\ i - 1 \in Nat /\ i = (i - 1) + 1
    BY <2>2
  <2>4. SnOf(Blueprint(i), k) = 4 + Span(i - 1) + k /\ IdOf(Blueprint(i), k) = 4 + Span(i - 1) + k
    BY <2>3, BlueprintFacts
  <2>5. SameIds(At(r, p), Blueprint(i))
    BY <1>2, <2>1, SameObjectSameIds
  <2>6. SnOf(At(r, p), k) = 4 + Span(i - 1) + k /\ IdOf(At(r, p), k) = 4 + Span(i - 1) + k
    BY <2>4, <2>5 DEF SameIds
  <2>7. Span(i - 1) \in Nat /\ Span(i) = Span(i - 1) + Width /\ Span(i) <= Span(m) /\ Width = NBlocks + 1
        /\ NBlocks \in Nat
    BY <2>3, SpanFacts, NBlocksNumber
  <2> HIDE DEF Span, NObjects, Width
  <2>8. 4 + Span(i - 1) + k \in Nat /\ 4 + Span(i - 1) + k > 3 /\ 4 + Span(i - 1) + k <= 3 + Span(m)
    BY <1>4, <2>7
  <2> QED
    BY <1>4, <2>1, <2>6, <2>8
<1> QED
  BY <1>1, <1>2, <1>5 DEF HasSerials

-----------------------------------------------------------------------------
(***************************************************************************)
(* The invariant of the names, action by action.                           *)
(***************************************************************************)

(* The file holds the statepoints of the nodes so far. *)
FileInv ==
  /\ trackAssems \in BOOLEAN /\ pooled \in Nat /\ now \in Nat
  /\ DOMAIN truth = 0..now - 1 /\ DOMAIN groups = 0..now - 1
  /\ \A t \in 0..now - 1 : /\ Named(truth[t]) /\ HasSerials(truth[t])
                           /\ groups[t] = Statepoint(truth[t])

TreeInv ==
  /\ serial \in Nat /\ serial >= 3 /\ made \in Nat
  /\ Named(reactor) /\ HasSerials(reactor)
  /\ Finds(assembliesByName, reactor)

NamesInv == FileInv /\ TreeInv

(* It holds at first. *)
LEMMA NamesInit == Init => NamesInv
<1> SUFFICES ASSUME Init PROVE NamesInv
  OBVIOUS
<1>1. PICK s \in Settings : /\ trackAssems = s[1] /\ pooled = s[2]
                            /\ reactor = FromBlueprints(s[2])
                            /\ serial = NObjects(s[2]) /\ made = NObjects(s[2])
                            /\ assembliesByName = Registered(FromBlueprints(s[2]))
                            /\ now = 0 /\ groups = <<>> /\ truth = <<>>
  BY DEF Init
<1>2. s[1] \in BOOLEAN /\ s[2] \in Nat
  BY SettingsAssumption
<1>3. DOMAIN truth = {} /\ DOMAIN groups = {} /\ 0..now - 1 = {}
  BY <1>1
<1>4. FileInv
  BY <1>1, <1>2, <1>3 DEF FileInv
<1>5. Named(reactor) /\ HasSerials(reactor)
  BY <1>1, <1>2, FirstNamed, FirstSerials
<1>6. serial \in Nat /\ serial >= 3 /\ made \in Nat
  BY <1>1, <1>2, NObjectsNumber
<1>7. Finds(assembliesByName, reactor)
  BY <1>1, <1>5, RegisteredFinds
<1> QED
  BY <1>4, <1>5, <1>6, <1>7 DEF NamesInv, TreeInv

(* A step that writes nothing keeps the file. *)
LEMMA FileKept ==
  ASSUME FileInv, UNCHANGED <<trackAssems, pooled, now, groups, truth>>
  PROVE  FileInv'
BY DEF FileInv

(* Loading a fresh assembly: it takes the next name. *)
LEMMA NamesFresh ==
  ASSUME NamesInv, NEW cell \in Cells, LoadFresh(cell)
  PROVE  /\ NamesInv' /\ Follows(reactor', reactor, {FreshAssembly})
         /\ reactor' = FreshIn(cell) /\ Shuffled(reactor', reactor, {FreshAssembly})
<1>1. /\ IsReactor(reactor) /\ Numbered(reactor) /\ DOMAIN reactor.core.holds = Cells
      /\ reactor.max \in Nat /\ serial \in Nat /\ serial >= 3 /\ made \in Nat
  BY DEF NamesInv, TreeInv, Named, Numbered
<1>2. reactor' = FreshIn(cell)
  BY DEF LoadFresh, FreshIn
<1>3. /\ Shuffled(reactor', reactor, {FreshAssembly})
      /\ reactor'.max = reactor.max + 1
      /\ SameObject(reactor'.core.holds[cell], FreshAssembly)
      /\ \A c \in Cells : c # cell => SameObject(reactor'.core.holds[c], reactor.core.holds[c])
  BY <1>1, <1>2, FreshShuffles
<1>4. Follows(reactor', reactor, {FreshAssembly})
  BY <1>3, ShuffledFollows
<1>5. /\ FreshAssembly.num = reactor.max
      /\ \A k \in 0..NBlocks : SnOf(FreshAssembly, k) = serial + 1 + k /\ IdOf(FreshAssembly, k) = made + 1 + k
      /\ FreshAssembly.id = NewAssembly(serial, made).id
      /\ FreshAssembly.num = Renumbered(NewAssembly(serial, made), reactor.max).num
  BY <1>1, FreshFacts
<1>6. Named(reactor')
  <2>1. reactor'.max \in Nat /\ reactor'.max >= reactor.max /\ reactor'.max > reactor.max
    BY <1>1, <1>3
  <2>2. Named(reactor)
    BY DEF NamesInv, TreeInv
  <2>3. \A a \in {FreshAssembly} : a.num = reactor.max /\ reactor'.max > reactor.max
    BY <1>5, <2>1
  <2> QED
    BY <1>4, <2>1, <2>2, <2>3, NamesFollow
<1>7. HasSerials(reactor')
  <2>1. \A k \in 0..NBlocks : /\ serial + 1 + k \in Nat /\ serial + 1 + k > 3 /\ made + 1 + k \in Nat
    BY <1>1
  <2>2. HasSerials(reactor)
    BY DEF NamesInv, TreeInv
  <2>3. \A a \in {FreshAssembly} : \A k \in 0..NBlocks :
           SnOf(a, k) \in Nat /\ SnOf(a, k) > 3 /\ IdOf(a, k) \in Nat
    BY <1>5, <2>1
  <2> QED
    BY <1>4, <2>2, <2>3, SerialsFollow
<1>8. serial' \in Nat /\ serial' >= 3 /\ made' \in Nat
  <2>1. serial' = serial + ObjectsOfAssembly /\ made' = made + ObjectsOfAssembly
    BY DEF LoadFresh
  <2>2. ObjectsOfAssembly \in Nat
    BY NBlocksNumber DEF ObjectsOfAssembly
  <2> QED
    BY <1>1, <2>1, <2>2
<1>9. Finds(assembliesByName', reactor')
  <2> DEFINE l == LocateAll(reactor)
             out == l.core.holds[cell]
             gone == IF trackAssems THEN {} ELSE {out.num}
             rest == [n \in DOMAIN assembliesByName \ gone |-> assembliesByName[n]]
  <2>1. l.max = reactor.max /\ SameObject(out, reactor.core.holds[cell])
    BY <1>1, LocateAllShape
  <2>2. assembliesByName' = With(rest, FreshAssembly.num, FreshAssembly.id)
    BY <1>5, <2>1 DEF LoadFresh, NamesAfter
  <2>3. out.num = reactor.core.holds[cell].num
    BY <2>1 DEF SameObject
  <2>4. \A n \in DOMAIN assembliesByName : n # out.num => n \in DOMAIN rest /\ rest[n] = assembliesByName[n]
    OBVIOUS
  <2> HIDE DEF rest, out, l
  <2>5. /\ FreshAssembly.num \in DOMAIN assembliesByName'
        /\ assembliesByName'[FreshAssembly.num] = FreshAssembly.id
        /\ \A n \in DOMAIN rest : n # FreshAssembly.num =>
             n \in DOMAIN assembliesByName' /\ assembliesByName'[n] = rest[n]
    BY <2>2 DEF With
  <2>6. ASSUME NEW c \in Cells
        PROVE  /\ reactor'.core.holds[c].num \in DOMAIN assembliesByName'
               /\ assembliesByName'[reactor'.core.holds[c].num] = reactor'.core.holds[c].id
    <3>1. CASE c = cell
      <4>1. reactor'.core.holds[c].num = FreshAssembly.num /\ reactor'.core.holds[c].id = FreshAssembly.id
        BY <1>3, <3>1 DEF SameObject
      <4> QED
        BY <2>5, <4>1
    <3>2. CASE c # cell
      <4>1. /\ reactor'.core.holds[c].num = reactor.core.holds[c].num
            /\ reactor'.core.holds[c].id = reactor.core.holds[c].id
        BY <1>3, <3>2 DEF SameObject
      <4>2. /\ <<"core", c>> \in PlacesOf(reactor) /\ At(reactor, <<"core", c>>) = reactor.core.holds[c]
            /\ <<"core", cell>> \in PlacesOf(reactor) /\ At(reactor, <<"core", cell>>) = reactor.core.holds[cell]
        BY <1>1, InPlaces
      <4>3. <<"core", c>> # <<"core", cell>>
        BY <3>2
      <4>4. reactor.core.holds[c].num # reactor.core.holds[cell].num
        BY <4>2, <4>3 DEF NamesInv, TreeInv, Named, OneName
      <4>5. reactor.core.holds[c].num # reactor.max
        <5>1. reactor.core.holds[c].num \in 0..reactor.max - 1
          BY <1>1, <4>2 DEF Numbered
        <5> QED
          BY <1>1, <5>1
      <4>6. /\ reactor.core.holds[c].num \in DOMAIN assembliesByName
            /\ assembliesByName[reactor.core.holds[c].num] = reactor.core.holds[c].id
        BY <1>1 DEF NamesInv, TreeInv, Finds
      <4>7. PICK n : n = reactor.core.holds[c].num
        OBVIOUS
      <4>8. n \in DOMAIN rest /\ rest[n] = assembliesByName[n]
        BY <2>3, <2>4, <4>4, <4>6, <4>7
      <4>9. n # FreshAssembly.num
        BY <1>5, <4>5, <4>7
      <4> QED
        BY <2>5, <4>1, <4>6, <4>7, <4>8, <4>9
    <3> QED
      BY <3>1, <3>2
  <2>7. DOMAIN reactor'.core.holds = Cells
    BY <1>6 DEF Named
  <2> QED
    BY <2>6, <2>7 DEF Finds
<1>10. FileInv'
  <2>1. FileInv /\ UNCHANGED <<trackAssems, pooled, now, groups, truth>>
    BY DEF NamesInv, LoadFresh, MayShuffle
  <2> QED
    BY <2>1, FileKept
<1> QED
  BY <1>2, <1>3, <1>4, <1>6, <1>7, <1>8, <1>9, <1>10 DEF NamesInv, TreeInv

(* The numbers of the assemblies at two places differ. *)
LEMMA TwoNames ==
  ASSUME Named(reactor)
  PROVE  /\ \A c \in Cells : /\ reactor.core.holds[c].num \in 0..reactor.max - 1
                             /\ \A d \in Cells : c # d => reactor.core.holds[c].num # reactor.core.holds[d].num
                             /\ \A d \in DOMAIN reactor.pool.holds :
                                  reactor.core.holds[c].num # reactor.pool.holds[d].num
         /\ \A d \in DOMAIN reactor.pool.holds : reactor.pool.holds[d].num \in 0..reactor.max - 1
         /\ reactor.max \in Nat
<1>1. /\ \A c \in Cells : <<"core", c>> \in PlacesOf(reactor) /\ At(reactor, <<"core", c>>) = reactor.core.holds[c]
      /\ \A c \in DOMAIN reactor.pool.holds :
           <<"pool", c>> \in PlacesOf(reactor) /\ At(reactor, <<"pool", c>>) = reactor.pool.holds[c]
  BY InPlaces DEF Named
<1>2. \A p \in PlacesOf(reactor) : At(reactor, p).num \in 0..reactor.max - 1
  BY DEF Named, Numbered
<1>3. ASSUME NEW c \in Cells, NEW d \in Cells, c # d
      PROVE  reactor.core.holds[c].num # reactor.core.holds[d].num
  <2>1. <<"core", c>> # <<"core", d>>
    BY <1>3
  <2> QED
    BY <1>1, <2>1 DEF Named, OneName
<1>4. ASSUME NEW c \in Cells, NEW d \in DOMAIN reactor.pool.holds
      PROVE  reactor.core.holds[c].num # reactor.pool.holds[d].num
  <2>1. <<"core", c>> # <<"pool", d>>
    OBVIOUS
  <2> QED
    BY <1>1, <2>1 DEF Named, OneName
<1> QED
  BY <1>1, <1>2, <1>3, <1>4 DEF Named, Numbered

(* Any other step of the reactor keeps the names. *)
LEMMA SameNames ==
  ASSUME Named(reactor), Follows(reactor', reactor, {}), reactor'.max = reactor.max, HasSerials(reactor)
  PROVE  Named(reactor') /\ HasSerials(reactor')
<1>1. reactor.max \in Nat /\ reactor'.max \in Nat /\ reactor'.max >= reactor.max
  BY TwoNames
<1>2. Named(reactor')
  <2>1. \A a \in {} : a.num = reactor.max /\ reactor'.max > reactor.max
    OBVIOUS
  <2> QED
    BY <1>1, <2>1, NamesFollow
<1>3. HasSerials(reactor')
  <2>1. \A a \in {} : \A k \in 0..NBlocks : SnOf(a, k) \in Nat /\ SnOf(a, k) > 3 /\ IdOf(a, k) \in Nat
    OBVIOUS
  <2> QED
    BY <2>1, SerialsFollow
<1> QED
  BY <1>2, <1>3

(* Loading an assembly from the pool: its name comes with it. *)
LEMMA NamesPool ==
  ASSUME NamesInv, NEW cell \in Cells, NEW place \in DOMAIN reactor.pool.holds, LoadFromPool(cell, place)
  PROVE  /\ NamesInv' /\ Follows(reactor', reactor, {})
         /\ reactor' = PoolIn(cell, place) /\ Shuffled(reactor', reactor, {})
<1>1. /\ IsReactor(reactor) /\ Numbered(reactor) /\ DOMAIN reactor.core.holds = Cells
      /\ reactor.max \in Nat /\ Named(reactor) /\ HasSerials(reactor)
  BY DEF NamesInv, TreeInv, Named, Numbered
<1>2. reactor' = PoolIn(cell, place)
  <2> DEFINE l == LocateAll(reactor)
             q == RemoveAssembly(l, cell)
  <2>1. reactor' = CoreAdd([q EXCEPT !.pool.holds = Without(@, place)], l.pool.holds[place], cell)
    BY DEF LoadFromPool
  <2>2. [q EXCEPT !.pool.holds = Without(@, place)] = [q EXCEPT !.pool.holds = Without(q.pool.holds, place)]
    OBVIOUS
  <2> QED
    BY <2>1, <2>2 DEF PoolIn
<1>3. /\ Shuffled(reactor', reactor, {})
      /\ reactor'.max = reactor.max
      /\ SameObject(reactor'.core.holds[cell], reactor.pool.holds[place])
      /\ \A c \in Cells : c # cell => SameObject(reactor'.core.holds[c], reactor.core.holds[c])
  BY <1>1, <1>2, PoolShuffles
<1>4. Follows(reactor', reactor, {})
  BY <1>3, ShuffledFollows
<1>5. Named(reactor') /\ HasSerials(reactor')
  BY <1>1, <1>3, <1>4, SameNames
<1>6. UNCHANGED <<serial, made>>
  BY DEF LoadFromPool
<1>7. Finds(assembliesByName', reactor')
  <2> DEFINE l == LocateAll(reactor)
             out == l.core.holds[cell]
             in  == l.pool.holds[place]
             gone == IF trackAssems THEN {} ELSE {out.num}
             rest == [n \in DOMAIN assembliesByName \ gone |-> assembliesByName[n]]
             held == reactor.pool.holds[place]
  <2>1. l.max = reactor.max /\ SameObject(out, reactor.core.holds[cell]) /\ SameObject(in, held)
    BY <1>1, LocateAllShape
  <2>2. assembliesByName' = With(rest, Renumbered(in, l.max).num, in.id)
    BY DEF LoadFromPool, NamesAfter
  <2>3. out.num = reactor.core.holds[cell].num /\ in.num = held.num /\ in.id = held.id
    BY <2>1 DEF SameObject
  <2>4. \A n \in DOMAIN assembliesByName : n # out.num => n \in DOMAIN rest /\ rest[n] = assembliesByName[n]
    OBVIOUS
  <2>5. Renumbered(in, l.max).num = held.num
    <3>1. in.num \in Nat
      BY <1>1, <2>3, TwoNames
    <3>2. Renumbered(in, l.max) = in
      BY <3>1 DEF Renumbered
    <3> QED
      BY <2>3, <3>2
  <2> HIDE DEF rest, out, in, l
  <2>6. /\ held.num \in DOMAIN assembliesByName' /\ assembliesByName'[held.num] = held.id
        /\ \A n \in DOMAIN rest : n # held.num =>
             n \in DOMAIN assembliesByName' /\ assembliesByName'[n] = rest[n]
    BY <2>2, <2>3, <2>5 DEF With
  <2>7. ASSUME NEW c \in Cells
        PROVE  /\ reactor'.core.holds[c].num \in DOMAIN assembliesByName'
               /\ assembliesByName'[reactor'.core.holds[c].num] = reactor'.core.holds[c].id
    <3>1. CASE c = cell
      <4>1. reactor'.core.holds[c].num = held.num /\ reactor'.core.holds[c].id = held.id
        BY <1>3, <3>1 DEF SameObject
      <4> QED
        BY <2>6, <4>1
    <3>2. CASE c # cell
      <4>1. /\ reactor'.core.holds[c].num = reactor.core.holds[c].num
            /\ reactor'.core.holds[c].id = reactor.core.holds[c].id
        BY <1>3, <3>2 DEF SameObject
      <4>2. /\ reactor.core.holds[c].num # reactor.core.holds[cell].num
            /\ reactor.core.holds[c].num # held.num
        BY <1>1, <3>2, TwoNames
      <4>3. /\ reactor.core.holds[c].num \in DOMAIN assembliesByName
            /\ assembliesByName[reactor.core.holds[c].num] = reactor.core.holds[c].id
        BY <1>1 DEF NamesInv, TreeInv, Finds
      <4>4. PICK n : n = reactor.core.holds[c].num
        OBVIOUS
      <4>5. n \in DOMAIN rest /\ rest[n] = assembliesByName[n]
        BY <2>3, <2>4, <4>2, <4>3, <4>4
      <4> QED
        BY <2>6, <4>1, <4>2, <4>3, <4>4, <4>5
    <3> QED
      BY <3>1, <3>2
  <2>8. DOMAIN reactor'.core.holds = Cells
    BY <1>5 DEF Named
  <2> QED
    BY <2>7, <2>8 DEF Finds
<1>8. FileInv'
  <2>1. FileInv /\ UNCHANGED <<trackAssems, pooled, now, groups, truth>>
    BY DEF NamesInv, LoadFromPool, MayShuffle
  <2> QED
    BY <2>1, FileKept
<1> QED
  BY <1>2, <1>3, <1>4, <1>5, <1>6, <1>7, <1>8 DEF NamesInv, TreeInv

(* Swapping. *)
LEMMA NamesSwap ==
  ASSUME NamesInv, NEW c \in Cells, NEW d \in Cells \ {c}, SwapAssemblies(c, d)
  PROVE  /\ NamesInv' /\ Follows(reactor', reactor, {})
         /\ reactor' = Swapped(c, d) /\ Shuffled(reactor', reactor, {})
<1>1. /\ IsReactor(reactor) /\ Numbered(reactor) /\ DOMAIN reactor.core.holds = Cells
      /\ Named(reactor) /\ HasSerials(reactor)
  BY DEF NamesInv, TreeInv, Named, Numbered
<1>2. reactor' = Swapped(c, d)
  BY DEF SwapAssemblies, Swapped, MovedFrom
<1>3. /\ Shuffled(reactor', reactor, {}) /\ reactor'.max = reactor.max
      /\ SameObject(reactor'.core.holds[c], reactor.core.holds[d])
      /\ SameObject(reactor'.core.holds[d], reactor.core.holds[c])
      /\ \A e \in Cells : e # c /\ e # d => SameObject(reactor'.core.holds[e], reactor.core.holds[e])
  BY <1>1, <1>2, SwapShuffles
<1>4. Follows(reactor', reactor, {})
  BY <1>3, ShuffledFollows
<1>5. Named(reactor') /\ HasSerials(reactor')
  BY <1>1, <1>3, <1>4, SameNames
<1>6. UNCHANGED <<serial, made, assembliesByName>>
  BY DEF SwapAssemblies
<1>7. ASSUME NEW e \in Cells
      PROVE  \E f \in Cells : SameObject(reactor'.core.holds[e], reactor.core.holds[f])
  BY <1>3
<1>8. Finds(assembliesByName', reactor')
  BY <1>1, <1>5, <1>6, <1>7 DEF Finds, NamesInv, TreeInv, Named, SameObject
<1>9. FileInv'
  <2>1. FileInv /\ UNCHANGED <<trackAssems, pooled, now, groups, truth>>
    BY DEF NamesInv, SwapAssemblies, MayShuffle
  <2> QED
    BY <2>1, FileKept
<1> QED
  BY <1>2, <1>3, <1>4, <1>5, <1>6, <1>8, <1>9 DEF NamesInv, TreeInv

(* Depleting. *)
LEMMA NamesDeplete ==
  ASSUME NamesInv, Deplete
  PROVE  NamesInv' /\ reactor' = DepletedReactor /\ Follows(reactor', reactor, {})
<1>1. IsReactor(reactor) /\ Named(reactor) /\ HasSerials(reactor) /\ DOMAIN reactor.core.holds = Cells
  BY DEF NamesInv, TreeInv, Named
<1>2. reactor' = DepletedReactor
  BY DEF Deplete, DepletedReactor, BurnedAssembly, BurnedBlock
<1>3. /\ Stays(reactor', reactor) /\ reactor'.max = reactor.max
      /\ \A c \in Cells : reactor'.core.holds[c] = BurnedAssembly(reactor.core.holds[c])
  BY <1>1, <1>2, DepletedStays
<1>4. Follows(reactor', reactor, {})
  BY <1>3, StaysFollows
<1>5. Named(reactor') /\ HasSerials(reactor')
  BY <1>1, <1>3, <1>4, SameNames
<1>6. UNCHANGED <<serial, made, assembliesByName>>
  BY DEF Deplete
<1>7. ASSUME NEW c \in Cells
      PROVE  /\ reactor'.core.holds[c].num = reactor.core.holds[c].num
             /\ reactor'.core.holds[c].id = reactor.core.holds[c].id
  <2>1. SameIds(reactor'.core.holds[c], reactor.core.holds[c])
    BY <1>1, <1>3 DEF Stays
  <2> QED
    BY <2>1, NBlocksNumber DEF SameIds, IdOf
<1>8. Finds(assembliesByName', reactor')
  BY <1>1, <1>5, <1>6, <1>7 DEF Finds, NamesInv, TreeInv, Named
<1>9. FileInv'
  <2>1. FileInv /\ UNCHANGED <<trackAssems, pooled, now, groups, truth>>
    BY DEF NamesInv, Deplete
  <2> QED
    BY <2>1, FileKept
<1> QED
  BY <1>2, <1>4, <1>5, <1>6, <1>8, <1>9 DEF NamesInv, TreeInv

(* Writing: the reactor is what the file now holds of the node. *)
LEMMA NamesWrite ==
  ASSUME NamesInv, WriteToDB
  PROVE  /\ NamesInv' /\ now' = now + 1 /\ UNCHANGED <<reactor, serial, made, trackAssems, pooled>>
         /\ truth'[now] = reactor /\ \A t \in 0..now - 1 : truth'[t] = truth[t]
<1>1. /\ now' = now + 1 /\ UNCHANGED <<reactor, serial, made, trackAssems, pooled, assembliesByName>>
      /\ groups' = With(groups, now, Statepoint(reactor)) /\ truth' = With(truth, now, reactor)
  BY DEF WriteToDB
<1>2. now \in Nat /\ DOMAIN truth = 0..now - 1 /\ DOMAIN groups = 0..now - 1
  BY DEF NamesInv, FileInv
<1>3. (0..now - 1) \cup {now} = 0..now' - 1 /\ now' \in Nat
  BY <1>1, <1>2
<1>4. /\ DOMAIN groups' = 0..now' - 1 /\ DOMAIN truth' = 0..now' - 1
      /\ groups'[now] = Statepoint(reactor) /\ truth'[now] = reactor
      /\ \A t \in 0..now - 1 : t # now /\ groups'[t] = groups[t] /\ truth'[t] = truth[t]
  BY <1>1, <1>2, <1>3 DEF With
<1>5. Named(reactor) /\ HasSerials(reactor)
  BY DEF NamesInv, TreeInv
<1>6. ASSUME NEW t \in 0..now' - 1
      PROVE  Named(truth'[t]) /\ HasSerials(truth'[t]) /\ groups'[t] = Statepoint(truth'[t])
  <2>1. CASE t = now
    BY <1>4, <1>5, <2>1
  <2>2. CASE t # now
    <3>1. t \in 0..now - 1
      BY <1>3, <2>2
    <3> QED
      BY <1>4, <3>1 DEF NamesInv, FileInv
  <2> QED
    BY <2>1, <2>2
<1>7. FileInv'
  BY <1>1, <1>3, <1>4, <1>6 DEF NamesInv, FileInv
<1>8. TreeInv'
  BY <1>1 DEF NamesInv, TreeInv
<1> QED
  BY <1>1, <1>4, <1>7, <1>8 DEF NamesInv

(* A loaded reactor has the names of the written one. *)
LEMMA AlikeNamed ==
  ASSUME NEW l, NEW r, AlikeReactor(l, r), Named(r), HasSerials(r)
  PROVE  /\ Named(l) /\ HasSerials(l) /\ Follows(l, r, {})
<1>1. Stays(l, r) /\ l.max = r.max
  BY AlikeStays DEF AlikeReactor
<1>2. Follows(l, r, {})
  BY <1>1, StaysFollows
<1>3. Named(l)
  <2>1. l.max \in Nat /\ r.max \in Nat /\ l.max >= r.max
    BY <1>1 DEF Named, Numbered
  <2>2. \A a \in {} : a.num = r.max /\ l.max > r.max
    OBVIOUS
  <2> QED
    BY <1>2, <2>1, <2>2, NamesFollow
<1>4. HasSerials(l)
  <2>1. \A a \in {} : \A k \in 0..NBlocks : SnOf(a, k) \in Nat /\ SnOf(a, k) > 3 /\ IdOf(a, k) \in Nat
    OBVIOUS
  <2> QED
    BY <1>2, <2>1, SerialsFollow
<1> QED
  BY <1>2, <1>3, <1>4

(* Restarting: the registry is made again from the loaded core. *)
LEMMA NamesRestart ==
  ASSUME NamesInv, NEW start \in 1..MaxTime, Restart(start)
  PROVE  /\ NamesInv' /\ start - 1 \in 0..now - 1 /\ now' = start
         /\ AlikeReactor(reactor', truth[start - 1]) /\ Follows(reactor', truth[start - 1], {})
         /\ reactor' = Load(Statepoint(truth[start - 1]))
         /\ serial' = SerialAfterLoad(CreateLayout(truth[start - 1]))
         /\ UNCHANGED <<made, trackAssems, pooled>>
         /\ \A t \in 0..start - 1 : t \in 0..now - 1 /\ truth'[t] = truth[t]
<1>1. /\ now \in Nat /\ start \in 1..now /\ pooled \in Nat
  BY DEF NamesInv, FileInv, Restart
<1>2. PICK u : u = start - 1
  OBVIOUS
<1>3. u \in 0..now - 1 /\ start = u + 1 /\ u \in Nat
  BY <1>1, <1>2
<1>4. PICK r : r = truth[u]
  OBVIOUS
<1>5. Named(r) /\ HasSerials(r) /\ IsReactor(r) /\ groups[u] = Statepoint(r)
  BY <1>3, <1>4 DEF NamesInv, FileInv, Named
<1>6. AlikeReactor(Load(Statepoint(r)), r)
  BY <1>5, LoadStatepoint
<1>7. /\ reactor' = Load(Statepoint(r)) /\ serial' = SerialAfterLoad(groups[u].rows)
      /\ assembliesByName' = Registered(reactor')
      /\ now' = u + 1 /\ UNCHANGED <<trackAssems, pooled, made>>
      /\ groups' = [t \in 0..u |-> groups[t]] /\ truth' = [t \in 0..u |-> truth[t]]
  BY <1>2, <1>3, <1>5 DEF Restart
<1>8. groups[u].rows = CreateLayout(r)
  BY <1>5 DEF Statepoint
<1>9. Named(reactor') /\ HasSerials(reactor') /\ Follows(reactor', r, {})
  BY <1>5, <1>6, <1>7, AlikeNamed
<1>10. Finds(assembliesByName', reactor')
  BY <1>7, <1>9, RegisteredFinds
<1>11. serial' \in Nat /\ serial' >= 3
  BY <1>1, <1>5, <1>7, <1>8, SerialGoesOn
<1>12. TreeInv'
  BY <1>7, <1>9, <1>10, <1>11 DEF TreeInv, NamesInv
<1>13. 0..now' - 1 = 0..u /\ now' \in Nat
  BY <1>3, <1>7
<1>14. \A t \in 0..u : t \in 0..now - 1 /\ truth'[t] = truth[t] /\ groups'[t] = groups[t]
  <2>1. \A t \in 0..u : t \in 0..now - 1
    BY <1>1, <1>3
  <2> QED
    BY <1>7, <2>1
<1>15. FileInv'
  BY <1>7, <1>13, <1>14 DEF NamesInv, FileInv
<1> QED
  BY <1>2, <1>3, <1>4, <1>6, <1>7, <1>8, <1>9, <1>12, <1>14, <1>15 DEF NamesInv

(* The number in the name of an assembly is that of no other. *)
LEMMA NamesNext == NamesInv /\ [Next]_vars => NamesInv'
<1> SUFFICES ASSUME NamesInv, [Next]_vars PROVE NamesInv'
  OBVIOUS
<1>1. CASE UNCHANGED vars
  BY <1>1 DEF vars, NamesInv, FileInv, TreeInv
<1>2. ASSUME NEW cell \in Cells, LoadFresh(cell) PROVE NamesInv'
  BY <1>2, NamesFresh
<1>3. ASSUME NEW cell \in Cells, NEW place \in DOMAIN reactor.pool.holds, LoadFromPool(cell, place) PROVE NamesInv'
  BY <1>3, NamesPool
<1>4. ASSUME NEW cell \in Cells, NEW other \in Cells \ {cell}, SwapAssemblies(cell, other) PROVE NamesInv'
  BY <1>4, NamesSwap
<1>5. CASE Deplete
  BY <1>5, NamesDeplete
<1>6. CASE WriteToDB
  BY <1>6, NamesWrite
<1>7. ASSUME NEW start \in 1..MaxTime, Restart(start) PROVE NamesInv'
  BY <1>7, NamesRestart
<1>8. CASE Done
  BY <1>1, <1>8 DEF Done
<1> QED
  BY <1>1, <1>2, <1>3, <1>4, <1>5, <1>6, <1>7, <1>8 DEF Next

(* The assemblies that the property is about are those of the places. *)
LEMMA AssembliesAtPlaces ==
  ASSUME NEW r, IsReactor(r)
  PROVE  /\ Assemblies(r) = {At(r, p) : p \in PlacesOf(r)}
         /\ ToSet(AssembliesOf(r.core)) = {r.core.holds[c] : c \in DOMAIN r.core.holds}
<1>1. IsTree(r)
  BY ReactorIsTree
<1>2. /\ IsList(GroupedAssemblies(r)) /\ Len(GroupedAssemblies(r)) = NAll(r)
      /\ \A j \in 1..NAll(r) : GroupedAssemblies(r)[j] = AssemblyAt(r, j)
  BY <1>1, Grouped
<1>3. DOMAIN GroupedAssemblies(r) = 1..NAll(r)
  BY <1>2, LenOf DEF IsList
<1>4. Assemblies(r) = {AssemblyAt(r, j) : j \in 1..NAll(r)}
  BY <1>2, <1>3 DEF Assemblies, ToSet
<1>5. Assemblies(r) = {At(r, p) : p \in PlacesOf(r)}
  <2>1. \A x \in Assemblies(r) : x \in {At(r, p) : p \in PlacesOf(r)}
    BY <1>4, PlacesAndRows
  <2>2. \A x \in {At(r, p) : p \in PlacesOf(r)} : x \in Assemblies(r)
    BY <1>4, PlacesAndRows
  <2> QED
    BY <2>1, <2>2
<1>6. PICK x, D : x = AssembliesOf(r.core) /\ D = DOMAIN r.core.holds
  OBVIOUS
<1>7. /\ IsList(x) /\ Len(x) = Cardinality(D)
      /\ \A j \in 1..Cardinality(D) : x[j] = r.core.holds[InOrder(D)[j]]
  BY <1>1, <1>6, AssembliesOfFacts DEF IsTree
<1>8. /\ \A j \in 1..Cardinality(D) : InOrder(D)[j] \in D
      /\ \A c \in D : \E j \in 1..Cardinality(D) : InOrder(D)[j] = c
  <2>1. IsFiniteSet(D) /\ D \subseteq Nat \X Nat
    BY <1>6 DEF IsReactor, IsHolds
  <2> QED
    BY <2>1, PlacesInOrder, InOrderIsOneToOne
<1>9. DOMAIN x = 1..Cardinality(D)
  BY <1>7, LenOf DEF IsList
<1>10. ToSet(x) = {x[j] : j \in 1..Cardinality(D)}
  BY <1>9 DEF ToSet
<1>11. ToSet(x) = {r.core.holds[c] : c \in D}
  BY <1>7, <1>8, <1>10
<1> QED
  BY <1>5, <1>6, <1>11

(* The invariant gives the property. *)
LEMMA NamesInvFinds == NamesInv => NamesFindAssemblies
<1> SUFFICES ASSUME NamesInv PROVE NamesFindAssemblies
  OBVIOUS
<1>1. Named(reactor) /\ IsReactor(reactor) /\ Finds(assembliesByName, reactor)
  BY DEF NamesInv, TreeInv, Named
<1>2. /\ \A a \in Assemblies(reactor) : \E p \in PlacesOf(reactor) : a = At(reactor, p)
      /\ \A a \in ToSet(AssembliesOf(reactor.core)) : \E c \in DOMAIN reactor.core.holds : a = reactor.core.holds[c]
  <2>1. PICK r : r = reactor
    OBVIOUS
  <2>2. IsReactor(r)
    BY <1>1, <2>1
  <2>3. /\ Assemblies(r) = {At(r, p) : p \in PlacesOf(r)}
        /\ ToSet(AssembliesOf(r.core)) = {r.core.holds[c] : c \in DOMAIN r.core.holds}
    BY ONLY <2>2, AssembliesAtPlaces
  <2>4. \A a \in Assemblies(r) : \E p \in PlacesOf(r) : a = At(r, p)
    BY ONLY <2>3
  <2>5. \A a \in ToSet(AssembliesOf(r.core)) : \E c \in DOMAIN r.core.holds : a = r.core.holds[c]
    BY ONLY <2>3
  <2> QED
    BY <2>1, <2>4, <2>5
<1>3. \A a, b \in Assemblies(reactor) : a.num = b.num => a.id = b.id
  BY <1>1, <1>2 DEF Named, OneName
<1>4. \A a \in Assemblies(reactor) : a.num \in 0..reactor.max - 1
  BY <1>1, <1>2 DEF Named, Numbered
<1>5. \A a \in ToSet(AssembliesOf(reactor.core)) :
        a.num \in DOMAIN assembliesByName /\ assembliesByName[a.num] = a.id
  BY <1>1, <1>2 DEF Finds
<1> QED
  BY <1>3, <1>4, <1>5 DEF NamesFindAssemblies


(***************************************************************************)
(* Names find assemblies (Core.add and _removeListFromAuxiliaries,         *)
(* cores.py:427-560; incrementAssemNum, reactors.py:103): in every case,   *)
(* whatever is shuffled, written and loaded, the assemblies have different *)
(* names, each was given out, and the core finds each of its own.          *)
(***************************************************************************)
THEOREM NamesAreFound == Spec => []NamesFindAssemblies
BY NamesInit, NamesNext, NamesInvFinds, PTL DEF Spec

-----------------------------------------------------------------------------
(***************************************************************************)
(* The invariant of the serial numbers, action by action.                  *)
(***************************************************************************)

(* Every place in the column of the blocks is one of a block of an assembly. *)
LEMMA BlockOf ==
  ASSUME NEW m \in Nat, NEW x \in Nat, x >= 1, x <= m * NBlocks
  PROVE  \E j \in 1..m : \E k \in 1..NBlocks : x = (j - 1) * NBlocks + k
<1> DEFINE S == {l \in Nat : x <= l * NBlocks}
<1>0. NBlocks \in Nat
  BY NBlocksNumber
<1>1. m \in S
  OBVIOUS
<1>2. PICK j \in S : \A l \in S : j <= l
  BY <1>1, LeastNumber
<1>3. j # 0
  BY <1>0, <1>2, Products
<1>4. j \in 1..m /\ j - 1 \in Nat /\ j = (j - 1) + 1
  BY <1>1, <1>2, <1>3
<1>5. PICK i \in Nat : i = j - 1
  BY <1>4
<1>6. PICK y \in Nat : y = i * NBlocks
  BY <1>0, Products
<1>7. ~(x <= y)
  <2>1. i \notin S
    BY <1>2, <1>4, <1>5
  <2> QED
    BY <1>6, <2>1
<1>8. x <= y + NBlocks
  <2>1. j * NBlocks = y + NBlocks
    BY <1>0, <1>4, <1>5, <1>6, Products
  <2> QED
    BY <1>2, <2>1
<1>9. x - y \in 1..NBlocks /\ x = y + (x - y)
  BY <1>0, <1>7, <1>8
<1> QED
  BY <1>4, <1>5, <1>6, <1>9

(* The objects that the property is about are those of the places. *)
LEMMA ObjectsOf ==
  ASSUME NEW r, IsReactor(r)
  PROVE  Objects(r) = {<<IdOf(At(r, p), k), SnOf(At(r, p), k)>> : p \in PlacesOf(r), k \in 0..NBlocks}
<1> DEFINE All == {<<IdOf(At(r, p), k), SnOf(At(r, p), k)>> : p \in PlacesOf(r), k \in 0..NBlocks}
<1>1. IsTree(r) /\ NAll(r) \in Nat /\ NBlocks \in Nat
  BY ReactorIsTree, TreeNumbers, NBlocksNumber
<1>2. PICK blocks : blocks = GroupedBlocks(r)
  OBVIOUS
<1>3. /\ IsList(blocks) /\ Len(blocks) = NAll(r) * NBlocks
      /\ \A j \in 1..NAll(r), k \in 1..NBlocks : blocks[(j - 1) * NBlocks + k] = AssemblyAt(r, j).blocks[k]
  BY <1>1, <1>2, Grouped
<1>4. ToSet(blocks) = {blocks[i] : i \in 1..NAll(r) * NBlocks}
  <2>1. DOMAIN blocks = 1..NAll(r) * NBlocks
    BY <1>3, LenOf DEF IsList
  <2> QED
    BY <2>1 DEF ToSet
<1>5. PICK n \in Nat : n = NAll(r) * NBlocks
  BY <1>1, Products
<1>6. \A b \in Blocks(r) : \E j \in 1..NAll(r) : \E k \in 1..NBlocks : b = AssemblyAt(r, j).blocks[k]
  <2> SUFFICES ASSUME NEW b \in Blocks(r)
               PROVE  \E j \in 1..NAll(r) : \E k \in 1..NBlocks : b = AssemblyAt(r, j).blocks[k]
    OBVIOUS
  <2>1. PICK i \in 1..n : b = blocks[i]
    BY <1>2, <1>4, <1>5 DEF Blocks
  <2>2. PICK j \in 1..NAll(r) : \E k \in 1..NBlocks : i = (j - 1) * NBlocks + k
    <3>1. i \in Nat /\ i >= 1 /\ i <= NAll(r) * NBlocks
      BY <1>5
    <3> QED
      BY ONLY <1>1, <3>1, BlockOf
  <2> QED
    BY <1>3, <2>1, <2>2
<1>7. \A j \in 1..NAll(r) : \A k \in 1..NBlocks : AssemblyAt(r, j).blocks[k] \in Blocks(r)
  <2> SUFFICES ASSUME NEW j \in 1..NAll(r), NEW k \in 1..NBlocks
               PROVE  AssemblyAt(r, j).blocks[k] \in Blocks(r)
    OBVIOUS
  <2>1. PICK i \in Nat : i = (j - 1) * NBlocks + k
    <3>1. j - 1 \in Nat
      BY <1>1
    <3>2. (j - 1) * NBlocks \in Nat
      BY <1>1, <3>1, Products
    <3> QED
      BY <1>1, <3>2
  <2>2. i \in 1..n
    <3>1. PICK l \in Nat : l = j - 1 /\ j = l + 1 /\ j \in Nat /\ j <= NAll(r)
      <4>1. j - 1 \in Nat
        BY <1>1
      <4> QED
        BY <1>1, <4>1
    <3>2. PICK y \in Nat : y = l * NBlocks
      BY <1>1, Products
    <3>3. j * NBlocks = y + NBlocks /\ j * NBlocks <= n
      BY <1>1, <1>5, <3>1, <3>2, Products
    <3> QED
      BY <1>1, <2>1, <3>1, <3>2, <3>3
  <2> QED
    BY <1>2, <1>3, <1>4, <1>5, <2>1, <2>2 DEF Blocks
<1>8. Assemblies(r) = {At(r, p) : p \in PlacesOf(r)}
  BY AssembliesAtPlaces
<1>9. \A x \in Objects(r) : x \in All
  <2>1. ASSUME NEW a \in Assemblies(r) PROVE <<a.id, a.sn>> \in All
    <3>1. PICK p \in PlacesOf(r) : a = At(r, p)
      BY <1>8
    <3>2. IdOf(At(r, p), 0) = a.id /\ SnOf(At(r, p), 0) = a.sn /\ 0 \in 0..NBlocks
      BY <1>1, <3>1 DEF IdOf, SnOf
    <3>3. <<IdOf(At(r, p), 0), SnOf(At(r, p), 0)>> \in All
      BY <3>2
    <3> QED
      BY <3>2, <3>3
  <2>2. ASSUME NEW b \in Blocks(r) PROVE <<b.id, b.sn>> \in All
    <3>1. PICK j \in 1..NAll(r), k \in 1..NBlocks : b = AssemblyAt(r, j).blocks[k]
      BY <1>6
    <3>2. PICK p \in PlacesOf(r) : AssemblyAt(r, j) = At(r, p)
      BY PlacesAndRows
    <3>3. IdOf(At(r, p), k) = b.id /\ SnOf(At(r, p), k) = b.sn /\ k \in 0..NBlocks
      BY <1>1, <3>1, <3>2 DEF IdOf, SnOf
    <3>4. <<IdOf(At(r, p), k), SnOf(At(r, p), k)>> \in All
      BY <3>3
    <3> QED
      BY <3>3, <3>4
  <2> HIDE DEF All
  <2> QED
    BY <2>1, <2>2 DEF Objects
<1>10. ASSUME NEW p \in PlacesOf(r), NEW k \in 0..NBlocks
       PROVE  <<IdOf(At(r, p), k), SnOf(At(r, p), k)>> \in Objects(r)
  <2>1. CASE k = 0
    <3>1. At(r, p) \in Assemblies(r)
      BY <1>8
    <3> QED
      BY <2>1, <3>1 DEF Objects, IdOf, SnOf
  <2>2. CASE k # 0
    <3>1. k \in 1..NBlocks
      BY <1>1, <2>2
    <3>2. PICK j \in 1..NAll(r) : AssemblyAt(r, j) = At(r, p)
      BY PlacesAndRows
    <3>3. At(r, p).blocks[k] \in Blocks(r)
      BY <1>7, <3>1, <3>2
    <3> QED
      BY <2>2, <3>3 DEF Objects, IdOf, SnOf
  <2> QED
    BY <2>1, <2>2
<1>11. \A x \in All : x \in Objects(r)
  BY <1>10
<1> QED
  BY <1>9, <1>11

ObjectsIn(a) == {<<IdOf(a, k), SnOf(a, k)>> : k \in 0..NBlocks}

(* The same numbers, the same objects. *)
LEMMA SameObjects ==
  ASSUME NEW x, NEW a, SameIds(x, a)
  PROVE  ObjectsIn(x) = ObjectsIn(a)
BY DEF SameIds, ObjectsIn

(* They are those of the assemblies. *)
LEMMA ObjectsAtPlaces ==
  ASSUME NEW r, IsReactor(r)
  PROVE  Objects(r) = UNION {ObjectsIn(At(r, p)) : p \in PlacesOf(r)}
<1>1. \A x : x \in Objects(r) <=> \E p \in PlacesOf(r) : x \in ObjectsIn(At(r, p))
  BY ObjectsOf DEF ObjectsIn
<1> QED
  BY <1>1

(* A step keeps the objects, or drops them where discharged assemblies are not tracked. *)
LEMMA ObjectsFollow ==
  ASSUME NEW r, NEW old, NEW new, Follows(r, old, new), IsReactor(old)
  PROVE  /\ Objects(r) \subseteq Objects(old) \cup UNION {ObjectsIn(a) : a \in new}
         /\ trackAssems /\ new = {} => Objects(r) = Objects(old)
         /\ trackAssems => Objects(old) \subseteq Objects(r)
<1>1. PICK s : /\ Succeeds(s, r, old, new)
               /\ trackAssems => \A p \in PlacesOf(old) : \E q \in PlacesOf(r) : s[q] = p
  BY DEF Follows
<1>2. /\ \A x : x \in Objects(r) <=> \E p \in PlacesOf(r) : x \in ObjectsIn(At(r, p))
      /\ \A x : x \in Objects(old) <=> \E p \in PlacesOf(old) : x \in ObjectsIn(At(old, p))
  BY ObjectsAtPlaces DEF Follows
<1>3. \A p \in PlacesOf(r) : \/ s[p] \in PlacesOf(old) /\ ObjectsIn(At(r, p)) = ObjectsIn(At(old, s[p]))
                             \/ s[p] = NewPlace /\ \E a \in new : ObjectsIn(At(r, p)) = ObjectsIn(a)
  BY <1>1, SameObjects DEF Succeeds
<1>4. \A x \in Objects(r) : x \in Objects(old) \/ \E a \in new : x \in ObjectsIn(a)
  BY <1>2, <1>3
<1>5. ASSUME trackAssems, NEW x \in Objects(old) PROVE x \in Objects(r)
  <2>1. PICK p \in PlacesOf(old) : x \in ObjectsIn(At(old, p))
    BY <1>2
  <2>2. PICK q \in PlacesOf(r) : s[q] = p
    BY <1>1, <1>5
  <2>3. p # NewPlace
    BY InPlaces
  <2> QED
    BY <1>2, <1>3, <2>1, <2>2, <2>3
<1> QED
  BY <1>4, <1>5

(* An untracked case starts with an empty pool. *)
PoolsAreTracked == \A s \in Settings : ~s[1] => s[2] = 0

(* The newest object of r is at least as new as those of old. *)
Outlives(r, old) == \A x \in Objects(old) : \E y \in Objects(r) : x[2] <= y[2]

Distinct(S) == \A x, y \in S : x[2] = y[2] <=> x[1] = y[1]

Everything == Objects(reactor) \cup UNION {Objects(truth[t]) : t \in 0..now - 1}

UntrackedPools ==
  ~trackAssems => /\ DOMAIN reactor.pool.holds = {}
                  /\ \A t \in 0..now - 1 : DOMAIN truth[t].pool.holds = {}

SerialsInv ==
  /\ UntrackedPools
  /\ Distinct(Everything)
  /\ \A x \in Everything : x[1] \in Nat /\ x[1] <= made /\ x[2] \in Nat /\ x[2] <= serial
  /\ \A t \in 0..now - 1 : /\ Outlives(reactor, truth[t])
                           /\ \A u \in 0..t : Outlives(truth[t], truth[u])

Fresh == ObjectsIn(FreshAssembly)

(* The objects of a fresh assembly are the next ones. *)
LEMMA FreshObjects ==
  ASSUME serial \in Nat, made \in Nat, reactor.max \in Nat
  PROVE  Fresh = {<<made + 1 + k, serial + 1 + k>> : k \in 0..NBlocks}
BY FreshFacts DEF Fresh, ObjectsIn

(* The next objects are distinct from all before. *)
LEMMA DistinctFresh ==
  ASSUME NEW m \in Nat, NEW n \in Nat, NEW S, NEW T, Distinct(S),
         \A x \in S : x[1] \in Nat /\ x[1] <= m /\ x[2] \in Nat /\ x[2] <= n,
         T = {<<m + 1 + k, n + 1 + k>> : k \in 0..NBlocks}
  PROVE  /\ Distinct(S \cup T)
         /\ \A x \in S \cup T : /\ x[1] \in Nat /\ x[1] <= m + ObjectsOfAssembly
                                /\ x[2] \in Nat /\ x[2] <= n + ObjectsOfAssembly
<1>1. ObjectsOfAssembly = NBlocks + 1 /\ NBlocks \in Nat
  BY NBlocksNumber DEF ObjectsOfAssembly
<1>2. ASSUME NEW x \in T
      PROVE  \E k \in 0..NBlocks : x[1] = m + 1 + k /\ x[2] = n + 1 + k
  OBVIOUS
<1>3. ASSUME NEW x \in S, NEW y \in T PROVE x[1] # y[1] /\ x[2] # y[2]
  <2>1. PICK k \in 0..NBlocks : y[1] = m + 1 + k /\ y[2] = n + 1 + k
    BY <1>2
  <2> QED
    BY <1>1, <2>1
<1>4. ASSUME NEW x \in T, NEW y \in T PROVE x[2] = y[2] <=> x[1] = y[1]
  <2>1. PICK k \in 0..NBlocks : x[1] = m + 1 + k /\ x[2] = n + 1 + k
    BY <1>2
  <2>2. PICK l \in 0..NBlocks : y[1] = m + 1 + l /\ y[2] = n + 1 + l
    BY <1>2
  <2> QED
    BY <1>1, <2>1, <2>2
<1>5. Distinct(S \cup T)
  BY <1>3, <1>4 DEF Distinct
<1>6. ASSUME NEW x \in S
      PROVE  /\ x[1] \in Nat /\ x[1] <= m + ObjectsOfAssembly
             /\ x[2] \in Nat /\ x[2] <= n + ObjectsOfAssembly
  BY <1>1
<1>7. ASSUME NEW x \in T
      PROVE  /\ x[1] \in Nat /\ x[1] <= m + ObjectsOfAssembly
             /\ x[2] \in Nat /\ x[2] <= n + ObjectsOfAssembly
  <2>1. PICK k \in 0..NBlocks : x[1] = m + 1 + k /\ x[2] = n + 1 + k
    BY <1>2
  <2> QED
    BY <1>1, <2>1
<1> QED
  BY <1>5, <1>6, <1>7

(* Some of distinct objects. *)
LEMMA DistinctPart ==
  ASSUME NEW S, NEW T, Distinct(T), S \subseteq T
  PROVE  Distinct(S)
BY DEF Distinct

(* A newest object that is at least as new as one that is at least as new. *)
LEMMA OutlivesAgain ==
  ASSUME NEW r, NEW q, NEW o, Outlives(r, q), Outlives(q, o),
         \A x \in Objects(r) : x[2] \in Nat, \A x \in Objects(q) : x[2] \in Nat,
         \A x \in Objects(o) : x[2] \in Nat
  PROVE  Outlives(r, o)
<1> SUFFICES ASSUME NEW x \in Objects(o) PROVE \E y \in Objects(r) : x[2] <= y[2]
  BY DEF Outlives
<1>1. PICK y \in Objects(q) : x[2] <= y[2]
  BY DEF Outlives
<1>2. PICK z \in Objects(r) : y[2] <= z[2]
  BY DEF Outlives
<1> QED
  BY <1>1, <1>2

(* A reactor with the same objects. *)
LEMMA OutlivesSame ==
  ASSUME NEW r, NEW q, Objects(q) \subseteq Objects(r), \A x \in Objects(q) : x[2] \in Nat
  PROVE  Outlives(r, q)
BY DEF Outlives

(* It holds at first. *)
LEMMA SerialsInit ==
  ASSUME PoolsAreTracked, Init
  PROVE  SerialsInv
<1>1. PICK s \in Settings : /\ trackAssems = s[1] /\ pooled = s[2]
                            /\ reactor = FromBlueprints(s[2])
                            /\ serial = NObjects(s[2]) /\ made = NObjects(s[2])
                            /\ now = 0 /\ groups = <<>> /\ truth = <<>>
  BY DEF Init
<1>2. PICK n \in Nat : n = s[2]
  BY SettingsAssumption
<1>3. /\ IsReactor(reactor) /\ DOMAIN reactor.pool.holds = InFirstPool(n)
      /\ \A p \in PlacesOf(reactor) : \A k \in 0..NBlocks :
           /\ SnOf(At(reactor, p), k) = IdOf(At(reactor, p), k) /\ SnOf(At(reactor, p), k) \in Nat
           /\ SnOf(At(reactor, p), k) <= NObjects(n)
  BY <1>1, <1>2, FirstReactor, FirstSerials DEF HasSerials
<1>4. 0..now - 1 = {}
  BY <1>1
<1>5. Everything = Objects(reactor)
  BY <1>4 DEF Everything
<1>6. \A x \in Everything : x[1] = x[2] /\ x[2] \in Nat /\ x[2] <= NObjects(n)
  BY <1>3, <1>5, ObjectsOf
<1>7. UntrackedPools
  <2>1. trackAssems = s[1] /\ (~s[1] => n = 0)
    BY <1>1, <1>2 DEF PoolsAreTracked
  <2>2. n = 0 => InFirstPool(n) = {}
    BY FirstPlaces
  <2> QED
    BY <1>3, <1>4, <2>1, <2>2 DEF UntrackedPools
<1> QED
  BY <1>1, <1>2, <1>4, <1>6, <1>7 DEF SerialsInv, Distinct
-----------------------------------------------------------------------------

(* Loading a fresh assembly: it takes the next serial numbers. *)
LEMMA SerialsFresh ==
  ASSUME NamesInv, SerialsInv, NEW cell \in Cells, LoadFresh(cell)
  PROVE  SerialsInv'
<1>1. /\ Follows(reactor', reactor, {FreshAssembly}) /\ NamesInv'
      /\ SameObject(reactor'.core.holds[cell], FreshAssembly)
  <2>1. IsReactor(reactor) /\ Numbered(reactor) /\ DOMAIN reactor.core.holds = Cells
        /\ serial \in Nat /\ made \in Nat
    BY DEF NamesInv, TreeInv, Named
  <2> QED
    BY <2>1, NamesFresh, FreshShuffles
<1>2. /\ serial \in Nat /\ made \in Nat /\ reactor.max \in Nat /\ IsReactor(reactor) /\ IsReactor(reactor')
      /\ cell \in DOMAIN reactor'.core.holds
  BY <1>1 DEF NamesInv, TreeInv, Named, Numbered
<1>3. /\ serial' = serial + ObjectsOfAssembly /\ made' = made + ObjectsOfAssembly
      /\ UNCHANGED <<trackAssems, now, truth>>
  BY DEF LoadFresh, MayShuffle
<1>4. Objects(reactor') \subseteq Objects(reactor) \cup Fresh
  BY <1>1, <1>2, ObjectsFollow DEF Fresh
<1>5. Fresh = {<<made + 1 + k, serial + 1 + k>> : k \in 0..NBlocks}
  BY <1>2, FreshObjects
<1>6. /\ Distinct(Everything \cup Fresh)
      /\ \A x \in Everything \cup Fresh : /\ x[1] \in Nat /\ x[1] <= made' /\ x[2] \in Nat /\ x[2] <= serial'
  <2>0. PICK m \in Nat, n \in Nat : m = made /\ n = serial
    BY <1>2
  <2>1. PICK S, T : m = made /\ n = serial /\ S = Everything /\ T = Fresh
    BY <2>0
  <2>2. /\ Distinct(S) /\ \A x \in S : x[1] \in Nat /\ x[1] <= m /\ x[2] \in Nat /\ x[2] <= n
        /\ T = {<<m + 1 + k, n + 1 + k>> : k \in 0..NBlocks}
    BY <1>5, <2>1 DEF SerialsInv
  <2>3. /\ Distinct(S \cup T)
        /\ \A x \in S \cup T : /\ x[1] \in Nat /\ x[1] <= m + ObjectsOfAssembly
                               /\ x[2] \in Nat /\ x[2] <= n + ObjectsOfAssembly
    BY ONLY <2>2, DistinctFresh
  <2> QED
    BY <1>3, <2>1, <2>3
<1>7. Everything' \subseteq Everything \cup Fresh
  BY <1>3, <1>4 DEF Everything
<1>8. Fresh \subseteq Objects(reactor')
  <2>1. <<"core", cell>> \in PlacesOf(reactor') /\ At(reactor', <<"core", cell>>) = reactor'.core.holds[cell]
    BY <1>2, InPlaces
  <2>2. ObjectsIn(reactor'.core.holds[cell]) = Fresh
    BY <1>1, SameObjectSameIds, SameObjects DEF Fresh
  <2> QED
    BY <1>2, <2>1, <2>2, ObjectsAtPlaces
<1>9. Outlives(reactor', reactor)
  <2>1. <<made + 1 + 0, serial + 1 + 0>> \in Fresh
    BY <1>5, NBlocksNumber
  <2>2. \A x \in Objects(reactor) : x[2] \in Nat /\ x[2] <= serial
    BY DEF SerialsInv, Everything
  <2>3. \A x \in Objects(reactor) : x[2] <= <<made + 1 + 0, serial + 1 + 0>>[2]
    BY <1>2, <2>2
  <2> QED
    BY <1>8, <2>1, <2>3 DEF Outlives
<1>10. ASSUME NEW t \in 0..now - 1 PROVE Outlives(reactor', truth[t])
  <2>1. /\ \A x \in Objects(reactor') : x[2] \in Nat
        /\ \A x \in Objects(reactor) : x[2] \in Nat
        /\ \A x \in Objects(truth[t]) : x[2] \in Nat
    BY <1>4, <1>6 DEF Everything
  <2>2. Outlives(reactor, truth[t])
    BY DEF SerialsInv
  <2> QED
    BY <1>9, <2>1, <2>2, OutlivesAgain
<1>11. UntrackedPools'
  BY <1>1, <1>3 DEF SerialsInv, UntrackedPools, Follows
<1>12. Distinct(Everything')
  BY <1>6, <1>7, DistinctPart
<1> QED
  BY <1>3, <1>6, <1>7, <1>10, <1>11, <1>12 DEF SerialsInv

(* Any other step of the reactor keeps its objects. *)
LEMMA SerialsSame ==
  ASSUME NamesInv, SerialsInv, Follows(reactor', reactor, {}), Objects(reactor') = Objects(reactor),
         UNCHANGED <<trackAssems, now, truth, serial, made>>
  PROVE  SerialsInv'
<1>1. Everything' = Everything
  BY DEF Everything
<1>2. \A t \in 0..now - 1 : Outlives(reactor', truth[t])
  BY DEF SerialsInv, Outlives
<1>3. UntrackedPools'
  BY DEF SerialsInv, UntrackedPools, Follows
<1> QED
  BY <1>1, <1>2, <1>3 DEF SerialsInv

(* Loading one from the pool. *)
LEMMA SerialsPool ==
  ASSUME NamesInv, SerialsInv, NEW cell \in Cells, NEW place \in DOMAIN reactor.pool.holds,
         LoadFromPool(cell, place)
  PROVE  SerialsInv'
<1>1. Follows(reactor', reactor, {})
  BY NamesPool
<1>2. UNCHANGED <<trackAssems, now, truth, serial, made>>
  BY DEF LoadFromPool, MayShuffle
<1>3. trackAssems
  BY DEF SerialsInv, UntrackedPools
<1>4. Objects(reactor') = Objects(reactor)
  BY <1>1, <1>3, ObjectsFollow DEF NamesInv, TreeInv, Named
<1> QED
  BY <1>1, <1>2, <1>4, SerialsSame

(* Swapping. *)
LEMMA SerialsSwap ==
  ASSUME NamesInv, SerialsInv, NEW c \in Cells, NEW d \in Cells \ {c}, SwapAssemblies(c, d)
  PROVE  SerialsInv'
<1>1. Follows(reactor', reactor, {}) /\ NamesInv' /\ reactor' = Swapped(c, d)
  BY NamesSwap
<1>2. /\ IsReactor(reactor) /\ IsReactor(reactor')
      /\ DOMAIN reactor.core.holds = Cells /\ DOMAIN reactor'.core.holds = Cells
  BY <1>1 DEF NamesInv, TreeInv, Named
<1>3. /\ SameObject(reactor'.core.holds[c], reactor.core.holds[d])
      /\ SameObject(reactor'.core.holds[d], reactor.core.holds[c])
      /\ \A e \in Cells : e # c /\ e # d => SameObject(reactor'.core.holds[e], reactor.core.holds[e])
  BY <1>1, <1>2, SwapShuffles
<1>4. UNCHANGED <<trackAssems, now, truth, serial, made>>
  BY DEF SwapAssemblies, MayShuffle
<1>5. CASE trackAssems
  BY <1>1, <1>2, <1>4, <1>5, ObjectsFollow, SerialsSame
<1>6. CASE ~trackAssems
  <2>1. DOMAIN reactor.pool.holds = {}
    BY <1>6 DEF SerialsInv, UntrackedPools
  <2>2. \A e \in Cells : \E f \in Cells : SameObject(reactor'.core.holds[f], reactor.core.holds[e])
    BY <1>3
  <2>3. ASSUME NEW x \in Objects(reactor) PROVE x \in Objects(reactor')
    <3>1. PICK p \in PlacesOf(reactor) : x \in ObjectsIn(At(reactor, p))
      BY <1>2, ObjectsAtPlaces
    <3>2. PICK e \in Cells : p = <<"core", e>> /\ At(reactor, p) = reactor.core.holds[e]
      BY <1>2, <2>1, InPlaces
    <3>3. PICK f \in Cells : SameObject(reactor'.core.holds[f], reactor.core.holds[e])
      BY <2>2
    <3>4. ObjectsIn(reactor'.core.holds[f]) = ObjectsIn(reactor.core.holds[e])
      BY <3>3, SameObjectSameIds, SameObjects
    <3>5. <<"core", f>> \in PlacesOf(reactor') /\ At(reactor', <<"core", f>>) = reactor'.core.holds[f]
      BY <1>2, InPlaces
    <3> QED
      BY <1>2, <3>1, <3>2, <3>4, <3>5, ObjectsAtPlaces
  <2>4. Objects(reactor') = Objects(reactor)
    <3>1. Objects(reactor') \subseteq Objects(reactor) \cup UNION {ObjectsIn(a) : a \in {}}
      BY <1>1, <1>2, ObjectsFollow
    <3> QED
      BY <2>3, <3>1
  <2> QED
    BY <1>1, <1>4, <2>4, SerialsSame
<1> QED
  BY <1>5, <1>6

(* Where nothing moves the objects are the same. *)
LEMMA StaysObjects ==
  ASSUME NEW r, NEW old, Stays(r, old), IsReactor(old)
  PROVE  Objects(r) = Objects(old)
<1>1. PlacesOf(r) = PlacesOf(old)
  BY DEF Stays, PlacesOf
<1>2. ASSUME NEW p \in PlacesOf(r) PROVE SameIds(At(r, p), At(old, p))
  <2>1. CASE \E c \in DOMAIN r.core.holds : p = <<"core", c>>
    BY <2>1, InPlaces DEF Stays
  <2>2. CASE \E c \in DOMAIN r.pool.holds : p = <<"pool", c>>
    BY <2>2, InPlaces DEF Stays
  <2> QED
    BY <2>1, <2>2, InPlaces
<1>3. \A p \in PlacesOf(r) : ObjectsIn(At(r, p)) = ObjectsIn(At(old, p))
  BY <1>2, SameObjects
<1>4. \A x : x \in Objects(r) <=> x \in Objects(old)
  BY <1>1, <1>3, ObjectsAtPlaces DEF Stays
<1> QED
  BY <1>4

(* Depleting. *)
LEMMA SerialsDeplete ==
  ASSUME NamesInv, SerialsInv, Deplete
  PROVE  SerialsInv'
<1>1. reactor' = DepletedReactor /\ Follows(reactor', reactor, {}) /\ IsReactor(reactor)
  BY NamesDeplete DEF NamesInv, TreeInv, Named
<1>2. Objects(reactor') = Objects(reactor)
  BY <1>1, DepletedStays, StaysObjects
<1>3. UNCHANGED <<trackAssems, now, truth, serial, made>>
  BY DEF Deplete
<1> QED
  BY <1>1, <1>2, <1>3, SerialsSame

(* Writing. *)
LEMMA SerialsWrite ==
  ASSUME NamesInv, SerialsInv, WriteToDB
  PROVE  SerialsInv'
<1>1. /\ now' = now + 1 /\ UNCHANGED <<reactor, serial, made, trackAssems, pooled>>
      /\ truth'[now] = reactor /\ \A t \in 0..now - 1 : truth'[t] = truth[t]
      /\ now \in Nat
  BY NamesWrite DEF NamesInv, FileInv
<1>2. \A t \in 0..now' - 1 : t \in 0..now - 1 \/ t = now
  BY <1>1
<1>3. Everything' \subseteq Everything
  BY <1>1, <1>2 DEF Everything
<1>4. Outlives(reactor, reactor)
  BY OutlivesSame DEF SerialsInv, Everything
<1>5. ASSUME NEW t \in 0..now' - 1
      PROVE  /\ Outlives(reactor', truth'[t])
             /\ \A u \in 0..t : Outlives(truth'[t], truth'[u])
  <2>1. CASE t = now
    <3>1. \A u \in 0..t : u \in 0..now - 1 \/ u = now
      BY <1>1, <2>1
    <3> QED
      BY <1>1, <1>4, <2>1, <3>1 DEF SerialsInv
  <2>2. CASE t \in 0..now - 1
    <3>1. \A u \in 0..t : u \in 0..now - 1
      BY <1>1, <2>2
    <3> QED
      BY <1>1, <2>2, <3>1 DEF SerialsInv
  <2> QED
    BY <1>2, <2>1, <2>2
<1>6. UntrackedPools'
  BY <1>1, <1>2 DEF SerialsInv, UntrackedPools
<1>7. Distinct(Everything')
  BY <1>3, DistinctPart DEF SerialsInv
<1> QED
  BY <1>1, <1>3, <1>5, <1>6, <1>7 DEF SerialsInv

(* Restarting: the serial number goes on above what was loaded, and so above the file that is kept. *)
LEMMA SerialsRestart ==
  ASSUME NamesInv, SerialsInv, NEW start \in 1..MaxTime, Restart(start)
  PROVE  SerialsInv'
<1>1. PICK u : u = start - 1
  OBVIOUS
<1>2. /\ u \in 0..now - 1 /\ now' = start /\ AlikeReactor(reactor', truth[u])
      /\ serial' = SerialAfterLoad(CreateLayout(truth[u]))
      /\ UNCHANGED <<made, trackAssems, pooled>>
      /\ \A t \in 0..u : t \in 0..now - 1 /\ truth'[t] = truth[t]
      /\ NamesInv'
  BY <1>1, NamesRestart
<1>3. 0..now' - 1 = 0..u /\ u \in Nat
  BY <1>1, <1>2
<1>4. IsReactor(truth[u]) /\ HasSerials(truth[u]) /\ pooled \in Nat
  BY <1>2 DEF NamesInv, FileInv, Named
<1>5. Objects(reactor') = Objects(truth[u])
  BY <1>2, <1>4, AlikeStays, StaysObjects
<1>6. Everything' \subseteq Everything
  BY <1>2, <1>3, <1>5 DEF Everything
<1>7. serial' \in Nat /\ \A x \in Objects(truth[u]) : x[2] <= serial'
  BY <1>2, <1>4, SerialGoesOn, ObjectsOf
<1>8. ASSUME NEW t \in 0..u
      PROVE  /\ Outlives(reactor', truth'[t])
             /\ \A v \in 0..t : Outlives(truth'[t], truth'[v])
             /\ \A x \in Objects(truth'[t]) : x[2] <= serial'
  <2>1. Outlives(truth[u], truth[t])
    BY <1>2 DEF SerialsInv
  <2>2. \A v \in 0..t : v \in 0..u
    BY <1>3
  <2>3. \A v \in 0..t : Outlives(truth[t], truth[v])
    BY <1>2 DEF SerialsInv
  <2>4. ASSUME NEW x \in Objects(truth[t]) PROVE x[2] <= serial'
    <3>1. PICK y \in Objects(truth[u]) : x[2] <= y[2]
      BY <2>1 DEF Outlives
    <3>2. x[2] \in Nat /\ y[2] \in Nat
      BY <1>2 DEF SerialsInv, Everything
    <3>3. y[2] <= serial'
      BY <1>7
    <3> QED
      BY <1>7, <3>1, <3>2, <3>3
  <2> QED
    BY <1>2, <1>5, <2>1, <2>2, <2>3, <2>4 DEF Outlives
<1>9. \A x \in Everything' : x[1] \in Nat /\ x[1] <= made' /\ x[2] \in Nat /\ x[2] <= serial'
  <2>1. \A x \in Everything' : x[1] \in Nat /\ x[1] <= made' /\ x[2] \in Nat
    BY <1>2, <1>6 DEF SerialsInv
  <2>2. \A x \in Everything' : x[2] <= serial'
    BY <1>3, <1>5, <1>7, <1>8 DEF Everything
  <2> QED
    BY <2>1, <2>2
<1>10. UntrackedPools'
  <2>1. DOMAIN reactor'.pool.holds = DOMAIN truth[u].pool.holds
    BY <1>2 DEF AlikeReactor, AlikeHolds
  <2> QED
    BY <1>2, <1>3, <2>1 DEF SerialsInv, UntrackedPools
<1>11. Distinct(Everything')
  BY <1>6, DistinctPart DEF SerialsInv
<1> QED
  BY <1>3, <1>8, <1>9, <1>10, <1>11 DEF SerialsInv

(* Every step keeps it. *)
LEMMA SerialsNext == NamesInv /\ SerialsInv /\ [Next]_vars => SerialsInv'
<1> SUFFICES ASSUME NamesInv, SerialsInv, [Next]_vars PROVE SerialsInv'
  OBVIOUS
<1>1. CASE UNCHANGED vars
  BY <1>1 DEF vars, SerialsInv, Everything, UntrackedPools
<1>2. ASSUME NEW cell \in Cells, LoadFresh(cell) PROVE SerialsInv'
  BY <1>2, SerialsFresh
<1>3. ASSUME NEW cell \in Cells, NEW place \in DOMAIN reactor.pool.holds, LoadFromPool(cell, place)
      PROVE  SerialsInv'
  BY <1>3, SerialsPool
<1>4. ASSUME NEW cell \in Cells, NEW other \in Cells \ {cell}, SwapAssemblies(cell, other) PROVE SerialsInv'
  BY <1>4, SerialsSwap
<1>5. CASE Deplete
  BY <1>5, SerialsDeplete
<1>6. CASE WriteToDB
  BY <1>6, SerialsWrite
<1>7. ASSUME NEW start \in 1..MaxTime, Restart(start) PROVE SerialsInv'
  BY <1>7, SerialsRestart
<1>8. CASE Done
  BY <1>1, <1>8 DEF Done
<1> QED
  BY <1>1, <1>2, <1>3, <1>4, <1>5, <1>6, <1>7, <1>8 DEF Next

(* The invariant gives the property. *)
LEMMA SerialsInvUnique == NamesInv /\ SerialsInv => SerialsAreUnique
<1> SUFFICES ASSUME NamesInv, SerialsInv PROVE SerialsAreUnique
  OBVIOUS
<1>1. DOMAIN truth = 0..now - 1
  BY DEF NamesInv, FileInv
<1>2. Everything = Objects(reactor) \cup UNION {Objects(truth[t]) : t \in DOMAIN truth}
  BY <1>1 DEF Everything
<1>3. \A x, y \in Everything : x[2] = y[2] => x[1] = y[1]
  BY DEF SerialsInv, Distinct
<1> QED
  BY <1>2, <1>3 DEF SerialsAreUnique


(***************************************************************************)
(* A serial number is never given twice (database.py:742-743), neither in  *)
(* the reactor nor in the statepoints that are kept, if a case that does   *)
(* not track discharged assemblies starts with an empty pool.              *)
(***************************************************************************)
THEOREM SerialsStayUnique ==
  ASSUME PoolsAreTracked
  PROVE  Spec => []SerialsAreUnique
<1>1. Init => NamesInv /\ SerialsInv
  BY NamesInit, SerialsInit
<1>2. NamesInv /\ SerialsInv /\ [Next]_vars => (NamesInv /\ SerialsInv)'
  BY NamesNext, SerialsNext
<1> QED
  BY <1>1, <1>2, SerialsInvUnique, PTL DEF Spec

-----------------------------------------------------------------------------
(***************************************************************************)
(* Jagged columns (jaggedArray.py).                                        *)
(***************************************************************************)

(* A jagged column comes back. *)
IsArrayOrNone(v) == v = None \/ \E s : IsList(s) /\ Len(s) # 0 /\ v = Array(s)

ArrayColumn(col) == IsList(col) /\ \A n \in 1..Len(col) : IsArrayOrNone(col[n])

NonesTo(col, n) == {m \in 1..n : col[m] = None}

(* The place of the n-th value among those that are not None. *)
Filled(col, n) == n - Cardinality(NonesTo(col, n - 1))

(* One value more. *)
LEMMA NonesGrow ==
  ASSUME NEW col, NEW n \in Nat
  PROVE  /\ IsFiniteSet(NonesTo(col, n)) /\ Cardinality(NonesTo(col, n)) \in 0..n
         /\ col[n + 1] = None => NonesTo(col, n + 1) = NonesTo(col, n) \cup {n + 1}
                                 /\ Cardinality(NonesTo(col, n + 1)) = Cardinality(NonesTo(col, n)) + 1
         /\ col[n + 1] # None => NonesTo(col, n + 1) = NonesTo(col, n)
<1>1. IsFiniteSet(1..n) /\ Cardinality(1..n) = n
  BY FS_Interval
<1>2. IsFiniteSet(NonesTo(col, n)) /\ Cardinality(NonesTo(col, n)) <= n /\ Cardinality(NonesTo(col, n)) \in Nat
  <2>1. NonesTo(col, n) \in SUBSET (1..n)
    BY DEF NonesTo
  <2> QED
    BY <1>1, <2>1, FS_Subset, FS_CardinalityType
<1>3. 1..n + 1 = (1..n) \cup {n + 1} /\ n + 1 \notin 1..n
  OBVIOUS
<1>4. ASSUME col[n + 1] = None PROVE NonesTo(col, n + 1) = NonesTo(col, n) \cup {n + 1}
  BY <1>3, <1>4 DEF NonesTo
<1>5. ASSUME col[n + 1] # None PROVE NonesTo(col, n + 1) = NonesTo(col, n)
  BY <1>3, <1>5 DEF NonesTo
<1>6. n + 1 \notin NonesTo(col, n)
  BY <1>3 DEF NonesTo
<1>7. Cardinality(NonesTo(col, n) \cup {n + 1}) = Cardinality(NonesTo(col, n)) + 1
  BY <1>2, <1>6, FS_AddElement
<1> QED
  BY <1>2, <1>4, <1>5, <1>7

(* What the loop has made of the first n values. *)
Stored(ds, col, m) ==
  LET k == Filled(col, m)
      s == col[m].is
  IN  /\ k \in 1..Len(ds.shapes) /\ ds.offsets[k] \in Nat /\ ds.shapes[k] = Len(s) /\ Len(s) \in Nat
      /\ ds.offsets[k] + Len(s) <= Len(ds.flat)
      /\ \A i \in 1..Len(s) : ds.flat[ds.offsets[k] + i] = s[i]

Holding(ds, col, n) ==
  /\ ds = [form |-> "jagged", flat |-> ds.flat, offsets |-> ds.offsets, shapes |-> ds.shapes, nones |-> ds.nones]
  /\ IsList(ds.flat) /\ IsList(ds.offsets) /\ IsList(ds.shapes)
  /\ ds.nones = NonesTo(col, n)
  /\ Len(ds.shapes) = n - Cardinality(NonesTo(col, n)) /\ Len(ds.offsets) = Len(ds.shapes)
  /\ \A m \in 1..n : col[m] # None => Stored(ds, col, m)

(* The loop before the first value. *)
LEMMA HoldingNothing ==
  ASSUME NEW col
  PROVE  Holding(NoArrays, col, 0)
<1>1. NonesTo(col, 0) = {} /\ Cardinality(NonesTo(col, 0)) = 0
  BY FS_EmptySet DEF NonesTo
<1>2. IsList(<<>>) /\ Len(<<>>) = 0
  BY NoList
<1> QED
  BY <1>1, <1>2 DEF Holding, NoArrays

(* A list with one element more. *)
LEMMA Appended ==
  ASSUME NEW s, IsList(s), NEW x
  PROVE  /\ IsList(Append(s, x)) /\ Len(Append(s, x)) = Len(s) + 1
         /\ Append(s, x)[Len(s) + 1] = x /\ \A i \in 1..Len(s) : Append(s, x)[i] = s[i]
<1> DEFINE S == {s[i] : i \in 1..Len(s)} \cup {x}
<1>1. s \in Seq(S) /\ x \in S
  BY SeqDef DEF IsList
<1>2. PICK t : t = Append(s, x)
  OBVIOUS
<1>3. t \in Seq(S) /\ Len(t) = Len(s) + 1 /\ t[Len(s) + 1] = x /\ \A i \in 1..Len(s) : t[i] = s[i]
  BY <1>1, <1>2, AppendProperties
<1>4. IsList(t)
  BY <1>3, LenProperties DEF IsList
<1> QED
  BY <1>2, <1>3, <1>4

(* The next value is None. *)
LEMMA HoldingNone ==
  ASSUME NEW ds, NEW col, NEW n \in Nat, Holding(ds, col, n), col[n + 1] = None
  PROVE  Holding(Extended(ds, n + 1, <<>>), col, n + 1)
<1>1. PICK o : o = ds.nones \cup {n + 1}
  OBVIOUS
<1>2. PICK e : e = Extended(ds, n + 1, <<>>)
  OBVIOUS
<1>3. e = [ds EXCEPT !.nones = o]
  BY <1>1, <1>2 DEF Extended
<1>4. e = [form |-> "jagged", flat |-> ds.flat, offsets |-> ds.offsets, shapes |-> ds.shapes, nones |-> o]
  BY <1>3 DEF Holding
<1>5. o = NonesTo(col, n + 1) /\ Cardinality(NonesTo(col, n + 1)) = Cardinality(NonesTo(col, n)) + 1
      /\ Cardinality(NonesTo(col, n)) \in Nat
  BY <1>1, NonesGrow DEF Holding
<1>6. n + 1 - Cardinality(NonesTo(col, n + 1)) = n - Cardinality(NonesTo(col, n))
  BY <1>5
<1>7. ASSUME NEW m \in 1..n + 1, col[m] # None PROVE Stored(e, col, m)
  <2>1. m \in 1..n
    BY <1>7
  <2>2. Stored(ds, col, m)
    BY <1>7, <2>1 DEF Holding
  <2> QED
    BY <1>4, <2>2 DEF Stored
<1> QED
  BY <1>2, <1>4, <1>5, <1>6, <1>7 DEF Holding

(* The next value is an array. *)
LEMMA HoldingArray ==
  ASSUME NEW ds, NEW col, NEW n \in Nat, Holding(ds, col, n), NEW s, IsList(s), Len(s) # 0,
         col[n + 1] = Array(s)
  PROVE  Holding(Extended(ds, n + 1, s), col, n + 1)
<1>1. PICK f, o, h : /\ f = ds.flat \o s /\ o = Append(ds.offsets, Len(ds.flat))
                     /\ h = Append(ds.shapes, Len(s))
  OBVIOUS
<1>2. PICK e : e = Extended(ds, n + 1, s)
  OBVIOUS
<1>3. s # <<>>
  BY NoList
<1>4. e = [ds EXCEPT !.flat = f, !.offsets = o, !.shapes = h]
  BY <1>1, <1>2, <1>3 DEF Extended
<1>5. e = [form |-> "jagged", flat |-> f, offsets |-> o, shapes |-> h, nones |-> ds.nones]
  <2>1. PICK x : x = [ds EXCEPT !.flat = f]
    OBVIOUS
  <2>2. x = [form |-> "jagged", flat |-> f, offsets |-> ds.offsets, shapes |-> ds.shapes, nones |-> ds.nones]
    BY <2>1 DEF Holding
  <2>3. PICK y : y = [x EXCEPT !.offsets = o]
    OBVIOUS
  <2>4. y = [form |-> "jagged", flat |-> f, offsets |-> o, shapes |-> ds.shapes, nones |-> ds.nones]
    BY <2>2, <2>3
  <2>5. [y EXCEPT !.shapes = h] = [form |-> "jagged", flat |-> f, offsets |-> o, shapes |-> h, nones |-> ds.nones]
    BY <2>4
  <2> QED
    BY <1>4, <2>1, <2>3, <2>5
<1>6. col[n + 1] # None /\ col[n + 1].is = s
  BY Kinds
<1>7. PICK c \in Nat : c = Cardinality(NonesTo(col, n)) /\ c <= n
  BY NonesGrow
<1>8. NonesTo(col, n + 1) = NonesTo(col, n)
  BY <1>6, NonesGrow
<1>9. /\ IsList(ds.flat) /\ IsList(ds.offsets) /\ IsList(ds.shapes) /\ ds.nones = NonesTo(col, n)
      /\ Len(ds.shapes) = n - c /\ Len(ds.offsets) = n - c
  BY <1>7 DEF Holding
<1>10. /\ IsList(f) /\ Len(f) = Len(ds.flat) + Len(s)
       /\ \A i \in 1..Len(ds.flat) : f[i] = ds.flat[i]
       /\ \A i \in 1..Len(s) : f[Len(ds.flat) + i] = s[i]
  <2>1. PICK g : g = ds.flat
    OBVIOUS
  <2>2. IsList(g) /\ IsList(s)
    BY <1>9, <2>1
  <2>3. /\ IsList(g \o s) /\ Len(g \o s) = Len(g) + Len(s)
        /\ \A i \in 1..Len(g) : (g \o s)[i] = g[i]
        /\ \A i \in 1..Len(s) : (g \o s)[Len(g) + i] = s[i]
    BY ONLY <2>2, ConcatLists
  <2> QED
    BY <1>1, <2>1, <2>3
<1>11. /\ IsList(o) /\ Len(o) = n - c + 1 /\ o[n - c + 1] = Len(ds.flat)
       /\ \A i \in 1..n - c : o[i] = ds.offsets[i]
       /\ IsList(h) /\ Len(h) = n - c + 1 /\ h[n - c + 1] = Len(s)
       /\ \A i \in 1..n - c : h[i] = ds.shapes[i]
  <2>1. /\ IsList(o) /\ Len(o) = Len(ds.offsets) + 1 /\ o[Len(ds.offsets) + 1] = Len(ds.flat)
        /\ \A i \in 1..Len(ds.offsets) : o[i] = ds.offsets[i]
    <3>1. PICK g, x : g = ds.offsets /\ x = Len(ds.flat)
      OBVIOUS
    <3>2. IsList(g)
      BY <1>9, <3>1
    <3>3. /\ IsList(Append(g, x)) /\ Len(Append(g, x)) = Len(g) + 1
          /\ Append(g, x)[Len(g) + 1] = x /\ \A i \in 1..Len(g) : Append(g, x)[i] = g[i]
      BY ONLY <3>2, Appended
    <3>4. o = Append(g, x)
      BY <1>1, <3>1
    <3> QED
      BY ONLY <3>1, <3>3, <3>4
  <2>2. /\ IsList(h) /\ Len(h) = Len(ds.shapes) + 1 /\ h[Len(ds.shapes) + 1] = Len(s)
        /\ \A i \in 1..Len(ds.shapes) : h[i] = ds.shapes[i]
    <3>1. PICK g, x : g = ds.shapes /\ x = Len(s)
      OBVIOUS
    <3>2. IsList(g)
      BY <1>9, <3>1
    <3>3. /\ IsList(Append(g, x)) /\ Len(Append(g, x)) = Len(g) + 1
          /\ Append(g, x)[Len(g) + 1] = x /\ \A i \in 1..Len(g) : Append(g, x)[i] = g[i]
      BY ONLY <3>2, Appended
    <3>4. h = Append(g, x)
      BY <1>1, <3>1
    <3> QED
      BY ONLY <3>1, <3>3, <3>4
  <2>3. PICK q : q = n - c
    OBVIOUS
  <2>4. Len(ds.shapes) = q /\ Len(ds.offsets) = q
    BY ONLY <1>9, <2>3
  <2> QED
    BY ONLY <2>1, <2>2, <2>3, <2>4
<1>12. Len(ds.flat) \in Nat /\ Len(s) \in Nat
  BY <1>9 DEF IsList
<1>13. e.flat = f /\ e.offsets = o /\ e.shapes = h /\ e.nones = ds.nones
  BY <1>5
<1>14. ASSUME NEW m \in 1..n, col[m] # None PROVE Stored(e, col, m)
  <2>1. Stored(ds, col, m)
    BY <1>14 DEF Holding
  <2>2. PICK k, t : k = Filled(col, m) /\ t = col[m].is
    OBVIOUS
  <2>3. /\ k \in 1..n - c /\ ds.offsets[k] \in Nat /\ ds.shapes[k] = Len(t) /\ Len(t) \in Nat
        /\ ds.offsets[k] + Len(t) <= Len(ds.flat)
        /\ \A i \in 1..Len(t) : ds.flat[ds.offsets[k] + i] = t[i]
    BY <1>9, <2>1, <2>2 DEF Stored
  <2>4. k \in 1..Len(h) /\ o[k] = ds.offsets[k] /\ h[k] = Len(t)
    <3>1. PICK q : q = n - c
      OBVIOUS
    <3>2. q \in Int
      BY <1>7, <3>1
    <3>3. k \in 1..q /\ Len(h) = q + 1 /\ o[k] = ds.offsets[k] /\ h[k] = ds.shapes[k]
      BY <1>11, <2>3, <3>1
    <3>4. k \in 1..q + 1
      BY ONLY <3>2, <3>3
    <3> QED
      BY ONLY <2>3, <3>3, <3>4
  <2>5. \A i \in 1..Len(t) : f[ds.offsets[k] + i] = t[i]
    <3> SUFFICES ASSUME NEW i \in 1..Len(t) PROVE f[ds.offsets[k] + i] = t[i]
      OBVIOUS
    <3>1. ds.offsets[k] + i \in 1..Len(ds.flat)
      <4>1. PICK a \in Nat, b \in Nat, l \in Nat : a = ds.offsets[k] /\ b = Len(t) /\ l = Len(ds.flat)
        BY <1>12, <2>3
      <4>2. a + b <= l /\ i \in 1..b
        BY <2>3, <4>1
      <4>3. a + i \in 1..l
        BY ONLY <4>1, <4>2
      <4> QED
        BY <4>1, <4>3
    <3> QED
      BY <1>10, <2>3, <3>1
  <2>6. ds.offsets[k] + Len(t) <= Len(f)
    <3>1. PICK a \in Nat, b \in Nat, l \in Nat, w \in Nat :
            a = ds.offsets[k] /\ b = Len(t) /\ l = Len(ds.flat) /\ w = Len(s)
      BY <1>12, <2>3
    <3>2. a + b <= l /\ Len(f) = l + w
      BY <1>10, <2>3, <3>1
    <3>3. a + b <= l + w
      BY ONLY <3>1, <3>2
    <3> QED
      BY <3>1, <3>2, <3>3
  <2> QED
    BY <1>13, <2>2, <2>3, <2>4, <2>5, <2>6 DEF Stored
<1>15. Stored(e, col, n + 1)
  <2>1. Filled(col, n + 1) = n - c + 1
    <3>1. n + 1 - 1 = n
      OBVIOUS
    <3> QED
      BY <1>7, <3>1 DEF Filled
  <2>2. n - c + 1 \in 1..Len(h)
    BY <1>7, <1>11
  <2>3. PICK k : k = n - c + 1
    OBVIOUS
  <2>4. k = Filled(col, n + 1) /\ k \in 1..Len(h) /\ o[k] = Len(ds.flat) /\ h[k] = Len(s)
    BY <1>11, <2>1, <2>2, <2>3
  <2> HIDE DEF Filled
  <2> QED
    <3>1. /\ k \in 1..Len(e.shapes) /\ e.offsets[k] = Len(ds.flat) /\ e.shapes[k] = Len(s)
          /\ Len(e.flat) = Len(ds.flat) + Len(s) /\ \A i \in 1..Len(s) : e.flat[Len(ds.flat) + i] = s[i]
      BY <1>10, <1>13, <2>4
    <3>2. Len(ds.flat) + Len(s) <= Len(e.flat)
      BY <1>12, <3>1
    <3> QED
      BY <1>6, <1>12, <2>4, <3>1, <3>2 DEF Stored
<1>16. Len(h) = (n + 1) - Cardinality(NonesTo(col, n + 1)) /\ Len(o) = Len(h)
  BY <1>7, <1>8, <1>11
<1>17. \A m \in 1..n + 1 : m \in 1..n \/ m = n + 1
  OBVIOUS
<1> QED
  BY <1>2, <1>5, <1>8, <1>9, <1>10, <1>11, <1>13, <1>14, <1>15, <1>16, <1>17 DEF Holding

(* The loop of JaggedArray over the first k values. *)
Loop(F, col, k) ==
  F = [n \in 0..k |-> IF n = 0 THEN NoArrays ELSE Extended(F[n-1], n, Flattened(col[n]))]

(* The loop exists, whatever the length of the column. *)
LEMMA LoopExists ==
  ASSUME NEW col, NEW k \in Nat
  PROVE  \E F : Loop(F, col, k)
<1> DEFINE Has(n) == \E F : Loop(F, col, n)
           S == {n \in Nat : ~Has(n)}
<1>1. ASSUME S # {} PROVE FALSE
  <2>1. PICK n \in S : \A m \in S : n <= m
    BY <1>1, LeastNumber
  <2>2. n \in Nat /\ ~Has(n)
    BY <2>1
  <2>3. CASE n = 0
    <3>1. PICK F : F = [i \in {0} |-> NoArrays]
      OBVIOUS
    <3>2. F = [i \in 0..0 |-> IF i = 0 THEN NoArrays ELSE Extended(F[i-1], i, Flattened(col[i]))]
      BY <3>1
    <3> QED
      BY <2>2, <2>3, <3>2 DEF Loop
  <2>4. CASE n # 0
    <3>1. n - 1 \in Nat /\ n - 1 \notin S
      BY <2>1, <2>2, <2>4
    <3>2. PICK g : Loop(g, col, n - 1)
      BY <3>1
    <3>3. PICK v : v = Extended(g[n-1], n, Flattened(col[n]))
      OBVIOUS
    <3>4. PICK f : f = [i \in 0..n |-> IF i = n THEN v ELSE g[i]]
      OBVIOUS
    <3>5. f = [i \in 0..n |-> f[i]]
      BY <3>4
    <3>6. \A i \in 0..n - 1 : f[i] = g[i]
      BY <2>2, <3>4
    <3>7. f[n] = v
      BY <2>2, <3>4
    <3>8. ASSUME NEW i \in 0..n
          PROVE  f[i] = IF i = 0 THEN NoArrays ELSE Extended(f[i-1], i, Flattened(col[i]))
      <4>1. CASE i = n
        <5>1. n - 1 \in 0..n - 1 /\ i # 0
          BY <2>2, <2>4, <4>1
        <5>2. f[i-1] = g[n-1]
          BY <3>6, <4>1, <5>1
        <5> QED
          BY <3>3, <3>7, <4>1, <5>1, <5>2
      <4>2. CASE i # n
        <5>1. i \in 0..n - 1
          BY <2>2, <4>2
        <5>2. g[i] = IF i = 0 THEN NoArrays ELSE Extended(g[i-1], i, Flattened(col[i]))
          BY <3>2, <5>1 DEF Loop
        <5>3. i # 0 => i - 1 \in 0..n - 1
          BY <5>1
        <5>4. i # 0 => f[i-1] = g[i-1]
          BY <3>6, <5>3
        <5> QED
          BY <3>6, <5>1, <5>2, <5>4
      <4> QED
        BY <4>1, <4>2
    <3>9. Loop(f, col, n)
      BY <3>5, <3>8 DEF Loop
    <3> QED
      BY <2>2, <3>9
  <2> QED
    BY <2>3, <2>4
<1> QED
  BY <1>1

(* JaggedArray is its last value. *)
LEMMA LoopOf ==
  ASSUME NEW col, IsList(col)
  PROVE  \E F : Loop(F, col, Len(col)) /\ JaggedArray(col) = F[Len(col)]
<1> DEFINE F == CHOOSE F : Loop(F, col, Len(col))
<1>1. Len(col) \in Nat
  BY DEF IsList
<1>2. Loop(F, col, Len(col))
  BY <1>1, LoopExists
<1>3. JaggedArray(col) = F[Len(col)]
  BY DEF JaggedArray, Loop
<1> QED
  BY <1>2, <1>3

(* It holds the whole column. *)
LEMMA HoldsAll ==
  ASSUME NEW col, ArrayColumn(col)
  PROVE  Holding(JaggedArray(col), col, Len(col))
<1>1. Len(col) \in Nat /\ IsList(col)
  BY DEF ArrayColumn, IsList
<1>2. PICK F : Loop(F, col, Len(col)) /\ JaggedArray(col) = F[Len(col)]
  BY <1>1, LoopOf
<1> DEFINE S == {n \in Nat : n <= Len(col) /\ ~Holding(F[n], col, n)}
<1>3. ASSUME S # {} PROVE FALSE
  <2>1. PICK n \in S : \A m \in S : n <= m
    BY <1>3, LeastNumber
  <2>2. n \in Nat /\ n <= Len(col) /\ ~Holding(F[n], col, n)
    BY <2>1
  <2>3. F[n] = IF n = 0 THEN NoArrays ELSE Extended(F[n-1], n, Flattened(col[n]))
    <3>1. n \in 0..Len(col)
      BY <1>1, <2>2
    <3> QED
      BY <1>2, <3>1 DEF Loop
  <2>4. CASE n = 0
    BY <2>2, <2>3, <2>4, HoldingNothing
  <2>5. CASE n # 0
    <3>1. PICK i \in Nat : n = i + 1 /\ i = n - 1
      BY <2>2, <2>5
    <3>2. i \notin S /\ i <= Len(col) /\ n \in 1..Len(col)
      BY <1>1, <2>1, <2>2, <3>1
    <3>3. PICK ds : ds = F[i]
      OBVIOUS
    <3>4. Holding(ds, col, i)
      BY <3>2, <3>3
    <3>5. F[n] = Extended(ds, i + 1, Flattened(col[n]))
      BY <2>3, <2>5, <3>1, <3>3
    <3>6. IsArrayOrNone(col[i + 1])
      BY <3>1, <3>2 DEF ArrayColumn
    <3>7. CASE col[i + 1] = None
      <4>1. Flattened(col[n]) = <<>>
        BY <3>1, <3>7, Kinds DEF Flattened
      <4> QED
        BY <2>2, <3>1, <3>4, <3>5, <3>7, <4>1, HoldingNone
    <3>8. CASE col[i + 1] # None
      <4>1. PICK s : IsList(s) /\ Len(s) # 0 /\ col[i + 1] = Array(s)
        BY <3>6, <3>8 DEF IsArrayOrNone
      <4>2. Flattened(col[n]) = s
        BY <3>1, <4>1, Kinds DEF Flattened
      <4> QED
        BY <2>2, <3>1, <3>4, <3>5, <4>1, <4>2, HoldingArray
    <3> QED
      BY <3>7, <3>8
  <2> QED
    BY <2>4, <2>5
<1> QED
  BY <1>1, <1>2, <1>3

(* A slice that holds s is s. *)
LEMMA SliceOf ==
  ASSUME NEW f, IsList(f), NEW o \in Nat, NEW s, IsList(s), o + Len(s) <= Len(f),
         \A i \in 1..Len(s) : f[o + i] = s[i]
  PROVE  SubSeq(f, o + 1, o + Len(s)) = s
<1>1. PICK n \in Nat : n = Len(s)
  BY DEF IsList
<1>2. PICK m : m = o + 1
  OBVIOUS
<1>3. PICK l : l = o + n
  OBVIOUS
<1>4. m \in Int /\ l \in Int /\ l - m + 1 = n /\ (m <= l <=> n # 0)
  BY <1>2, <1>3
<1>5. PICK S : S = {f[i] : i \in m..l}
  OBVIOUS
<1>6. \A i \in m..l : f[i] \in S
  BY <1>5
<1>7. PICK t : t = SubSeq(f, m, l)
  OBVIOUS
<1>8. /\ t \in Seq(S) /\ Len(t) = (IF m <= l THEN l - m + 1 ELSE 0)
      /\ \A i \in 1..l - m + 1 : t[i] = f[m + i - 1]
  BY <1>4, <1>6, <1>7, SubSeqProperties
<1>9. Len(t) = n
  BY <1>4, <1>8
<1>10. IsList(t)
  BY <1>8, LenProperties DEF IsList
<1>11. ASSUME NEW i \in 1..n PROVE t[i] = s[i]
  <2>1. t[i] = f[m + i - 1] /\ m + i - 1 = o + i
    BY <1>2, <1>4, <1>8
  <2> QED
    BY <1>1, <2>1
<1>12. t = s
  BY <1>1, <1>9, <1>10, <1>11, SameLists
<1> QED
  BY <1>1, <1>2, <1>3, <1>7, <1>12

(* A column of arrays and Nones comes back from a jagged dataset. *)
LEMMA JaggedComesBack ==
  ASSUME NEW col, ArrayColumn(col)
  PROVE  Unjagged(JaggedArray(col)) = col /\ JaggedArray(col).form = "jagged"
<1>1. PICK ds : ds = JaggedArray(col)
  OBVIOUS
<1>2. PICK N \in Nat : N = Len(col)
  BY DEF ArrayColumn, IsList
<1>3. Holding(ds, col, N)
  BY <1>1, <1>2, HoldsAll
<1>4. PICK c \in Nat : c = Cardinality(NonesTo(col, N)) /\ c <= N
  BY NonesGrow
<1>5. /\ ds.nones = NonesTo(col, N) /\ Len(ds.shapes) = N - c
      /\ IsList(ds.flat)
  BY <1>3, <1>4 DEF Holding
<1>6. Len(ds.shapes) + Cardinality(ds.nones) = N
  BY <1>4, <1>5
<1>7. ASSUME NEW n \in 1..N
      PROVE  n - Cardinality({m \in ds.nones : m < n}) = Filled(col, n)
  <2>1. {m \in ds.nones : m < n} = NonesTo(col, n - 1)
    BY <1>5 DEF NonesTo
  <2> QED
    BY <2>1 DEF Filled
<1> DEFINE Value(n) ==
             IF n \in ds.nones THEN None
             ELSE LET k == n - Cardinality({m \in ds.nones : m < n})
                  IN  Array(SubSeq(ds.flat, ds.offsets[k] + 1, ds.offsets[k] + ds.shapes[k]))
<1>8. Unjagged(ds) = [n \in 1..N |-> Value(n)]
  BY <1>6 DEF Unjagged
<1>9. ASSUME NEW n \in 1..N PROVE Value(n) = col[n]
  <2>1. CASE col[n] = None
    <3>1. n \in ds.nones
      BY <1>5, <2>1 DEF NonesTo
    <3> QED
      BY <2>1, <3>1
  <2>2. CASE col[n] # None
    <3>1. n \notin ds.nones
      BY <1>5, <2>2 DEF NonesTo
    <3>2. PICK s : IsList(s) /\ Len(s) # 0 /\ col[n] = Array(s)
      BY <1>2, <2>2 DEF ArrayColumn, IsArrayOrNone
    <3>3. col[n].is = s
      BY <3>2, Kinds
    <3>4. PICK k : k = Filled(col, n)
      OBVIOUS
    <3>5. Stored(ds, col, n)
      BY <1>3, <2>2 DEF Holding
    <3>6. PICK o, f : o = ds.offsets[k] /\ f = ds.flat
      OBVIOUS
    <3>7. /\ o \in Nat /\ ds.shapes[k] = Len(s) /\ o + Len(s) <= Len(f)
          /\ \A i \in 1..Len(s) : f[o + i] = s[i]
      BY <3>3, <3>4, <3>5, <3>6 DEF Stored
    <3>8. SubSeq(f, o + 1, o + Len(s)) = s
      BY <1>5, <3>2, <3>6, <3>7, SliceOf
    <3>9. k = n - Cardinality({m \in ds.nones : m < n})
      BY <1>7, <3>4
    <3> QED
      BY <3>1, <3>2, <3>6, <3>7, <3>8, <3>9
  <2> QED
    BY <2>1, <2>2
<1> HIDE DEF Value
<1>10. [n \in 1..N |-> Value(n)] = col
  <2>1. col = [n \in 1..N |-> col[n]]
    BY <1>2 DEF ArrayColumn, IsList
  <2> QED
    BY <1>9, <2>1
<1>11. ds.form = "jagged"
  BY <1>3 DEF Holding
<1> QED
  BY <1>1, <1>8, <1>10, <1>11

IsNumberOrNone(v) == v = None \/ (v # NaN /\ \E x : v = Number(x))

(* The values of one kind: arrays that are not empty, or numbers, or None. *)
OneKind(V) == \/ \A v \in V : IsArrayOrNone(v)
              \/ \A v \in V : IsNumberOrNone(v)

(* A column of only Nones is not written. *)
LEMMA NonesComeBack ==
  ASSUME NEW col, IsList(col), \A n \in 1..Len(col) : col[n] = None
  PROVE  Unpacked(Packed(col), Len(col)) = col
<1>1. Arrays(col) = {} /\ Nones(col) = 1..Len(col)
  BY Kinds DEF Arrays, Nones
<1>2. Packed(col) = NotWritten
  BY <1>1 DEF Packed, IsJagged
<1>3. Unpacked(NotWritten, Len(col)) = [n \in 1..Len(col) |-> None]
  BY DEF Unpacked, NotWritten
<1>4. [n \in 1..Len(col) |-> None] = col
  BY DEF IsList
<1> QED
  BY <1>2, <1>3, <1>4

(* A column of numbers and Nones comes back. *)
LEMMA NumbersComeBack ==
  ASSUME NEW col, IsList(col), \A n \in 1..Len(col) : IsNumberOrNone(col[n])
  PROVE  Unpacked(Packed(col), Len(col)) = col
<1>1. Arrays(col) = {}
  BY Kinds DEF Arrays, IsNumberOrNone
<1>2. ~IsJagged(col)
  BY <1>1 DEF IsJagged
<1>3. CASE Nones(col) = 1..Len(col)
  BY <1>3, NonesComeBack DEF Nones
<1>4. CASE Nones(col) # 1..Len(col)
  <2>1. PICK d : d = [n \in 1..Len(col) |-> IF col[n] = None THEN NaN ELSE col[n]]
    OBVIOUS
  <2>2. PICK f : f = IF Nones(col) = {} THEN "plain" ELSE "nones"
    OBVIOUS
  <2>3. Packed(col) = [form |-> f, data |-> d]
    BY <1>2, <1>4, <2>1, <2>2 DEF Packed
  <2>4. CASE Nones(col) = {}
    <3>1. \A n \in 1..Len(col) : col[n] # None
      BY <2>4 DEF Nones
    <3>2. d = col
      BY <2>1, <3>1 DEF IsList
    <3>3. f = "plain"
      BY <2>2, <2>4
    <3> QED
      BY <2>3, <3>2, <3>3 DEF Unpacked
  <2>5. CASE Nones(col) # {}
    <3>1. f = "nones"
      BY <2>2, <2>5
    <3>2. Unpacked(Packed(col), Len(col)) = [n \in 1..Len(col) |-> IF d[n] = NaN THEN None ELSE d[n]]
      BY <2>3, <3>1 DEF Unpacked
    <3>3. ASSUME NEW n \in 1..Len(col) PROVE (IF d[n] = NaN THEN None ELSE d[n]) = col[n]
      BY <2>1 DEF IsNumberOrNone
    <3>4. col = [n \in 1..Len(col) |-> col[n]]
      BY DEF IsList
    <3> QED
      BY <3>2, <3>3, <3>4
  <2> QED
    BY <2>4, <2>5
<1> QED
  BY <1>3, <1>4

(* In a column of arrays that is not jagged there is no None beside an array. *)
LEMMA NotJagged ==
  ASSUME NEW col, ArrayColumn(col), ~IsJagged(col), NEW i \in 1..Len(col), col[i] = None
  PROVE  \A n \in 1..Len(col) : col[n] = None
<1> SUFFICES ASSUME NEW n \in 1..Len(col), col[n] # None PROVE FALSE
  OBVIOUS
<1>1. PICK s : IsList(s) /\ col[n] = Array(s)
  BY DEF ArrayColumn, IsArrayOrNone
<1>2. n \in Arrays(col)
  BY <1>1, Kinds DEF Arrays
<1>3. PICK T : T = {Shape(v) : v \in ToSet(col)}
  OBVIOUS
<1>4. Cardinality(T) = 1
  BY <1>2, <1>3 DEF IsJagged
<1>5. Len(col) \in Nat /\ DOMAIN col = 1..Len(col)
  BY LenOf DEF ArrayColumn, IsList
<1>6. IsFiniteSet(T)
  <2>1. PICK f : f = [m \in 1..Len(col) |-> Shape(col[m])]
    OBVIOUS
  <2>2. \A m \in 1..Len(col) : f[m] \in T
    BY <1>3, <1>5, <2>1 DEF ToSet
  <2>3. \A t \in T : \E m \in 1..Len(col) : f[m] = t
    BY <1>3, <1>5, <2>1 DEF ToSet
  <2>4. f \in Surjection(1..Len(col), T)
    BY <2>1, <2>2, <2>3 DEF Surjection
  <2>5. IsFiniteSet(1..Len(col))
    BY <1>5, FS_Interval
  <2> QED
    BY <2>4, <2>5, FS_Surjection
<1>7. PICK t : T = {t}
  BY <1>4, <1>6, FS_Singleton
<1>8. Shape(col[i]) = -1
  BY Kinds DEF Shape
<1>9. Shape(col[n]) \in Nat
  BY <1>1, Kinds DEF Shape, IsList
<1>10. Shape(col[i]) = t /\ Shape(col[n]) = t
  BY <1>3, <1>5, <1>7 DEF ToSet
<1> QED
  BY <1>8, <1>9, <1>10

(* A column of arrays and Nones comes back, jagged or not. *)
LEMMA ArraysComeBack ==
  ASSUME NEW col, ArrayColumn(col)
  PROVE  Unpacked(Packed(col), Len(col)) = col
<1>1. CASE \A n \in 1..Len(col) : col[n] = None
  BY <1>1, NonesComeBack DEF ArrayColumn
<1>2. CASE ~(\A n \in 1..Len(col) : col[n] = None)
  <2>1. PICK n \in 1..Len(col) : col[n] # None
    BY <1>2
  <2>2. PICK s : IsList(s) /\ Len(s) # 0 /\ col[n] = Array(s)
    BY <2>1 DEF ArrayColumn, IsArrayOrNone
  <2>3. CASE IsJagged(col)
    <3>1. Flattened(col[n]) # <<>>
      <4>1. Flattened(col[n]) = s
        BY <2>2, Kinds DEF Flattened
      <4> QED
        BY <2>2, <4>1, NoList
    <3>2. Packed(col) = JaggedArray(col)
      BY <2>3, <3>1 DEF Packed
    <3> QED
      BY <3>2, JaggedComesBack DEF Unpacked
  <2>4. CASE ~IsJagged(col)
    <3>1. \A i \in 1..Len(col) : col[i] # None
      BY <1>2, <2>4, NotJagged
    <3>2. Nones(col) = {} /\ Nones(col) # 1..Len(col)
      BY <2>1, <3>1 DEF Nones
    <3>3. [i \in 1..Len(col) |-> IF col[i] = None THEN NaN ELSE col[i]] = col
      BY <3>1 DEF ArrayColumn, IsList
    <3>4. Packed(col) = [form |-> "plain", data |-> col]
      BY <2>4, <3>2, <3>3 DEF Packed
    <3> QED
      BY <3>4 DEF Unpacked
  <2> QED
    BY <2>3, <2>4
<1> QED
  BY <1>1, <1>2

(* So does a column of values of one kind and Nones. *)
LEMMA ColumnComesBack ==
  ASSUME NEW col, IsList(col), NEW V, OneKind(V), \A n \in 1..Len(col) : col[n] = None \/ col[n] \in V
  PROVE  Unpacked(Packed(col), Len(col)) = col
<1>1. CASE \A v \in V : IsArrayOrNone(v)
  <2>1. ArrayColumn(col)
    BY <1>1 DEF ArrayColumn, IsArrayOrNone
  <2> QED
    BY <2>1, ArraysComeBack
<1>2. CASE \A v \in V : IsNumberOrNone(v)
  <2>1. \A n \in 1..Len(col) : IsNumberOrNone(col[n])
    BY <1>2 DEF IsNumberOrNone
  <2> QED
    BY <2>1, NumbersComeBack
<1> QED
  BY <1>1, <1>2 DEF OneKind

-----------------------------------------------------------------------------
(***************************************************************************)
(* The values that the solver gives, and what a restart loads.             *)
(***************************************************************************)

Solver == {QValues[i] : i \in 1..Len(QValues)}

(* The values of q are None or one that the solver gives. *)
SolvedAssembly(a) == \A k \in 1..NBlocks : a.blocks[k].q = None \/ a.blocks[k].q \in Solver
Solved(r)         == \A p \in PlacesOf(r) : SolvedAssembly(At(r, p))

ValuesOfOneKind == IsList(QValues) /\ Len(QValues) # 0 /\ OneKind(Solver)

(* The column of q comes back. *)
LEMMA SolvedComesBack ==
  ASSUME NEW r, IsReactor(r), Solved(r), ValuesOfOneKind
  PROVE  QComesBack(r)
<1>1. IsTree(r) /\ NAll(r) \in Nat /\ NBlocks \in Nat
  BY ReactorIsTree, TreeNumbers, NBlocksNumber
<1>2. PICK n \in Nat : n = NAll(r) * NBlocks
  BY <1>1, Products
<1>3. PICK blocks : blocks = GroupedBlocks(r)
  OBVIOUS
<1>4. /\ IsList(blocks) /\ Len(blocks) = n
      /\ \A j \in 1..NAll(r), k \in 1..NBlocks : blocks[(j - 1) * NBlocks + k] = AssemblyAt(r, j).blocks[k]
  BY <1>1, <1>2, <1>3, Grouped
<1>5. PICK col : col = QColumn(blocks)
  OBVIOUS
<1>6. col = [i \in 1..n |-> col[i]] /\ \A i \in 1..n : col[i] = blocks[i].q
  BY <1>4, <1>5 DEF QColumn
<1>7. IsList(col) /\ Len(col) = n
  BY <1>6, LenOf
<1>8. ASSUME NEW i \in 1..n PROVE col[i] = None \/ col[i] \in Solver
  <2>1. PICK j \in 1..NAll(r) : \E k \in 1..NBlocks : i = (j - 1) * NBlocks + k
    <3>1. i \in Nat /\ i >= 1 /\ i <= NAll(r) * NBlocks
      BY <1>2
    <3> QED
      BY ONLY <1>1, <3>1, BlockOf
  <2>2. PICK k \in 1..NBlocks : i = (j - 1) * NBlocks + k
    BY <2>1
  <2>3. blocks[i] = AssemblyAt(r, j).blocks[k]
    BY <1>4, <2>2
  <2>4. PICK p \in PlacesOf(r) : AssemblyAt(r, j) = At(r, p)
    BY PlacesAndRows
  <2>5. SolvedAssembly(AssemblyAt(r, j))
    BY <2>4 DEF Solved
  <2> QED
    BY <1>6, <2>3, <2>5 DEF SolvedAssembly
<1>9. OneKind(Solver)
  BY DEF ValuesOfOneKind
<1>10. Unpacked(Packed(col), Len(col)) = col
  BY <1>7, <1>8, <1>9, ColumnComesBack
<1> QED
  BY <1>2, <1>3, <1>5, <1>7, <1>10 DEF QComesBack

SolvedInv == Solved(reactor) /\ \A t \in 0..now - 1 : Solved(truth[t])

(* The same object has the same values. *)
LEMMA SameSolved ==
  ASSUME NEW x, NEW a, SameObject(x, a), SolvedAssembly(a)
  PROVE  SolvedAssembly(x)
BY DEF SameObject, SolvedAssembly

(* A new assembly has none yet. *)
LEMMA NewSolved ==
  ASSUME NEW a, \A k \in 1..NBlocks : a.blocks[k].q = None
  PROVE  SolvedAssembly(a)
BY DEF SolvedAssembly

(* It holds at first. *)
LEMMA SolvedInit == Init => SolvedInv
<1> SUFFICES ASSUME Init PROVE SolvedInv
  OBVIOUS
<1>1. PICK s \in Settings : reactor = FromBlueprints(s[2])
  BY DEF Init
<1>2. PICK n \in Nat : n = s[2]
  BY SettingsAssumption
<1>3. /\ Cardinality(Cells) \in Nat
      /\ \A p \in PlacesOf(reactor) : /\ BlueprintAt(p) \in 1..Cardinality(Cells) + n
                                      /\ SameObject(At(reactor, p), Blueprint(BlueprintAt(p)))
  BY <1>1, <1>2, FirstReactor, FirstPlaces
<1>4. ASSUME NEW p \in PlacesOf(reactor) PROVE SolvedAssembly(At(reactor, p))
  <2>1. PICK i \in Nat : i = BlueprintAt(p) /\ i >= 1
    BY <1>2, <1>3
  <2>2. SolvedAssembly(Blueprint(i))
    BY <2>1, BlueprintFacts, NewSolved
  <2> QED
    BY <1>3, <2>1, <2>2, SameSolved
<1>5. 0..now - 1 = {}
  BY DEF Init
<1> QED
  BY <1>4, <1>5 DEF SolvedInv, Solved

(* Shuffling moves the values with the objects. *)
LEMMA ShuffledSolved ==
  ASSUME NEW r, NEW old, NEW new, Shuffled(r, old, new), Solved(old), \A a \in new : SolvedAssembly(a)
  PROVE  Solved(r)
<1>1. PICK s : Rearranged(s, r, old, new)
  BY DEF Shuffled
<1>2. ASSUME NEW p \in PlacesOf(r) PROVE SolvedAssembly(At(r, p))
  <2>1. CASE s[p] \in PlacesOf(old) /\ SameObject(At(r, p), At(old, s[p]))
    <3>1. SolvedAssembly(At(old, s[p]))
      BY <2>1 DEF Solved
    <3> QED
      BY <2>1, <3>1, SameSolved
  <2>2. CASE \E a \in new : SameObject(At(r, p), a)
    BY <2>2, SameSolved
  <2> QED
    BY <1>1, <2>1, <2>2 DEF Rearranged
<1> QED
  BY <1>2 DEF Solved

(* Loading a fresh assembly. *)
LEMMA SolvedFresh ==
  ASSUME NamesInv, SolvedInv, NEW cell \in Cells, LoadFresh(cell)
  PROVE  SolvedInv'
<1>1. Shuffled(reactor', reactor, {FreshAssembly})
  BY NamesFresh
<1>2. serial \in Nat /\ made \in Nat /\ reactor.max \in Nat
  BY DEF NamesInv, TreeInv, Named, Numbered
<1>3. SolvedAssembly(FreshAssembly)
  BY <1>2, FreshFacts, NewSolved
<1>4. Solved(reactor')
  BY <1>1, <1>3, ShuffledSolved DEF SolvedInv
<1> QED
  BY <1>4 DEF LoadFresh, MayShuffle, SolvedInv

(* Loading one from the pool. *)
LEMMA SolvedPool ==
  ASSUME NamesInv, SolvedInv, NEW cell \in Cells, NEW place \in DOMAIN reactor.pool.holds, LoadFromPool(cell, place)
  PROVE  SolvedInv'
<1>1. Shuffled(reactor', reactor, {})
  BY NamesPool
<1>2. Solved(reactor')
  BY <1>1, ShuffledSolved DEF SolvedInv
<1> QED
  BY <1>2 DEF LoadFromPool, MayShuffle, SolvedInv

(* Swapping. *)
LEMMA SolvedSwap ==
  ASSUME NamesInv, SolvedInv, NEW c \in Cells, NEW d \in Cells \ {c}, SwapAssemblies(c, d)
  PROVE  SolvedInv'
<1>1. reactor' = Swapped(c, d)
  BY NamesSwap
<1>2. IsReactor(reactor) /\ DOMAIN reactor.core.holds = Cells
  BY DEF NamesInv, TreeInv, Named
<1>3. Shuffled(reactor', reactor, {})
  BY <1>1, <1>2, SwapShuffles
<1>4. Solved(reactor')
  BY <1>3, ShuffledSolved DEF SolvedInv
<1> QED
  BY <1>4 DEF SwapAssemblies, MayShuffle, SolvedInv

(* Depleting gives values of the solver. *)
LEMMA SolvedDeplete ==
  ASSUME NamesInv, SolvedInv, ValuesOfOneKind, Deplete
  PROVE  SolvedInv'
<1>1. IsReactor(reactor) /\ HasSerials(reactor) /\ now \in Nat
  BY DEF NamesInv, TreeInv, Named, FileInv
<1>2. reactor' = DepletedReactor
  BY NamesDeplete
<1>3. /\ Stays(reactor', reactor) /\ reactor'.pool = reactor.pool
      /\ \A c \in DOMAIN reactor.core.holds : reactor'.core.holds[c] = BurnedAssembly(reactor.core.holds[c])
  BY <1>1, <1>2, DepletedStays
<1>4. ASSUME NEW b, IsBlock(b), b.id \in Nat PROVE BurnedBlock(b).q \in Solver
  <2>1. PICK n \in Nat : n = Len(QValues) /\ n # 0
    BY DEF ValuesOfOneKind, IsList
  <2>2. PICK i \in Nat : i = b.id + now
    BY <1>1, <1>4
  <2>3. PICK m \in Nat : m = i % n /\ m < n
    BY <2>1, <2>2
  <2>4. BurnedBlock(b).q = QValues[1 + m]
    BY <1>4, <2>1, <2>2, <2>3, DepletesBlock
  <2>5. 1 + m \in 1..Len(QValues)
    BY <2>1, <2>3
  <2> QED
    BY <2>4, <2>5 DEF Solver
<1>5. ASSUME NEW c \in DOMAIN reactor.core.holds PROVE SolvedAssembly(reactor'.core.holds[c])
  <2>1. PICK a : a = reactor.core.holds[c]
    OBVIOUS
  <2>2. IsAssembly(a)
    BY <1>1, <2>1 DEF IsReactor, IsHolds
  <2>3. \A k \in 0..NBlocks : IdOf(a, k) \in Nat
    BY <1>1, <2>1, InPlaces DEF HasSerials
  <2>4. ASSUME NEW k \in 1..NBlocks PROVE BurnedAssembly(a).blocks[k].q \in Solver
    <3>1. IsBlock(a.blocks[k]) /\ a.blocks[k].id \in Nat
      <4>1. k \in 0..NBlocks /\ k # 0
        BY NBlocksNumber
      <4> QED
        BY <2>2, <2>3, <4>1 DEF IsAssembly, IdOf
    <3>2. BurnedBlock(a.blocks[k]).q \in Solver
      BY <1>4, <3>1
    <3> QED
      BY <2>2, <3>2, DepletesAssembly
  <2> QED
    BY <1>3, <2>1, <2>4 DEF SolvedAssembly
<1>6. ASSUME NEW p \in PlacesOf(reactor') PROVE SolvedAssembly(At(reactor', p))
  <2>1. CASE \E c \in DOMAIN reactor'.core.holds : p = <<"core", c>>
    BY <1>3, <1>5, <2>1, InPlaces DEF Stays
  <2>2. CASE \E c \in DOMAIN reactor'.pool.holds : p = <<"pool", c>>
    BY <1>3, <2>2, InPlaces DEF SolvedInv, Solved
  <2> QED
    BY <2>1, <2>2, InPlaces
<1>7. UNCHANGED <<now, truth>>
  BY DEF Deplete
<1> QED
  BY <1>6, <1>7 DEF SolvedInv, Solved

(* Writing. *)
LEMMA SolvedWrite ==
  ASSUME NamesInv, SolvedInv, WriteToDB
  PROVE  SolvedInv'
<1>1. /\ now' = now + 1 /\ reactor' = reactor /\ now \in Nat
      /\ truth'[now] = reactor /\ \A t \in 0..now - 1 : truth'[t] = truth[t]
  BY NamesWrite DEF NamesInv, FileInv
<1>2. \A t \in 0..now' - 1 : t = now \/ t \in 0..now - 1
  BY <1>1
<1> QED
  BY <1>1, <1>2 DEF SolvedInv

(* Only the last location tells a loaded reactor from the written one. *)
LEMMA LocatedLoaded ==
  ASSUME NEW r, IsReactor(r)
  PROVE  LocateAll(LoadedFrom(r)) = LocateAll(r)
<1> DEFINE Located(h) == [c \in DOMAIN h |-> [h[c] EXCEPT !.fromDatabase = FALSE]]
           From(h) == [c \in DOMAIN h |-> FromDb(h[c])]
<1>1. ASSUME NEW h, IsHolds(h) PROVE Located(From(h)) = Located(h)
  <2>1. PICK f : f = FALSE
    OBVIOUS
  <2>2. ASSUME NEW a, IsAssembly(a) PROVE [FromDb(a) EXCEPT !.fromDatabase = f] = [a EXCEPT !.fromDatabase = f]
    <3>1. PICK x, y : x = FromDb(a) /\ y = TRUE
      OBVIOUS
    <3>2. x = [sn |-> a.sn, id |-> a.id, num |-> a.num, charge |-> a.charge, numMoves |-> a.numMoves,
               fromDatabase |-> y, blocks |-> a.blocks]
      BY <2>2, <3>1, FromDbFields
    <3>3. [x EXCEPT !.fromDatabase = f] =
            [sn |-> a.sn, id |-> a.id, num |-> a.num, charge |-> a.charge, numMoves |-> a.numMoves,
             fromDatabase |-> f, blocks |-> a.blocks]
      BY <3>2
    <3>4. [a EXCEPT !.fromDatabase = f] =
            [sn |-> a.sn, id |-> a.id, num |-> a.num, charge |-> a.charge, numMoves |-> a.numMoves,
             fromDatabase |-> f, blocks |-> a.blocks]
      BY <2>2 DEF IsAssembly
    <3> QED
      BY <3>1, <3>3, <3>4
  <2>3. PICK g : g = From(h)
    OBVIOUS
  <2>4. DOMAIN g = DOMAIN h /\ \A c \in DOMAIN h : g[c] = FromDb(h[c])
    BY <2>3
  <2>5. \A c \in DOMAIN h : [g[c] EXCEPT !.fromDatabase = f] = [h[c] EXCEPT !.fromDatabase = f]
    BY <1>1, <2>2, <2>4 DEF IsHolds
  <2>6. Located(g) = [c \in DOMAIN h |-> [h[c] EXCEPT !.fromDatabase = f]]
    BY <2>1, <2>4, <2>5
  <2> QED
    BY <2>1, <2>3, <2>6
<1>2. \A x : LocateAll(x) = [x EXCEPT !.core.holds = Located(x.core.holds), !.pool.holds = Located(x.pool.holds)]
  BY DEF LocateAll
<1> HIDE DEF Located
<1>3. PICK core, pool : core = From(r.core.holds) /\ pool = From(r.pool.holds)
  OBVIOUS
<1>4. PICK l : l = LoadedFrom(r)
  OBVIOUS
<1>5. l = [sn |-> r.sn, max |-> r.max, core |-> [sn |-> r.core.sn, holds |-> core],
           pool |-> [sn |-> r.pool.sn, holds |-> pool]]
  BY <1>3, <1>4 DEF LoadedFrom
<1> HIDE DEF From
<1>6. PICK g, h : g = Located(r.core.holds) /\ h = Located(r.pool.holds)
  OBVIOUS
<1>7. Located(core) = g /\ Located(pool) = h
  BY <1>1, <1>3, <1>6 DEF IsReactor
<1>8. LocateAll(l) = [sn |-> r.sn, max |-> r.max, core |-> [sn |-> r.core.sn, holds |-> g],
                      pool |-> [sn |-> r.pool.sn, holds |-> h]]
  <2>1. l.core.holds = core /\ l.pool.holds = pool
    BY <1>5
  <2>2. LocateAll(l) = [l EXCEPT !.core.holds = g, !.pool.holds = h]
    BY <1>2, <1>7, <2>1
  <2> QED
    BY <1>5, <2>2
<1>9. LocateAll(r) = [sn |-> r.sn, max |-> r.max, core |-> [sn |-> r.core.sn, holds |-> g],
                      pool |-> [sn |-> r.pool.sn, holds |-> h]]
  <2>1. LocateAll(r) = [r EXCEPT !.core.holds = g, !.pool.holds = h]
    BY <1>2, <1>6
  <2> QED
    BY <2>1 DEF IsReactor
<1> QED
  BY <1>4, <1>8, <1>9

(* A loaded reactor has the values of the written one. *)
LEMMA FromDbSolved ==
  ASSUME NEW r, IsReactor(r), Solved(r)
  PROVE  Solved(LoadedFrom(r))
<1>1. ASSUME NEW h, IsHolds(h), NEW c \in DOMAIN h, SolvedAssembly(h[c]) PROVE SolvedAssembly(FromDb(h[c]))
  <2>1. IsAssembly(h[c])
    BY <1>1 DEF IsHolds
  <2>2. FromDb(h[c]).blocks = h[c].blocks
    BY <2>1, FromDbFields
  <2> QED
    BY <1>1, <2>2 DEF SolvedAssembly
<1>2. PICK core, pool : /\ core = [c \in DOMAIN r.core.holds |-> FromDb(r.core.holds[c])]
                        /\ pool = [c \in DOMAIN r.pool.holds |-> FromDb(r.pool.holds[c])]
  OBVIOUS
<1>3. PICK l : l = LoadedFrom(r)
  OBVIOUS
<1>4. l.core.holds = core /\ l.pool.holds = pool
  BY <1>2, <1>3 DEF LoadedFrom
<1>5. DOMAIN core = DOMAIN r.core.holds /\ \A c \in DOMAIN r.core.holds : core[c] = FromDb(r.core.holds[c])
  BY <1>2
<1>6. DOMAIN pool = DOMAIN r.pool.holds /\ \A c \in DOMAIN r.pool.holds : pool[c] = FromDb(r.pool.holds[c])
  BY <1>2
<1>7. ASSUME NEW c \in DOMAIN l.core.holds PROVE SolvedAssembly(l.core.holds[c])
  <2>1. PICK h : h = r.core.holds
    OBVIOUS
  <2>2. IsHolds(h) /\ c \in DOMAIN h /\ l.core.holds[c] = FromDb(h[c])
    BY <1>4, <1>5, <2>1 DEF IsReactor
  <2>3. <<"core", c>> \in PlacesOf(r) /\ At(r, <<"core", c>>) = h[c]
    BY <2>1, <2>2, InPlaces
  <2>4. SolvedAssembly(h[c])
    BY <2>3 DEF Solved
  <2> QED
    BY <1>1, <2>2, <2>4
<1>8. ASSUME NEW c \in DOMAIN l.pool.holds PROVE SolvedAssembly(l.pool.holds[c])
  <2>1. PICK h : h = r.pool.holds
    OBVIOUS
  <2>2. IsHolds(h) /\ c \in DOMAIN h /\ l.pool.holds[c] = FromDb(h[c])
    BY <1>4, <1>6, <2>1 DEF IsReactor
  <2>3. <<"pool", c>> \in PlacesOf(r) /\ At(r, <<"pool", c>>) = h[c]
    BY <2>1, <2>2, InPlaces
  <2>4. SolvedAssembly(h[c])
    BY <2>3 DEF Solved
  <2> QED
    BY <1>1, <2>2, <2>4
<1>9. \A p \in PlacesOf(l) : SolvedAssembly(At(l, p))
  BY <1>7, <1>8, InPlaces
<1> QED
  BY <1>3, <1>9 DEF Solved

(* Restarting: what is loaded is what was written. *)
LEMMA SolvedRestart ==
  ASSUME NamesInv, SolvedInv, ValuesOfOneKind, NEW start \in 1..MaxTime, Restart(start)
  PROVE  SolvedInv' /\ LocateAll(reactor') = LocateAll(truth'[now' - 1])
<1>1. /\ start - 1 \in 0..now - 1 /\ now' = start /\ now \in Nat
      /\ reactor' = Load(Statepoint(truth[start - 1]))
      /\ \A t \in 0..start - 1 : t \in 0..now - 1 /\ truth'[t] = truth[t]
  BY NamesRestart DEF NamesInv, FileInv
<1>2. PICK u \in Nat : u = start - 1 /\ u \in 0..now - 1
  BY <1>1
<1>3. PICK r : r = truth[u]
  OBVIOUS
<1>4. IsReactor(r) /\ Solved(r)
  BY <1>2, <1>3 DEF NamesInv, FileInv, Named, SolvedInv
<1>5. reactor' = LoadedFrom(r)
  BY <1>1, <1>2, <1>3, <1>4, SolvedComesBack, LoadStatepoint
<1>6. truth'[now' - 1] = r
  <2>1. u \in 0..start - 1 /\ now' - 1 = u
    BY <1>1, <1>2
  <2> QED
    BY <1>1, <1>3, <2>1
<1>7. Solved(reactor')
  BY <1>4, <1>5, FromDbSolved
<1>8. \A t \in 0..now' - 1 : Solved(truth'[t])
  BY <1>1 DEF SolvedInv
<1> QED
  BY <1>4, <1>5, <1>6, <1>7, <1>8, LocatedLoaded DEF SolvedInv

(* Every step keeps it, and every restart loads what was written. *)
LEMMA SolvedNext == ValuesOfOneKind /\ NamesInv /\ SolvedInv /\ [Next]_vars => SolvedInv' /\ RestartsLoad
<1> SUFFICES ASSUME ValuesOfOneKind, NamesInv, SolvedInv, [Next]_vars PROVE SolvedInv' /\ RestartsLoad
  OBVIOUS
<1>1. CASE UNCHANGED vars
  BY <1>1 DEF vars, SolvedInv, RestartsLoad
<1>2. ASSUME NEW cell \in Cells, LoadFresh(cell) PROVE SolvedInv' /\ RestartsLoad
  BY <1>2, SolvedFresh DEF LoadFresh, MayShuffle, RestartsLoad
<1>3. ASSUME NEW cell \in Cells, NEW place \in DOMAIN reactor.pool.holds, LoadFromPool(cell, place)
      PROVE  SolvedInv' /\ RestartsLoad
  BY <1>3, SolvedPool DEF LoadFromPool, MayShuffle, RestartsLoad
<1>4. ASSUME NEW cell \in Cells, NEW other \in Cells \ {cell}, SwapAssemblies(cell, other)
      PROVE  SolvedInv' /\ RestartsLoad
  BY <1>4, SolvedSwap DEF SwapAssemblies, MayShuffle, RestartsLoad
<1>5. CASE Deplete
  BY <1>5, SolvedDeplete DEF Deplete, RestartsLoad
<1>6. CASE WriteToDB
  BY <1>6, SolvedWrite DEF WriteToDB, RestartsLoad
<1>7. ASSUME NEW start \in 1..MaxTime, Restart(start) PROVE SolvedInv' /\ RestartsLoad
  BY <1>7, SolvedRestart DEF RestartsLoad
<1>8. CASE Done
  BY <1>1, <1>8 DEF Done
<1> QED
  BY <1>1, <1>2, <1>3, <1>4, <1>5, <1>6, <1>7, <1>8 DEF Next


(***************************************************************************)
(* What is loaded is what was written (Database.load, database.py:671-753),*)
(* wherever a case restarts, if the solver gives a parameter values of one *)
(* kind: arrays that are not empty, or numbers that are not NaN.           *)
(***************************************************************************)
THEOREM RestartsLoadWhatWasWritten ==
  ASSUME ValuesOfOneKind
  PROVE  Spec => LoadsWhatWasWritten
<1>1. Init => NamesInv /\ SolvedInv
  BY NamesInit, SolvedInit
<1>2. NamesInv /\ SolvedInv /\ [Next]_vars => NamesInv' /\ SolvedInv'
  BY NamesNext, SolvedNext
<1>3. NamesInv /\ SolvedInv /\ [Next]_vars => [RestartsLoad]_vars
  BY SolvedNext
<1> QED
  BY <1>1, <1>2, <1>3, PTL DEF Spec, LoadsWhatWasWritten

-----------------------------------------------------------------------------
(***************************************************************************)
(* The objects at the places of a tree are different ones.                 *)
(***************************************************************************)

(* The objects at the places of a tree are different ones. *)
Apart(r) ==
  \A p, q \in PlacesOf(r) : \A k, l \in 0..NBlocks : IdOf(At(r, p), k) = IdOf(At(r, q), l) => p = q /\ k = l

ApartInv == Apart(reactor) /\ \A t \in 0..now - 1 : Apart(truth[t])

IsNew(a, old) ==
  /\ \A k, l \in 0..NBlocks : IdOf(a, k) = IdOf(a, l) => k = l
  /\ \A p \in PlacesOf(old) : \A k, l \in 0..NBlocks : IdOf(At(old, p), k) # IdOf(a, l)

(* A step that adds at most one new assembly keeps them apart. *)
LEMMA ApartFollow ==
  ASSUME NEW r, NEW old, NEW new, Follows(r, old, new), Apart(old), \A a \in new : IsNew(a, old),
         \A a, b \in new : a = b
  PROVE  Apart(r)
<1>1. PICK s : Succeeds(s, r, old, new)
  BY DEF Follows
<1> SUFFICES ASSUME NEW p \in PlacesOf(r), NEW q \in PlacesOf(r), NEW k \in 0..NBlocks, NEW l \in 0..NBlocks,
                    IdOf(At(r, p), k) = IdOf(At(r, q), l)
             PROVE  p = q /\ k = l
  BY DEF Apart
<1>2. \A x \in PlacesOf(r) :
        \/ s[x] \in PlacesOf(old) /\ \A i \in 0..NBlocks : IdOf(At(r, x), i) = IdOf(At(old, s[x]), i)
        \/ s[x] = NewPlace /\ \E a \in new : \A i \in 0..NBlocks : IdOf(At(r, x), i) = IdOf(a, i)
  BY <1>1 DEF Succeeds, SameIds
<1>3. s[p] = s[q] => p = q
  BY <1>1 DEF Succeeds
<1>4. CASE s[p] \in PlacesOf(old) /\ s[q] \in PlacesOf(old)
  <2>1. IdOf(At(old, s[p]), k) = IdOf(At(old, s[q]), l)
    BY <1>2, <1>4, InPlaces
  <2> QED
    BY <1>3, <1>4, <2>1 DEF Apart
<1>5. CASE s[p] = NewPlace /\ s[q] = NewPlace
  <2>1. PICK a \in new : \A i \in 0..NBlocks : IdOf(At(r, p), i) = IdOf(a, i)
    BY <1>2, <1>5, InPlaces
  <2>2. PICK b \in new : \A i \in 0..NBlocks : IdOf(At(r, q), i) = IdOf(b, i)
    BY <1>2, <1>5, InPlaces
  <2>3. IdOf(a, k) = IdOf(a, l)
    BY <2>1, <2>2
  <2> QED
    BY <1>3, <1>5, <2>3 DEF IsNew
<1>6. CASE s[p] = NewPlace /\ s[q] \in PlacesOf(old)
  <2>1. PICK a \in new : IdOf(At(r, p), k) = IdOf(a, k)
    BY <1>2, <1>6, InPlaces
  <2>2. IdOf(At(r, q), l) = IdOf(At(old, s[q]), l)
    BY <1>2, <1>6, InPlaces
  <2>3. IsNew(a, old)
    OBVIOUS
  <2>4. IdOf(At(old, s[q]), l) # IdOf(a, k)
    BY <1>6, <2>3 DEF IsNew
  <2> QED
    BY <2>1, <2>2, <2>4
<1>7. CASE s[q] = NewPlace /\ s[p] \in PlacesOf(old)
  <2>1. PICK a \in new : IdOf(At(r, q), l) = IdOf(a, l)
    BY <1>2, <1>7, InPlaces
  <2>2. IdOf(At(r, p), k) = IdOf(At(old, s[p]), k)
    BY <1>2, <1>7, InPlaces
  <2>3. IsNew(a, old)
    OBVIOUS
  <2>4. IdOf(At(old, s[p]), k) # IdOf(a, l)
    BY <1>7, <2>3 DEF IsNew
  <2> QED
    BY <2>1, <2>2, <2>4
<1> QED
  BY <1>2, <1>4, <1>5, <1>6, <1>7

(* A step that adds none does. *)
LEMMA ApartStays ==
  ASSUME NEW r, NEW old, Follows(r, old, {}), Apart(old)
  PROVE  Apart(r)
BY ApartFollow

(* It holds at first. *)
LEMMA ApartInit == Init => ApartInv
<1> SUFFICES ASSUME Init PROVE ApartInv
  OBVIOUS
<1>1. PICK s \in Settings : reactor = FromBlueprints(s[2])
  BY DEF Init
<1>2. PICK n \in Nat : n = s[2]
  BY SettingsAssumption
<1>3. /\ Cardinality(Cells) \in Nat
      /\ \A p \in PlacesOf(reactor) : BlueprintAt(p) \in 1..Cardinality(Cells) + n
      /\ \A p, q \in PlacesOf(reactor) : BlueprintAt(p) = BlueprintAt(q) => p = q
      /\ \A p \in PlacesOf(reactor) : \A k \in 0..NBlocks :
           IdOf(At(reactor, p), k) = 4 + Span(BlueprintAt(p) - 1) + k
  BY <1>1, <1>2, FirstReactor, FirstPlaces, FirstSerials
<1>4. ASSUME NEW i \in Nat, NEW j \in Nat, i >= 1, j >= 1, NEW k \in 0..NBlocks, NEW l \in 0..NBlocks, i < j
      PROVE  4 + Span(i - 1) + k # 4 + Span(j - 1) + l
  <2>1. i - 1 \in Nat /\ j - 1 \in Nat /\ i <= j - 1 /\ i = (i - 1) + 1
    BY <1>4
  <2>2. PICK x \in Nat, y \in Nat, z \in Nat : x = Span(i - 1) /\ y = Span(j - 1) /\ z = Span(i)
    BY <2>1, SpanFacts
  <2>3. z = x + Width /\ z <= y
    BY <2>1, <2>2, SpanFacts
  <2> QED
    BY <2>2, <2>3, NBlocksNumber
<1>5. ASSUME NEW p \in PlacesOf(reactor), NEW q \in PlacesOf(reactor), NEW k \in 0..NBlocks, NEW l \in 0..NBlocks,
             IdOf(At(reactor, p), k) = IdOf(At(reactor, q), l)
      PROVE  p = q /\ k = l
  <2>1. PICK i \in Nat, j \in Nat : i = BlueprintAt(p) /\ j = BlueprintAt(q) /\ i >= 1 /\ j >= 1
    BY <1>2, <1>3
  <2>2. 4 + Span(i - 1) + k = 4 + Span(j - 1) + l
    BY <1>3, <1>5, <2>1
  <2>3. i = j
    BY <1>4, <2>1, <2>2
  <2>4. Span(i - 1) \in Nat
    <3>1. i - 1 \in Nat
      BY <2>1
    <3> QED
      BY <3>1, SpanFacts
  <2>5. k = l
    BY <2>2, <2>3, <2>4, NBlocksNumber
  <2> QED
    BY <1>3, <2>1, <2>3, <2>5
<1>6. 0..now - 1 = {}
  BY DEF Init
<1> QED
  BY <1>5, <1>6 DEF ApartInv, Apart

(* Loading a fresh assembly: its identities are new. *)
LEMMA ApartFresh ==
  ASSUME NamesInv, SerialsInv, ApartInv, NEW cell \in Cells, LoadFresh(cell)
  PROVE  ApartInv'
<1>1. Follows(reactor', reactor, {FreshAssembly})
  BY NamesFresh
<1>2. serial \in Nat /\ made \in Nat /\ reactor.max \in Nat /\ IsReactor(reactor)
  BY DEF NamesInv, TreeInv, Named, Numbered
<1>3. \A k \in 0..NBlocks : IdOf(FreshAssembly, k) = made + 1 + k
  BY <1>2, FreshFacts
<1>4. \A k, l \in 0..NBlocks : IdOf(FreshAssembly, k) = IdOf(FreshAssembly, l) => k = l
  BY <1>2, <1>3, NBlocksNumber
<1>5. ASSUME NEW p \in PlacesOf(reactor), NEW k \in 0..NBlocks
      PROVE  IdOf(At(reactor, p), k) \in Nat /\ IdOf(At(reactor, p), k) <= made
  <2>1. PICK x : x = <<IdOf(At(reactor, p), k), SnOf(At(reactor, p), k)>>
    OBVIOUS
  <2>2. x \in Objects(reactor)
    BY <1>2, <2>1, ObjectsOf
  <2>3. x \in Everything
    BY <2>2 DEF Everything
  <2> QED
    BY <2>1, <2>3 DEF SerialsInv
<1>6. IsNew(FreshAssembly, reactor)
  BY <1>2, <1>3, <1>4, <1>5, NBlocksNumber DEF IsNew
<1>7. Apart(reactor')
  BY <1>1, <1>6, ApartFollow DEF ApartInv
<1> QED
  BY <1>7 DEF LoadFresh, MayShuffle, ApartInv

(* Restarting: the objects are those of the file. *)
LEMMA ApartRestart ==
  ASSUME NamesInv, ApartInv, NEW start \in 1..MaxTime, Restart(start)
  PROVE  ApartInv'
<1>1. PICK u : u = start - 1
  OBVIOUS
<1>2. /\ u \in 0..now - 1 /\ now' - 1 = u /\ Follows(reactor', truth[u], {})
      /\ \A t \in 0..u : t \in 0..now - 1 /\ truth'[t] = truth[t]
  BY <1>1, NamesRestart
<1>3. Apart(reactor')
  BY <1>2, ApartStays DEF ApartInv
<1> QED
  BY <1>2, <1>3 DEF ApartInv

(* Every step keeps it. *)
LEMMA ApartNext == NamesInv /\ SerialsInv /\ ApartInv /\ [Next]_vars => ApartInv'
<1> SUFFICES ASSUME NamesInv, SerialsInv, ApartInv, [Next]_vars PROVE ApartInv'
  OBVIOUS
<1>1. CASE UNCHANGED vars
  BY <1>1 DEF vars, ApartInv
<1>2. ASSUME NEW cell \in Cells, LoadFresh(cell) PROVE ApartInv'
  BY <1>2, ApartFresh
<1>3. ASSUME NEW cell \in Cells, NEW place \in DOMAIN reactor.pool.holds, LoadFromPool(cell, place)
      PROVE  ApartInv'
  <2>1. Follows(reactor', reactor, {}) /\ UNCHANGED <<now, truth>>
    BY <1>3, NamesPool DEF LoadFromPool, MayShuffle
  <2> QED
    BY <2>1, ApartStays DEF ApartInv
<1>4. ASSUME NEW cell \in Cells, NEW other \in Cells \ {cell}, SwapAssemblies(cell, other) PROVE ApartInv'
  <2>1. Follows(reactor', reactor, {}) /\ UNCHANGED <<now, truth>>
    BY <1>4, NamesSwap DEF SwapAssemblies, MayShuffle
  <2> QED
    BY <2>1, ApartStays DEF ApartInv
<1>5. CASE Deplete
  <2>1. Follows(reactor', reactor, {}) /\ UNCHANGED <<now, truth>>
    BY <1>5, NamesDeplete DEF Deplete
  <2> QED
    BY <2>1, ApartStays DEF ApartInv
<1>6. CASE WriteToDB
  <2>1. /\ now' = now + 1 /\ reactor' = reactor /\ now \in Nat
        /\ truth'[now] = reactor /\ \A t \in 0..now - 1 : truth'[t] = truth[t]
    BY <1>6, NamesWrite DEF NamesInv, FileInv
  <2>2. \A t \in 0..now' - 1 : t = now \/ t \in 0..now - 1
    BY <2>1
  <2> QED
    BY <2>1, <2>2 DEF ApartInv
<1>7. ASSUME NEW start \in 1..MaxTime, Restart(start) PROVE ApartInv'
  BY <1>7, ApartRestart
<1>8. CASE Done
  BY <1>1, <1>8 DEF Done
<1> QED
  BY <1>1, <1>2, <1>3, <1>4, <1>5, <1>6, <1>7, <1>8 DEF Next

-----------------------------------------------------------------------------
(***************************************************************************)
(* The ancestors of a row (layout.py, computeAncestors).                   *)
(***************************************************************************)

(* The walk of ComputeAncestors. *)
Open(rows, n) == [sn |-> rows[n].sn, left |-> rows[n].numChildren]
Seen(stack)   == [stack EXCEPT ![Len(stack)].left = @ - 1]
TopOf(stack)  == Seen(stack)[Len(stack)].sn
Pushed(stack, rows, n) ==
  WithoutFinished(IF rows[n].numChildren > 0 THEN Append(Seen(stack), Open(rows, n)) ELSE Seen(stack))

WalkStart(rows) == [parents |-> <<NoAncestor>>, stack |-> <<Open(rows, 1)>>]
WalkStep(rows, n, last) ==
  [parents |-> Append(last.parents, TopOf(last.stack)), stack |-> Pushed(last.stack, rows, n)]

IsWalk(W, rows, k) == W = [n \in 1..k |-> IF n = 1 THEN WalkStart(rows) ELSE WalkStep(rows, n, W[n-1])]

(* The walk exists, whatever the number of rows. *)
LEMMA WalkExists ==
  ASSUME NEW rows, NEW k \in Nat
  PROVE  \E W : IsWalk(W, rows, k)
<1> DEFINE Has(n) == \E W : IsWalk(W, rows, n)
           S == {n \in Nat : ~Has(n)}
<1>1. ASSUME S # {} PROVE FALSE
  <2>1. PICK n \in S : \A m \in S : n <= m
    BY <1>1, LeastNumber
  <2>2. n \in Nat /\ ~Has(n)
    BY <2>1
  <2>3. CASE n = 0
    <3>1. PICK W : W = [i \in {} |-> 0]
      OBVIOUS
    <3>2. 1..0 = {}
      OBVIOUS
    <3>3. W = [i \in 1..0 |-> IF i = 1 THEN WalkStart(rows) ELSE WalkStep(rows, i, W[i-1])]
      BY <3>1, <3>2
    <3> QED
      BY <2>2, <2>3, <3>3 DEF IsWalk
  <2>4. CASE n # 0
    <3>1. n - 1 \in Nat /\ n - 1 \notin S
      BY <2>1, <2>2, <2>4
    <3>2. PICK g : IsWalk(g, rows, n - 1)
      BY <3>1
    <3>3. PICK v : v = IF n = 1 THEN WalkStart(rows) ELSE WalkStep(rows, n, g[n-1])
      OBVIOUS
    <3>4. PICK f : f = [i \in 1..n |-> IF i = n THEN v ELSE g[i]]
      OBVIOUS
    <3>5. f = [i \in 1..n |-> f[i]]
      BY <3>4
    <3>6. \A i \in 1..n - 1 : f[i] = g[i]
      BY <2>2, <3>4
    <3>7. f[n] = v
      BY <2>2, <2>4, <3>4
    <3>8. ASSUME NEW i \in 1..n
          PROVE  f[i] = IF i = 1 THEN WalkStart(rows) ELSE WalkStep(rows, i, f[i-1])
      <4>1. CASE i = n
        <5>1. i # 1 => n - 1 \in 1..n - 1
          BY <2>2, <2>4, <4>1
        <5>2. i # 1 => f[i-1] = g[n-1]
          BY <3>6, <4>1, <5>1
        <5> QED
          BY <3>3, <3>7, <4>1, <5>2
      <4>2. CASE i # n
        <5>1. i \in 1..n - 1
          BY <2>2, <4>2
        <5>2. g[i] = IF i = 1 THEN WalkStart(rows) ELSE WalkStep(rows, i, g[i-1])
          BY <3>2, <5>1 DEF IsWalk
        <5>3. i # 1 => i - 1 \in 1..n - 1
          BY <5>1
        <5>4. i # 1 => f[i-1] = g[i-1]
          BY <3>6, <5>3
        <5> QED
          BY <3>6, <5>1, <5>2, <5>4
      <4> QED
        BY <4>1, <4>2
    <3>9. IsWalk(f, rows, n)
      BY <3>5, <3>8 DEF IsWalk
    <3> QED
      BY <2>2, <3>9
  <2> QED
    BY <2>3, <2>4
<1> QED
  BY <1>1

(* Parents is what it has found after the last row. *)
LEMMA WalkOf ==
  ASSUME NEW rows, IsList(rows)
  PROVE  \E W : IsWalk(W, rows, Len(rows)) /\ Parents(rows) = W[Len(rows)].parents
<1> DEFINE W == CHOOSE W : IsWalk(W, rows, Len(rows))
<1>1. Len(rows) \in Nat
  BY DEF IsList
<1>2. IsWalk(W, rows, Len(rows))
  BY <1>1, WalkExists
<1>3. Parents(rows) = W[Len(rows)].parents
  BY DEF Parents, IsWalk, WalkStart, WalkStep, Open, TopOf, Seen, Pushed
<1> QED
  BY <1>2, <1>3

(* A row's parent is the top of the stack before it. *)
LEMMA ParentsOnStack ==
  ASSUME NEW rows, NEW W, NEW N \in Nat, IsWalk(W, rows, N), N >= 1
  PROVE  /\ IsList(W[N].parents) /\ Len(W[N].parents) = N
         /\ W[N].parents[1] = NoAncestor
         /\ \A m \in 2..N : W[N].parents[m] = TopOf(W[m-1].stack)
<1> DEFINE Good(n) == /\ IsList(W[n].parents) /\ Len(W[n].parents) = n
                      /\ W[n].parents[1] = NoAncestor
                      /\ \A m \in 2..n : W[n].parents[m] = TopOf(W[m-1].stack)
           S == {n \in Nat : n >= 1 /\ n <= N /\ ~Good(n)}
<1>1. ASSUME S # {} PROVE FALSE
  <2>1. PICK n \in S : \A m \in S : n <= m
    BY <1>1, LeastNumber
  <2>2. n \in Nat /\ n >= 1 /\ n <= N /\ ~Good(n)
    BY <2>1
  <2>3. n \in 1..N
    BY <2>2
  <2>4. W[n] = IF n = 1 THEN WalkStart(rows) ELSE WalkStep(rows, n, W[n-1])
    BY <2>3 DEF IsWalk
  <2>5. CASE n = 1
    <3>1. W[n].parents = <<NoAncestor>>
      BY <2>4, <2>5 DEF WalkStart
    <3>2. 2..1 = {}
      OBVIOUS
    <3>3. IsList(<<NoAncestor>>) /\ Len(<<NoAncestor>>) = 1 /\ <<NoAncestor>>[1] = NoAncestor
      BY OneList
    <3>4. Good(n)
      BY <2>5, <3>1, <3>2, <3>3
    <3> QED
      BY <2>2, <3>4
  <2>6. CASE n # 1
    <3>1. PICK i \in Nat : i = n - 1 /\ i + 1 = n /\ i >= 1 /\ i <= N
      BY <2>2, <2>6
    <3>2. Good(i)
      <4>1. i \notin S
        BY <2>1, <2>2, <3>1
      <4> QED
        BY <3>1, <4>1
    <3>3. PICK s, x : s = W[i].parents /\ x = TopOf(W[i].stack)
      OBVIOUS
    <3>4. W[n].parents = Append(s, x)
      BY <2>4, <2>6, <3>1, <3>3 DEF WalkStep
    <3>5. IsList(s) /\ Len(s) = i /\ s[1] = NoAncestor
          /\ \A m \in 2..i : s[m] = TopOf(W[m-1].stack)
      BY <3>2, <3>3
    <3>6. PICK t : t = Append(s, x)
      OBVIOUS
    <3>7. /\ IsList(t) /\ Len(t) = i + 1 /\ t[i + 1] = x /\ \A m \in 1..i : t[m] = s[m]
      BY <3>5, <3>6, Appended
    <3>8. t[1] = NoAncestor
      BY <3>1, <3>5, <3>7
    <3>9. ASSUME NEW m \in 2..n PROVE t[m] = TopOf(W[m-1].stack)
      <4>1. CASE m = n
        BY <3>1, <3>3, <3>7, <4>1
      <4>2. CASE m # n
        <5>1. m \in 2..i /\ m \in 1..i
          BY <3>1, <4>2
        <5> QED
          BY <3>5, <3>7, <5>1
      <4> QED
        BY <4>1, <4>2
    <3>10. Good(n)
      BY <3>1, <3>4, <3>6, <3>7, <3>8, <3>9
    <3> QED
      BY <2>2, <3>10
  <2> QED
    BY <2>5, <2>6
<1>2. Good(N)
  BY <1>1
<1> QED
  BY <1>2
-----------------------------------------------------------------------------
(* The stack. *)
LEMMA TrimOf ==
  ASSUME NEW stack, IsList(stack), NEW d \in Nat, d <= Len(stack), d # 0 => stack[d].left # 0,
         \A i \in 1..Len(stack) : i > d => stack[i].left = 0
  PROVE  WithoutFinished(stack) = [i \in 1..d |-> stack[i]]
<1>1. PICK N \in Nat : N = Len(stack)
  BY DEF IsList
<1>2. PICK S : S = {0} \cup {n \in 1..Len(stack) : stack[n].left # 0}
  OBVIOUS
<1>3. d \in S /\ \A x \in S : d >= x /\ x \in Nat
  BY <1>1, <1>2
<1>4. Max(S) = d
  <2>1. Max(S) \in S /\ \A x \in S : Max(S) >= x
    BY <1>3 DEF Max
  <2>2. PICK m : m = Max(S)
    OBVIOUS
  <2>3. m \in S /\ m >= d
    BY <1>3, <2>1, <2>2
  <2>4. m \in Nat /\ d >= m
    BY <1>3, <2>3
  <2> QED
    BY <2>2, <2>3, <2>4
<1>5. WithoutFinished(stack) = SubSeq(stack, 1, d)
  BY <1>2, <1>4 DEF WithoutFinished
<1>6. PICK t : t = [i \in 1..d |-> stack[i]]
  OBVIOUS
<1>7. IsList(t) /\ Len(t) = d /\ \A i \in 1..d : t[i] = stack[i]
  <2>1. t = [i \in 1..d |-> t[i]] /\ \A i \in 1..d : t[i] = stack[i]
    BY <1>6
  <2> QED
    BY <2>1, LenOf
<1>8. SubSeq(stack, 0 + 1, 0 + Len(t)) = t
  <2>1. 0 + Len(t) <= Len(stack) /\ \A i \in 1..Len(t) : stack[0 + i] = t[i]
    BY <1>7
  <2> QED
    BY <1>7, <2>1, SliceOf
<1>9. 0 + 1 = 1 /\ 0 + Len(t) = d
  BY <1>7
<1> QED
  BY <1>5, <1>6, <1>8, <1>9

Entry(sn, left) == [sn |-> sn, left |-> left]

(* Three levels are open at most: the reactor, the core or the pool, an assembly. *)
Levels(x, a, s, b, m, c) ==
  IF c # 0 THEN <<Entry(x, a), Entry(s, b), Entry(m, c)>>
  ELSE IF b # 0 THEN <<Entry(x, a), Entry(s, b)>>
  ELSE IF a # 0 THEN <<Entry(x, a)>>
  ELSE <<>>

(* Lists of two and of three. *)
LEMMA SmallLists ==
  ASSUME NEW x, NEW y, NEW z
  PROVE  /\ IsList(<<x, y>>) /\ Len(<<x, y>>) = 2 /\ <<x, y>>[1] = x /\ <<x, y>>[2] = y
         /\ IsList(<<x, y, z>>) /\ Len(<<x, y, z>>) = 3
         /\ <<x, y, z>>[1] = x /\ <<x, y, z>>[2] = y /\ <<x, y, z>>[3] = z
BY DEF IsList

(* Levels whose children are all seen are closed. *)
LEMMA Trimmed ==
  ASSUME NEW x, NEW a, NEW s, NEW b, NEW m, NEW c
  PROVE  WithoutFinished(<<Entry(x, a), Entry(s, b), Entry(m, c)>>) = Levels(x, a, s, b, m, c)
<1>1. PICK e, f, g : e = Entry(x, a) /\ f = Entry(s, b) /\ g = Entry(m, c)
  OBVIOUS
<1>2. e.left = a /\ f.left = b /\ g.left = c
  BY <1>1 DEF Entry
<1>3. /\ [i \in 1..2 |-> <<e, f, g>>[i]] = <<e, f>> /\ [i \in 1..1 |-> <<e, f, g>>[i]] = <<e>>
      /\ [i \in 1..3 |-> <<e, f, g>>[i]] = <<e, f, g>> /\ [i \in 1..0 |-> <<e, f, g>>[i]] = <<>>
  OBVIOUS
<1>5. PICK t : t = <<e, f, g>>
  OBVIOUS
<1>6. IsList(t) /\ Len(t) = 3 /\ t[1] = e /\ t[2] = f /\ t[3] = g
  BY <1>5, SmallLists
<1>7. \A i \in 1..3 : i = 1 \/ i = 2 \/ i = 3
  OBVIOUS
<1>8. ASSUME NEW d \in {0, 1, 2, 3}, d # 0 => t[d].left # 0, \A i \in 1..3 : i > d => t[i].left = 0
      PROVE  WithoutFinished(t) = [i \in 1..d |-> t[i]]
  <2>1. d \in Nat /\ d <= Len(t) /\ \A i \in 1..Len(t) : i > d => t[i].left = 0
    BY <1>6, <1>8
  <2> QED
    BY <1>6, <1>8, <2>1, TrimOf
<1>9. WithoutFinished(t) = IF c # 0 THEN <<e, f, g>> ELSE IF b # 0 THEN <<e, f>> ELSE IF a # 0 THEN <<e>> ELSE <<>>
  <2>1. CASE c # 0
    <3>1. WithoutFinished(t) = [i \in 1..3 |-> t[i]]
      BY <1>2, <1>6, <1>7, <1>8, <2>1
    <3> QED
      BY <1>3, <1>5, <2>1, <3>1
  <2>2. CASE c = 0 /\ b # 0
    <3>1. WithoutFinished(t) = [i \in 1..2 |-> t[i]]
      BY <1>2, <1>6, <1>7, <1>8, <2>2
    <3> QED
      BY <1>3, <1>5, <2>2, <3>1
  <2>3. CASE c = 0 /\ b = 0 /\ a # 0
    <3>1. WithoutFinished(t) = [i \in 1..1 |-> t[i]]
      BY <1>2, <1>6, <1>7, <1>8, <2>3
    <3> QED
      BY <1>3, <1>5, <2>3, <3>1
  <2>4. CASE c = 0 /\ b = 0 /\ a = 0
    <3>1. WithoutFinished(t) = [i \in 1..0 |-> t[i]]
      BY <1>2, <1>6, <1>7, <1>8, <2>4
    <3> QED
      BY <1>3, <1>5, <2>4, <3>1
  <2> QED
    BY <2>1, <2>2, <2>3, <2>4
<1> QED
  BY <1>1, <1>5, <1>9 DEF Levels

(* The same where no assembly is open. *)
LEMMA TrimmedTwo ==
  ASSUME NEW x, NEW a, NEW s, NEW b, NEW m
  PROVE  WithoutFinished(<<Entry(x, a), Entry(s, b)>>) = Levels(x, a, s, b, m, 0)
<1>1. PICK e, f : e = Entry(x, a) /\ f = Entry(s, b)
  OBVIOUS
<1>2. e.left = a /\ f.left = b
  BY <1>1 DEF Entry
<1>4. /\ [i \in 1..2 |-> <<e, f>>[i]] = <<e, f>> /\ [i \in 1..1 |-> <<e, f>>[i]] = <<e>>
      /\ [i \in 1..0 |-> <<e, f>>[i]] = <<>>
  OBVIOUS
<1>10. PICK u : u = <<e, f>>
  OBVIOUS
<1>11. IsList(u) /\ Len(u) = 2 /\ u[1] = e /\ u[2] = f
  BY <1>10, SmallLists
<1>12. \A i \in 1..2 : i = 1 \/ i = 2
  OBVIOUS
<1>13. ASSUME NEW d \in {0, 1, 2}, d # 0 => u[d].left # 0, \A i \in 1..2 : i > d => u[i].left = 0
       PROVE  WithoutFinished(u) = [i \in 1..d |-> u[i]]
  <2>1. d \in Nat /\ d <= Len(u) /\ \A i \in 1..Len(u) : i > d => u[i].left = 0
    BY <1>11, <1>13
  <2> QED
    BY <1>11, <1>13, <2>1, TrimOf
<1>14. WithoutFinished(u) = IF b # 0 THEN <<e, f>> ELSE IF a # 0 THEN <<e>> ELSE <<>>
  <2>1. CASE b # 0
    <3>1. WithoutFinished(u) = [i \in 1..2 |-> u[i]]
      BY <1>2, <1>11, <1>12, <1>13, <2>1
    <3> QED
      BY <1>4, <1>10, <2>1, <3>1
  <2>2. CASE b = 0 /\ a # 0
    <3>1. WithoutFinished(u) = [i \in 1..1 |-> u[i]]
      BY <1>2, <1>11, <1>12, <1>13, <2>2
    <3> QED
      BY <1>4, <1>10, <2>2, <3>1
  <2>3. CASE b = 0 /\ a = 0
    <3>1. WithoutFinished(u) = [i \in 1..0 |-> u[i]]
      BY <1>2, <1>11, <1>12, <1>13, <2>3
    <3> QED
      BY <1>4, <1>10, <2>3, <3>1
  <2> QED
    BY <2>1, <2>2, <2>3
<1> QED
  BY <1>1, <1>10, <1>14 DEF Levels

(* One level more. *)
LEMMA Appending ==
  ASSUME NEW e, NEW h, NEW g
  PROVE  Append(<<h>>, g) = <<h, g>> /\ Append(<<e, h>>, g) = <<e, h, g>>
<1>1. PICK s, t, u, v : s = <<h>> /\ t = <<e, h>> /\ u = <<h, g>> /\ v = <<e, h, g>>
  OBVIOUS
<1>2. /\ IsList(s) /\ Len(s) = 1 /\ s[1] = h /\ IsList(t) /\ Len(t) = 2 /\ t[1] = e /\ t[2] = h
      /\ IsList(u) /\ Len(u) = 2 /\ u[1] = h /\ u[2] = g
      /\ IsList(v) /\ Len(v) = 3 /\ v[1] = e /\ v[2] = h /\ v[3] = g
  BY <1>1, OneList, SmallLists
<1>3. PICK y, z : y = Append(s, g) /\ z = Append(t, g)
  OBVIOUS
<1>4. /\ IsList(y) /\ Len(y) = 1 + 1 /\ y[1 + 1] = g /\ \A i \in 1..1 : y[i] = s[i]
  <2>1. IsList(s)
    BY <1>2
  <2>2. /\ IsList(Append(s, g)) /\ Len(Append(s, g)) = Len(s) + 1 /\ Append(s, g)[Len(s) + 1] = g
        /\ \A i \in 1..Len(s) : Append(s, g)[i] = s[i]
    BY ONLY <2>1, Appended
  <2> QED
    BY <1>2, <1>3, <2>2
<1>5. /\ IsList(z) /\ Len(z) = 2 + 1 /\ z[2 + 1] = g /\ \A i \in 1..2 : z[i] = t[i]
  <2>1. IsList(t)
    BY <1>2
  <2>2. /\ IsList(Append(t, g)) /\ Len(Append(t, g)) = Len(t) + 1 /\ Append(t, g)[Len(t) + 1] = g
        /\ \A i \in 1..Len(t) : Append(t, g)[i] = t[i]
    BY ONLY <2>1, Appended
  <2> QED
    BY <1>2, <1>3, <2>2
<1>6. \A i \in 1..2 : i = 1 \/ i = 2
  OBVIOUS
<1>7. \A i \in 1..3 : i = 1 \/ i = 2 \/ i = 3
  OBVIOUS
<1>8. y = u
  <2>1. Len(y) = Len(u) /\ \A i \in 1..Len(y) : y[i] = u[i]
    BY <1>2, <1>4, <1>6
  <2> QED
    BY <1>2, <1>4, <2>1, SameLists
<1>9. z = v
  <2>1. Len(z) = Len(v) /\ \A i \in 1..Len(z) : z[i] = v[i]
    BY <1>2, <1>5, <1>7
  <2> QED
    BY <1>2, <1>5, <2>1, SameLists
<1> QED
  BY <1>1, <1>3, <1>8, <1>9

(* What the next row does to the stack. *)
LEMMA NextBlock ==
  ASSUME NEW rows, NEW n, rows[n].numChildren = 0,
         NEW x, NEW a, NEW s, NEW b, NEW m, NEW c \in Nat, c # 0
  PROVE  /\ TopOf(Levels(x, a, s, b, m, c)) = m
         /\ Pushed(Levels(x, a, s, b, m, c), rows, n) = Levels(x, a, s, b, m, c - 1)
<1>0. PICK d : d = c - 1
  OBVIOUS
<1>1. PICK e, f, g, h : e = Entry(x, a) /\ f = Entry(s, b) /\ g = Entry(m, c) /\ h = Entry(m, d)
  OBVIOUS
<1>2. PICK t : t = <<e, f, g>>
  OBVIOUS
<1>3. Levels(x, a, s, b, m, c) = t
  BY <1>1, <1>2 DEF Levels
<1>4. Len(t) = 3 /\ t[3] = g
  BY <1>2
<1>5. Seen(t) = <<e, f, h>>
  <2>1. [g EXCEPT !.left = g.left - 1] = h
    BY <1>0, <1>1 DEF Entry
  <2>2. Seen(t) = [t EXCEPT ![3] = [g EXCEPT !.left = g.left - 1]]
    BY <1>4 DEF Seen
  <2> QED
    BY <1>2, <2>1, <2>2
<1>6. TopOf(t) = m
  BY <1>1, <1>4, <1>5 DEF TopOf, Entry
<1>7. Pushed(t, rows, n) = WithoutFinished(<<e, f, h>>)
  BY <1>5 DEF Pushed
<1>8. WithoutFinished(<<e, f, h>>) = Levels(x, a, s, b, m, d)
  <2>1. WithoutFinished(<<Entry(x, a), Entry(s, b), Entry(m, d)>>) = Levels(x, a, s, b, m, d)
    BY Trimmed
  <2> QED
    BY <1>1, <2>1
<1> QED
  BY <1>0, <1>3, <1>6, <1>7, <1>8

(* Before a row of an assembly its system is open. *)
LEMMA TopChild ==
  ASSUME NEW x, NEW a, NEW s, NEW b \in Nat, b # 0, NEW m
  PROVE  TopOf(Levels(x, a, s, b, m, 0)) = s
<1>1. PICK e, f, h : e = Entry(x, a) /\ f = Entry(s, b) /\ h = Entry(s, b - 1)
  OBVIOUS
<1>2. PICK t : t = <<e, f>>
  OBVIOUS
<1>3. Levels(x, a, s, b, m, 0) = t
  BY <1>1, <1>2 DEF Levels
<1>4. Len(t) = 2 /\ t[2] = f
  BY <1>2
<1>5. Seen(t) = <<e, h>>
  <2>1. [f EXCEPT !.left = f.left - 1] = h
    BY <1>1 DEF Entry
  <2>2. Seen(t) = [t EXCEPT ![2] = [f EXCEPT !.left = f.left - 1]]
    BY <1>4 DEF Seen
  <2> QED
    BY <1>2, <2>1, <2>2
<1>6. Seen(t)[2].sn = s
  BY <1>1, <1>5 DEF Entry
<1> QED
  BY <1>3, <1>4, <1>6 DEF TopOf

(* Before a row of a system the reactor is open. *)
LEMMA TopSystem ==
  ASSUME NEW x, NEW a \in Nat, a # 0, NEW s, NEW m
  PROVE  TopOf(Levels(x, a, s, 0, m, 0)) = x
<1>1. PICK e, h : e = Entry(x, a) /\ h = Entry(x, a - 1)
  OBVIOUS
<1>2. PICK t : t = <<e>>
  OBVIOUS
<1>3. Levels(x, a, s, 0, m, 0) = t
  BY <1>1, <1>2 DEF Levels
<1>4. Len(t) = 1 /\ t[1] = e
  BY <1>2
<1>5. Seen(t) = <<h>>
  <2>1. [e EXCEPT !.left = e.left - 1] = h
    BY <1>1 DEF Entry
  <2>2. Seen(t) = [t EXCEPT ![1] = [e EXCEPT !.left = e.left - 1]]
    BY <1>4 DEF Seen
  <2> QED
    BY <1>2, <2>1, <2>2
<1>6. Seen(t)[1].sn = x
  BY <1>1, <1>5 DEF Entry
<1> QED
  BY <1>3, <1>4, <1>6 DEF TopOf

(* The row of an assembly opens it. *)
LEMMA PushedChild ==
  ASSUME NEW rows, NEW n, rows[n].numChildren \in Nat, NEW x, NEW a, NEW s, NEW b \in Nat, b # 0, NEW m
  PROVE  Pushed(Levels(x, a, s, b, m, 0), rows, n)
           = Levels(x, a, s, b - 1, rows[n].sn, rows[n].numChildren)
<1>0. PICK N, y, d : N \in Nat /\ N = rows[n].numChildren /\ y = rows[n].sn /\ d = b - 1
  OBVIOUS
<1>1. PICK e, f, h, g : /\ e = Entry(x, a) /\ f = Entry(s, b) /\ h = Entry(s, d) /\ g = Entry(y, N)
  OBVIOUS
<1>2. PICK t : t = <<e, f>>
  OBVIOUS
<1>3. Levels(x, a, s, b, m, 0) = t
  BY <1>1, <1>2 DEF Levels
<1>4. Len(t) = 2 /\ t[2] = f
  BY <1>2
<1>5. Seen(t) = <<e, h>>
  <2>1. [f EXCEPT !.left = f.left - 1] = h
    BY <1>0, <1>1 DEF Entry
  <2>2. Seen(t) = [t EXCEPT ![2] = [f EXCEPT !.left = f.left - 1]]
    BY <1>4 DEF Seen
  <2> QED
    BY <1>2, <2>1, <2>2
<1>7. Open(rows, n) = g
  BY <1>0, <1>1 DEF Open, Entry
<1>8. CASE N > 0
  <2>1. Append(<<e, h>>, g) = <<e, h, g>>
    BY Appending
  <2>2. Pushed(t, rows, n) = WithoutFinished(<<e, h, g>>)
    BY <1>0, <1>5, <1>7, <1>8, <2>1 DEF Pushed
  <2>3. WithoutFinished(<<e, h, g>>) = Levels(x, a, s, d, y, N)
    <3>1. WithoutFinished(<<Entry(x, a), Entry(s, d), Entry(y, N)>>) = Levels(x, a, s, d, y, N)
      BY Trimmed
    <3> QED
      BY <1>1, <3>1
  <2> QED
    BY <1>0, <1>1, <1>3, <2>2, <2>3
<1>9. CASE N = 0
  <2>1. Pushed(t, rows, n) = WithoutFinished(<<e, h>>)
    BY <1>0, <1>5, <1>9 DEF Pushed
  <2>2. Pushed(t, rows, n) = Levels(x, a, s, d, s, 0)
    BY <1>1, <2>1, TrimmedTwo
  <2> QED
    BY <1>0, <1>3, <1>9, <2>2 DEF Levels
<1> QED
  BY <1>0, <1>8, <1>9

(* The row of a system opens it. *)
LEMMA PushedSystem ==
  ASSUME NEW rows, NEW n, rows[n].numChildren \in Nat, NEW x, NEW a \in Nat, a # 0, NEW s, NEW m
  PROVE  Pushed(Levels(x, a, s, 0, m, 0), rows, n)
           = Levels(x, a - 1, rows[n].sn, rows[n].numChildren, 0, 0)
<1>0. PICK N, y, d : N \in Nat /\ N = rows[n].numChildren /\ y = rows[n].sn /\ d = a - 1
  OBVIOUS
<1>1. PICK e, h, g : e = Entry(x, a) /\ h = Entry(x, d) /\ g = Entry(y, N)
  OBVIOUS
<1>2. PICK t : t = <<e>>
  OBVIOUS
<1>3. Levels(x, a, s, 0, m, 0) = t
  BY <1>1, <1>2 DEF Levels
<1>4. Len(t) = 1 /\ t[1] = e
  BY <1>2
<1>5. Seen(t) = <<h>>
  <2>1. [e EXCEPT !.left = e.left - 1] = h
    BY <1>0, <1>1 DEF Entry
  <2>2. Seen(t) = [t EXCEPT ![1] = [e EXCEPT !.left = e.left - 1]]
    BY <1>4 DEF Seen
  <2> QED
    BY <1>2, <2>1, <2>2
<1>7. Open(rows, n) = g
  BY <1>0, <1>1 DEF Open, Entry
<1>8. CASE N > 0
  <2>1. Append(<<h>>, g) = <<h, g>>
    BY Appending
  <2>2. Pushed(t, rows, n) = WithoutFinished(<<h, g>>)
    BY <1>0, <1>5, <1>7, <1>8, <2>1 DEF Pushed
  <2>3. Pushed(t, rows, n) = Levels(x, d, y, N, s, 0)
    BY <1>1, <2>2, TrimmedTwo
  <2> QED
    BY <1>0, <1>3, <2>3 DEF Levels
<1>9. CASE N = 0
  <2>1. Pushed(t, rows, n) = WithoutFinished(<<h>>)
    BY <1>0, <1>5, <1>9 DEF Pushed
  <2>2. h.left = d
    BY <1>0, <1>1 DEF Entry
  <2>3. PICK u : u = <<h>>
    OBVIOUS
  <2>4. IsList(u) /\ Len(u) = 1 /\ u[1] = h
    BY <2>3, OneList
  <2>5. WithoutFinished(u) = IF d # 0 THEN <<h>> ELSE <<>>
    <3>1. CASE d # 0
      <4>1. 1 \in Nat /\ 1 <= Len(u) /\ u[1].left # 0 /\ \A i \in 1..Len(u) : i > 1 => u[i].left = 0
        BY <2>2, <2>4, <3>1
      <4>2. WithoutFinished(u) = [i \in 1..1 |-> u[i]]
        BY <2>4, <4>1, TrimOf
      <4>3. [i \in 1..1 |-> u[i]] = <<h>>
        BY <2>3
      <4> QED
        BY <3>1, <4>2, <4>3
    <3>2. CASE d = 0
      <4>1. 0 \in Nat /\ 0 <= Len(u) /\ \A i \in 1..Len(u) : i > 0 => u[i].left = 0
        <5>1. \A i \in 1..1 : i = 1
          OBVIOUS
        <5> QED
          BY <2>2, <2>4, <3>2, <5>1
      <4>2. WithoutFinished(u) = [i \in 1..0 |-> u[i]]
        BY <2>4, <4>1, TrimOf
      <4>3. [i \in 1..0 |-> u[i]] = <<>>
        OBVIOUS
      <4> QED
        BY <3>2, <4>2, <4>3
    <3> QED
      BY <3>1, <3>2
  <2> QED
    BY <1>0, <1>1, <1>3, <1>9, <2>1, <2>3, <2>5 DEF Levels
<1> QED
  BY <1>0, <1>8, <1>9
-----------------------------------------------------------------------------
(* The row before an assembly's. *)
LEMMA RowBefore ==
  ASSUME NEW r, IsTree(r)
  PROVE  /\ PoolRow(r) \in Nat /\ PoolRow(r) >= 3
         /\ \A j \in 1..NAll(r) :
              /\ RowAt(r, j) \in Nat /\ RowAt(r, j) >= 3
              /\ j = 1 /\ j <= NCore(r) => RowAt(r, j) = 3
              /\ j > 1 /\ j # NCore(r) + 1 =>
                   j - 1 \in 1..NAll(r) /\ RowAt(r, j) - 1 = RowAt(r, j - 1) + NBlocks
              /\ j = NCore(r) + 1 => RowAt(r, j) - 1 = PoolRow(r)
         /\ NCore(r) >= 1 => NCore(r) \in 1..NAll(r) /\ PoolRow(r) - 1 = RowAt(r, NCore(r)) + NBlocks
         /\ NCore(r) = 0 => PoolRow(r) = 3
<1>1. PICK n \in Nat, a \in Nat : n = NCore(r) /\ a = NAll(r) /\ n <= a
  <2>1. NCore(r) <= NAll(r)
    <3> HIDE DEF NCore, NPool
    <3> QED
      BY TreeNumbers DEF NAll
  <2> QED
    BY <2>1, TreeNumbers
<1>2. NBlocks \in Nat /\ Width = NBlocks + 1
  BY NBlocksNumber
<1>3. \A m \in Nat : Span(m) \in Nat /\ Span(m + 1) = Span(m) + Width
  BY SpanFacts
<1>4. Span(0) = 0
  BY SpanFacts
<1>5. PoolRow(r) = 3 + Span(n)
  BY <1>1 DEF PoolRow
<1>6. \A j \in 1..a : RowAt(r, j) = IF j <= n THEN 3 + Span(j - 1) ELSE 4 + Span(j - 1)
  BY <1>1 DEF RowAt
<1>7. ASSUME NEW j \in 1..a
      PROVE  /\ RowAt(r, j) \in Nat /\ RowAt(r, j) >= 3
             /\ j = 1 /\ j <= n => RowAt(r, j) = 3
             /\ j > 1 /\ j # n + 1 => j - 1 \in 1..a /\ RowAt(r, j) - 1 = RowAt(r, j - 1) + NBlocks
             /\ j = n + 1 => RowAt(r, j) - 1 = 3 + Span(n)
  <2>1. PICK i \in Nat : i = j - 1 /\ j = i + 1
    BY <1>1
  <2>2. PICK x \in Nat : x = Span(i)
    BY <1>3
  <2>3. RowAt(r, j) = IF j <= n THEN 3 + x ELSE 4 + x
    BY <1>6, <2>1, <2>2
  <2>4. j = 1 => x = 0
    BY <1>4, <2>1, <2>2
  <2>5. j = n + 1 => x = Span(n) /\ ~(j <= n)
    BY <1>1, <2>1, <2>2
  <2>6. ASSUME j > 1, j # n + 1 PROVE j - 1 \in 1..a /\ RowAt(r, j) - 1 = RowAt(r, j - 1) + NBlocks
    <3>1. PICK h \in Nat : h = i - 1 /\ i = h + 1
      BY <2>1, <2>6
    <3>2. PICK y \in Nat : y = Span(h) /\ x = y + Width
      BY <1>3, <2>2, <3>1
    <3>3. i \in 1..a /\ (i <= n <=> j <= n)
      BY <1>1, <2>1, <2>6
    <3>4. RowAt(r, i) = IF i <= n THEN 3 + y ELSE 4 + y
      BY <1>6, <3>1, <3>2, <3>3
    <3>5. RowAt(r, j) - 1 = RowAt(r, i) + NBlocks
      <4>1. CASE j <= n
        <5>1. RowAt(r, j) = 3 + x /\ RowAt(r, i) = 3 + y
          BY <2>3, <3>3, <3>4, <4>1
        <5> QED
          BY <1>2, <3>2, <5>1
      <4>2. CASE ~(j <= n)
        <5>1. RowAt(r, j) = 4 + x /\ RowAt(r, i) = 4 + y
          BY <2>3, <3>3, <3>4, <4>2
        <5> QED
          BY <1>2, <3>2, <5>1
      <4> QED
        BY <4>1, <4>2
    <3> QED
      BY <2>1, <3>3, <3>5
  <2> QED
    BY <1>1, <2>3, <2>4, <2>5, <2>6
<1>8. ASSUME n >= 1 PROVE n \in 1..a /\ PoolRow(r) - 1 = RowAt(r, n) + NBlocks
  <2>1. PICK i \in Nat : i = n - 1 /\ n = i + 1
    BY <1>1, <1>8
  <2>2. PICK x \in Nat : x = Span(i) /\ Span(n) = x + Width
    BY <1>3, <2>1
  <2>3. n \in 1..a
    BY <1>1, <1>8
  <2>4. RowAt(r, n) = 3 + x
    <3>1. n - 1 = i /\ n <= n
      BY <1>1, <2>1
    <3> QED
      BY <1>6, <2>2, <2>3, <3>1
  <2>5. PoolRow(r) = 3 + (x + Width)
    BY <1>5, <2>2
  <2> QED
    BY <1>2, <2>2, <2>3, <2>4, <2>5
<1>9. PoolRow(r) \in Nat /\ PoolRow(r) >= 3 /\ (n = 0 => PoolRow(r) = 3)
  <2>1. PICK x \in Nat : x = Span(n)
    BY <1>1, <1>3
  <2>2. n = 0 => x = 0
    BY <1>4, <2>1
  <2> QED
    BY <1>5, <2>1, <2>2
<1>10. n >= 1 => n \in 1..a /\ PoolRow(r) - 1 = RowAt(r, n) + NBlocks
  BY <1>8
<1>11. \A j \in 1..a : j = n + 1 => RowAt(r, j) - 1 = PoolRow(r)
  BY <1>5, <1>7
<1> QED
  BY <1>1, <1>7, <1>9, <1>10, <1>11

(* The system that holds the j-th assembly, and what is open after its rows. *)
SystemSn(r, j)    == IF j <= NCore(r) THEN r.core.sn ELSE r.pool.sn
SystemsLeft(r, j) == IF j <= NCore(r) THEN 1 ELSE 0
Remaining(r, j)   == IF j <= NCore(r) THEN NCore(r) - j ELSE NAll(r) - j

After(r, j, k) ==
  Levels(r.sn, SystemsLeft(r, j), SystemSn(r, j), Remaining(r, j), AssemblyAt(r, j).sn, NBlocks - k)

StackIs(r, stack, n) ==
  /\ n = 1 => stack = Levels(r.sn, 2, 0, 0, 0, 0)
  /\ n = 2 => stack = Levels(r.sn, 1, r.core.sn, NCore(r), 0, 0)
  /\ n = PoolRow(r) => stack = Levels(r.sn, 0, r.pool.sn, NPool(r), 0, 0)
  /\ \A j \in 1..NAll(r) : \A k \in 0..NBlocks : n = RowAt(r, j) + k => stack = After(r, j, k)

ParentIs(r, x, n) ==
  /\ n = 2 \/ n = PoolRow(r) => x = r.sn
  /\ \A j \in 1..NAll(r) : n = RowAt(r, j) => x = SystemSn(r, j)
  /\ \A j \in 1..NAll(r) : \A k \in 1..NBlocks : n = RowAt(r, j) + k => x = AssemblyAt(r, j).sn

(* The pool follows the core. *)
LEMMA StackAtPool ==
  ASSUME NEW r, IsTree(r), NCore(r) >= 1, NEW stack, StackIs(r, stack, PoolRow(r) - 1)
  PROVE  /\ TopOf(stack) = r.sn
         /\ Pushed(stack, CreateLayout(r), PoolRow(r)) = Levels(r.sn, 0, r.pool.sn, NPool(r), 0, 0)
<1>1. PICK rows : rows = CreateLayout(r)
  OBVIOUS
<1>2. PICK n, N, m, j, s : /\ n = PoolRow(r) /\ N = NPool(r) /\ m = AssemblyAt(r, j).sn /\ j = NCore(r)
                           /\ s = r.core.sn
  OBVIOUS
<1>3. N \in Nat /\ j \in Nat /\ NBlocks \in Nat
  BY <1>2, TreeNumbers, NBlocksNumber
<1>4. rows[n].numChildren = N /\ rows[n].sn = r.pool.sn
  BY <1>1, <1>2, LayoutChildren, LayoutNumbers
<1>5. j \in 1..NAll(r) /\ PoolRow(r) - 1 = RowAt(r, j) + NBlocks
  BY <1>2, RowBefore
<1>6. stack = After(r, j, NBlocks)
  BY <1>3, <1>5 DEF StackIs
<1>7. /\ SystemsLeft(r, j) = 1 /\ SystemSn(r, j) = s /\ Remaining(r, j) = 0 /\ NBlocks - NBlocks = 0
  <2>1. j <= NCore(r) /\ NCore(r) - j = 0
    BY <1>2, <1>3
  <2> QED
    BY <1>2, <1>3, <2>1 DEF SystemsLeft, SystemSn, Remaining
<1>8. stack = Levels(r.sn, 1, s, 0, m, 0)
  BY <1>2, <1>6, <1>7 DEF After
<1>9. PICK x : x = r.sn
  OBVIOUS
<1>10. PICK a \in Nat : a = 1 /\ a # 0 /\ a - 1 = 0
  OBVIOUS
<1>11. TopOf(Levels(x, a, s, 0, m, 0)) = x
  BY <1>10, TopSystem
<1>12. Pushed(Levels(x, a, s, 0, m, 0), rows, n) = Levels(x, a - 1, rows[n].sn, rows[n].numChildren, 0, 0)
  BY <1>3, <1>4, <1>10, PushedSystem
<1> QED
  BY <1>1, <1>2, <1>4, <1>8, <1>9, <1>10, <1>11, <1>12

(* An assembly follows another, or the row of its system. *)
LEMMA StackAtAssembly ==
  ASSUME NEW r, IsTree(r), NCore(r) >= 1, NEW j \in 1..NAll(r), NEW stack, StackIs(r, stack, RowAt(r, j) - 1)
  PROVE  /\ TopOf(stack) = SystemSn(r, j)
         /\ Pushed(stack, CreateLayout(r), RowAt(r, j)) = After(r, j, 0)
<1>1. PICK rows : rows = CreateLayout(r)
  OBVIOUS
<1>2. PICK n, s, x, a, y : /\ n = RowAt(r, j) /\ s = SystemSn(r, j) /\ x = r.sn /\ a = SystemsLeft(r, j)
                           /\ y = AssemblyAt(r, j).sn
  OBVIOUS
<1>3. PICK c \in Nat, p \in Nat : c = NCore(r) /\ p = NPool(r) /\ NAll(r) = c + p
  BY TreeNumbers DEF NAll
<1>4. NBlocks \in Nat
  BY NBlocksNumber
<1>5. rows[n].numChildren = NBlocks /\ rows[n].sn = y
  BY <1>1, <1>2, LayoutChildren, LayoutNumbers
<1>6. PICK b \in Nat : b # 0 /\ Remaining(r, j) = b - 1
                       /\ b = IF j <= c THEN c - j + 1 ELSE c + p - j + 1
  <2>1. j \in 1..c + p /\ Remaining(r, j) = IF j <= c THEN c - j ELSE c + p - j
    BY <1>3 DEF Remaining
  <2>2. CASE j <= c
    BY <1>3, <2>1, <2>2
  <2>3. CASE ~(j <= c)
    BY <1>3, <2>1, <2>3
  <2> QED
    BY <2>2, <2>3
<1>7. \E m : stack = Levels(x, a, s, b, m, 0)
  <2>1. CASE j = 1
    <3>1. j <= NCore(r) /\ n - 1 = 2
      BY <1>2, <1>3, <2>1, RowBefore
    <3>2. stack = Levels(r.sn, 1, r.core.sn, NCore(r), 0, 0)
      BY <1>2, <3>1 DEF StackIs
    <3>3. a = 1 /\ s = r.core.sn /\ b = NCore(r)
      BY <1>2, <1>3, <1>6, <2>1, <3>1 DEF SystemsLeft, SystemSn
    <3> QED
      BY <1>2, <3>2, <3>3
  <2>2. CASE j = NCore(r) + 1
    <3>1. ~(j <= NCore(r)) /\ n - 1 = PoolRow(r)
      BY <1>2, <1>3, <2>2, RowBefore
    <3>2. stack = Levels(r.sn, 0, r.pool.sn, NPool(r), 0, 0)
      BY <1>2, <3>1 DEF StackIs
    <3>3. a = 0 /\ s = r.pool.sn /\ b = NPool(r)
      BY <1>2, <1>3, <1>6, <2>2, <3>1 DEF SystemsLeft, SystemSn
    <3> QED
      BY <1>2, <3>2, <3>3
  <2>3. CASE j # 1 /\ j # NCore(r) + 1
    <3>1. PICK i \in 1..NAll(r) : i = j - 1 /\ n - 1 = RowAt(r, i) + NBlocks
      <4>1. j > 1
        BY <1>3, <2>3
      <4> QED
        BY <1>2, <2>3, <4>1, RowBefore
    <3>2. stack = After(r, i, NBlocks)
      BY <1>2, <1>4, <3>1 DEF StackIs
    <3>3. i <= c <=> j <= c
      BY <1>3, <2>3, <3>1
    <3>4. SystemsLeft(r, i) = a /\ SystemSn(r, i) = s
      BY <1>2, <1>3, <3>3 DEF SystemsLeft, SystemSn
    <3>5. Remaining(r, i) = b
      <4>1. Remaining(r, i) = IF j <= c THEN c - i ELSE c + p - i
        BY <1>3, <3>3 DEF Remaining
      <4> QED
        BY <1>3, <1>6, <3>1, <4>1
    <3>6. NBlocks - NBlocks = 0
      BY <1>4
    <3> QED
      BY <1>2, <3>2, <3>4, <3>5, <3>6 DEF After
  <2> QED
    BY <2>1, <2>2, <2>3
<1>8. PICK m : stack = Levels(x, a, s, b, m, 0)
  BY <1>7
<1>9. TopOf(Levels(x, a, s, b, m, 0)) = s
  BY <1>6, TopChild
<1>10. Pushed(Levels(x, a, s, b, m, 0), rows, n)
         = Levels(x, a, s, b - 1, rows[n].sn, rows[n].numChildren)
  BY <1>4, <1>5, <1>6, PushedChild
<1>11. NBlocks - 0 = NBlocks
  BY <1>4
<1> QED
  BY <1>1, <1>2, <1>5, <1>6, <1>8, <1>9, <1>10, <1>11 DEF After

(* A block follows its assembly, or the block below. *)
LEMMA StackAtBlock ==
  ASSUME NEW r, IsTree(r), NEW j \in 1..NAll(r), NEW k \in 1..NBlocks,
         NEW stack, StackIs(r, stack, RowAt(r, j) + k - 1)
  PROVE  /\ TopOf(stack) = AssemblyAt(r, j).sn
         /\ Pushed(stack, CreateLayout(r), RowAt(r, j) + k) = After(r, j, k)
<1>1. PICK rows : rows = CreateLayout(r)
  OBVIOUS
<1>2. PICK n, s, x, a, b, y : /\ n = RowAt(r, j) + k /\ s = SystemSn(r, j) /\ x = r.sn /\ a = SystemsLeft(r, j)
                              /\ b = Remaining(r, j) /\ y = AssemblyAt(r, j).sn
  OBVIOUS
<1>3. NBlocks \in Nat
  BY NBlocksNumber
<1>4. PICK i \in 0..NBlocks : i = k - 1
  BY <1>3
<1>5. PICK c \in Nat : c = NBlocks - i /\ c # 0 /\ c - 1 = NBlocks - k
  BY <1>3, <1>4
<1>6. rows[n].numChildren = 0
  BY <1>1, <1>2, LayoutChildren
<1>7. RowAt(r, j) + k - 1 = RowAt(r, j) + i
  BY <1>3, <1>4, RowBefore
<1>8. stack = After(r, j, i)
  BY <1>7 DEF StackIs
<1>9. stack = Levels(x, a, s, b, y, c)
  BY <1>2, <1>5, <1>8 DEF After
<1>10. /\ TopOf(Levels(x, a, s, b, y, c)) = y
       /\ Pushed(Levels(x, a, s, b, y, c), rows, n) = Levels(x, a, s, b, y, c - 1)
  BY <1>5, <1>6, NextBlock
<1> QED
  BY <1>1, <1>2, <1>5, <1>9, <1>10 DEF After

(* The reactor is the first row. *)
LEMMA StackAtStart ==
  ASSUME NEW r, IsTree(r)
  PROVE  WalkStart(CreateLayout(r)).stack = Levels(r.sn, 2, 0, 0, 0, 0)
<1>1. PICK rows : rows = CreateLayout(r)
  OBVIOUS
<1>2. rows[1].sn = r.sn /\ rows[1].numChildren = 2
  BY <1>1, LayoutNumbers, LayoutChildren
<1>3. WalkStart(rows).stack = <<Entry(r.sn, 2)>>
  BY <1>2 DEF WalkStart, Open, Entry
<1>4. Levels(r.sn, 2, 0, 0, 0, 0) = <<Entry(r.sn, 2)>>
  BY DEF Levels
<1> QED
  BY <1>1, <1>3, <1>4

(* The core is the second. *)
LEMMA StackAtCore ==
  ASSUME NEW r, IsTree(r), NEW stack, StackIs(r, stack, 1)
  PROVE  /\ TopOf(stack) = r.sn
         /\ Pushed(stack, CreateLayout(r), 2) = Levels(r.sn, 1, r.core.sn, NCore(r), 0, 0)
<1>1. PICK rows : rows = CreateLayout(r)
  OBVIOUS
<1>2. PICK x, n, m, s, a : x = r.sn /\ n = 2 /\ m = 0 /\ s = 0 /\ a = 2
  OBVIOUS
<1>3. a \in Nat /\ a # 0 /\ a - 1 = 1
  BY <1>2
<1>4. rows[n].numChildren \in Nat /\ rows[n].numChildren = NCore(r) /\ rows[n].sn = r.core.sn
  BY <1>1, <1>2, LayoutNumbers, LayoutChildren, TreeNumbers
<1>5. stack = Levels(x, a, s, 0, m, 0)
  BY <1>2 DEF StackIs
<1>6. TopOf(Levels(x, a, s, 0, m, 0)) = x
  BY <1>3, TopSystem
<1>7. Pushed(Levels(x, a, s, 0, m, 0), rows, n) = Levels(x, a - 1, rows[n].sn, rows[n].numChildren, 0, 0)
  BY <1>3, <1>4, PushedSystem
<1> QED
  BY <1>1, <1>2, <1>3, <1>4, <1>5, <1>6, <1>7

(* One row after the other. *)
LEMMA NextStack ==
  ASSUME NEW r, IsTree(r), NCore(r) >= 1, NEW n \in Nat, n >= 2, NEW stack, StackIs(r, stack, n - 1)
  PROVE  /\ StackIs(r, Pushed(stack, CreateLayout(r), n), n)
         /\ ParentIs(r, TopOf(stack), n)
<1>1. PICK p, t : p = Pushed(stack, CreateLayout(r), n) /\ t = TopOf(stack)
  OBVIOUS
<1>2. NBlocks \in Nat /\ PoolRow(r) >= 3 /\ \A j \in 1..NAll(r) : RowAt(r, j) \in Nat /\ RowAt(r, j) >= 3
  BY RowBefore, NBlocksNumber
<1>3. n = 2 => t = r.sn /\ p = Levels(r.sn, 1, r.core.sn, NCore(r), 0, 0)
  <2>1. ASSUME n = 2 PROVE t = r.sn /\ p = Levels(r.sn, 1, r.core.sn, NCore(r), 0, 0)
    <3>1. n - 1 = 1
      BY <2>1
    <3>2. StackIs(r, stack, 1)
      BY <3>1
    <3> QED
      BY <1>1, <2>1, <3>2, StackAtCore
  <2> QED
    BY <2>1
<1>4. n = PoolRow(r) => t = r.sn /\ p = Levels(r.sn, 0, r.pool.sn, NPool(r), 0, 0)
  BY <1>1, StackAtPool
<1>5. ASSUME NEW j \in 1..NAll(r), n = RowAt(r, j) PROVE t = SystemSn(r, j) /\ p = After(r, j, 0)
  BY <1>1, <1>5, StackAtAssembly
<1>6. ASSUME NEW j \in 1..NAll(r), NEW k \in 1..NBlocks, n = RowAt(r, j) + k
      PROVE  t = AssemblyAt(r, j).sn /\ p = After(r, j, k)
  <2>1. StackIs(r, stack, RowAt(r, j) + k - 1)
    <3>1. PICK i : i = n - 1
      OBVIOUS
    <3>2. RowAt(r, j) + k - 1 = i
      BY <1>2, <1>6, <3>1
    <3> QED
      BY <3>1, <3>2
  <2> QED
    BY <1>1, <1>6, <2>1, StackAtBlock
<1>7. ASSUME NEW j \in 1..NAll(r), NEW k \in 0..NBlocks, n = RowAt(r, j) + k PROVE p = After(r, j, k)
  <2>1. CASE k = 0
    <3>1. n = RowAt(r, j)
      BY <1>2, <1>7, <2>1
    <3> QED
      BY <1>5, <2>1, <3>1
  <2>2. CASE k # 0
    <3>1. k \in 1..NBlocks
      BY <1>2, <2>2
    <3> QED
      BY <1>6, <1>7, <3>1
  <2> QED
    BY <2>1, <2>2
<1>8. n # 1
  OBVIOUS
<1>9. StackIs(r, p, n)
  BY <1>3, <1>4, <1>7, <1>8 DEF StackIs
<1>10. ParentIs(r, t, n)
  BY <1>3, <1>4, <1>5, <1>6 DEF ParentIs
<1> QED
  BY <1>1, <1>9, <1>10

(* Every row: by the least row at which it would fail. *)
LEMMA WalkStacks ==
  ASSUME NEW r, IsTree(r), NCore(r) >= 1, NEW W, NEW N \in Nat, IsWalk(W, CreateLayout(r), N)
  PROVE  /\ \A n \in 1..N : StackIs(r, W[n].stack, n)
         /\ \A n \in 2..N : ParentIs(r, TopOf(W[n-1].stack), n)
<1>1. PICK rows : rows = CreateLayout(r)
  OBVIOUS
<1>2. NBlocks \in Nat /\ PoolRow(r) >= 3 /\ \A j \in 1..NAll(r) : RowAt(r, j) \in Nat /\ RowAt(r, j) >= 3
  BY RowBefore, NBlocksNumber
<1>3. \A n \in 1..N : W[n] = IF n = 1 THEN WalkStart(rows) ELSE WalkStep(rows, n, W[n-1])
  BY <1>1 DEF IsWalk
<1>4. 1 <= N => StackIs(r, W[1].stack, 1)
  <2>1. ASSUME 1 <= N PROVE W[1].stack = Levels(r.sn, 2, 0, 0, 0, 0)
    <3>1. W[1] = WalkStart(rows)
      BY <1>3, <2>1
    <3> QED
      BY <1>1, <3>1, StackAtStart
  <2>2. PoolRow(r) # 1
    BY <1>2
  <2>3. \A j \in 1..NAll(r) : \A k \in 0..NBlocks : 1 # RowAt(r, j) + k
    BY <1>2
  <2> QED
    BY <2>1, <2>2, <2>3 DEF StackIs
<1> DEFINE S == {n \in Nat : n >= 1 /\ n <= N /\ ~StackIs(r, W[n].stack, n)}
<1>5. ASSUME NEW n \in 2..N, StackIs(r, W[n-1].stack, n - 1)
      PROVE  StackIs(r, W[n].stack, n) /\ ParentIs(r, TopOf(W[n-1].stack), n)
  <2>1. PICK stack : stack = W[n-1].stack
    OBVIOUS
  <2>2. n \in Nat /\ n >= 2 /\ n \in 1..N /\ n # 1
    OBVIOUS
  <2>3. W[n].stack = Pushed(stack, rows, n)
    <3>1. PICK last : last = W[n-1]
      OBVIOUS
    <3>2. W[n] = WalkStep(rows, n, last)
      BY <1>3, <2>2, <3>1
    <3> QED
      BY <2>1, <3>1, <3>2 DEF WalkStep
  <2>4. StackIs(r, stack, n - 1)
    BY <1>5, <2>1
  <2> QED
    BY <1>1, <2>1, <2>2, <2>3, <2>4, NextStack
<1>6. ASSUME S # {} PROVE FALSE
  <2>1. S \subseteq Nat
    OBVIOUS
  <2>2. PICK n \in S : \A m \in S : n <= m
    BY <1>6, <2>1, LeastNumber
  <2>3. n \in Nat /\ n >= 1 /\ n <= N /\ ~StackIs(r, W[n].stack, n)
    BY <2>2
  <2>4. n # 1
    BY <1>4, <2>3
  <2>5. n - 1 \in Nat /\ n - 1 >= 1 /\ n - 1 <= N /\ n \in 2..N
    BY <2>3, <2>4
  <2>6. n - 1 \notin S
    BY <2>2, <2>3
  <2>7. StackIs(r, W[n-1].stack, n - 1)
    BY <2>5, <2>6
  <2> QED
    BY <1>5, <2>3, <2>5, <2>7
<1>7. ASSUME NEW n \in 1..N PROVE StackIs(r, W[n].stack, n)
  BY <1>6
<1>8. ASSUME NEW n \in 2..N PROVE ParentIs(r, TopOf(W[n-1].stack), n)
  <2>1. n - 1 \in 1..N
    OBVIOUS
  <2> QED
    BY <1>5, <1>7, <2>1
<1> QED
  BY <1>7, <1>8

(* The parents that are found are those of the tree. *)
LEMMA ParentsOfLayout ==
  ASSUME NEW r, IsTree(r), NCore(r) >= 1
  PROVE  LET rows == CreateLayout(r)
         IN  /\ Parents(rows)[1] = NoAncestor
             /\ \A n \in 2..Len(rows) : ParentIs(r, Parents(rows)[n], n)
<1>1. PICK rows : rows = CreateLayout(r)
  OBVIOUS
<1>2. IsList(rows) /\ Len(rows) \in Nat /\ Len(rows) >= 1
  <2>1. IsList(rows) /\ Len(rows) = 3 + Span(NAll(r))
    BY <1>1, LayoutRows
  <2> QED
    BY <2>1, TreeNumbers
<1>3. PICK W : IsWalk(W, rows, Len(rows)) /\ Parents(rows) = W[Len(rows)].parents
  BY <1>2, WalkOf
<1>4. PICK N \in Nat : N = Len(rows)
  BY <1>2
<1>5. /\ W[N].parents[1] = NoAncestor
      /\ \A m \in 2..N : W[N].parents[m] = TopOf(W[m-1].stack)
  BY <1>2, <1>3, <1>4, ParentsOnStack
<1>6. \A n \in 2..N : ParentIs(r, TopOf(W[n-1].stack), n)
  BY <1>1, <1>3, <1>4, WalkStacks
<1> QED
  BY <1>1, <1>3, <1>4, <1>5, <1>6

(* Two steps up. *)
RowWith(rows, sn) == CHOOSE n \in 1..Len(rows) : rows[n].sn = sn

OneUp(rows, below) ==
  [n \in 1..Len(rows) |-> IF below[n] = NoAncestor THEN NoAncestor ELSE Parents(rows)[RowWith(rows, below[n])]]

Ups(F, rows, depth) == F = [d \in 1..depth |-> IF d = 1 THEN Parents(rows) ELSE OneUp(rows, F[d-1])]

(* The ancestors at depth two are the parents of the parents. *)
LEMMA TwoUp ==
  ASSUME NEW rows
  PROVE  ComputeAncestors(rows, 2) = OneUp(rows, Parents(rows))
<1>1. PICK x, y : x = Parents(rows) /\ y = OneUp(rows, x)
  OBVIOUS
<1>2. \E F : Ups(F, rows, 2)
  <2>1. PICK F : F = [d \in 1..2 |-> IF d = 1 THEN x ELSE y]
    OBVIOUS
  <2>2. F[1] = x /\ F[2] = y /\ F = [d \in 1..2 |-> F[d]]
    BY <2>1
  <2>3. ASSUME NEW d \in 1..2 PROVE F[d] = IF d = 1 THEN Parents(rows) ELSE OneUp(rows, F[d-1])
    <3>1. d = 1 \/ d = 2
      OBVIOUS
    <3>2. d = 2 => d - 1 = 1
      OBVIOUS
    <3> QED
      BY <1>1, <2>2, <3>1, <3>2
  <2>4. Ups(F, rows, 2)
    BY <2>2, <2>3 DEF Ups
  <2> QED
    BY <2>4
<1> DEFINE F == CHOOSE F : Ups(F, rows, 2)
<1>3. Ups(F, rows, 2)
  BY <1>2
<1>4. ComputeAncestors(rows, 2) = F[2]
  BY DEF ComputeAncestors, Ups, OneUp, RowWith
<1> HIDE DEF F
<1>5. F[1] = x /\ F[2] = OneUp(rows, F[2 - 1])
  BY <1>1, <1>3 DEF Ups
<1>6. 2 - 1 = 1
  OBVIOUS
<1> QED
  BY <1>1, <1>4, <1>5, <1>6

(* The place of the j-th assembly. *)
TagAt(r, j) == IF j <= NCore(r) THEN <<"core", CorePlace(r, j)>> ELSE <<"pool", PoolPlace(r, j - NCore(r))>>

(* The assemblies of the rows are at different places. *)
LEMMA TagFacts ==
  ASSUME NEW r, IsReactor(r)
  PROVE  /\ \A j \in 1..NAll(r) : TagAt(r, j) \in PlacesOf(r) /\ At(r, TagAt(r, j)) = AssemblyAt(r, j)
         /\ \A i, j \in 1..NAll(r) : TagAt(r, i) = TagAt(r, j) => i = j
<1>1. IsTree(r)
  BY ReactorIsTree
<1>2. PICK c \in Nat, p \in Nat : c = NCore(r) /\ p = NPool(r) /\ NAll(r) = c + p
  BY <1>1, TreeNumbers DEF NAll
<1>3. ASSUME NEW j \in 1..NAll(r)
      PROVE  \/ j \in 1..c /\ TagAt(r, j) = <<"core", CorePlace(r, j)>> /\ AssemblyAt(r, j) = r.core.holds[CorePlace(r, j)]
             \/ /\ ~(j <= c) /\ j - c \in 1..p
                /\ TagAt(r, j) = <<"pool", PoolPlace(r, j - c)>>
                /\ AssemblyAt(r, j) = r.pool.holds[PoolPlace(r, j - c)]
  BY <1>2 DEF TagAt, AssemblyAt
<1>4. ASSUME NEW j \in 1..NAll(r) PROVE TagAt(r, j) \in PlacesOf(r) /\ At(r, TagAt(r, j)) = AssemblyAt(r, j)
  <2>1. \A i \in 1..c : CorePlace(r, i) \in DOMAIN r.core.holds
    BY <1>1, <1>2, PlacesOfTree
  <2>2. \A i \in 1..p : PoolPlace(r, i) \in DOMAIN r.pool.holds
    BY <1>1, <1>2, PlacesOfTree
  <2>3. CASE j \in 1..c /\ TagAt(r, j) = <<"core", CorePlace(r, j)>> /\ AssemblyAt(r, j) = r.core.holds[CorePlace(r, j)]
    BY <2>1, <2>3, InPlaces
  <2>4. CASE /\ ~(j <= c) /\ j - c \in 1..p
             /\ TagAt(r, j) = <<"pool", PoolPlace(r, j - c)>>
             /\ AssemblyAt(r, j) = r.pool.holds[PoolPlace(r, j - c)]
    BY <2>2, <2>4, InPlaces
  <2> QED
    BY <1>3, <2>3, <2>4
<1>5. \A i, j \in 1..c : CorePlace(r, i) = CorePlace(r, j) => i = j
  <2>1. PICK d : d = DOMAIN r.core.holds
    OBVIOUS
  <2>2. IsFiniteSet(d) /\ d \subseteq Nat \X Nat /\ c = Cardinality(d)
    BY <1>1, <1>2, <2>1 DEF IsTree, HoldsAssemblies, NCore
  <2>3. \A i, j \in 1..Cardinality(d) : InOrder(d)[i] = InOrder(d)[j] => i = j
    BY <2>2, InOrderIsOneToOne
  <2> QED
    BY <2>1, <2>2, <2>3 DEF CorePlace
<1>6. \A i, j \in 1..p : PoolPlace(r, i) = PoolPlace(r, j) => i = j
  <2>1. PICK d : d = DOMAIN r.pool.holds
    OBVIOUS
  <2>2. IsFiniteSet(d) /\ d \subseteq Nat \X Nat /\ p = Cardinality(d)
    BY <1>1, <1>2, <2>1 DEF IsTree, HoldsAssemblies, NPool
  <2>3. \A i, j \in 1..Cardinality(d) : InOrder(d)[i] = InOrder(d)[j] => i = j
    BY <2>2, InOrderIsOneToOne
  <2> QED
    BY <2>1, <2>2, <2>3 DEF PoolPlace
<1>7. ASSUME NEW i \in 1..NAll(r), NEW j \in 1..NAll(r), TagAt(r, i) = TagAt(r, j) PROVE i = j
  <2>1. CASE i <= c /\ j <= c
    <3>1. i \in 1..c /\ j \in 1..c /\ CorePlace(r, i) = CorePlace(r, j)
      BY <1>3, <1>7, <2>1
    <3> QED
      BY <1>5, <3>1
  <2>2. CASE ~(i <= c) /\ ~(j <= c)
    <3>1. i - c \in 1..p /\ j - c \in 1..p /\ PoolPlace(r, i - c) = PoolPlace(r, j - c)
      BY <1>3, <1>7, <2>2
    <3>2. i - c = j - c
      BY <1>6, <3>1
    <3> QED
      BY <1>2, <3>2
  <2>3. CASE ~(i <= c <=> j <= c)
    <3>1. TagAt(r, i)[1] # TagAt(r, j)[1]
      BY <1>3, <2>3
    <3> QED
      BY <1>7, <3>1
  <2> QED
    BY <2>1, <2>2, <2>3
<1> QED
  BY <1>4, <1>7

(* A tree whose serial numbers tell its objects apart. *)
ToldApart(r) ==
  /\ IsReactor(r) /\ HasSerials(r) /\ Apart(r) /\ NCore(r) >= 1
  /\ \A x, y \in Objects(r) : x[2] = y[2] => x[1] = y[1]

(* Then a serial number finds one row. *)
LEMMA OneRowPerSerial ==
  ASSUME NEW r, ToldApart(r)
  PROVE  LET rows == CreateLayout(r)
         IN  \A m, n \in 1..Len(rows) : rows[m].sn = rows[n].sn => m = n
<1>1. PICK rows : rows = CreateLayout(r)
  OBVIOUS
<1>2. IsReactor(r) /\ IsTree(r) /\ NBlocks \in Nat
  BY ReactorIsTree, NBlocksNumber DEF ToldApart
<1>3. rows[1].sn = 1 /\ rows[2].sn = 2 /\ rows[PoolRow(r)].sn = 3
  BY <1>1, <1>2, LayoutNumbers DEF ToldApart, HasSerials
<1>4. \A j \in 1..NAll(r) : RowAt(r, j) \in Nat
  BY <1>2, RowBefore
<1>5. ASSUME NEW j \in 1..NAll(r), NEW k \in 0..NBlocks
      PROVE  rows[RowAt(r, j) + k].sn = SnOf(At(r, TagAt(r, j)), k)
  <2>1. CASE k = 0
    <3>1. RowAt(r, j) + k = RowAt(r, j)
      BY <1>4, <2>1
    <3> QED
      BY <1>1, <1>2, <2>1, <3>1, LayoutNumbers, TagFacts DEF SnOf
  <2>2. CASE k # 0
    <3>1. k \in 1..NBlocks
      BY <1>2, <2>2
    <3> QED
      BY <1>1, <1>2, <2>2, <3>1, LayoutNumbers, TagFacts DEF SnOf
  <2> QED
    BY <2>1, <2>2
<1>6. ASSUME NEW n \in 1..Len(rows)
      PROVE  \/ n \in {1, 2, PoolRow(r)} /\ rows[n].sn \in {1, 2, 3}
             \/ \E j \in 1..NAll(r), k \in 0..NBlocks :
                  n = RowAt(r, j) + k /\ rows[n].sn = SnOf(At(r, TagAt(r, j)), k) /\ TagAt(r, j) \in PlacesOf(r)
  <2>1. \/ n \in {1, 2, PoolRow(r)}
        \/ \E j \in 1..NAll(r) : n = RowAt(r, j) \/ \E k \in 1..NBlocks : n = RowAt(r, j) + k
    BY <1>1, <1>2, EveryRow
  <2>2. CASE n \in {1, 2, PoolRow(r)}
    BY <1>3, <2>2
  <2>3. ASSUME NEW j \in 1..NAll(r), n = RowAt(r, j) \/ \E k \in 1..NBlocks : n = RowAt(r, j) + k
        PROVE  \E k \in 0..NBlocks : n = RowAt(r, j) + k
    <3>1. CASE n = RowAt(r, j)
      <4>1. 0 \in 0..NBlocks /\ n = RowAt(r, j) + 0
        BY <1>2, <1>4, <3>1
      <4> QED
        BY <4>1
    <3>2. CASE \E k \in 1..NBlocks : n = RowAt(r, j) + k
      <4>1. 1..NBlocks \subseteq 0..NBlocks
        BY <1>2
      <4> QED
        BY <3>2, <4>1
    <3> QED
      BY <2>3, <3>1, <3>2
  <2>4. \A j \in 1..NAll(r) : TagAt(r, j) \in PlacesOf(r)
    BY <1>2, TagFacts
  <2> QED
    BY <1>5, <2>1, <2>2, <2>3, <2>4
<1>7. \A p \in PlacesOf(r) : \A k \in 0..NBlocks : SnOf(At(r, p), k) \in Nat /\ SnOf(At(r, p), k) > 3
  BY DEF ToldApart, HasSerials
<1>8. ASSUME NEW p \in PlacesOf(r), NEW q \in PlacesOf(r), NEW k \in 0..NBlocks, NEW l \in 0..NBlocks,
             SnOf(At(r, p), k) = SnOf(At(r, q), l)
      PROVE  p = q /\ k = l
  <2>1. PICK x, y : x = <<IdOf(At(r, p), k), SnOf(At(r, p), k)>> /\ y = <<IdOf(At(r, q), l), SnOf(At(r, q), l)>>
    OBVIOUS
  <2>2. x \in Objects(r) /\ y \in Objects(r)
    BY <1>2, <2>1, ObjectsOf
  <2>3. x[1] = y[1]
    BY <1>8, <2>1, <2>2 DEF ToldApart
  <2>4. IdOf(At(r, p), k) = IdOf(At(r, q), l)
    BY <2>1, <2>3
  <2> QED
    BY <2>4 DEF ToldApart, Apart
<1>9. ASSUME NEW m \in 1..Len(rows), NEW n \in 1..Len(rows), rows[m].sn = rows[n].sn PROVE m = n
  <2>1. CASE m \in {1, 2, PoolRow(r)} /\ n \in {1, 2, PoolRow(r)}
    BY <1>3, <1>9, <2>1
  <2>2. ASSUME NEW i \in 1..NAll(r), NEW k \in 0..NBlocks, NEW j \in 1..NAll(r), NEW l \in 0..NBlocks,
               m = RowAt(r, i) + k, rows[m].sn = SnOf(At(r, TagAt(r, i)), k), TagAt(r, i) \in PlacesOf(r),
               n = RowAt(r, j) + l, rows[n].sn = SnOf(At(r, TagAt(r, j)), l), TagAt(r, j) \in PlacesOf(r)
        PROVE  m = n
    <3>1. TagAt(r, i) = TagAt(r, j) /\ k = l
      BY <1>8, <1>9, <2>2
    <3>2. i = j
      BY <1>2, <3>1, TagFacts
    <3> QED
      BY <2>2, <3>1, <3>2
  <2>3. \A j \in 1..NAll(r), k \in 0..NBlocks :
          TagAt(r, j) \in PlacesOf(r) => SnOf(At(r, TagAt(r, j)), k) \notin {1, 2, 3}
    <3>1. ASSUME NEW x, x \in Nat, x > 3 PROVE x \notin {1, 2, 3}
      BY <3>1
    <3> QED
      BY <1>7, <3>1
  <2>4. CASE rows[m].sn \in {1, 2, 3}
    <3>1. m \in {1, 2, PoolRow(r)}
      BY <1>6, <2>3, <2>4
    <3>2. n \in {1, 2, PoolRow(r)}
      BY <1>6, <1>9, <2>3, <2>4
    <3> QED
      BY <2>1, <3>1, <3>2
  <2>5. CASE rows[m].sn \notin {1, 2, 3}
    BY <1>6, <1>9, <2>2, <2>5
  <2> QED
    BY <2>4, <2>5
<1> QED
  BY <1>1, <1>9

(* It is the row that ComputeAncestors looks up. *)
LEMMA RowIsFound ==
  ASSUME NEW r, ToldApart(r), NEW n \in 1..Len(CreateLayout(r)), NEW sn, CreateLayout(r)[n].sn = sn
  PROVE  RowWith(CreateLayout(r), sn) = n
<1>1. PICK rows : rows = CreateLayout(r)
  OBVIOUS
<1>2. \A m, k \in 1..Len(rows) : rows[m].sn = rows[k].sn => m = k
  BY <1>1, OneRowPerSerial
<1>3. RowWith(rows, sn) \in 1..Len(rows) /\ rows[RowWith(rows, sn)].sn = sn
  BY <1>1 DEF RowWith
<1> QED
  BY <1>1, <1>2, <1>3

(* Who is two levels above a row. *)
LEMMA AncestorsOfLayout ==
  ASSUME NEW r, ToldApart(r)
  PROVE  LET up == ComputeAncestors(CreateLayout(r), 2)
         IN  /\ \A n \in {1, 2, PoolRow(r)} : up[n] = NoAncestor
             /\ \A j \in 1..NAll(r) : up[RowAt(r, j)] = 1
             /\ \A j \in 1..NAll(r) : \A k \in 1..NBlocks : up[RowAt(r, j) + k] = SystemSn(r, j)
<1>1. PICK rows, up, parents : /\ rows = CreateLayout(r) /\ up = ComputeAncestors(rows, 2)
                               /\ parents = Parents(rows)
  OBVIOUS
<1>2. IsReactor(r) /\ IsTree(r) /\ NBlocks \in Nat /\ NCore(r) >= 1
  BY ReactorIsTree, NBlocksNumber DEF ToldApart
<1>3. r.sn = 1 /\ r.core.sn = 2 /\ r.pool.sn = 3
  BY DEF ToldApart, HasSerials
<1>4. rows[1].sn = 1 /\ rows[2].sn = 2 /\ rows[PoolRow(r)].sn = 3
  BY <1>1, <1>2, <1>3, LayoutNumbers
<1>5. PICK N \in Nat : N = Len(rows) /\ N = 3 + Span(NAll(r)) /\ PoolRow(r) \in 1..N /\ N >= 3
  <2>1. Len(rows) = 3 + Span(NAll(r))
    BY <1>1, <1>2, LayoutRows
  <2>2. PICK a \in Nat, b \in Nat : a = Span(NCore(r)) /\ b = Span(NAll(r)) /\ a <= b
    BY <1>2, TreeNumbers
  <2>3. PoolRow(r) = 3 + a
    BY <2>2 DEF PoolRow
  <2> QED
    BY <2>1, <2>2, <2>3
<1>6. 1 \in 1..N /\ 2 \in 1..N /\ 2 \in 2..N /\ PoolRow(r) \in 2..N
  <2>1. PoolRow(r) >= 3
    BY <1>2, RowBefore
  <2> QED
    BY <1>5, <2>1
<1>7. \A j \in 1..NAll(r) : /\ RowAt(r, j) \in 1..N /\ RowAt(r, j) \in 2..N
                            /\ \A k \in 1..NBlocks : RowAt(r, j) + k \in 1..N /\ RowAt(r, j) + k \in 2..N
  <2>1. ASSUME NEW x, x \in 3..N PROVE x \in 1..N /\ x \in 2..N
    BY <1>5, <2>1
  <2>2. \A j \in 1..NAll(r) : /\ RowAt(r, j) \in 3..N
                              /\ \A k \in 1..NBlocks : RowAt(r, j) + k \in 3..N
    BY <1>1, <1>2, <1>5, RowsInside
  <2> QED
    BY <2>1, <2>2
<1>8. ASSUME NEW n \in 1..N
      PROVE  up[n] = IF parents[n] = NoAncestor THEN NoAncestor ELSE parents[RowWith(rows, parents[n])]
  BY <1>1, <1>5, TwoUp DEF OneUp
<1>9. parents[1] = NoAncestor /\ \A n \in 2..N : ParentIs(r, parents[n], n)
  BY <1>1, <1>2, <1>5, ParentsOfLayout
<1>10. ASSUME NEW n \in 1..N, NEW m \in 1..N, parents[n] = rows[m].sn, parents[n] # NoAncestor
       PROVE  up[n] = parents[m]
  <2>1. RowWith(rows, parents[n]) = m
    BY <1>1, <1>5, <1>10, RowIsFound
  <2> QED
    BY <1>8, <1>10, <2>1
<1>11. NoAncestor # 1 /\ NoAncestor # 2 /\ NoAncestor # 3
  BY DEF NoAncestor
<1>12. up[1] = NoAncestor
  BY <1>6, <1>8, <1>9
<1>13. parents[2] = 1 /\ parents[PoolRow(r)] = 1
  BY <1>3, <1>6, <1>9 DEF ParentIs
<1>14. up[2] = NoAncestor /\ up[PoolRow(r)] = NoAncestor
  BY <1>4, <1>6, <1>5, <1>9, <1>10, <1>11, <1>13
<1>15. ASSUME NEW j \in 1..NAll(r)
       PROVE  /\ parents[RowAt(r, j)] = SystemSn(r, j) /\ SystemSn(r, j) \in {2, 3}
              /\ up[RowAt(r, j)] = 1
  <2>1. PICK n : n = RowAt(r, j) /\ n \in 1..N /\ n \in 2..N
    BY <1>7
  <2>2. ParentIs(r, parents[n], n)
    BY <1>9, <2>1
  <2>3. parents[n] = SystemSn(r, j)
    BY <2>1, <2>2 DEF ParentIs
  <2>4. SystemSn(r, j) = 2 \/ SystemSn(r, j) = 3
    BY <1>3 DEF SystemSn
  <2>5. PICK m \in 1..N : rows[m].sn = parents[n] /\ parents[m] = 1
    BY <1>4, <1>5, <1>6, <1>13, <2>3, <2>4
  <2>6. parents[n] # NoAncestor
    BY <1>11, <2>3, <2>4
  <2>7. up[n] = 1
    BY <1>10, <2>1, <2>5, <2>6
  <2> QED
    BY <2>1, <2>3, <2>4, <2>7
<1>16. ASSUME NEW j \in 1..NAll(r), NEW k \in 1..NBlocks PROVE up[RowAt(r, j) + k] = SystemSn(r, j)
  <2>1. PICK n, m, sn : /\ n = RowAt(r, j) + k /\ n \in 1..N /\ n \in 2..N
                        /\ m = RowAt(r, j) /\ m \in 1..N /\ sn = AssemblyAt(r, j).sn
    BY <1>7
  <2>2. ParentIs(r, parents[n], n)
    BY <1>9, <2>1
  <2>3. parents[n] = sn
    BY <2>1, <2>2 DEF ParentIs
  <2>4. rows[m].sn = sn
    BY <1>1, <1>2, <2>1, LayoutNumbers
  <2>5. sn \in Nat /\ sn > 3
    <3>1. TagAt(r, j) \in PlacesOf(r) /\ At(r, TagAt(r, j)) = AssemblyAt(r, j)
      BY <1>2, TagFacts
    <3>2. 0 \in 0..NBlocks
      BY <1>2
    <3>3. SnOf(AssemblyAt(r, j), 0) \in Nat /\ SnOf(AssemblyAt(r, j), 0) > 3
      BY <3>1, <3>2 DEF ToldApart, HasSerials
    <3> QED
      BY <2>1, <3>3 DEF SnOf
  <2>6. parents[n] # NoAncestor
    BY <2>3, <2>5 DEF NoAncestor
  <2>7. up[n] = parents[m]
    BY <1>10, <2>1, <2>3, <2>4, <2>6
  <2> QED
    BY <1>15, <2>1, <2>7
<1> QED
  BY <1>1, <1>12, <1>14, <1>15, <1>16

(* The rows of the core at a location. *)
RowsInCore(rows, location) ==
  {n \in 1..Len(rows) : ComputeAncestors(rows, 2)[n] = 2 /\ rows[n].location = location}

(* One row of the core is at a place: the block that is there. *)
LEMMA OneRowPerPlace ==
  ASSUME NEW r, ToldApart(r), NEW c \in DOMAIN r.core.holds, NEW k \in 1..NBlocks
  PROVE  \E j \in 1..NAll(r) :
           /\ AssemblyAt(r, j) = r.core.holds[c]
           /\ RowsInCore(CreateLayout(r), <<c[1], c[2], k - 1>>) = {RowAt(r, j) + k}
<1>1. PICK rows, up : rows = CreateLayout(r) /\ up = ComputeAncestors(rows, 2)
  OBVIOUS
<1>2. IsReactor(r) /\ IsTree(r) /\ NBlocks \in Nat
  BY ReactorIsTree, NBlocksNumber DEF ToldApart
<1>3. PICK n \in Nat : n = NCore(r) /\ n <= NAll(r) /\ NAll(r) \in Nat
  BY <1>2, TreeNumbers DEF NAll
<1>4. PICK d : d = DOMAIN r.core.holds
  OBVIOUS
<1>5. IsFiniteSet(d) /\ d \subseteq Nat \X Nat /\ n = Cardinality(d)
  BY <1>2, <1>3, <1>4 DEF IsTree, HoldsAssemblies, NCore
<1>6. /\ \A e \in d : \E i \in 1..n : CorePlace(r, i) = e
      /\ \A i, j \in 1..n : CorePlace(r, i) = CorePlace(r, j) => i = j
  BY <1>4, <1>5, InOrderIsOneToOne DEF CorePlace
<1>7. PICK j \in 1..n : CorePlace(r, j) = c
  BY <1>4, <1>6
<1>8. j \in 1..NAll(r) /\ j <= NCore(r)
  BY <1>3
<1>9. AssemblyAt(r, j) = r.core.holds[c] /\ PlaceAt(r, j) = c
  BY <1>7, <1>8 DEF AssemblyAt, PlaceAt
<1>10. SystemSn(r, j) = 2
  BY <1>8 DEF SystemSn, ToldApart, HasSerials
<1>11. PICK location : location = <<c[1], c[2], k - 1>>
  OBVIOUS
<1>12. RowAt(r, j) + k \in RowsInCore(rows, location)
  <2>1. up[RowAt(r, j) + k] = 2
    BY <1>1, <1>8, <1>10, AncestorsOfLayout
  <2>2. rows[RowAt(r, j) + k].location = location
    BY <1>1, <1>2, <1>8, <1>9, <1>11, LayoutNumbers
  <2>3. RowAt(r, j) + k \in 1..Len(rows)
    <3>1. RowAt(r, j) + k \in 3..Len(rows)
      BY <1>1, <1>2, <1>8, RowsInside
    <3> QED
      BY <3>1
  <2> QED
    BY <1>1, <2>1, <2>2, <2>3 DEF RowsInCore
<1>13. ASSUME NEW m \in RowsInCore(rows, location) PROVE m = RowAt(r, j) + k
  <2>1. m \in 1..Len(rows) /\ up[m] = 2 /\ rows[m].location = location
    BY <1>1 DEF RowsInCore
  <2>2. m \notin {1, 2, PoolRow(r)}
    BY <1>1, <2>1, AncestorsOfLayout DEF NoAncestor
  <2>3. PICK i \in 1..NAll(r) : m = RowAt(r, i) \/ \E l \in 1..NBlocks : m = RowAt(r, i) + l
    BY <1>1, <1>2, <2>1, <2>2, EveryRow
  <2>4. m # RowAt(r, i)
    BY <1>1, <2>1, AncestorsOfLayout
  <2>5. PICK l \in 1..NBlocks : m = RowAt(r, i) + l
    BY <2>3, <2>4
  <2>6. SystemSn(r, i) = 2
    BY <1>1, <2>1, <2>5, AncestorsOfLayout
  <2>7. i <= NCore(r)
    BY <2>6 DEF SystemSn, ToldApart, HasSerials
  <2>8. i \in 1..n /\ PlaceAt(r, i) = CorePlace(r, i)
    BY <1>3, <2>7 DEF PlaceAt
  <2>9. rows[m].location = <<PlaceAt(r, i)[1], PlaceAt(r, i)[2], l - 1>>
    BY <1>1, <1>2, <2>5, LayoutNumbers
  <2>10. PICK e \in d : e = CorePlace(r, i)
    BY <1>2, <1>3, <1>4, <2>8, PlacesOfTree
  <2>11. e[1] = c[1] /\ e[2] = c[2] /\ l - 1 = k - 1
    BY <1>11, <2>1, <2>8, <2>9, <2>10
  <2>12. e = c
    BY <1>4, <1>5, <2>11
  <2>13. i = j
    BY <1>6, <1>7, <2>8, <2>10, <2>12
  <2>14. l = k
    <3>1. l \in Int /\ k \in Int
      BY <1>2
    <3> QED
      BY <2>11, <3>1
  <2> QED
    BY <2>5, <2>13, <2>14
<1> QED
  BY <1>1, <1>8, <1>9, <1>11, <1>12, <1>13

-----------------------------------------------------------------------------
(***************************************************************************)
(* Histories (database.py, getHistories and getHistoriesByLocation).       *)
(***************************************************************************)

(* The value that a row of a block has. *)
LEMMA BlockValueAt ==
  ASSUME NEW r, IsReactor(r), NEW j \in 1..NAll(r), NEW k \in 1..NBlocks
  PROVE  BlockValue(Statepoint(r), RowAt(r, j) + k) = AssemblyAt(r, j).blocks[k].p
<1>1. PICK rows, objects, i : rows = CreateLayout(r) /\ objects = GroupedBlocks(r) /\ i = (j - 1) * NBlocks + k
  OBVIOUS
<1>2. IsTree(r) /\ NBlocks \in Nat
  BY ReactorIsTree, NBlocksNumber
<1>3. NAll(r) \in Nat /\ NAll(r) # 0 /\ j - 1 \in Nat /\ j \in Nat
  BY <1>2, TreeNumbers
<1>4. IsList(objects) /\ Len(objects) = NAll(r) * NBlocks /\ objects[i] = AssemblyAt(r, j).blocks[k]
  BY <1>1, <1>2, Grouped
<1>5. IndexInData(rows, RowAt(r, j) + k) = i
  BY <1>1, <1>2, IndexesInData
<1>6. i \in 1..Len(objects) /\ Len(objects) # 0
  <2>1. (j - 1) * NBlocks \in Nat /\ j * NBlocks = (j - 1) * NBlocks + NBlocks /\ j * NBlocks <= NAll(r) * NBlocks
        /\ NAll(r) * NBlocks \in Nat
    <3>1. j = (j - 1) + 1 /\ j <= NAll(r)
      BY <1>3
    <3> QED
      BY <1>3, <3>1, Products, NBlocksNumber
  <2>2. PICK x \in Nat, y \in Nat : x = (j - 1) * NBlocks /\ y = NAll(r) * NBlocks /\ x + NBlocks <= y
    BY <2>1
  <2> QED
    BY <1>1, <1>2, <1>4, <2>2
<1>7. ReadParams(BlockColumns(objects), CountOf(rows, "Block")).p[i].is = objects[i].p
  BY <1>4, <1>6, BlockParams
<1>8. Statepoint(r).rows = rows /\ Statepoint(r).block = BlockColumns(objects)
  BY <1>1 DEF Statepoint
<1> QED
  BY <1>4, <1>5, <1>7, <1>8 DEF BlockValue

(* The last of one row. *)
LEMMA MaxOfOne ==
  ASSUME NEW n \in Nat
  PROVE  Max({n}) = n
BY DEF Max

(* The blocks of a reactor are those of its rows. *)
LEMMA BlocksOfTree ==
  ASSUME NEW r, IsReactor(r)
  PROVE  /\ \A x \in Blocks(r) : \E j \in 1..NAll(r), k \in 1..NBlocks : x = AssemblyAt(r, j).blocks[k]
         /\ \A j \in 1..NAll(r), k \in 1..NBlocks : AssemblyAt(r, j).blocks[k] \in Blocks(r)
<1>1. PICK objects : objects = GroupedBlocks(r)
  OBVIOUS
<1>2. IsTree(r) /\ NBlocks \in Nat /\ NAll(r) \in Nat
  BY ReactorIsTree, NBlocksNumber, TreeNumbers
<1>3. /\ IsList(objects) /\ Len(objects) = NAll(r) * NBlocks
      /\ \A j \in 1..NAll(r), k \in 1..NBlocks : objects[(j - 1) * NBlocks + k] = AssemblyAt(r, j).blocks[k]
  BY <1>1, <1>2, Grouped
<1>4. Blocks(r) = {objects[i] : i \in 1..Len(objects)}
  <2>1. DOMAIN objects = 1..Len(objects)
    BY <1>3 DEF IsList
  <2> QED
    BY <1>1, <2>1 DEF Blocks, ToSet
<1>5. ASSUME NEW x \in Blocks(r) PROVE \E j \in 1..NAll(r), k \in 1..NBlocks : x = AssemblyAt(r, j).blocks[k]
  <2>1. PICK i \in 1..Len(objects) : x = objects[i]
    BY <1>4
  <2>2. i \in Nat /\ i >= 1 /\ i <= NAll(r) * NBlocks
    BY <1>3, <2>1 DEF IsList
  <2>3. PICK j \in 1..NAll(r), k \in 1..NBlocks : i = (j - 1) * NBlocks + k
    BY <1>2, <2>2, BlockOf
  <2> QED
    BY <1>3, <2>1, <2>3
<1>6. ASSUME NEW j \in 1..NAll(r), NEW k \in 1..NBlocks PROVE AssemblyAt(r, j).blocks[k] \in Blocks(r)
  <2>1. PICK i : i = (j - 1) * NBlocks + k
    OBVIOUS
  <2>2. j - 1 \in Nat /\ j \in Nat /\ j = (j - 1) + 1 /\ j <= NAll(r)
    BY <1>2
  <2>3. (j - 1) * NBlocks \in Nat /\ j * NBlocks = (j - 1) * NBlocks + NBlocks /\ j * NBlocks <= NAll(r) * NBlocks
        /\ NAll(r) * NBlocks \in Nat
    BY <1>2, <2>2, Products
  <2>4. PICK x \in Nat, y \in Nat : x = (j - 1) * NBlocks /\ y = NAll(r) * NBlocks /\ x + NBlocks <= y
    BY <2>3
  <2>5. i \in 1..Len(objects)
    BY <1>2, <1>3, <2>1, <2>4
  <2> QED
    BY <1>3, <1>4, <2>1, <2>5
<1> QED
  BY <1>5, <1>6

(* One statepoint of the history of a block. *)
RowsWith(r, sn) == {n \in RowsOf(CreateLayout(r), "Block") : CreateLayout(r)[n].sn = sn}
Had(r, id)      == {x \in Blocks(r) : x.id = id}

(* The rows of blocks. *)
LEMMA RowsOfBlocks ==
  ASSUME NEW r, IsTree(r), NEW n
  PROVE  n \in RowsOf(CreateLayout(r), "Block")
           <=> \E j \in 1..NAll(r), k \in 1..NBlocks : n = RowAt(r, j) + k
<1>1. PICK rows : rows = CreateLayout(r)
  OBVIOUS
<1>2. /\ rows[1].type = "Reactor" /\ rows[2].type = "Core" /\ rows[PoolRow(r)].type = "SpentFuelPool"
      /\ \A j \in 1..NAll(r) : /\ rows[RowAt(r, j)].type = "Assembly"
                               /\ \A k \in 1..NBlocks : rows[RowAt(r, j) + k].type = "Block"
  BY <1>1, LayoutTypes
<1>3. ASSUME n \in 1..Len(rows), rows[n].type = "Block"
      PROVE  \E j \in 1..NAll(r), k \in 1..NBlocks : n = RowAt(r, j) + k
  <2>1. n \notin {1, 2, PoolRow(r)}
    BY <1>2, <1>3
  <2>2. PICK j \in 1..NAll(r) : n = RowAt(r, j) \/ \E k \in 1..NBlocks : n = RowAt(r, j) + k
    BY <1>1, <1>3, <2>1, EveryRow
  <2>3. n # RowAt(r, j)
    BY <1>2, <1>3
  <2> QED
    BY <2>2, <2>3
<1>4. ASSUME NEW j \in 1..NAll(r), NEW k \in 1..NBlocks, n = RowAt(r, j) + k
      PROVE  n \in 1..Len(rows) /\ rows[n].type = "Block"
  <2>1. n \in 3..Len(rows)
    BY <1>1, <1>4, RowsInside
  <2>2. n \in 1..Len(rows)
    BY <2>1
  <2> QED
    BY <1>2, <1>4, <2>2
<1> QED
  BY <1>1, <1>3, <1>4 DEF RowsOf

(* The value in the group is that of the block, and is there if the block is. *)
LEMMA OneInHistory ==
  ASSUME NEW r, ToldApart(r), NEW sn, NEW id,
         \A j \in 1..NAll(r), k \in 1..NBlocks :
           AssemblyAt(r, j).blocks[k].sn = sn <=> AssemblyAt(r, j).blocks[k].id = id
  PROVE  /\ RowsWith(r, sn) # {} <=> Had(r, id) # {}
         /\ RowsWith(r, sn) # {} =>
              BlockValue(Statepoint(r), Max(RowsWith(r, sn))) = (CHOOSE x \in Had(r, id) : TRUE).p
<1>1. PICK rows : rows = CreateLayout(r)
  OBVIOUS
<1>2. IsReactor(r) /\ IsTree(r) /\ NBlocks \in Nat
  BY ReactorIsTree, NBlocksNumber DEF ToldApart
<1>3. \A j \in 1..NAll(r), k \in 1..NBlocks : rows[RowAt(r, j) + k].sn = AssemblyAt(r, j).blocks[k].sn
  BY <1>1, <1>2, LayoutNumbers
<1>4. \A n : n \in RowsOf(rows, "Block") <=> \E j \in 1..NAll(r), k \in 1..NBlocks : n = RowAt(r, j) + k
  BY <1>1, <1>2, RowsOfBlocks
<1>5. ASSUME RowsWith(r, sn) # {} PROVE Had(r, id) # {}
  <2>1. PICK n \in RowsOf(rows, "Block") : rows[n].sn = sn
    BY <1>1, <1>5 DEF RowsWith
  <2>2. PICK j \in 1..NAll(r), k \in 1..NBlocks : n = RowAt(r, j) + k
    BY <1>4
  <2>3. AssemblyAt(r, j).blocks[k].id = id
    BY <1>3, <2>1, <2>2
  <2> QED
    BY <1>2, <2>3, BlocksOfTree DEF Had
<1>6. ASSUME Had(r, id) # {}
      PROVE  /\ RowsWith(r, sn) # {}
             /\ BlockValue(Statepoint(r), Max(RowsWith(r, sn))) = (CHOOSE x \in Had(r, id) : TRUE).p
  <2>1. PICK b : b = CHOOSE x \in Had(r, id) : TRUE
    OBVIOUS
  <2>2. b \in Blocks(r) /\ b.id = id
    BY <1>6, <2>1 DEF Had
  <2>3. PICK j \in 1..NAll(r), k \in 1..NBlocks : b = AssemblyAt(r, j).blocks[k]
    BY <1>2, <2>2, BlocksOfTree
  <2>4. PICK n : n = RowAt(r, j) + k
    OBVIOUS
  <2>5. b.sn = sn
    BY <2>2, <2>3
  <2>6. n \in RowsWith(r, sn)
    BY <1>1, <1>3, <1>4, <2>3, <2>4, <2>5 DEF RowsWith
  <2>7. n \in 1..Len(rows) /\ \A m \in RowsWith(r, sn) : m \in 1..Len(rows) /\ rows[m].sn = rows[n].sn
    BY <1>1, <2>6 DEF RowsWith, RowsOf
  <2>8. \A m \in RowsWith(r, sn) : m = n
    BY <1>1, <2>7, OneRowPerSerial
  <2>9. RowsWith(r, sn) = {n}
    BY <2>6, <2>8
  <2>10. n \in Nat
    BY <2>7
  <2>11. Max(RowsWith(r, sn)) = n
    BY <2>9, <2>10, MaxOfOne
  <2>12. BlockValue(Statepoint(r), n) = b.p
    BY <1>2, <2>3, <2>4, BlockValueAt
  <2> QED
    BY <2>1, <2>6, <2>11, <2>12
<1> QED
  BY <1>5, <1>6

(* The trees of the file are told apart by their serial numbers. *)
LEMMA WrittenToldApart ==
  ASSUME NamesInv, SerialsInv, ApartInv, NEW t \in 0..now - 1
  PROVE  /\ ToldApart(truth[t]) /\ DOMAIN truth[t].core.holds = Cells
         /\ Objects(truth[t]) \subseteq Everything
<1>1. Named(truth[t]) /\ HasSerials(truth[t])
  BY DEF NamesInv, FileInv
<1>2. IsReactor(truth[t]) /\ DOMAIN truth[t].core.holds = Cells
  BY <1>1 DEF Named
<1>3. Apart(truth[t])
  BY DEF ApartInv
<1>4. Objects(truth[t]) \subseteq Everything
  BY DEF Everything
<1>5. \A x, y \in Objects(truth[t]) : x[2] = y[2] => x[1] = y[1]
  BY <1>4 DEF SerialsInv, Distinct
<1>6. NCore(truth[t]) >= 1
  <2>1. IsFiniteSet(Cells) /\ Cells # {}
    BY CellsAssumption
  <2>2. Cardinality(Cells) \in Nat /\ Cardinality(Cells) # 0
    BY <2>1, FS_CardinalityType, FS_EmptySet
  <2> QED
    BY <1>2, <2>2 DEF NCore
<1> QED
  BY <1>1, <1>2, <1>3, <1>4, <1>5, <1>6 DEF ToldApart

(* A block of the core and one that was written: one number, one object. *)
LEMMA OneNumberOneBlock ==
  ASSUME NamesInv, SerialsInv, ApartInv, NEW t \in 0..now - 1, NEW c \in Cells, NEW k \in 1..NBlocks,
         NEW j \in 1..NAll(truth[t]), NEW l \in 1..NBlocks
  PROVE  AssemblyAt(truth[t], j).blocks[l].sn = reactor.core.holds[c].blocks[k].sn
           <=> AssemblyAt(truth[t], j).blocks[l].id = reactor.core.holds[c].blocks[k].id
<1>1. PICK r, a, e : r = truth[t] /\ a = AssemblyAt(r, j) /\ e = reactor.core.holds[c]
  OBVIOUS
<1>2. IsReactor(r) /\ Objects(r) \subseteq Everything
  BY <1>1, WrittenToldApart DEF ToldApart
<1>3. IsReactor(reactor) /\ DOMAIN reactor.core.holds = Cells /\ Objects(reactor) \subseteq Everything
  BY DEF NamesInv, TreeInv, Named, Everything
<1>4. k \in 0..NBlocks /\ l \in 0..NBlocks /\ k # 0 /\ l # 0
  BY NBlocksNumber
<1>5. PICK p \in PlacesOf(r) : At(r, p) = a
  BY <1>1, <1>2, TagFacts
<1>6. PICK q \in PlacesOf(reactor) : At(reactor, q) = e
  BY <1>1, <1>3, InPlaces
<1>7. PICK x, y : x = <<IdOf(a, l), SnOf(a, l)>> /\ y = <<IdOf(e, k), SnOf(e, k)>>
  OBVIOUS
<1>8. x \in Everything
  <2>1. x \in Objects(r)
    BY <1>2, <1>4, <1>5, <1>7, ObjectsOf
  <2> QED
    BY <1>2, <2>1
<1>9. y \in Everything
  <2>1. y \in Objects(reactor)
    BY <1>3, <1>4, <1>6, <1>7, ObjectsOf
  <2> QED
    BY <1>3, <2>1
<1>10. x[2] = y[2] <=> x[1] = y[1]
  BY <1>8, <1>9 DEF SerialsInv, Distinct
<1>11. x[1] = a.blocks[l].id /\ x[2] = a.blocks[l].sn /\ y[1] = e.blocks[k].id /\ y[2] = e.blocks[k].sn
  BY <1>4, <1>7 DEF IdOf, SnOf
<1> QED
  BY <1>1, <1>10, <1>11

(* The rows of a statepoint. *)
LEMMA RowsOfStatepoint ==
  ASSUME NEW r
  PROVE  Statepoint(r).rows = CreateLayout(r)
BY DEF Statepoint

(* By object: Database.getHistories. *)
LEMMA HistoryOfBlock ==
  ASSUME NamesInv, SerialsInv, ApartInv, NEW c \in Cells, NEW k \in 1..NBlocks
  PROVE  GetHistories(reactor.core.holds[c].blocks[k].sn) = HistoryOf(reactor.core.holds[c].blocks[k].id)
<1>1. PICK sn, id : sn = reactor.core.holds[c].blocks[k].sn /\ id = reactor.core.holds[c].blocks[k].id
  OBVIOUS
<1>2. DOMAIN truth = 0..now - 1 /\ DOMAIN groups = 0..now - 1
      /\ \A t \in 0..now - 1 : groups[t] = Statepoint(truth[t])
  BY DEF NamesInv, FileInv
<1>3. \A t \in 0..now - 1 : groups[t].rows = CreateLayout(truth[t])
  BY <1>2, RowsOfStatepoint
<1> DEFINE rowsIn == [t \in DOMAIN groups |-> {n \in RowsOf(groups[t].rows, "Block") : groups[t].rows[n].sn = sn}]
<1>4. ASSUME NEW t \in 0..now - 1 PROVE rowsIn[t] = RowsWith(truth[t], sn)
  BY <1>2, <1>3 DEF RowsWith
<1>5. GetHistories(sn) = ValuesAt(rowsIn)
  BY DEF GetHistories
<1> HIDE DEF rowsIn
<1>6. ASSUME NEW t \in 0..now - 1
      PROVE  /\ rowsIn[t] # {} <=> Had(truth[t], id) # {}
             /\ rowsIn[t] # {} => BlockValue(groups[t], Max(rowsIn[t])) = (CHOOSE x \in Had(truth[t], id) : TRUE).p
  <2>1. PICK r : r = truth[t]
    OBVIOUS
  <2>2. ToldApart(r)
    BY <2>1, WrittenToldApart
  <2>3. \A j \in 1..NAll(r), l \in 1..NBlocks :
          AssemblyAt(r, j).blocks[l].sn = sn <=> AssemblyAt(r, j).blocks[l].id = id
    BY <1>1, <2>1, OneNumberOneBlock
  <2>4. /\ RowsWith(r, sn) # {} <=> Had(r, id) # {}
        /\ RowsWith(r, sn) # {} =>
             BlockValue(Statepoint(r), Max(RowsWith(r, sn))) = (CHOOSE x \in Had(r, id) : TRUE).p
    BY <2>2, <2>3, OneInHistory
  <2> QED
    BY <1>2, <1>4, <2>1, <2>4
<1>7. {u \in DOMAIN groups : rowsIn[u] # {}} = {u \in DOMAIN truth : Had(truth[u], id) # {}}
  BY <1>2, <1>6
<1>8. PICK D : D = {u \in DOMAIN truth : Had(truth[u], id) # {}} /\ D \subseteq 0..now - 1
  BY <1>2
<1>9. ValuesAt(rowsIn) = [t \in D |-> BlockValue(groups[t], Max(rowsIn[t]))]
  BY <1>7, <1>8 DEF ValuesAt
<1>10. HistoryOf(id) = [t \in D |-> (CHOOSE x \in Had(truth[t], id) : TRUE).p]
  BY <1>8 DEF HistoryOf, Had
<1>11. \A t \in D : BlockValue(groups[t], Max(rowsIn[t])) = (CHOOSE x \in Had(truth[t], id) : TRUE).p
  BY <1>6, <1>8
<1> QED
  BY <1>1, <1>5, <1>9, <1>10, <1>11

(* By location: Database.getHistoriesByLocation. *)
LEMMA HistoryOfPlace ==
  ASSUME NamesInv, SerialsInv, ApartInv, NEW c \in Cells, NEW k \in 1..NBlocks
  PROVE  GetHistoriesByLocation(<<c[1], c[2], k - 1>>) = HistoryAt(c, k)
<1>1. PICK location : location = <<c[1], c[2], k - 1>>
  OBVIOUS
<1>2. DOMAIN truth = 0..now - 1 /\ DOMAIN groups = 0..now - 1
      /\ \A t \in 0..now - 1 : groups[t] = Statepoint(truth[t])
  BY DEF NamesInv, FileInv
<1>3. \A t \in 0..now - 1 : groups[t].rows = CreateLayout(truth[t])
  BY <1>2, RowsOfStatepoint
<1>4. reactor.core.sn = 2
  BY DEF NamesInv, TreeInv, HasSerials
<1> DEFINE rowsIn == [t \in DOMAIN groups |-> RowsAt(groups[t].rows, location)]
<1>5. ASSUME NEW t \in 0..now - 1 PROVE rowsIn[t] = RowsInCore(CreateLayout(truth[t]), location)
  BY <1>2, <1>3, <1>4 DEF RowsAt, RowsInCore, DepthBelowCore
<1>6. GetHistoriesByLocation(location) = ValuesAt(rowsIn)
  BY DEF GetHistoriesByLocation
<1> HIDE DEF rowsIn
<1>7. ASSUME NEW t \in 0..now - 1
      PROVE  /\ rowsIn[t] # {}
             /\ BlockValue(groups[t], Max(rowsIn[t])) = truth[t].core.holds[c].blocks[k].p
  <2>1. PICK r : r = truth[t]
    OBVIOUS
  <2>2. ToldApart(r) /\ IsReactor(r) /\ c \in DOMAIN r.core.holds
    BY <2>1, WrittenToldApart DEF ToldApart
  <2>3. PICK j \in 1..NAll(r) : /\ AssemblyAt(r, j) = r.core.holds[c]
                                /\ RowsInCore(CreateLayout(r), location) = {RowAt(r, j) + k}
    BY <1>1, <2>2, OneRowPerPlace
  <2>4. PICK n : n = RowAt(r, j) + k
    OBVIOUS
  <2>5. n \in Nat
    <3>1. RowAt(r, j) \in Nat
      BY <2>2, RowBefore, ReactorIsTree
    <3> QED
      BY <2>4, <3>1
  <2>6. rowsIn[t] = {n}
    BY <1>5, <2>1, <2>3, <2>4
  <2>7. Max(rowsIn[t]) = n
    BY <2>5, <2>6, MaxOfOne
  <2>8. BlockValue(Statepoint(r), n) = AssemblyAt(r, j).blocks[k].p
    BY <2>2, <2>4, BlockValueAt
  <2> QED
    BY <1>2, <2>1, <2>3, <2>6, <2>7, <2>8
<1>8. {u \in DOMAIN groups : rowsIn[u] # {}} = 0..now - 1
  BY <1>2, <1>7
<1>9. ValuesAt(rowsIn) = [t \in 0..now - 1 |-> BlockValue(groups[t], Max(rowsIn[t]))]
  BY <1>8 DEF ValuesAt
<1>10. HistoryAt(c, k) = [t \in 0..now - 1 |-> truth[t].core.holds[c].blocks[k].p]
  BY <1>2 DEF HistoryAt
<1> QED
  BY <1>1, <1>6, <1>7, <1>9, <1>10

(* The invariants give the property. *)
LEMMA InvHistories == NamesInv /\ SerialsInv /\ ApartInv => HistoriesAreRight
<1> SUFFICES ASSUME NamesInv, SerialsInv, ApartInv, NEW c \in Cells, NEW k \in 1..NBlocks
             PROVE  /\ GetHistories(reactor.core.holds[c].blocks[k].sn)
                         = HistoryOf(reactor.core.holds[c].blocks[k].id)
                    /\ GetHistoriesByLocation(<<c[1], c[2], k - 1>>) = HistoryAt(c, k)
  BY DEF HistoriesAreRight
<1> QED
  BY HistoryOfBlock, HistoryOfPlace


(***************************************************************************)
(* Histories are right (Database.getHistories, getHistoriesByLocation,     *)
(* Layout.computeAncestors): by object they follow the block, by location  *)
(* they stay at its place in the core, in every statepoint of the file, if *)
(* a case that does not track discharged assemblies starts with an empty   *)
(* pool.                                                                   *)
(***************************************************************************)
THEOREM HistoriesStayRight ==
  ASSUME PoolsAreTracked
  PROVE  Spec => []HistoriesAreRight
<1>1. Init => NamesInv /\ SerialsInv /\ ApartInv
  BY NamesInit, SerialsInit, ApartInit
<1>2. NamesInv /\ SerialsInv /\ ApartInv /\ [Next]_vars => (NamesInv /\ SerialsInv /\ ApartInv)'
  BY NamesNext, SerialsNext, ApartNext
<1> QED
  BY <1>1, <1>2, InvHistories, PTL DEF Spec
=============================================================================
