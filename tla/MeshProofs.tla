----------------------------- MODULE MeshProofs -----------------------------
(***************************************************************************)
(* Proofs about axial meshes, for any core, any expansions of its          *)
(* assemblies and any mesh they are made uniform on.                       *)
(***************************************************************************)
EXTENDS MeshProperties, WellFoundedInduction, SequenceTheorems, FiniteSetTheorems, TLAPS

BlockFields == {"zb", "zt", "flags", "target", "topIndex", "power", "peak", "solids"}
SolidFields == {"material", "mass", "zb", "zt", "h"}

IsList(f) == Len(f) \in Nat /\ f = [i \in 1..Len(f) |-> f[i]]

(* A stack of blocks with their components. *)
IsStack(a) ==
  /\ IsList(a)
  /\ \A i \in 1..Len(a) :
       /\ DOMAIN a[i] = BlockFields /\ {a[i].zb, a[i].zt} \subseteq Int
       /\ \A s \in DOMAIN a[i].solids : DOMAIN a[i].solids[s] = SolidFields

(* The same blocks and components, wherever they are.                      *)
SameShape(a, b) ==
  /\ IsStack(b) /\ Len(b) = Len(a)
  /\ \A i \in 1..Len(a) : /\ b[i].target = a[i].target /\ b[i].topIndex = a[i].topIndex
                          /\ DOMAIN b[i].solids = DOMAIN a[i].solids

HaveTargets(a) == \A i \in 1..Len(a) - 1 : a[i].target \in DOMAIN a[i].solids

(* Each component reaches from its bottom as high as it is.                *)
Stands(c) ==
  /\ DOMAIN c = SolidFields /\ c.zb \in Int /\ c.zt \in Int /\ c.h \in Int
  /\ c.zt = c.zb + c.h

Stand(a) == \A i \in 1..Len(a) : \A s \in DOMAIN a[i].solids : Stands(a[i].solids[s])

StartOf(a, i) == IF i = 1 THEN 0 ELSE a[i - 1].zt

StacksTo(a, n) == \A i \in 1..n : a[i].zb = StartOf(a, i) /\ a[i].zb <= a[i].zt

Fills(a, top) == a[Len(a)].zt = top /\ StacksTo(a, Len(a))
-----------------------------------------------------------------------------
LEMMA LeastNumber ==
  ASSUME NEW S, S \subseteq Nat, S # {}
  PROVE  \E m \in S : \A k \in S : m <= k
<1>1. PICK m \in S : \A k \in S : <<k, m>> \notin OpToRel(<, Nat)
  BY NatLessThanWellFounded, WFMin
<1>2. ASSUME NEW k \in S PROVE m <= k
  <2>1. <<k, m>> \in Nat \X Nat
    OBVIOUS
  <2>2. ~(k < m)
    BY <1>1, <2>1 DEF OpToRel
  <2> QED
    BY <2>1, <2>2
<1> QED
  BY <1>2

LEMMA LenOf ==
  ASSUME NEW f, NEW n \in Nat, f = [i \in 1..n |-> f[i]]
  PROVE  Len(f) = n /\ IsList(f) /\ DOMAIN f = 1..n
<1>1. f \in Seq({f[i] : i \in 1..n})
  BY SeqDef
<1>2. Len(f) \in Nat /\ DOMAIN f = 1..Len(f)
  BY <1>1
<1>3. DOMAIN f = 1..n
  OBVIOUS
<1>4. Len(f) = n
  BY <1>2, <1>3
<1> QED
  BY <1>3, <1>4 DEF IsList

LEMMA StackFacts ==
  ASSUME NEW a, IsStack(a)
  PROVE  /\ Len(a) \in Nat /\ DOMAIN a = 1..Len(a) /\ a = [i \in 1..Len(a) |-> a[i]]
         /\ \A i \in 1..Len(a) :
              /\ DOMAIN a[i] = BlockFields /\ a[i].zb \in Int /\ a[i].zt \in Int
              /\ Height(a[i]) \in Int
              /\ \A s \in DOMAIN a[i].solids : DOMAIN a[i].solids[s] = SolidFields
<1>1. DOMAIN a = 1..Len(a)
  BY DEF IsStack, IsList
<1> QED
  BY <1>1 DEF IsStack, IsList, Height

(* A component moved keeps its fields and stands. *)
LEMMA ElevatedFacts ==
  ASSUME NEW c, DOMAIN c = SolidFields, NEW z \in Int, c.h \in Int
  PROVE  /\ Stands(AtElevation(c, z))
         /\ AtElevation(c, z).zb = z /\ AtElevation(c, z).h = c.h
BY DEF AtElevation, SolidFields, Stands

(* What an action makes of the blocks at i and above it. *)
LEMMA ChangedStack ==
  ASSUME NEW a, IsStack(a), NEW b, Len(a) = Len(b), IsList(b),
         \A i \in 1..Len(a) :
           /\ DOMAIN b[i] = BlockFields /\ b[i].zb \in Int /\ b[i].zt \in Int
           /\ b[i].target = a[i].target /\ b[i].topIndex = a[i].topIndex
           /\ DOMAIN b[i].solids = DOMAIN a[i].solids
           /\ \A s \in DOMAIN a[i].solids : DOMAIN b[i].solids[s] = SolidFields
  PROVE  SameShape(a, b)
BY DEF SameShape, IsStack

LEMMA SameShapeTransitive ==
  ASSUME NEW a, NEW b, NEW c, SameShape(a, b), SameShape(b, c)
  PROVE  SameShape(a, c)
BY DEF SameShape, IsStack, IsList

LEMMA GrownFacts ==
  ASSUME NEW a, IsStack(a), NEW change, \A x \in DOMAIN change : change[x] \in Int
  PROVE  LET g == Grown(a, change)
         IN  /\ SameShape(a, g) /\ Stand(g)
             /\ \A i \in 1..Len(a) : /\ g[i].zb = a[i].zb /\ g[i].zt = a[i].zt
                                     /\ \A s \in DOMAIN a[i].solids : g[i].solids[s].zb = a[i].zb
<1> DEFINE g == Grown(a, change)
           grows(i, s) == IF <<i, s>> \in DOMAIN change THEN change[<<i, s>>] ELSE 0
           taller(i, s) == [a[i].solids[s] EXCEPT !.h = Height(a[i]) + grows(i, s)]
<1>1. g = [i \in 1..Len(a) |-> g[i]]
  BY StackFacts DEF Grown
<1>2. Len(g) = Len(a) /\ IsList(g)
  BY <1>1, LenOf, StackFacts
<1>3. ASSUME NEW i \in 1..Len(a)
      PROVE  /\ DOMAIN g[i] = BlockFields /\ g[i].zb = a[i].zb /\ g[i].zt = a[i].zt
             /\ g[i].target = a[i].target /\ g[i].topIndex = a[i].topIndex
             /\ DOMAIN g[i].solids = DOMAIN a[i].solids
             /\ \A s \in DOMAIN a[i].solids : g[i].solids[s] = AtElevation(taller(i, s), a[i].zb)
  <2>1. g[i] = [a[i] EXCEPT !.solids = [s \in DOMAIN a[i].solids |-> AtElevation(taller(i, s), a[i].zb)]]
    BY StackFacts DEF Grown
  <2>2. DOMAIN a[i] = BlockFields
    BY StackFacts
  <2> QED
    BY <2>1, <2>2 DEF BlockFields
<1>4. ASSUME NEW i \in 1..Len(a), NEW s \in DOMAIN a[i].solids
      PROVE  Stands(g[i].solids[s]) /\ g[i].solids[s].zb = a[i].zb
  <2>1. grows(i, s) \in Int /\ Height(a[i]) \in Int /\ a[i].zb \in Int
    BY StackFacts
  <2>2. DOMAIN taller(i, s) = SolidFields /\ taller(i, s).h = Height(a[i]) + grows(i, s)
    BY StackFacts DEF SolidFields
  <2>3. taller(i, s).h \in Int
    BY <2>1, <2>2
  <2>4. PICK c : c = taller(i, s)
    OBVIOUS
  <2>5. g[i].solids[s] = AtElevation(c, a[i].zb)
    BY <1>3, <2>4
  <2> HIDE DEF taller, grows, g
  <2> QED
    BY <2>1, <2>2, <2>3, <2>4, <2>5, ElevatedFacts
<1>5. SameShape(a, g)
  <2> HIDE DEF g
  <2> QED
    BY <1>2, <1>3, <1>4, ChangedStack, StackFacts DEF Stands
<1>6. Stand(g)
  <2> HIDE DEF g
  <2> QED
    BY <1>2, <1>3, <1>4, StackFacts DEF Stand
<1> QED
  BY <1>3, <1>4, <1>5, <1>6

(* The bounds of the blocks, and where those above the i-th are to go.     *)
LEMMA MovesWithTarget ==
  ASSUME NEW a, IsStack(a), HaveTargets(a), NEW i \in 1..Len(a) - 2
  PROVE  a[i + 1].target \in MovesWith(a, i)
<1>1. a[i + 1].target \in DOMAIN a[i + 1].solids /\ i + 1 # Len(a)
  BY StackFacts DEF HaveTargets
<1> QED
  BY <1>1 DEF MovesWith

LEMMA AlignedOnTargetFacts ==
  ASSUME NEW a, IsStack(a), HaveTargets(a), Stand(a), NEW i \in 1..Len(a) - 1
  PROVE  LET b == AlignedOnTarget(a, i)
             t == a[i].solids[a[i].target]
         IN  /\ SameShape(a, b) /\ Stand(b)
             /\ b[i].zb = t.zb /\ b[i].zt = t.zt
             /\ \A k \in 1..Len(a) \ {i} : b[k].zb = a[k].zb /\ b[k].zt = a[k].zt
             /\ i + 1 < Len(a) => b[i + 1].solids[a[i + 1].target].zb = t.zt
<1> DEFINE b == AlignedOnTarget(a, i)
           t == a[i].solids[a[i].target]
           moved == [s \in DOMAIN a[i + 1].solids |->
                       IF s \in MovesWith(a, i) THEN AtElevation(a[i + 1].solids[s], t.zt)
                       ELSE a[i + 1].solids[s]]
<1>1. /\ Len(a) \in Nat /\ {i, i + 1} \subseteq 1..Len(a) /\ i # i + 1
      /\ DOMAIN a[i] = BlockFields /\ DOMAIN a[i + 1] = BlockFields
  BY StackFacts
<1>2. a[i].target \in DOMAIN a[i].solids /\ t.zb \in Int /\ t.zt \in Int
  BY <1>1 DEF HaveTargets, Stand, Stands
<1>3. ASSUME NEW s \in DOMAIN a[i + 1].solids
      PROVE  Stands(moved[s]) /\ (s \in MovesWith(a, i) => moved[s].zb = t.zt)
  <2>1. PICK c : c = a[i + 1].solids[s]
    OBVIOUS
  <2>2. Stands(c)
    BY <1>1, <2>1 DEF Stand
  <2>3. moved[s] = IF s \in MovesWith(a, i) THEN AtElevation(c, t.zt) ELSE c
    BY <2>1
  <2> HIDE DEF moved, t
  <2>4. Stands(AtElevation(c, t.zt)) /\ AtElevation(c, t.zt).zb = t.zt
    BY <1>2, <2>2, ElevatedFacts DEF Stands
  <2> QED
    BY <2>2, <2>3, <2>4
<1>4. b = [a EXCEPT ![i] = [a[i] EXCEPT !.zb = t.zb, !.zt = t.zt],
                    ![i + 1] = [a[i + 1] EXCEPT !.solids = moved]]
  BY <1>1 DEF AlignedOnTarget
<1>5. b = [k \in 1..Len(a) |-> b[k]]
  BY <1>4, StackFacts
<1>6. Len(b) = Len(a) /\ IsList(b)
  BY <1>1, <1>5, LenOf
<1>7. /\ \A k \in 1..Len(a) \ {i, i + 1} : b[k] = a[k]
      /\ b[i] = [a[i] EXCEPT !.zb = t.zb, !.zt = t.zt]
      /\ b[i + 1] = [a[i + 1] EXCEPT !.solids = moved]
  <2>1. PICK x : x = [a[i] EXCEPT !.zb = t.zb, !.zt = t.zt]
    OBVIOUS
  <2>2. PICK y : y = [a[i + 1] EXCEPT !.solids = moved]
    OBVIOUS
  <2>3. b = [a EXCEPT ![i] = x, ![i + 1] = y] /\ DOMAIN a = 1..Len(a)
    BY <1>4, <2>1, <2>2, StackFacts
  <2> HIDE DEF b, moved, t
  <2>4. b[i] = x /\ b[i + 1] = y /\ \A k \in 1..Len(a) \ {i, i + 1} : b[k] = a[k]
    BY <1>1, <2>3
  <2> QED
    BY <2>1, <2>2, <2>4
<1> HIDE DEF b
<1>8. /\ DOMAIN b[i] = BlockFields /\ b[i].zb = t.zb /\ b[i].zt = t.zt
      /\ b[i].target = a[i].target /\ b[i].topIndex = a[i].topIndex /\ b[i].solids = a[i].solids
  BY <1>1, <1>7 DEF BlockFields
<1>9. /\ DOMAIN b[i + 1] = BlockFields /\ b[i + 1].zb = a[i + 1].zb /\ b[i + 1].zt = a[i + 1].zt
      /\ b[i + 1].target = a[i + 1].target /\ b[i + 1].topIndex = a[i + 1].topIndex
      /\ b[i + 1].solids = moved
  BY <1>1, <1>7 DEF BlockFields
<1>10. DOMAIN moved = DOMAIN a[i + 1].solids
  OBVIOUS
<1> HIDE DEF moved
<1>11. \A k \in 1..Len(a) : k # i /\ k # i + 1 => b[k] = a[k]
  BY <1>7
<1>12. SameShape(a, b)
  <2>1. ASSUME NEW k \in 1..Len(a)
        PROVE  /\ DOMAIN b[k] = BlockFields /\ b[k].zb \in Int /\ b[k].zt \in Int
               /\ b[k].target = a[k].target /\ b[k].topIndex = a[k].topIndex
               /\ DOMAIN b[k].solids = DOMAIN a[k].solids
               /\ \A s \in DOMAIN a[k].solids : DOMAIN b[k].solids[s] = SolidFields
    <3>1. CASE k = i
      BY <1>1, <1>2, <1>8, <3>1, StackFacts, SMTT(40)
    <3>2. CASE k = i + 1
      BY <1>1, <1>3, <1>9, <1>10, <3>2, StackFacts DEF Stands
    <3>3. CASE k # i /\ k # i + 1
      BY <1>11, <3>3, StackFacts
    <3> QED
      BY <3>1, <3>2, <3>3
  <2> QED
    BY <1>6, <2>1, ChangedStack
<1>13. Stand(b)
  BY <1>1, <1>3, <1>6, <1>8, <1>9, <1>10, <1>11 DEF Stand
<1>14. ASSUME i + 1 < Len(a) PROVE b[i + 1].solids[a[i + 1].target].zb = t.zt
  <2>1. i \in 1..Len(a) - 2 /\ a[i + 1].target \in DOMAIN a[i + 1].solids
    BY <1>1, <1>14 DEF HaveTargets
  <2> QED
    BY <1>3, <1>9, <2>1, MovesWithTarget
<1> QED
  BY <1>8, <1>9, <1>11, <1>12, <1>13, <1>14 DEF b

LEMMA PlacedFacts ==
  ASSUME NEW a, IsStack(a), Stand(a), NEW i \in 1..Len(a), NEW s \in DOMAIN a[i].solids
  PROVE  Stands(Placed(a, i, s))
<1>1. PICK c : c = a[i].solids[s]
  OBVIOUS
<1>2. Stands(c) /\ a[i].zb \in Int
  BY <1>1, StackFacts DEF Stand
<1>3. Stands(AtElevation(c, a[i].zb))
  BY <1>2, ElevatedFacts DEF Stands
<1> QED
  BY <1>1, <1>2, <1>3 DEF Placed

LEMMA FittedFacts ==
  ASSUME NEW a, IsStack(a), Stand(a), NEW i \in 1..Len(a) - 1, NEW s \in DOMAIN a[i].solids,
         s \in DOMAIN a[i + 1].solids
  PROVE  /\ Stands(Fitted(a, i, s)[1]) /\ Stands(Fitted(a, i, s)[2])
         /\ Fitted(a, i, s)[1].zt = a[i].zt /\ Fitted(a, i, s)[2].zb = a[i].zt
<1>1. i \in 1..Len(a) /\ i + 1 \in 1..Len(a) /\ a[i].zt \in Int
  BY StackFacts
<1>2. PICK c : c = Placed(a, i, s)
  OBVIOUS
<1>3. Stands(c) /\ c.zt \in Int /\ c.h \in Int
  BY <1>1, <1>2, PlacedFacts DEF Stands
<1>4. PICK x : x = a[i + 1].solids[s]
  OBVIOUS
<1>5. DOMAIN x = SolidFields /\ x.h \in Int
  BY <1>1, <1>4 DEF Stand, Stands
<1>6. PICK above : above = AtElevation(x, c.zt)
  OBVIOUS
<1>7. Stands(above) /\ above.zb = c.zt
  BY <1>3, <1>5, <1>6, ElevatedFacts
<1>8. PICK delta \in Int : delta = a[i].zt - c.zt
  BY <1>1, <1>3
<1>9. PICK mass : mass = Redistributed(c, above, delta)
  OBVIOUS
<1>10. PICK lower : lower = [c EXCEPT !.h = c.h + delta, !.zt = c.zt + delta, !.mass = mass[1]]
  OBVIOUS
<1>11. PICK upper : upper = [above EXCEPT !.h = above.h - delta, !.zb = above.zb + delta, !.mass = mass[2]]
  OBVIOUS
<1>12. Stands(lower) /\ lower.zt = c.zt + delta
  BY <1>3, <1>8, <1>10 DEF SolidFields, Stands
<1>13. Stands(upper) /\ upper.zb = above.zb + delta
  BY <1>7, <1>8, <1>11 DEF SolidFields, Stands
<1>14. Fitted(a, i, s) = <<lower, upper>>
  BY <1>2, <1>3, <1>4, <1>6, <1>7, <1>8, <1>9, <1>10, <1>11 DEF Fitted, SolidFields, Stands
<1>15. lower.zt = a[i].zt /\ upper.zb = a[i].zt
  BY <1>1, <1>3, <1>7, <1>8, <1>12, <1>13
<1> QED
  BY <1>12, <1>13, <1>14, <1>15

(* What an action makes of two blocks, one above the other. *)
LEMMA OthersFittedFacts ==
  ASSUME NEW a, IsStack(a), Stand(a), NEW i \in 1..Len(a) - 1,
         i + 1 < Len(a) => /\ a[i + 1].target \in DOMAIN a[i + 1].solids
                           /\ a[i + 1].solids[a[i + 1].target].zb = a[i].zt
  PROVE  LET b == OthersFitted(a, i)
         IN  /\ SameShape(a, b) /\ Stand(b)
             /\ \A k \in 1..Len(a) : b[k].zb = a[k].zb /\ b[k].zt = a[k].zt
             /\ i + 1 < Len(a) => b[i + 1].solids[a[i + 1].target].zb = a[i].zt
<1> DEFINE b == OthersFitted(a, i)
           lower == [s \in DOMAIN a[i].solids |->
                       IF s = a[i].target              THEN a[i].solids[s]
                       ELSE IF LinkedAbove(a, i, s)    THEN Fitted(a, i, s)[1]
                       ELSE Placed(a, i, s)]
           upper == [s \in DOMAIN a[i + 1].solids |->
                       IF s \in Others(a, i) THEN Fitted(a, i, s)[2] ELSE a[i + 1].solids[s]]
<1>1. /\ Len(a) \in Nat /\ i \in 1..Len(a) /\ i + 1 \in 1..Len(a) /\ i # i + 1
      /\ DOMAIN a[i] = BlockFields /\ DOMAIN a[i + 1] = BlockFields
  BY StackFacts
<1>2. ASSUME NEW s \in DOMAIN a[i].solids PROVE Stands(lower[s])
  <2>1. CASE s = a[i].target
    BY <1>1, <2>1 DEF Stand
  <2>2. CASE s # a[i].target /\ LinkedAbove(a, i, s)
    <3>1. Stands(Fitted(a, i, s)[1])
      BY <2>2, FittedFacts DEF LinkedAbove
    <3> QED
      BY <2>2, <3>1
  <2>3. CASE s # a[i].target /\ ~LinkedAbove(a, i, s)
    <3>1. Stands(Placed(a, i, s))
      BY <1>1, PlacedFacts
    <3> QED
      BY <2>3, <3>1
  <2> QED
    BY <2>1, <2>2, <2>3
<1>3. ASSUME NEW s \in DOMAIN a[i + 1].solids
      PROVE  Stands(upper[s]) /\ (s \in Others(a, i) => upper[s].zb = a[i].zt)
  <2>1. CASE s \in Others(a, i)
    <3>1. Stands(Fitted(a, i, s)[2]) /\ Fitted(a, i, s)[2].zb = a[i].zt
      BY <2>1, FittedFacts DEF Others
    <3> QED
      BY <2>1, <3>1
  <2>2. CASE s \notin Others(a, i)
    BY <1>1, <2>2 DEF Stand
  <2> QED
    BY <2>1, <2>2
<1>4. PICK lows : lows = lower
  OBVIOUS
<1>5. PICK ups : ups = upper
  OBVIOUS
<1>6. b = [a EXCEPT ![i] = [a[i] EXCEPT !.solids = lower], ![i + 1] = [a[i + 1] EXCEPT !.solids = upper]]
  BY <1>1 DEF OthersFitted
<1>7. /\ DOMAIN lows = DOMAIN a[i].solids /\ DOMAIN ups = DOMAIN a[i + 1].solids
      /\ \A s \in DOMAIN lows : Stands(lows[s])
      /\ \A s \in DOMAIN ups : Stands(ups[s]) /\ (s \in Others(a, i) => ups[s].zb = a[i].zt)
      /\ i + 1 < Len(a) => ups[a[i + 1].target].zb = a[i].zt
  <2>1. DOMAIN lows = DOMAIN a[i].solids /\ DOMAIN ups = DOMAIN a[i + 1].solids
    BY <1>4, <1>5
  <2>2. \A s \in DOMAIN a[i + 1].solids : s \notin Others(a, i) => ups[s] = a[i + 1].solids[s]
    BY <1>5
  <2>3. ASSUME i + 1 < Len(a) PROVE ups[a[i + 1].target].zb = a[i].zt
    <3>1. CASE a[i + 1].target \in Others(a, i)
      <4> HIDE DEF upper, lower
      <4> QED
        BY <1>3, <1>5, <2>3, <3>1
    <3>2. CASE a[i + 1].target \notin Others(a, i)
      <4> HIDE DEF upper, lower
      <4> QED
        BY <2>2, <2>3, <3>2
    <3> QED
      BY <3>1, <3>2
  <2> HIDE DEF upper, lower
  <2> QED
    BY <1>2, <1>3, <1>4, <1>5, <2>1, <2>3
<1>8. PICK x : x = [a[i] EXCEPT !.solids = lows]
  OBVIOUS
<1>9. PICK y : y = [a[i + 1] EXCEPT !.solids = ups]
  OBVIOUS
<1>10. b = [a EXCEPT ![i] = x, ![i + 1] = y]
  <2> HIDE DEF b, lower, upper
  <2> QED
    BY <1>4, <1>5, <1>6, <1>8, <1>9
<1> HIDE DEF b, lower, upper
<1>11. /\ b = [k \in 1..Len(a) |-> b[k]] /\ b[i] = x /\ b[i + 1] = y
       /\ \A k \in 1..Len(a) : k # i /\ k # i + 1 => b[k] = a[k]
  BY <1>1, <1>10, StackFacts
<1>12. Len(b) = Len(a) /\ IsList(b)
  BY <1>1, <1>11, LenOf
<1>13. /\ DOMAIN b[i] = BlockFields /\ b[i].zb = a[i].zb /\ b[i].zt = a[i].zt
       /\ b[i].target = a[i].target /\ b[i].topIndex = a[i].topIndex /\ b[i].solids = lows
  BY <1>1, <1>8, <1>11 DEF BlockFields
<1>14. /\ DOMAIN b[i + 1] = BlockFields /\ b[i + 1].zb = a[i + 1].zb /\ b[i + 1].zt = a[i + 1].zt
       /\ b[i + 1].target = a[i + 1].target /\ b[i + 1].topIndex = a[i + 1].topIndex
       /\ b[i + 1].solids = ups
  BY <1>1, <1>9, <1>11 DEF BlockFields
<1>15. ASSUME NEW k \in 1..Len(a)
       PROVE  /\ DOMAIN b[k] = BlockFields /\ b[k].zb = a[k].zb /\ b[k].zt = a[k].zt
              /\ b[k].target = a[k].target /\ b[k].topIndex = a[k].topIndex
              /\ DOMAIN b[k].solids = DOMAIN a[k].solids
              /\ \A s \in DOMAIN a[k].solids : Stands(b[k].solids[s])
  <2>1. CASE k = i
    BY <1>7, <1>13, <2>1
  <2>2. CASE k = i + 1
    BY <1>7, <1>14, <2>2
  <2>3. CASE k # i /\ k # i + 1
    BY <1>11, <2>3, StackFacts, SMTT(40) DEF Stand
  <2> QED
    BY <2>1, <2>2, <2>3
<1>16. SameShape(a, b)
  BY <1>12, <1>15, ChangedStack, StackFacts DEF Stands
<1>17. Stand(b)
  BY <1>12, <1>15 DEF Stand
<1> QED
  BY <1>7, <1>14, <1>15, <1>16, <1>17 DEF b

LEMMA TopChoppedFacts ==
  ASSUME NEW a, IsStack(a), Stand(a), Len(a) >= 2
  PROVE  LET b == TopChopped(a)
         IN  /\ SameShape(a, b)
             /\ \A k \in 1..Len(a) : b[k].zt = a[k].zt
             /\ \A k \in 1..Len(a) - 1 : b[k] = a[k]
             /\ b[Len(a)].zb = a[Len(a) - 1].zt
<1> DEFINE b == TopChopped(a)
           n == Len(a)
           zb == a[n - 1].zt
           h == a[n].zt - zb
           stretched(c) == [c EXCEPT !.zb = zb, !.zt = a[n].zt, !.h = h, !.mass = Portion(c.mass, h, c.h)]
           whole == [s \in DOMAIN a[n].solids |-> stretched(a[n].solids[s])]
<1>1. n \in Nat /\ n \in 1..n /\ n - 1 \in 1..n /\ DOMAIN a[n] = BlockFields /\ zb \in Int /\ a[n].zt \in Int
  BY StackFacts
<1>2. PICK w : w = whole
  OBVIOUS
<1>3. DOMAIN w = DOMAIN a[n].solids /\ \A s \in DOMAIN w : DOMAIN w[s] = SolidFields
  <2>1. \A s \in DOMAIN w : w[s] = stretched(a[n].solids[s])
    BY <1>2
  <2> HIDE DEF stretched
  <2>2. \A c : DOMAIN stretched(c) = DOMAIN c
    BY DEF stretched
  <2> QED
    BY <1>1, <1>2, <2>1, <2>2, StackFacts
<1>4. PICK x : x = [a[n] EXCEPT !.zb = zb, !.solids = w]
  OBVIOUS
<1>5. b = [a EXCEPT ![n] = x]
  <2>1. b = [a EXCEPT ![n] = [a[n] EXCEPT !.zb = zb, !.solids = whole]]
    BY <1>1 DEF TopChopped
  <2> HIDE DEF b, whole, zb
  <2> QED
    BY <1>2, <1>4, <2>1
<1> HIDE DEF b, zb, whole
<1>6. b = [k \in 1..n |-> b[k]] /\ b[n] = x /\ \A k \in 1..n : k # n => b[k] = a[k]
  BY <1>1, <1>5, StackFacts
<1>7. Len(b) = n /\ IsList(b)
  BY <1>1, <1>6, LenOf
<1>8. /\ DOMAIN x = BlockFields /\ x.zb = zb /\ x.zt = a[n].zt
      /\ x.target = a[n].target /\ x.topIndex = a[n].topIndex /\ x.solids = w
  BY <1>1, <1>4 DEF BlockFields
<1>9. SameShape(a, b)
  <2>1. ASSUME NEW k \in 1..n
        PROVE  /\ DOMAIN b[k] = BlockFields /\ b[k].zb \in Int /\ b[k].zt \in Int
               /\ b[k].target = a[k].target /\ b[k].topIndex = a[k].topIndex
               /\ DOMAIN b[k].solids = DOMAIN a[k].solids
               /\ \A s \in DOMAIN a[k].solids : DOMAIN b[k].solids[s] = SolidFields
    BY <1>1, <1>3, <1>6, <1>8, StackFacts, SMTT(40)
  <2> QED
    BY <1>7, <2>1, ChangedStack
<1> QED
  BY <1>6, <1>8, <1>9 DEF b, zb

-----------------------------------------------------------------------------
(* The recursion of AlignedTo is one there is a function for. *)
StartWith(a) == [blocks |-> a, raised |-> FALSE]

Steps(f, a, n) ==
  f = [i \in 0..n |-> IF i = 0 THEN StartWith(a) ELSE Aligned(f[i - 1], i)]

LEMMA StepsExist ==
  ASSUME NEW a, NEW n \in Nat
  PROVE  \E f : Steps(f, a, n)
<1> DEFINE Lacks(m) == ~ \E f : Steps(f, a, m)
           S == {m \in Nat : Lacks(m)}
<1>1. SUFFICES ASSUME S # {} PROVE FALSE
  OBVIOUS
<1>2. PICK m \in S : \A k \in S : m <= k
  BY <1>1, LeastNumber
<1>3. m \in Nat /\ Lacks(m) /\ \A k \in Nat : k < m => ~Lacks(k)
  BY <1>2
<1>4. CASE m = 0
  <2> DEFINE f == [i \in 0..m |-> StartWith(a)]
  <2>1. f = [i \in 0..m |-> IF i = 0 THEN StartWith(a) ELSE Aligned(f[i - 1], i)]
    BY <1>4
  <2> QED
    BY <1>3, <2>1 DEF Steps
<1>5. CASE m # 0
  <2>1. m - 1 \in Nat /\ ~Lacks(m - 1)
    BY <1>3, <1>5
  <2>2. PICK g : Steps(g, a, m - 1)
    BY <2>1
  <2> DEFINE f == [i \in 0..m |-> IF i = m THEN Aligned(g[m - 1], m) ELSE g[i]]
  <2>3. \A i \in 0..m - 1 : f[i] = g[i]
    BY <1>3
  <2>4. \A i \in 0..m : f[i] = IF i = 0 THEN StartWith(a) ELSE Aligned(f[i - 1], i)
    <3> SUFFICES ASSUME NEW i \in 0..m PROVE f[i] = IF i = 0 THEN StartWith(a) ELSE Aligned(f[i - 1], i)
      OBVIOUS
    <3>1. CASE i = m
      <4>1. i - 1 \in 0..m - 1
        BY <1>3, <1>5, <3>1
      <4>2. f[i - 1] = g[m - 1]
        BY <2>3, <3>1, <4>1
      <4>3. f[i] = Aligned(g[m - 1], m)
        BY <3>1
      <4> HIDE DEF f
      <4> QED
        BY <1>5, <3>1, <4>2, <4>3
    <3>2. CASE i # m
      <4>1. i \in 0..m - 1
        BY <1>3, <3>2
      <4>2. g[i] = IF i = 0 THEN StartWith(a) ELSE Aligned(g[i - 1], i)
        BY <2>2, <4>1 DEF Steps
      <4>3. i # 0 => i - 1 \in 0..m - 1
        BY <4>1
      <4>4. f[i] = g[i] /\ (i # 0 => f[i - 1] = g[i - 1])
        BY <2>3, <4>1, <4>3
      <4> HIDE DEF f
      <4> QED
        BY <4>2, <4>4
    <3> QED
      BY <3>1, <3>2
  <2>5. f = [i \in 0..m |-> f[i]]
    OBVIOUS
  <2> HIDE DEF f
  <2>6. f = [i \in 0..m |-> IF i = 0 THEN StartWith(a) ELSE Aligned(f[i - 1], i)]
    BY <2>4, <2>5
  <2> QED
    BY <1>3, <2>6 DEF Steps
<1> QED
  BY <1>4, <1>5

LEMMA AlignedSteps ==
  ASSUME NEW a, NEW n \in Nat
  PROVE  \E f : /\ f[0] = StartWith(a)
                /\ \A i \in 1..n : f[i] = Aligned(f[i - 1], i)
                /\ AlignedTo(a, n) = f[n]
<1> DEFINE f == CHOOSE f : Steps(f, a, n)
<1>1. Steps(f, a, n)
  BY StepsExist
<1>2. AlignedTo(a, n) = f[n]
  BY DEF AlignedTo, Steps, StartWith
<1> HIDE DEF f
<1>3. f[0] = StartWith(a) /\ \A i \in 1..n : f[i] = Aligned(f[i - 1], i)
  BY <1>1 DEF Steps
<1> QED
  BY <1>2, <1>3

(* A stack that may be aligned, and what aligning it to the i-th block     *)
(* makes of it.                                                            *)
Alignable(a) ==
  /\ IsStack(a) /\ Len(a) >= 2 /\ HaveTargets(a) /\ Stand(a)
  /\ a[1].solids[a[1].target].zb = 0

AlignedSoFar(a, x, i) ==
  /\ SameShape(a, x) /\ x[Len(a)].zt = a[Len(a)].zt /\ StacksTo(x, i)
  /\ i < Len(a) => Stand(x)
  /\ i + 1 < Len(a) => x[i + 1].solids[x[i + 1].target].zb = StartOf(x, i + 1)

LEMMA AlignedBelowTop ==
  ASSUME NEW a, Alignable(a), NEW i \in 1..Len(a) - 1, NEW x, AlignedSoFar(a, x, i - 1),
         ~NegativeHeight(AlignedOnTarget(x, i), i)
  PROVE  AlignedSoFar(a, OthersFitted(AlignedOnTarget(x, i), i), i)
<1>1. /\ Len(a) \in Nat /\ Len(x) = Len(a) /\ IsStack(x) /\ Stand(x) /\ HaveTargets(x)
      /\ i \in 1..Len(x) - 1
  BY StackFacts DEF Alignable, AlignedSoFar, SameShape, HaveTargets
<1>2. x[i].solids[x[i].target].zb = StartOf(x, i)
  BY <1>1 DEF AlignedSoFar
<1>3. PICK y : y = AlignedOnTarget(x, i)
  OBVIOUS
<1>4. PICK t : t = x[i].solids[x[i].target]
  OBVIOUS
<1>5. /\ SameShape(x, y) /\ Stand(y) /\ y[i].zb = t.zb /\ y[i].zt = t.zt
      /\ \A k \in 1..Len(x) \ {i} : y[k].zb = x[k].zb /\ y[k].zt = x[k].zt
      /\ i + 1 < Len(x) => y[i + 1].solids[x[i + 1].target].zb = t.zt
  BY <1>1, <1>3, <1>4, AlignedOnTargetFacts
<1>6. Len(y) = Len(a) /\ IsStack(y) /\ i \in 1..Len(y) - 1 /\ HaveTargets(y)
  BY <1>1, <1>5 DEF SameShape, HaveTargets
<1>7. i + 1 < Len(y) => /\ y[i + 1].target = x[i + 1].target
                        /\ y[i + 1].target \in DOMAIN y[i + 1].solids
                        /\ y[i + 1].solids[y[i + 1].target].zb = y[i].zt
  BY <1>1, <1>5, <1>6 DEF SameShape, HaveTargets
<1>8. PICK z : z = OthersFitted(y, i)
  OBVIOUS
<1>9. /\ SameShape(y, z) /\ Stand(z)
      /\ \A k \in 1..Len(y) : z[k].zb = y[k].zb /\ z[k].zt = y[k].zt
      /\ i + 1 < Len(y) => z[i + 1].solids[y[i + 1].target].zb = y[i].zt
  BY <1>5, <1>6, <1>7, <1>8, OthersFittedFacts
<1>10. SameShape(a, z)
  BY <1>5, <1>9, SameShapeTransitive DEF AlignedSoFar
<1>11. z[Len(a)].zt = a[Len(a)].zt
  BY <1>1, <1>5, <1>6, <1>9 DEF AlignedSoFar
<1>12. StacksTo(z, i)
  <2>1. ~(Height(y[i]) < 0)
    BY <1>3 DEF NegativeHeight
  <2>2. y[i].zb <= y[i].zt
    BY <1>6, <2>1, StackFacts DEF Height
  <2>3. ASSUME NEW k \in 1..i PROVE z[k].zb = StartOf(z, k) /\ z[k].zb <= z[k].zt
    <3>1. k \in 1..Len(a) /\ (k # 1 => k - 1 \in 1..Len(a) \ {i})
      BY <1>1
    <3>2. CASE k = i
      BY <1>1, <1>2, <1>4, <1>5, <1>6, <1>9, <2>2, <3>1, <3>2 DEF StartOf
    <3>3. CASE k # i
      <4>1. x[k].zb = StartOf(x, k) /\ x[k].zb <= x[k].zt
        BY <3>3 DEF AlignedSoFar, StacksTo
      <4> QED
        BY <1>1, <1>5, <1>6, <1>9, <3>1, <3>3, <4>1 DEF StartOf
    <3> QED
      BY <3>2, <3>3
  <2> QED
    BY <2>3 DEF StacksTo
<1>13. ASSUME i + 1 < Len(a) PROVE z[i + 1].solids[z[i + 1].target].zb = StartOf(z, i + 1)
  <2>1. i \in 1..Len(y) /\ i + 1 \in 1..Len(y) /\ i + 1 # 1 /\ i + 1 - 1 = i
    BY <1>1, <1>6
  <2>2. StartOf(z, i + 1) = y[i].zt
    BY <1>9, <2>1 DEF StartOf
  <2>3. z[i + 1].target = y[i + 1].target
    BY <1>9, <2>1 DEF SameShape
  <2> QED
    BY <1>6, <1>9, <1>13, <2>2, <2>3
<1> QED
  BY <1>3, <1>8, <1>9, <1>10, <1>11, <1>12, <1>13 DEF AlignedSoFar

LEMMA AlignedAtTop ==
  ASSUME NEW a, Alignable(a), NEW x, AlignedSoFar(a, x, Len(a) - 1),
         ~NegativeHeight(TopChopped(x), Len(a))
  PROVE  AlignedSoFar(a, TopChopped(x), Len(a))
<1> DEFINE n == Len(a)
<1>1. n \in Nat /\ n >= 2 /\ Len(x) = n /\ IsStack(x) /\ Stand(x)
  BY StackFacts DEF Alignable, AlignedSoFar, SameShape
<1>2. PICK z : z = TopChopped(x)
  OBVIOUS
<1>3. /\ SameShape(x, z) /\ z[n].zb = x[n - 1].zt
      /\ \A k \in 1..n : z[k].zt = x[k].zt
      /\ \A k \in 1..n - 1 : z[k] = x[k]
  BY <1>1, <1>2, TopChoppedFacts
<1>4. SameShape(a, z)
  BY <1>3, SameShapeTransitive DEF AlignedSoFar
<1>5. z[n].zt = a[n].zt
  BY <1>1, <1>3 DEF AlignedSoFar
<1>6. ~(Height(z[n]) < 0) /\ IsStack(z) /\ Len(z) = n
  BY <1>2, <1>4 DEF NegativeHeight, SameShape
<1>7. z[n].zb <= z[n].zt
  <2>1. n \in 1..n
    BY <1>1
  <2>2. z[n].zb \in Int /\ z[n].zt \in Int
    BY <1>6, <2>1, StackFacts
  <2> HIDE DEF n
  <2> QED
    BY <1>6, <2>2 DEF Height
<1>8. ASSUME NEW k \in 1..n PROVE z[k].zb = StartOf(z, k) /\ z[k].zb <= z[k].zt
  <2>1. CASE k = n
    BY <1>1, <1>3, <1>7, <2>1 DEF StartOf
  <2>2. CASE k # n
    <3>1. k \in 1..n - 1 /\ (k # 1 => k - 1 \in 1..n - 1)
      BY <1>1, <2>2
    <3>2. x[k].zb = StartOf(x, k) /\ x[k].zb <= x[k].zt
      BY <3>1 DEF AlignedSoFar, StacksTo
    <3> QED
      BY <1>3, <3>1, <3>2 DEF StartOf
  <2> QED
    BY <2>1, <2>2
<1>9. n \in Nat /\ ~(n < n) /\ ~(n + 1 < n)
  BY <1>1
<1> QED
  BY <1>2, <1>4, <1>5, <1>8, <1>9 DEF AlignedSoFar, StacksTo

(* Aligned without an error, from the bottom to its top. *)
LEMMA AlignedToTop ==
  ASSUME NEW a, Alignable(a), ~AlignedTo(a, Len(a)).raised
  PROVE  LET b == AlignedTo(a, Len(a)).blocks
         IN  SameShape(a, b) /\ Fills(b, a[Len(a)].zt)
<1> DEFINE n == Len(a)
<1>1. n \in Nat /\ n >= 2
  BY StackFacts DEF Alignable
<1>2. PICK f : /\ f[0] = StartWith(a) /\ AlignedTo(a, n) = f[n]
               /\ \A i \in 1..n : f[i] = Aligned(f[i - 1], i)
  BY <1>1, AlignedSteps
<1> DEFINE Holds(i) == ~f[i].raised => AlignedSoFar(a, f[i].blocks, i)
           S == {i \in Nat : i <= n /\ ~Holds(i)}
<1>3. Holds(0)
  <2>1. f[0].blocks = a
    BY <1>2 DEF StartWith
  <2>2. SameShape(a, a)
    BY DEF Alignable, SameShape
  <2>3. StacksTo(a, 0)
    BY DEF StacksTo
  <2>4. StartOf(a, 1) = 0
    BY DEF StartOf
  <2> QED
    BY <2>1, <2>2, <2>3, <2>4 DEF Alignable, AlignedSoFar
<1>4. ASSUME NEW i \in 1..n, Holds(i - 1), ~f[i].raised PROVE AlignedSoFar(a, f[i].blocks, i)
  <2>1. PICK below : below = f[i - 1]
    OBVIOUS
  <2>2. f[i] = Aligned(below, i)
    BY <1>2, <2>1
  <2>3. ~below.raised
    BY <1>4, <2>2 DEF Aligned
  <2>4. AlignedSoFar(a, below.blocks, i - 1)
    BY <1>4, <2>1, <2>3
  <2>5. PICK x : x = below.blocks
    OBVIOUS
  <2>6. Len(x) = n
    BY <2>4, <2>5 DEF AlignedSoFar, SameShape
  <2>7. CASE i = n
    <3>1. ~NegativeHeight(TopChopped(x), i)
      BY <1>4, <2>2, <2>3, <2>5, <2>6, <2>7 DEF Aligned
    <3>2. f[i].blocks = TopChopped(x)
      BY <2>2, <2>3, <2>5, <2>6, <2>7, <3>1 DEF Aligned
    <3> QED
      BY <2>4, <2>5, <2>7, <3>1, <3>2, AlignedAtTop
  <2>8. CASE i # n
    <3>1. ~NegativeHeight(AlignedOnTarget(x, i), i)
      BY <1>4, <2>2, <2>3, <2>5, <2>6, <2>8 DEF Aligned
    <3>2. f[i].blocks = OthersFitted(AlignedOnTarget(x, i), i)
      BY <2>2, <2>3, <2>5, <2>6, <2>8, <3>1 DEF Aligned
    <3>3. i \in 1..n - 1
      BY <1>1, <2>8
    <3> QED
      BY <2>4, <2>5, <3>1, <3>2, <3>3, AlignedBelowTop
  <2> QED
    BY <2>7, <2>8
<1>5. S = {}
  <2>1. SUFFICES ASSUME S # {} PROVE FALSE
    OBVIOUS
  <2>2. PICK i \in S : \A k \in S : i <= k
    BY <2>1, LeastNumber
  <2>3. i # 0
    BY <1>3, <2>2
  <2>4. i \in 1..n /\ i - 1 \in Nat /\ i - 1 <= n /\ i - 1 \notin S
    BY <1>1, <2>2, <2>3
  <2>5. Holds(i - 1)
    BY <2>4
  <2>6. Holds(i)
    BY <1>4, <2>4, <2>5
  <2> QED
    BY <2>2, <2>6
<1>6. AlignedSoFar(a, f[n].blocks, n)
  BY <1>1, <1>2, <1>5
<1> QED
  BY <1>2, <1>6 DEF AlignedSoFar, Fills, SameShape

-----------------------------------------------------------------------------
(* The same blocks but for what a solve finds in them. *)
Redone(a, b) ==
  /\ IsList(b) /\ Len(b) = Len(a)
  /\ \A i \in 1..Len(a) :
       /\ DOMAIN b[i] = DOMAIN a[i]
       /\ \A f \in DOMAIN a[i] \ {"power", "peak"} : b[i][f] = a[i][f]

SameBounds(a, b) ==
  /\ Len(b) = Len(a) /\ \A i \in 1..Len(a) : b[i].zb = a[i].zb /\ b[i].zt = a[i].zt

LEMMA RedoneFacts ==
  ASSUME NEW a, IsStack(a), NEW b, Redone(a, b)
  PROVE  SameShape(a, b) /\ SameBounds(a, b)
<1>1. ASSUME NEW i \in 1..Len(a)
      PROVE  /\ DOMAIN b[i] = BlockFields /\ b[i].zb = a[i].zb /\ b[i].zt = a[i].zt
             /\ b[i].target = a[i].target /\ b[i].topIndex = a[i].topIndex
             /\ b[i].solids = a[i].solids
  <2>1. DOMAIN a[i] = BlockFields /\ DOMAIN b[i] = BlockFields
    BY StackFacts DEF Redone
  <2>2. {"zb", "zt", "target", "topIndex", "solids"} \subseteq DOMAIN a[i] \ {"power", "peak"}
    BY <2>1 DEF BlockFields
  <2> QED
    BY <2>1, <2>2 DEF Redone
<1>2. SameShape(a, b)
  BY <1>1, ChangedStack, StackFacts DEF Redone
<1> QED
  BY <1>1, <1>2 DEF Redone, SameBounds

LEMMA FillsOn ==
  ASSUME NEW a, NEW b, SameBounds(a, b), Len(a) \in Nat, Len(a) >= 1, NEW top, Fills(a, top)
  PROVE  Fills(b, top)
<1>1. Len(a) \in 1..Len(a) /\ Len(b) = Len(a)
  BY DEF SameBounds
<1>2. ASSUME NEW i \in 1..Len(b) PROVE b[i].zb = StartOf(b, i) /\ b[i].zb <= b[i].zt
  <2>1. i \in 1..Len(a) /\ (i # 1 => i - 1 \in 1..Len(a))
    BY <1>1
  <2> QED
    BY <2>1 DEF Fills, StacksTo, StartOf, SameBounds
<1> QED
  BY <1>1, <1>2 DEF Fills, StacksTo, SameBounds

LEMMA AtRestFacts ==
  ASSUME NEW a, IsStack(a)
  PROVE  SameShape(a, AtRest(a)) /\ SameBounds(a, AtRest(a))
<1> DEFINE rest(i) == [s \in DOMAIN a[i].solids |->
              [a[i].solids[s] EXCEPT !.mass = Portion(a[i].solids[s].mass, Height(a[i]), a[i].solids[s].h)]]
<1>1. PICK b : b = AtRest(a)
  OBVIOUS
<1>2. b = [i \in 1..Len(a) |-> [a[i] EXCEPT !.solids = rest(i)]]
  BY <1>1, StackFacts DEF AtRest
<1>3. \A i : DOMAIN rest(i) = DOMAIN a[i].solids
             /\ \A s \in DOMAIN a[i].solids : DOMAIN rest(i)[s] = DOMAIN a[i].solids[s]
  OBVIOUS
<1> HIDE DEF rest
<1>4. Len(b) = Len(a) /\ IsList(b)
  BY <1>2, LenOf, StackFacts
<1>5. ASSUME NEW i \in 1..Len(a)
      PROVE  /\ DOMAIN b[i] = BlockFields /\ b[i].zb = a[i].zb /\ b[i].zt = a[i].zt
             /\ b[i].target = a[i].target /\ b[i].topIndex = a[i].topIndex
             /\ b[i].solids = rest(i)
  <2>1. b[i] = [a[i] EXCEPT !.solids = rest(i)]
    BY <1>2
  <2>2. DOMAIN a[i] = BlockFields
    BY StackFacts
  <2> QED
    BY <2>1, <2>2, StackFacts DEF BlockFields
<1>6. SameShape(a, b)
  BY <1>3, <1>4, <1>5, ChangedStack, StackFacts
<1> QED
  BY <1>1, <1>4, <1>5, <1>6 DEF SameBounds

(* An expansion that raises nothing keeps the stack and its top. *)
LEMMA ExpandedFacts ==
  ASSUME NEW a, IsStack(a), Len(a) >= 2, HaveTargets(a), a[1].zb = 0,
         NEW change, \A x \in DOMAIN change : change[x] \in Int,
         ~AxiallyExpanded(a, change).raised
  PROVE  LET b == AtRest(AxiallyExpanded(a, change).blocks)
         IN  SameShape(a, b) /\ Fills(b, a[Len(a)].zt)
<1>1. PICK g : g = Grown(a, change)
  OBVIOUS
<1>2. /\ SameShape(a, g) /\ Stand(g)
      /\ \A i \in 1..Len(a) : /\ g[i].zb = a[i].zb /\ g[i].zt = a[i].zt
                              /\ \A s \in DOMAIN a[i].solids : g[i].solids[s].zb = a[i].zb
  BY <1>1, GrownFacts
<1>3. Len(a) \in Nat /\ 1 \in 1..Len(a) - 1 /\ 1 \in 1..Len(a) /\ Len(a) \in 1..Len(a) /\ Len(g) = Len(a)
  BY <1>2, StackFacts DEF SameShape
<1>4. Alignable(g)
  <2>1. HaveTargets(g) /\ IsStack(g)
    BY <1>2, <1>3 DEF HaveTargets, SameShape
  <2>2. g[1].target = a[1].target /\ a[1].target \in DOMAIN a[1].solids
    BY <1>2, <1>3 DEF SameShape, HaveTargets
  <2> QED
    BY <1>2, <1>3, <2>1, <2>2 DEF Alignable
<1>5. PICK x : x = AlignedTo(g, Len(g)).blocks
  OBVIOUS
<1>6. SameShape(g, x) /\ Fills(x, g[Len(g)].zt) /\ x = AxiallyExpanded(a, change).blocks
  BY <1>1, <1>3, <1>4, <1>5, AlignedToTop DEF AxiallyExpanded
<1>7. SameShape(x, AtRest(x)) /\ SameBounds(x, AtRest(x))
  BY <1>6, AtRestFacts DEF SameShape
<1>8. SameShape(a, AtRest(x))
  BY <1>2, <1>6, <1>7, SameShapeTransitive
<1>9. Len(x) = Len(a)
  BY <1>3, <1>6 DEF SameShape
<1>10. Fills(AtRest(x), a[Len(a)].zt)
  BY <1>2, <1>3, <1>6, <1>7, <1>9, FillsOn
<1> QED
  BY <1>6, <1>8, <1>10

(* Blocks on the points of a mesh that they track. *)
Tracks(a, n) == \A i \in 1..Len(a) : a[i].topIndex + 1 \in 1..n

IsMesh(tops) == IsList(tops) /\ \A k \in 1..Len(tops) : tops[k] \in Int

LEMMA OnMeshFacts ==
  ASSUME NEW a, IsStack(a), Len(a) >= 1, NEW tops, IsMesh(tops),
         a[Len(a)].topIndex # 0, Tracks(a, Len(tops))
  PROVE  LET b == OnMesh(a, tops)
         IN  /\ SameShape(a, b)
             /\ \A i \in 1..Len(a) : /\ b[i].zt = tops[a[i].topIndex + 1]
                                     /\ b[i].zb = StartOf(b, i)
<1> DEFINE top(i) == tops[a[i].topIndex + 1]
           start(i) == IF i = 1 THEN 0 ELSE top(i - 1)
           solid(i) == [s \in DOMAIN a[i].solids |->
              IF MassConserved(a, i, a[i].solids[s]) THEN a[i].solids[s]
              ELSE [a[i].solids[s] EXCEPT
                      !.mass = Portion(a[i].solids[s].mass, top(i) - start(i), Height(a[i]))]]
           c(i) == [a[i] EXCEPT !.zb = start(i), !.zt = top(i), !.solids = solid(i)]
<1>1. PICK b : b = OnMesh(a, tops)
  OBVIOUS
<1>2. b = [i \in 1..Len(a) |-> c(i)]
  BY <1>1, StackFacts DEF OnMesh
<1>3. \A i : DOMAIN solid(i) = DOMAIN a[i].solids
             /\ \A s \in DOMAIN a[i].solids : DOMAIN solid(i)[s] = DOMAIN a[i].solids[s]
  OBVIOUS
<1> HIDE DEF solid
<1>4. Len(b) = Len(a) /\ IsList(b)
  <2> HIDE DEF c
  <2> QED
    BY <1>2, LenOf, StackFacts
<1>5. ASSUME NEW i \in 1..Len(a)
      PROVE  /\ DOMAIN b[i] = BlockFields /\ b[i].zb = start(i) /\ b[i].zt = top(i)
             /\ b[i].target = a[i].target /\ b[i].topIndex = a[i].topIndex
             /\ b[i].solids = solid(i)
  <2>1. b[i] = c(i)
    BY <1>2
  <2>2. DOMAIN a[i] = BlockFields
    BY StackFacts
  <2> HIDE DEF start, top
  <2> QED
    BY <2>1, <2>2 DEF BlockFields
<1>6. ASSUME NEW i \in 1..Len(a)
      PROVE  top(i) \in Int /\ start(i) \in Int /\ start(i) = StartOf(b, i)
  <2>1. Len(a) \in Nat /\ (i # 1 => i - 1 \in 1..Len(a))
    BY StackFacts
  <2>2. top(i) \in Int /\ (i # 1 => top(i - 1) \in Int)
    BY <2>1 DEF IsMesh, Tracks
  <2>3. i # 1 => b[i - 1].zt = top(i - 1)
    BY <1>5, <2>1
  <2> HIDE DEF top
  <2> QED
    BY <2>2, <2>3 DEF StartOf
<1> HIDE DEF top, start, c
<1>7. SameShape(a, b)
  <2>1. ASSUME NEW i \in 1..Len(a)
        PROVE  /\ DOMAIN b[i] = BlockFields /\ b[i].zb \in Int /\ b[i].zt \in Int
               /\ b[i].target = a[i].target /\ b[i].topIndex = a[i].topIndex
               /\ DOMAIN b[i].solids = DOMAIN a[i].solids
               /\ \A s \in DOMAIN a[i].solids : DOMAIN b[i].solids[s] = SolidFields
    BY <1>3, <1>5, <1>6, StackFacts
  <2> QED
    BY <1>4, <2>1, ChangedStack
<1> QED
  BY <1>1, <1>5, <1>6, <1>7 DEF top

LEMMA MappedFacts ==
  ASSUME NEW blocks, IsList(blocks), NEW source
  PROVE  Redone(blocks, Mapped(source, blocks))
<1> DEFINE from(k) == BlocksBetween(source, blocks[k].zb, blocks[k].zt)
           power(k) == FromOverlaps(source, blocks[k].zb, blocks[k].zt, [i \in DOMAIN source |-> source[i].power])
           peak(k) == Max({0} \cup {source[i].peak : i \in from(k)})
           mapped(k) == IF from(k) = {} THEN blocks[k]
                        ELSE [blocks[k] EXCEPT !.power = power(k), !.peak = peak(k)]
<1>1. PICK b : b = Mapped(source, blocks)
  OBVIOUS
<1>2. DOMAIN blocks = 1..Len(blocks) /\ Len(blocks) \in Nat
  BY DEF IsList
<1>3. b = [k \in 1..Len(blocks) |-> mapped(k)]
  BY <1>1, <1>2 DEF Mapped
<1> HIDE DEF from, power, peak
<1>4. ASSUME NEW k \in 1..Len(blocks)
      PROVE  /\ DOMAIN b[k] = DOMAIN blocks[k]
             /\ \A f \in DOMAIN blocks[k] \ {"power", "peak"} : b[k][f] = blocks[k][f]
  BY <1>3
<1>5. Len(b) = Len(blocks) /\ IsList(b)
  BY <1>2, <1>3, LenOf
<1> QED
  BY <1>1, <1>4, <1>5 DEF Redone

AssemblyFields == {"name", "uniform", "moves", "blocks"}

LEMMA SolvedFacts ==
  ASSUME NEW a, DOMAIN a = AssemblyFields, IsList(a.blocks), NEW r
  PROVE  LET b == SolvedWith(a, r)
         IN  /\ DOMAIN b = AssemblyFields /\ b.name = a.name /\ b.uniform = a.uniform
             /\ Redone(a.blocks, b.blocks)
<1> DEFINE power(k) == (r + k) * Height(a.blocks[k])
           peak(k) == r + k
           new == [k \in DOMAIN a.blocks |-> [a.blocks[k] EXCEPT !.power = power(k), !.peak = peak(k)]]
<1>1. PICK b : b = SolvedWith(a, r)
  OBVIOUS
<1>2. b = [a EXCEPT !.blocks = new]
  BY <1>1 DEF SolvedWith, AssemblyFields
<1>3. DOMAIN a.blocks = 1..Len(a.blocks) /\ Len(a.blocks) \in Nat
  BY DEF IsList
<1> HIDE DEF power, peak
<1>4. PICK x : x = new
  OBVIOUS
<1>5. x = [k \in 1..Len(a.blocks) |-> [a.blocks[k] EXCEPT !.power = power(k), !.peak = peak(k)]]
  BY <1>3, <1>4
<1>6. ASSUME NEW k \in 1..Len(a.blocks)
      PROVE  /\ DOMAIN x[k] = DOMAIN a.blocks[k]
             /\ \A f \in DOMAIN a.blocks[k] \ {"power", "peak"} : x[k][f] = a.blocks[k][f]
  BY <1>5
<1>7. Len(x) = Len(a.blocks) /\ IsList(x)
  BY <1>3, <1>5, LenOf
<1>8. b = [a EXCEPT !.blocks = x]
  BY <1>2, <1>4
<1> HIDE DEF new
<1>9. DOMAIN b = AssemblyFields /\ b.name = a.name /\ b.uniform = a.uniform /\ b.blocks = x
  BY <1>8 DEF AssemblyFields
<1> QED
  BY <1>1, <1>6, <1>7, <1>9 DEF Redone

UniformFields == {"zb", "zt", "power", "peak", "atoms"}

(* Blocks stacked on a mesh. *)
OnTops(blocks, tops) ==
  /\ IsList(blocks) /\ Len(blocks) = Len(tops)
  /\ \A k \in 1..Len(tops) : /\ DOMAIN blocks[k] = UniformFields
                             /\ blocks[k].zt = tops[k] /\ blocks[k].zb = StartOf(blocks, k)

LEMMA UniformFacts ==
  ASSUME NEW a, DOMAIN a = AssemblyFields, NEW tops, IsList(tops), NEW b, b = Uniform(a, tops)
  PROVE  /\ DOMAIN b = AssemblyFields /\ b.name = a.name /\ b.uniform = TRUE
         /\ OnTops(b.blocks, tops)
<1> DEFINE held(k) == [m \in Materials |->
                   FromOverlaps(a.blocks, Bottom(tops, k), tops[k],
                                [i \in DOMAIN a.blocks |-> MassIn(a.blocks[i], m)])]
           new == [k \in DOMAIN tops |->
     [zb |-> Bottom(tops, k), zt |-> tops[k], power |-> 0, peak |-> 0, atoms |-> held(k)]]
<1>2. b = [a EXCEPT !.uniform = TRUE, !.moves = 1, !.blocks = new]
  BY DEF Uniform
<1>3. DOMAIN tops = 1..Len(tops) /\ Len(tops) \in Nat
  BY DEF IsList
<1> HIDE DEF held
<1>4. PICK x : x = new
  OBVIOUS
<1>5. x = [k \in 1..Len(tops) |->
     [zb |-> Bottom(tops, k), zt |-> tops[k], power |-> 0, peak |-> 0, atoms |-> held(k)]]
  BY <1>3, <1>4
<1>6. Len(x) = Len(tops) /\ IsList(x)
  BY <1>3, <1>5, LenOf
<1>7. ASSUME NEW k \in 1..Len(tops)
      PROVE  /\ DOMAIN x[k] = UniformFields
             /\ x[k].zt = tops[k] /\ x[k].zb = Bottom(tops, k)
  BY <1>5 DEF UniformFields
<1>8. ASSUME NEW k \in 1..Len(tops) PROVE x[k].zb = StartOf(x, k)
  <2>1. k # 1 => k - 1 \in 1..Len(tops)
    BY <1>3
  <2> QED
    BY <1>7, <2>1 DEF Bottom, StartOf
<1>9. b = [a EXCEPT !.uniform = TRUE, !.moves = 1, !.blocks = x]
  BY <1>2, <1>4
<1> HIDE DEF new
<1>10. DOMAIN b = AssemblyFields /\ b.name = a.name /\ b.uniform = TRUE /\ b.blocks = x
  BY <1>9 DEF AssemblyFields
<1> QED
  BY <1>6, <1>7, <1>8, <1>10 DEF OnTops

-----------------------------------------------------------------------------
(* The tables of a core, and what becomes of them when assemblies of it    *)
(* are replaced by others of the same names.                               *)
NameTable(c)  == [n \in {c[p].name : p \in Places} |-> <<n[1], c[n[1]].uniform>>]
BlockTable(c) == [n \in UNION {BlockNames(c[p]) : p \in Places} |-> <<n[1], c[n[1]].uniform>>]

NamesOf(x, u)  == [n \in {x[q].name : q \in DOMAIN x} |-> <<n[1], u>>]
BlocksOf(x, u) == [n \in UNION {BlockNames(x[q]) : q \in DOMAIN x} |-> <<n[1], u>>]
BlocksOut(c, x) == UNION {BlockNames(c[q]) : q \in DOMAIN x}

NamedByPlace(c, S) == \A p \in S : c[p].name = <<p, "">>

LEMMA NamesOfPlaces ==
  ASSUME NEW c, NEW S, NamedByPlace(c, S)
  PROVE  \A p \in S : BlockNames(c[p]) = {<<p, i>> : i \in DOMAIN c[p].blocks}
<1> SUFFICES ASSUME NEW p \in S PROVE BlockNames(c[p]) = {<<p, i>> : i \in DOMAIN c[p].blocks}
  OBVIOUS
<1>1. c[p].name = <<p, "">>
  BY DEF NamedByPlace
<1>2. <<p, "">>[1] = p
  OBVIOUS
<1>3. c[p].name[1] = p
  BY <1>1, <1>2
<1> QED
  BY <1>3 DEF BlockNames

LEMMA NamesReplaced ==
  ASSUME NEW c, NamedByPlace(c, Places), NEW S \in SUBSET Places,
         NEW x, DOMAIN x = S, NamedByPlace(x, S), NEW u, \A p \in S : x[p].uniform = u,
         NEW d, \A p \in Places : d[p] = IF p \in S THEN x[p] ELSE c[p]
  PROVE  Over(NamesOf(x, u), NameTable(c)) = NameTable(d)
<1>1. {x[q].name : q \in DOMAIN x} = {<<p, "">> : p \in S}
  BY DEF NamedByPlace
<1>2. {c[p].name : p \in Places} = {<<p, "">> : p \in Places}
  BY DEF NamedByPlace
<1>3. NamedByPlace(d, Places)
  BY DEF NamedByPlace
<1>4. {d[p].name : p \in Places} = {<<p, "">> : p \in Places}
  BY <1>3 DEF NamedByPlace
<1> DEFINE f == [n \in {<<p, "">> : p \in S} |-> <<n[1], u>>]
           g == [n \in {<<p, "">> : p \in Places} |-> <<n[1], c[n[1]].uniform>>]
           h == [n \in {<<p, "">> : p \in Places} |-> <<n[1], d[n[1]].uniform>>]
<1>5. DOMAIN f \cup DOMAIN g = {<<p, "">> : p \in Places}
  OBVIOUS
<1>6. ASSUME NEW n \in {<<p, "">> : p \in Places}
      PROVE  (IF n \in DOMAIN f THEN f[n] ELSE g[n]) = <<n[1], d[n[1]].uniform>>
  <2>1. PICK p \in Places : n = <<p, "">>
    BY <1>6
  <2>2. n[1] = p /\ (n \in DOMAIN f <=> p \in S)
    BY <2>1
  <2>3. CASE p \in S
    BY <2>2, <2>3
  <2>4. CASE p \notin S
    BY <1>6, <2>2, <2>4
  <2> QED
    BY <2>3, <2>4
<1>7. Over(f, g) = h
  <2>1. Over(f, g) = [n \in DOMAIN f \cup DOMAIN g |-> IF n \in DOMAIN f THEN f[n] ELSE g[n]]
    BY DEF Over
  <2> HIDE DEF f, g
  <2> QED
    BY <1>5, <1>6, <2>1
<1> QED
  BY <1>1, <1>2, <1>4, <1>7 DEF NameTable, NamesOf

LEMMA BlockNamesReplaced ==
  ASSUME NEW c, NamedByPlace(c, Places), NEW S \in SUBSET Places,
         NEW x, DOMAIN x = S, NamedByPlace(x, S), NEW u, \A p \in S : x[p].uniform = u,
         NEW d, \A p \in Places : d[p] = IF p \in S THEN x[p] ELSE c[p]
  PROVE  Over(BlocksOf(x, u), Without(BlockTable(c), BlocksOut(c, x))) = BlockTable(d)
<1> DEFINE new == UNION {BlockNames(x[q]) : q \in DOMAIN x}
           out == BlocksOut(c, x)
           old == UNION {BlockNames(c[p]) : p \in Places}
           all == UNION {BlockNames(d[p]) : p \in Places}
           f == [n \in new |-> <<n[1], u>>]
           g == [n \in old \ out |-> <<n[1], c[n[1]].uniform>>]
<1>1. /\ \A p \in S : BlockNames(x[p]) = {<<p, i>> : i \in DOMAIN x[p].blocks}
      /\ \A p \in Places : BlockNames(c[p]) = {<<p, i>> : i \in DOMAIN c[p].blocks}
      /\ \A p \in Places : BlockNames(d[p]) = IF p \in S THEN BlockNames(x[p]) ELSE BlockNames(c[p])
  <2>1. \A p \in S : BlockNames(x[p]) = {<<p, i>> : i \in DOMAIN x[p].blocks}
    BY NamesOfPlaces
  <2>2. \A p \in Places : BlockNames(c[p]) = {<<p, i>> : i \in DOMAIN c[p].blocks}
    BY NamesOfPlaces
  <2> QED
    BY <2>1, <2>2
<1>2. \A n : n \in new <=> \E p \in S : \E i \in DOMAIN x[p].blocks : n = <<p, i>>
  BY <1>1
<1>3. \A n : n \in old <=> \E p \in Places : \E i \in DOMAIN c[p].blocks : n = <<p, i>>
  BY <1>1
<1>4. \A n : n \in out <=> \E p \in S : \E i \in DOMAIN c[p].blocks : n = <<p, i>>
  BY <1>1 DEF BlocksOut
<1>5. \A n : n \in all <=> \E p \in Places : n \in BlockNames(d[p])
  OBVIOUS
<1> HIDE DEF new, out, old, all
<1>6. \A n : n \in old \ out <=> \E p \in Places \ S : \E i \in DOMAIN c[p].blocks : n = <<p, i>>
  BY <1>3, <1>4
<1>7. \A n : n \in all <=> n \in new \/ n \in old \ out
  BY <1>1, <1>2, <1>5, <1>6
<1>8. Without(BlockTable(c), out) = g
  BY DEF Without, Restrict, BlockTable, old
<1>9. ASSUME NEW n \in all
      PROVE  (IF n \in DOMAIN f THEN f[n] ELSE g[n]) = <<n[1], d[n[1]].uniform>>
  <2>1. CASE n \in new
    <3>1. PICK p \in S : n[1] = p
      BY <1>2, <2>1
    <3>2. d[n[1]].uniform = u
      BY <3>1
    <3> QED
      BY <2>1, <3>2
  <2>2. CASE n \notin new
    <3>1. n \in old \ out
      BY <1>7, <2>2
    <3>2. PICK p \in Places \ S : n[1] = p
      BY <1>6, <3>1
    <3>3. d[n[1]].uniform = c[n[1]].uniform
      BY <3>2
    <3> QED
      BY <2>2, <3>1, <3>3
  <2> QED
    BY <2>1, <2>2
<1>10. DOMAIN f \cup DOMAIN g = all
  BY <1>7
<1>11. Over(f, g) = [n \in all |-> <<n[1], d[n[1]].uniform>>]
  <2>1. Over(f, g) = [n \in DOMAIN f \cup DOMAIN g |-> IF n \in DOMAIN f THEN f[n] ELSE g[n]]
    BY DEF Over
  <2> HIDE DEF f, g
  <2> QED
    BY <1>9, <1>10, <2>1
<1> QED
  BY <1>8, <1>11 DEF BlockTable, BlocksOf, new, out, all

-----------------------------------------------------------------------------
LEMMA Increasing ==
  ASSUME NEW n \in Nat, NEW f, \A i \in 1..n : f[i] \in Int, \A i \in 1..n - 1 : f[i] <= f[i + 1]
  PROVE  \A i, j \in 1..n : i <= j => f[i] <= f[j]
<1> SUFFICES ASSUME NEW i \in 1..n PROVE \A j \in 1..n : i <= j => f[i] <= f[j]
  OBVIOUS
<1> DEFINE S == {j \in Nat : j \in 1..n /\ i <= j /\ ~(f[i] <= f[j])}
<1>1. SUFFICES ASSUME S # {} PROVE FALSE
  OBVIOUS
<1>2. PICK j \in S : \A k \in S : j <= k
  BY <1>1, LeastNumber
<1>3. j \in 1..n /\ i <= j /\ ~(f[i] <= f[j])
  BY <1>2
<1>4. i # j
  BY <1>3
<1>5. j - 1 \in 1..n - 1 /\ j - 1 \in 1..n /\ i <= j - 1 /\ j - 1 \in Nat /\ (j - 1) + 1 = j
  BY <1>3, <1>4
<1>6. j - 1 \notin S
  BY <1>2, <1>5
<1>7. f[i] <= f[j - 1] /\ f[j - 1] <= f[j]
  BY <1>5, <1>6
<1> QED
  BY <1>3, <1>5, <1>7

LEMMA TopsFacts ==
  ASSUME NEW a, IsStack(a)
  PROVE  /\ IsMesh(TopsOf(a)) /\ Len(TopsOf(a)) = Len(a)
         /\ \A i \in 1..Len(a) : TopsOf(a)[i] = a[i].zt
<1>1. TopsOf(a) = [i \in 1..Len(a) |-> a[i].zt]
  BY StackFacts DEF TopsOf
<1>2. PICK t : t = TopsOf(a)
  OBVIOUS
<1>3. t = [i \in 1..Len(a) |-> t[i]] /\ \A i \in 1..Len(a) : t[i] = a[i].zt
  BY <1>1, <1>2
<1>4. Len(t) = Len(a) /\ IsList(t)
  BY <1>3, LenOf, StackFacts
<1> QED
  BY <1>2, <1>3, <1>4, StackFacts DEF IsMesh

LEMMA TopsRise ==
  ASSUME NEW a, IsStack(a), StacksTo(a, Len(a))
  PROVE  \A i, j \in 1..Len(a) : i <= j => a[i].zt <= a[j].zt
<1> DEFINE f == TopsOf(a)
<1>1. Len(a) \in Nat /\ \A i \in 1..Len(a) : f[i] = a[i].zt /\ f[i] \in Int
  BY TopsFacts, StackFacts
<1>2. ASSUME NEW i \in 1..Len(a) - 1 PROVE f[i] <= f[i + 1]
  <2>1. i \in 1..Len(a) /\ i + 1 \in 1..Len(a) /\ i + 1 # 1 /\ (i + 1) - 1 = i
    BY <1>1
  <2>2. a[i + 1].zb = a[i].zt /\ a[i + 1].zb <= a[i + 1].zt
    BY <2>1 DEF StacksTo, StartOf
  <2> QED
    BY <1>1, <2>1, <2>2
<1> HIDE DEF f
<1>3. \A i, j \in 1..Len(a) : i <= j => f[i] <= f[j]
  BY <1>1, <1>2, Increasing
<1> QED
  BY <1>1, <1>3

LEMMA LoadingFacts ==
  ASSUME NEW p \in Places
  PROVE  LET a == Loading[p]
         IN  /\ IsStack(a) /\ Len(a) >= 2 /\ HaveTargets(a) /\ Fills(a, Top(a))
             /\ \A i \in 1..Len(a) : a[i].zb < a[i].zt /\ a[i].topIndex = 0
<1>1. PICK a : a = Loading[p]
  OBVIOUS
<1>2. IsBuilt(a)
  BY <1>1, LoadingAssumption
<1>3. IsList(a) /\ Len(a) \in Nat /\ Len(a) >= 2 /\ DOMAIN a = 1..Len(a)
  BY <1>2 DEF IsBuilt, IsList
<1>4. ASSUME NEW i \in 1..Len(a)
      PROVE  /\ DOMAIN a[i] = BlockFields /\ a[i].zb \in Nat /\ a[i].zt \in Nat
             /\ a[i].zb = StartOf(a, i) /\ a[i].zb < a[i].zt /\ a[i].topIndex = 0
             /\ i < Len(a) => a[i].target \in DOMAIN a[i].solids
             /\ \A s \in DOMAIN a[i].solids : DOMAIN a[i].solids[s] = SolidFields
  BY <1>2 DEF IsBuilt, BlockFields, SolidFields, StartOf
<1>5. IsStack(a)
  BY <1>3, <1>4 DEF IsStack
<1>6. HaveTargets(a)
  BY <1>3, <1>4 DEF HaveTargets
<1>7. Fills(a, Top(a))
  BY <1>3, <1>4 DEF Fills, StacksTo, Top
<1> QED
  BY <1>1, <1>3, <1>4, <1>5, <1>6, <1>7

(* In an assembly as built every top is higher than those below.           *)
LEMMA LoadingRises ==
  ASSUME NEW p \in Places
  PROVE  \A i, j \in 1..Len(Loading[p]) : i < j => Loading[p][i].zt < Loading[p][j].zt
<1>1. PICK a : a = Loading[p]
  OBVIOUS
<1>2. /\ IsStack(a) /\ StacksTo(a, Len(a)) /\ Len(a) \in Nat
      /\ \A i \in 1..Len(a) : a[i].zb < a[i].zt /\ a[i].zb \in Int /\ a[i].zt \in Int
  BY <1>1, LoadingFacts, StackFacts DEF Fills
<1>3. ASSUME NEW i \in 1..Len(a), NEW j \in 1..Len(a), i < j PROVE a[i].zt < a[j].zt
  <2>1. j - 1 \in 1..Len(a) /\ i <= j - 1 /\ j # 1
    BY <1>2, <1>3
  <2>2. a[i].zt <= a[j - 1].zt
    BY <1>2, <2>1, TopsRise
  <2>3. a[j].zb = a[j - 1].zt
    BY <1>2, <2>1 DEF StacksTo, StartOf
  <2> QED
    BY <1>2, <2>1, <2>2, <2>3
<1> QED
  BY <1>1, <1>3

-----------------------------------------------------------------------------
(* The blocks an assembly of the core begins with, at the points of the    *)
(* reference mesh if it is to track it.                                    *)
Built(p) ==
  IF case.detailed \/ p \in case.nonUniform THEN Loading[p]
  ELSE Snapping(Loading[p], TopsOf(Loading[Reference]))

LEMMA SnappingFacts ==
  ASSUME NEW p \in Places, ~case.detailed, p \notin case.nonUniform, case \in Cases
  PROVE  LET a == Loading[p]  b == Built(p)
         IN  /\ SameBounds(a, b) /\ IsStack(b)
             /\ \A i \in 1..Len(a) :
                  /\ b[i].target = a[i].target /\ b[i].solids = a[i].solids
                  /\ b[i].flags = a[i].flags
                  /\ b[i].topIndex + 1 \in 1..Len(Loading[Reference])
                  /\ Loading[Reference][b[i].topIndex + 1].zt = a[i].zt
<1>1. PICK a : a = Loading[p]
  OBVIOUS
<1>2. PICK r : r = Loading[Reference]
  OBVIOUS
<1>3. IsStack(a) /\ IsStack(r)
  BY <1>1, <1>2, LoadingFacts, LoadingAssumption
<1>4. PICK t : t = TopsOf(r)
  OBVIOUS
<1>5. DOMAIN t = 1..Len(r) /\ \A k \in 1..Len(r) : t[k] = r[k].zt
  BY <1>3, <1>4, TopsFacts DEF IsMesh, IsList
<1>6. ASSUME NEW i \in 1..Len(a) PROVE \E k \in DOMAIN t : t[k] = a[i].zt
  <2>1. TopsOf(a)[i] \in ToSet(TopsOf(a))
    BY <1>3, TopsFacts DEF ToSet, IsMesh, IsList
  <2>2. ToSet(TopsOf(a)) \subseteq ToSet(t)
    BY <1>1, <1>2, <1>4, SnapAssumption
  <2>3. a[i].zt \in ToSet(t)
    BY <1>3, <2>1, <2>2, TopsFacts
  <2> QED
    BY <2>3 DEF ToSet
<1> DEFINE point(i) == CHOOSE k \in DOMAIN t : t[k] = a[i].zt
<1>7. \A i \in 1..Len(a) : point(i) \in 1..Len(r) /\ r[point(i)].zt = a[i].zt
  BY <1>5, <1>6
<1>8. PICK b : b = Built(p)
  OBVIOUS
<1>9. b = [i \in 1..Len(a) |-> [a[i] EXCEPT !.topIndex = point(i) - 1]]
  <2>1. b = Snapping(a, t)
    BY <1>1, <1>2, <1>4, <1>8 DEF Built
  <2>2. DOMAIN a = 1..Len(a)
    BY <1>3, StackFacts
  <2> QED
    BY <2>1, <2>2 DEF Snapping
<1> HIDE DEF point
<1>10. Len(b) = Len(a) /\ IsList(b)
  <2>1. b = [i \in 1..Len(a) |-> b[i]]
    BY <1>9
  <2> QED
    BY <1>3, <2>1, LenOf, StackFacts
<1>11. ASSUME NEW i \in 1..Len(a)
       PROVE  /\ DOMAIN b[i] = BlockFields /\ b[i].zb = a[i].zb /\ b[i].zt = a[i].zt
              /\ b[i].target = a[i].target /\ b[i].topIndex = point(i) - 1
              /\ b[i].solids = a[i].solids /\ b[i].flags = a[i].flags
  <2>1. b[i] = [a[i] EXCEPT !.topIndex = point(i) - 1]
    BY <1>9
  <2>2. DOMAIN a[i] = BlockFields
    BY <1>3, StackFacts
  <2> QED
    BY <2>1, <2>2 DEF BlockFields
<1>12. IsStack(b) /\ SameBounds(a, b)
  BY <1>3, <1>10, <1>11, StackFacts DEF IsStack, SameBounds
<1>13. \A i \in 1..Len(a) : b[i].topIndex + 1 = point(i)
  BY <1>3, <1>7, <1>11, StackFacts
<1> QED
  BY <1>1, <1>2, <1>7, <1>8, <1>11, <1>12, <1>13

LEMMA BuiltFacts ==
  ASSUME NEW p \in Places, case \in Cases
  PROVE  /\ IsStack(Built(p)) /\ Len(Built(p)) >= 2 /\ HaveTargets(Built(p))
         /\ Len(Built(p)) = Len(Loading[p]) /\ Fills(Built(p), Top(Loading[p]))
         /\ Built(p)[1].zb = 0
         /\ \/ \A i \in 1..Len(Built(p)) : Built(p)[i].topIndex = 0
            \/ Tracks(Built(p), Len(Loading[Reference]))
<1>1. PICK a : a = Loading[p]
  OBVIOUS
<1>2. PICK b : b = Built(p)
  OBVIOUS
<1>3. /\ IsStack(a) /\ Len(a) >= 2 /\ HaveTargets(a) /\ Fills(a, Top(a)) /\ Len(a) \in Nat
      /\ \A i \in 1..Len(a) : a[i].topIndex = 0
  BY <1>1, LoadingFacts, StackFacts
<1>4. CASE case.detailed \/ p \in case.nonUniform
  <2>1. b = a
    BY <1>1, <1>2, <1>4 DEF Built
  <2>2. a[1].zb = 0
    BY <1>3 DEF Fills, StacksTo, StartOf
  <2> QED
    BY <1>1, <1>2, <1>3, <2>1, <2>2
<1>5. CASE ~case.detailed /\ p \notin case.nonUniform
  <2>1. /\ SameBounds(a, b) /\ IsStack(b)
        /\ \A i \in 1..Len(a) :
             /\ b[i].target = a[i].target /\ b[i].solids = a[i].solids
             /\ b[i].topIndex + 1 \in 1..Len(Loading[Reference])
    BY <1>1, <1>2, <1>5, SnappingFacts
  <2>2. Len(b) = Len(a)
    BY <2>1 DEF SameBounds
  <2>3. HaveTargets(b)
    BY <1>3, <2>1, <2>2 DEF HaveTargets
  <2>4. Fills(b, Top(a))
    BY <1>3, <2>1, FillsOn
  <2>5. b[1].zb = 0
    BY <1>3, <2>2, <2>4 DEF Fills, StacksTo, StartOf
  <2>6. Tracks(b, Len(Loading[Reference]))
    BY <2>1, <2>2 DEF Tracks
  <2> QED
    BY <1>1, <1>2, <1>3, <2>1, <2>2, <2>3, <2>4, <2>5, <2>6
<1> QED
  BY <1>4, <1>5

-----------------------------------------------------------------------------
(* An assembly as it was built, wherever its blocks are by now, and one    *)
(* that stands in for it on the reference mesh.                            *)
IsOriginal(p, a) ==
  /\ DOMAIN a = AssemblyFields /\ a.uniform = FALSE
  /\ SameShape(Built(p), a.blocks) /\ a.blocks[1].zb = 0

IsStandIn(a) ==
  /\ DOMAIN a = AssemblyFields /\ a.uniform = TRUE
  /\ IsList(a.blocks) /\ Len(a.blocks) >= 1
  /\ \A k \in 1..Len(a.blocks) :
       /\ DOMAIN a.blocks[k] = UniformFields
       /\ a.blocks[k].zb \in Int /\ a.blocks[k].zt \in Int

LEMMA OriginalFacts ==
  ASSUME NEW p \in Places, case \in Cases, NEW a, IsOriginal(p, a)
  PROVE  /\ IsStack(a.blocks) /\ Len(a.blocks) \in Nat /\ Len(a.blocks) >= 2
         /\ HaveTargets(a.blocks) /\ Len(a.blocks) = Len(Loading[p])
         /\ a.blocks[Len(a.blocks)].topIndex = 0 \/ Tracks(a.blocks, Len(Loading[Reference]))
<1>1. PICK b : b = Built(p)
  OBVIOUS
<1>2. PICK c : c = a.blocks
  OBVIOUS
<1>3. /\ IsStack(b) /\ Len(b) >= 2 /\ HaveTargets(b) /\ Len(b) = Len(Loading[p])
      /\ \/ \A i \in 1..Len(b) : b[i].topIndex = 0
         \/ Tracks(b, Len(Loading[Reference]))
  BY <1>1, BuiltFacts
<1>4. SameShape(b, c) /\ Len(b) \in Nat /\ Len(c) = Len(b)
  BY <1>1, <1>2, <1>3, StackFacts DEF IsOriginal, SameShape
<1>5. HaveTargets(c)
  BY <1>3, <1>4 DEF HaveTargets, SameShape
<1>6. c[Len(c)].topIndex = 0 \/ Tracks(c, Len(Loading[Reference]))
  <2>1. \A i \in 1..Len(b) : c[i].topIndex = b[i].topIndex
    BY <1>4 DEF SameShape
  <2>2. Len(c) \in 1..Len(b)
    BY <1>3, <1>4
  <2> QED
    BY <1>3, <1>4, <2>1, <2>2 DEF Tracks
<1> QED
  BY <1>2, <1>3, <1>4, <1>5, <1>6 DEF SameShape

(* An original keeps being one with other blocks of the same shape.        *)
LEMMA OriginalChanged ==
  ASSUME NEW p \in Places, NEW a, IsOriginal(p, a), NEW new, SameShape(a.blocks, new), new[1].zb = 0
  PROVE  LET b == [a EXCEPT !.blocks = new]
         IN  IsOriginal(p, b) /\ b.name = a.name /\ b.blocks = new
<1>1. PICK b : b = [a EXCEPT !.blocks = new]
  OBVIOUS
<1>2. DOMAIN b = AssemblyFields /\ b.name = a.name /\ b.uniform = FALSE /\ b.blocks = new
  BY <1>1 DEF IsOriginal, AssemblyFields
<1>3. SameShape(Built(p), new)
  BY SameShapeTransitive DEF IsOriginal
<1> QED
  BY <1>1, <1>2, <1>3 DEF IsOriginal

LEMMA ExpandedOriginal ==
  ASSUME NEW p \in Places, case \in Cases, NEW a, IsOriginal(p, a), NEW change \in Changes[p],
         ~AxiallyExpanded(a.blocks, change).raised
  PROVE  LET b == [a EXCEPT !.blocks = AtRest(AxiallyExpanded(a.blocks, change).blocks)]
         IN  IsOriginal(p, b) /\ b.name = a.name /\ Fills(b.blocks, Top(a.blocks))
<1>1. PICK x : x = a.blocks
  OBVIOUS
<1>2. IsStack(x) /\ Len(x) \in Nat /\ Len(x) >= 2 /\ HaveTargets(x) /\ x[1].zb = 0
  BY <1>1, OriginalFacts DEF IsOriginal
<1>3. \A y \in DOMAIN change : change[y] \in Int
  BY LoadingAssumption
<1>4. PICK new : new = AtRest(AxiallyExpanded(x, change).blocks)
  OBVIOUS
<1>5. SameShape(x, new) /\ Fills(new, x[Len(x)].zt)
  BY <1>1, <1>2, <1>3, <1>4, ExpandedFacts
<1>6. new[1].zb = 0
  BY <1>2, <1>5 DEF Fills, SameShape, StacksTo, StartOf
<1>7. PICK b : b = [a EXCEPT !.blocks = new]
  OBVIOUS
<1>8. IsOriginal(p, b) /\ b.name = a.name /\ b.blocks = new
  BY <1>1, <1>5, <1>6, <1>7, OriginalChanged
<1> QED
  BY <1>1, <1>4, <1>5, <1>7, <1>8 DEF Top

LEMMA OnMeshOriginal ==
  ASSUME NEW p \in Places, case \in Cases, NEW a, IsOriginal(p, a),
         NEW tops, IsMesh(tops), Len(tops) = Len(Loading[Reference])
  PROVE  LET b == [a EXCEPT !.blocks = OnMesh(a.blocks, tops)]
         IN  IsOriginal(p, b) /\ b.name = a.name /\ b.blocks = OnMesh(a.blocks, tops)
<1>1. PICK x : x = a.blocks
  OBVIOUS
<1>2. /\ IsStack(x) /\ Len(x) \in Nat /\ Len(x) >= 2 /\ x[1].zb = 0
      /\ x[Len(x)].topIndex = 0 \/ Tracks(x, Len(tops))
  BY <1>1, OriginalFacts DEF IsOriginal
<1>3. PICK new : new = OnMesh(x, tops)
  OBVIOUS
<1>4. SameShape(x, new) /\ new[1].zb = 0
  <2>1. CASE x[Len(x)].topIndex = 0
    <3>1. new = x
      BY <1>3, <2>1 DEF OnMesh
    <3> QED
      BY <1>2, <3>1 DEF SameShape
  <2>2. CASE x[Len(x)].topIndex # 0
    <3>1. SameShape(x, new) /\ \A i \in 1..Len(x) : new[i].zb = StartOf(new, i)
      BY <1>2, <1>3, <2>2, OnMeshFacts
    <3> QED
      BY <1>2, <3>1 DEF StartOf
  <2> QED
    BY <2>1, <2>2
<1>5. PICK b : b = [a EXCEPT !.blocks = new]
  OBVIOUS
<1>6. IsOriginal(p, b) /\ b.name = a.name /\ b.blocks = new
  BY <1>1, <1>4, <1>5, OriginalChanged
<1> QED
  BY <1>1, <1>3, <1>5, <1>6

LEMMA RedoneOriginal ==
  ASSUME NEW p \in Places, case \in Cases, NEW a, IsOriginal(p, a),
         NEW b, DOMAIN b = AssemblyFields, b.uniform = FALSE, Redone(a.blocks, b.blocks)
  PROVE  IsOriginal(p, b) /\ SameBounds(a.blocks, b.blocks)
<1>1. PICK x : x = a.blocks
  OBVIOUS
<1>2. PICK y : y = b.blocks
  OBVIOUS
<1>3. IsStack(x) /\ Len(x) \in Nat /\ Len(x) >= 2 /\ x[1].zb = 0
  BY <1>1, OriginalFacts DEF IsOriginal
<1>4. SameShape(x, y) /\ SameBounds(x, y)
  BY <1>1, <1>2, <1>3, RedoneFacts
<1>5. y[1].zb = 0
  BY <1>3, <1>4 DEF SameBounds
<1>6. SameShape(Built(p), y)
  BY <1>1, <1>4, SameShapeTransitive DEF IsOriginal
<1> QED
  BY <1>1, <1>2, <1>4, <1>5, <1>6 DEF IsOriginal

LEMMA RedoneStandIn ==
  ASSUME NEW a, IsStandIn(a), NEW b, DOMAIN b = AssemblyFields, b.uniform = TRUE, Redone(a.blocks, b.blocks)
  PROVE  IsStandIn(b) /\ SameBounds(a.blocks, b.blocks)
<1>1. PICK x : x = a.blocks
  OBVIOUS
<1>2. PICK y : y = b.blocks
  OBVIOUS
<1>3. IsList(y) /\ Len(y) = Len(x) /\ Len(x) >= 1
  BY <1>1, <1>2 DEF Redone, IsStandIn
<1>4. ASSUME NEW k \in 1..Len(x)
      PROVE  /\ DOMAIN y[k] = UniformFields
             /\ y[k].zb = x[k].zb /\ y[k].zt = x[k].zt
  <2>1. DOMAIN x[k] = UniformFields
    BY <1>1 DEF IsStandIn
  <2>2. DOMAIN y[k] = DOMAIN x[k] /\ \A f \in DOMAIN x[k] \ {"power", "peak"} : y[k][f] = x[k][f]
    BY <1>1, <1>2 DEF Redone
  <2>3. {"zb", "zt"} \subseteq DOMAIN x[k] \ {"power", "peak"}
    BY <2>1 DEF UniformFields
  <2> QED
    BY <2>1, <2>2, <2>3
<1> QED
  BY <1>1, <1>2, <1>3, <1>4 DEF IsStandIn, SameBounds

-----------------------------------------------------------------------------
(* Which assemblies the core and its storage hold.                         *)
InCore(p) ==
  IF use = "inPlace" /\ p \in case.nonUniform THEN IsStandIn(core[p]) ELSE IsOriginal(p, core[p])

InStorage ==
  IF use = "inPlace"
  THEN /\ \A p \in case.nonUniform : \E s \in storage : s.name = <<p, Suffix>>
       /\ \A s \in storage : \E p \in case.nonUniform : s.name = <<p, Suffix>> /\ IsOriginal(p, s)
  ELSE storage = {}

Shaped ==
  /\ case \in Cases /\ core = [p \in Places |-> core[p]]
  /\ NamedByPlace(core, Places) /\ \A p \in Places : InCore(p)
  /\ InStorage

NamesHold == byName = NameTable(core) /\ blocksByName = BlockTable(core)

Filled ==
  /\ \A p \in Places : Fills(core[p].blocks, Top(Loading[p]))
  /\ \A s \in storage, p \in Places : s.name = <<p, Suffix>> => Fills(s.blocks, Top(Loading[p]))

(* The assemblies of a core are of one height                              *)
(* (reactors_reqs.rst: "consistent").                                      *)
EqualHeights == \A p, q \in Places : Top(Loading[p]) = Top(Loading[q])

LEMMA SameTables ==
  ASSUME NEW c, NEW d,
         \A p \in Places : /\ d[p].name = c[p].name /\ d[p].uniform = c[p].uniform
                           /\ DOMAIN d[p].blocks = DOMAIN c[p].blocks,
         NamedByPlace(c, Places)
  PROVE  NameTable(d) = NameTable(c) /\ BlockTable(d) = BlockTable(c) /\ NamedByPlace(d, Places)
<1>1. NamedByPlace(d, Places)
  BY DEF NamedByPlace
<1>2. {d[p].name : p \in Places} = {c[p].name : p \in Places}
  BY DEF NamedByPlace
<1>3. \A n \in {c[p].name : p \in Places} : d[n[1]].uniform = c[n[1]].uniform
  <2> SUFFICES ASSUME NEW p \in Places PROVE d[c[p].name[1]].uniform = c[c[p].name[1]].uniform
    OBVIOUS
  <2>1. <<p, "">>[1] = p /\ c[p].name = <<p, "">>
    BY DEF NamedByPlace
  <2>2. c[p].name[1] = p
    BY <2>1
  <2> QED
    BY <2>2
<1>4. \A p \in Places : BlockNames(d[p]) = BlockNames(c[p])
  BY DEF BlockNames
<1>5. UNION {BlockNames(d[p]) : p \in Places} = UNION {BlockNames(c[p]) : p \in Places}
  BY <1>4
<1>6. \A n \in UNION {BlockNames(c[p]) : p \in Places} : d[n[1]].uniform = c[n[1]].uniform
  <2>1. \A p \in Places : BlockNames(c[p]) = {<<p, i>> : i \in DOMAIN c[p].blocks}
    BY NamesOfPlaces
  <2> SUFFICES ASSUME NEW p \in Places, NEW n \in BlockNames(c[p]) PROVE d[n[1]].uniform = c[n[1]].uniform
    OBVIOUS
  <2>2. n[1] = p
    BY <2>1
  <2> QED
    BY <2>2
<1>7. NameTable(d) = NameTable(c)
  BY <1>2, <1>3 DEF NameTable
<1>8. BlockTable(d) = BlockTable(c)
  BY <1>5, <1>6 DEF BlockTable
<1> QED
  BY <1>1, <1>7, <1>8

LEMMA OriginalDomain ==
  ASSUME NEW p \in Places, case \in Cases, NEW a, IsOriginal(p, a)
  PROVE  DOMAIN a.blocks = 1..Len(Loading[p])
<1>1. IsStack(a.blocks) /\ Len(a.blocks) = Len(Loading[p])
  BY OriginalFacts
<1> QED
  BY <1>1, StackFacts

LEMMA InitHolds == Init => Shaped /\ NamesHold /\ Filled
<1> SUFFICES ASSUME Init PROVE Shaped /\ NamesHold /\ Filled
  OBVIOUS
<1>1. case \in Cases /\ core = [p \in Places |-> NewAssembly(p, Built(p))]
  BY DEF Init, Built
<1>2. use = "none" /\ storage = {}
  BY DEF Init
<1>3. ASSUME NEW p \in Places
      PROVE  /\ core[p].name = <<p, "">> /\ core[p].uniform = FALSE
             /\ IsOriginal(p, core[p]) /\ Fills(core[p].blocks, Top(Loading[p]))
  <2>1. PICK b : b = Built(p)
    OBVIOUS
  <2>2. PICK a : a = NewAssembly(p, b)
    OBVIOUS
  <2>3. core[p] = a
    BY <1>1, <2>1, <2>2
  <2>4. DOMAIN a = AssemblyFields /\ a.name = <<p, "">> /\ a.uniform = FALSE /\ a.blocks = b
    BY <2>2 DEF NewAssembly, AssemblyFields
  <2>5. IsStack(b) /\ b[1].zb = 0 /\ Fills(b, Top(Loading[p]))
    BY <1>1, <2>1, BuiltFacts
  <2>6. SameShape(b, b)
    BY <2>5 DEF SameShape
  <2> QED
    BY <2>1, <2>3, <2>4, <2>5, <2>6 DEF IsOriginal
<1>4. core = [p \in Places |-> core[p]]
  BY <1>1
<1>5. Shaped
  BY <1>1, <1>2, <1>3, <1>4 DEF Shaped, InCore, InStorage, NamedByPlace
<1>6. Filled
  BY <1>2, <1>3 DEF Filled
<1>7. NamesHold
  <2>1. byName = NameTable(core)
    <3>1. {core[p].name : p \in Places} = {<<p, "">> : p \in Places}
      BY <1>3
    <3>2. \A n \in {<<p, "">> : p \in Places} : core[n[1]].uniform = FALSE
      <4> SUFFICES ASSUME NEW p \in Places, NEW n, n = <<p, "">> PROVE core[n[1]].uniform = FALSE
        OBVIOUS
      <4>1. n[1] = p
        OBVIOUS
      <4> QED
        BY <1>3, <4>1
    <3>3. byName = [n \in {<<p, "">> : p \in Places} |-> <<n[1], FALSE>>]
      BY DEF Init
    <3> QED
      BY <3>1, <3>2, <3>3 DEF NameTable
  <2>2. blocksByName = BlockTable(core)
    <3>1. \A p \in Places : BlockNames(core[p]) = {<<p, i>> : i \in DOMAIN core[p].blocks}
      BY <1>5, NamesOfPlaces DEF Shaped
    <3>2. \A n \in UNION {BlockNames(core[p]) : p \in Places} : core[n[1]].uniform = FALSE
      <4> SUFFICES ASSUME NEW p \in Places, NEW n \in BlockNames(core[p]) PROVE core[n[1]].uniform = FALSE
        OBVIOUS
      <4>1. n[1] = p
        BY <3>1
      <4> QED
        BY <1>3, <4>1
    <3>3. blocksByName = [n \in UNION {BlockNames(core[p]) : p \in Places} |-> <<n[1], FALSE>>]
      BY DEF Init
    <3> QED
      BY <3>2, <3>3 DEF BlockTable
  <2> QED
    BY <2>1, <2>2 DEF NamesHold
<1> QED
  BY <1>5, <1>6, <1>7

-----------------------------------------------------------------------------
(* A step that replaces no assembly.                                       *)
LEMMA RolesKept ==
  ASSUME Shaped, NamesHold, UNCHANGED <<case, names, storage>>,
         use' = "inPlace" <=> use = "inPlace",
         core' = [p \in Places |-> core'[p]],
         \A p \in Places :
           /\ core'[p].name = core[p].name
           /\ IF use = "inPlace" /\ p \in case.nonUniform
              THEN IsStandIn(core'[p]) /\ DOMAIN core'[p].blocks = DOMAIN core[p].blocks
              ELSE IsOriginal(p, core'[p])
  PROVE  Shaped' /\ NamesHold'
<1>1. case' = case /\ byName' = byName /\ blocksByName' = blocksByName /\ storage' = storage
  BY DEF names
<1>2. case \in Cases /\ NamedByPlace(core, Places)
  BY DEF Shaped
<1>3. ASSUME NEW p \in Places
      PROVE  /\ core'[p].name = core[p].name /\ core'[p].uniform = core[p].uniform
             /\ DOMAIN core'[p].blocks = DOMAIN core[p].blocks
  <2>1. CASE use = "inPlace" /\ p \in case.nonUniform
    <3>1. PICK a : a = core[p]
      OBVIOUS
    <3>2. PICK b : b = core'[p]
      OBVIOUS
    <3>3. IsStandIn(a) /\ IsStandIn(b) /\ DOMAIN b.blocks = DOMAIN a.blocks /\ b.name = a.name
      BY <2>1, <3>1, <3>2 DEF Shaped, InCore
    <3> QED
      BY <3>1, <3>2, <3>3 DEF IsStandIn
  <2>2. CASE ~(use = "inPlace" /\ p \in case.nonUniform)
    <3>1. PICK a : a = core[p]
      OBVIOUS
    <3>2. PICK b : b = core'[p]
      OBVIOUS
    <3>3. IsOriginal(p, a) /\ IsOriginal(p, b)
      BY <2>2, <3>1, <3>2 DEF Shaped, InCore
    <3>4. DOMAIN a.blocks = DOMAIN b.blocks
      BY <1>2, <3>3, OriginalDomain
    <3>5. a.uniform = b.uniform
      BY <3>3 DEF IsOriginal
    <3> QED
      BY <3>1, <3>2, <3>4, <3>5
  <2> QED
    BY <2>1, <2>2
<1>4. NameTable(core') = NameTable(core) /\ BlockTable(core') = BlockTable(core) /\ NamedByPlace(core', Places)
  BY <1>2, <1>3, SameTables
<1>5. NamesHold'
  BY <1>1, <1>4 DEF NamesHold, NameTable, BlockTable
<1>6. \A p \in Places : InCore(p)'
  BY <1>1 DEF InCore, IsOriginal, Built
<1>7. InStorage'
  BY <1>1 DEF Shaped, InStorage, IsOriginal, Built
<1>8. NamedByPlace(core, Places)'
  BY <1>4 DEF NamedByPlace
<1> QED
  BY <1>1, <1>2, <1>5, <1>6, <1>7, <1>8 DEF Shaped

LEMMA StillFilled ==
  ASSUME Filled, UNCHANGED storage, \A p \in Places : Fills(core'[p].blocks, Top(Loading[p]))
  PROVE  Filled'
BY DEF Filled

LEMMA CoreUnchanged ==
  ASSUME Shaped, NamesHold, UNCHANGED <<case, core, names, storage>>,
         use' = "inPlace" <=> use = "inPlace"
  PROVE  Shaped' /\ NamesHold' /\ (Filled => Filled')
<1>1. \A p \in Places : InCore(p) => core'[p] = core[p]
  OBVIOUS
<1>2. core' = [p \in Places |-> core'[p]]
  BY DEF Shaped
<1>3. \A p \in Places :
        /\ core'[p].name = core[p].name
        /\ IF use = "inPlace" /\ p \in case.nonUniform
           THEN IsStandIn(core'[p]) /\ DOMAIN core'[p].blocks = DOMAIN core[p].blocks
           ELSE IsOriginal(p, core'[p])
  BY DEF Shaped, InCore
<1>4. Filled => Filled'
  BY DEF Filled
<1> QED
  BY <1>2, <1>3, <1>4, RolesKept

LEMMA ExpandKeeps ==
  ASSUME Shaped, NamesHold, NEW p \in Places, NEW change \in Changes[p], Expand(p, change)
  PROVE  Shaped' /\ NamesHold' /\ (Filled => Filled')
<1>1. PICK a : a = core[p]
  OBVIOUS
<1>2. /\ use = "none" /\ use' = use /\ UNCHANGED <<case, names, storage>>
      /\ ~AxiallyExpanded(a.blocks, change).raised
      /\ core' = [core EXCEPT ![p] = [a EXCEPT !.blocks = AtRest(AxiallyExpanded(a.blocks, change).blocks)]]
  BY <1>1 DEF Expand, MayExpand
<1>3. case \in Cases /\ IsOriginal(p, a) /\ core = [q \in Places |-> core[q]]
  BY <1>1, <1>2 DEF Shaped, InCore
<1>4. PICK b : b = [a EXCEPT !.blocks = AtRest(AxiallyExpanded(a.blocks, change).blocks)]
  OBVIOUS
<1>5. IsOriginal(p, b) /\ b.name = a.name /\ Fills(b.blocks, Top(a.blocks))
  BY <1>2, <1>3, <1>4, ExpandedOriginal
<1>6. core' = [core EXCEPT ![p] = b]
  BY <1>2, <1>4
<1>7. core'[p] = b /\ core' = [q \in Places |-> core'[q]] /\ \A q \in Places : q # p => core'[q] = core[q]
  BY <1>3, <1>6
<1>8. \A q \in Places :
        /\ core'[q].name = core[q].name
        /\ IF use = "inPlace" /\ q \in case.nonUniform
           THEN IsStandIn(core'[q]) /\ DOMAIN core'[q].blocks = DOMAIN core[q].blocks
           ELSE IsOriginal(q, core'[q])
  BY <1>1, <1>2, <1>5, <1>7 DEF Shaped, InCore
<1>9. Shaped' /\ NamesHold'
  BY <1>2, <1>7, <1>8, RolesKept
<1>10. ASSUME Filled PROVE Filled'
  <2>1. Top(a.blocks) = Top(Loading[p])
    BY <1>1, <1>10 DEF Filled, Fills, Top
  <2>2. \A q \in Places : Fills(core'[q].blocks, Top(Loading[q]))
    BY <1>5, <1>7, <1>10, <2>1 DEF Filled
  <2> QED
    BY <1>2, <1>10, <2>2, StillFilled
<1> QED
  BY <1>9, <1>10

LEMMA ApplyCopyKeeps ==
  ASSUME Shaped, NamesHold, ApplyCopy
  PROVE  Shaped' /\ NamesHold' /\ (Filled => Filled')
<1>1. CASE UNCHANGED core
  BY <1>1, CoreUnchanged DEF ApplyCopy, names
<1>2. CASE core' = [p \in Places |-> [core[p] EXCEPT !.blocks = Mapped(copy[p].blocks, core[p].blocks)]]
           /\ use' = "none"
  <2>1. use = "copy" /\ UNCHANGED <<case, names, storage>> /\ case \in Cases
    BY DEF ApplyCopy, Shaped
  <2>2. ASSUME NEW p \in Places
        PROVE  /\ core'[p].name = core[p].name /\ IsOriginal(p, core'[p])
               /\ SameBounds(core[p].blocks, core'[p].blocks)
    <3>1. PICK a : a = core[p]
      OBVIOUS
    <3>2. IsOriginal(p, a)
      BY <2>1, <3>1 DEF Shaped, InCore
    <3>3. PICK new : new = Mapped(copy[p].blocks, a.blocks)
      OBVIOUS
    <3>4. IsList(a.blocks)
      BY <2>1, <3>2, OriginalFacts DEF IsStack
    <3>5. Redone(a.blocks, new)
      BY <3>3, <3>4, MappedFacts
    <3>6. PICK b : b = [a EXCEPT !.blocks = new]
      OBVIOUS
    <3>7. DOMAIN b = AssemblyFields /\ b.uniform = FALSE /\ b.blocks = new /\ b.name = a.name
      BY <3>2, <3>6 DEF IsOriginal, AssemblyFields
    <3>8. IsOriginal(p, b) /\ SameBounds(a.blocks, b.blocks)
      BY <2>1, <3>2, <3>5, <3>7, RedoneOriginal
    <3>9. core'[p] = b
      BY <1>2, <3>1, <3>3, <3>6
    <3> QED
      BY <3>1, <3>7, <3>8, <3>9
  <2>3. core' = [p \in Places |-> core'[p]]
    BY <1>2
  <2>4. Shaped' /\ NamesHold'
    BY <1>2, <2>1, <2>2, <2>3, RolesKept
  <2>5. ASSUME Filled PROVE Filled'
    <3>1. ASSUME NEW p \in Places PROVE Fills(core'[p].blocks, Top(Loading[p]))
      <4>1. PICK x : x = core[p].blocks
        OBVIOUS
      <4>2. PICK y : y = core'[p].blocks
        OBVIOUS
      <4>3. Len(x) \in Nat /\ Len(x) >= 1 /\ SameBounds(x, y) /\ Fills(x, Top(Loading[p]))
        BY <2>1, <2>2, <2>5, <4>1, <4>2, OriginalFacts DEF Shaped, InCore, Filled
      <4> QED
        BY <4>2, <4>3, FillsOn
    <3> QED
      BY <2>1, <2>5, <3>1, StillFilled
  <2> QED
    BY <2>4, <2>5
<1> QED
  BY <1>1, <1>2 DEF ApplyCopy

LEMMA SolveKeeps ==
  ASSUME Shaped, NamesHold, NEW r, Solve(r)
  PROVE  Shaped' /\ NamesHold' /\ (Filled => Filled')
<1>1. CASE use # "inPlace"
  BY <1>1, CoreUnchanged DEF Solve, names
<1>2. CASE use = "inPlace"
  <2>1. /\ use' = use /\ UNCHANGED <<case, names, storage>> /\ case \in Cases
        /\ core' = [p \in Places |-> SolvedWith(core[p], r)]
    BY <1>2 DEF Solve, Shaped
  <2>2. ASSUME NEW p \in Places
        PROVE  /\ core'[p].name = core[p].name
               /\ Len(core[p].blocks) \in Nat /\ Len(core[p].blocks) >= 1
               /\ SameBounds(core[p].blocks, core'[p].blocks)
               /\ IF p \in case.nonUniform
                  THEN IsStandIn(core'[p]) /\ DOMAIN core'[p].blocks = DOMAIN core[p].blocks
                  ELSE IsOriginal(p, core'[p])
    <3>1. PICK a : a = core[p]
      OBVIOUS
    <3>2. PICK b : b = SolvedWith(a, r)
      OBVIOUS
    <3>3. core'[p] = b
      BY <2>1, <3>1, <3>2
    <3>4. CASE p \in case.nonUniform
      <4>1. IsStandIn(a)
        BY <1>2, <3>1, <3>4 DEF Shaped, InCore
      <4>2. DOMAIN a = AssemblyFields /\ IsList(a.blocks) /\ a.uniform = TRUE /\ Len(a.blocks) >= 1
        BY <4>1 DEF IsStandIn
      <4>3. DOMAIN b = AssemblyFields /\ b.name = a.name /\ b.uniform = TRUE /\ Redone(a.blocks, b.blocks)
        BY <3>2, <4>2, SolvedFacts
      <4>4. IsStandIn(b) /\ SameBounds(a.blocks, b.blocks)
        BY <4>1, <4>3, RedoneStandIn
      <4>5. DOMAIN b.blocks = DOMAIN a.blocks /\ Len(a.blocks) \in Nat
        BY <4>2, <4>3 DEF Redone, IsList
      <4> QED
        BY <3>1, <3>3, <3>4, <4>2, <4>3, <4>4, <4>5
    <3>5. CASE p \notin case.nonUniform
      <4>1. IsOriginal(p, a)
        BY <3>1, <3>5 DEF Shaped, InCore
      <4>2. /\ DOMAIN a = AssemblyFields /\ IsList(a.blocks) /\ a.uniform = FALSE
            /\ Len(a.blocks) \in Nat /\ Len(a.blocks) >= 2
        BY <2>1, <4>1, OriginalFacts DEF IsOriginal, IsStack
      <4>3. DOMAIN b = AssemblyFields /\ b.name = a.name /\ b.uniform = FALSE /\ Redone(a.blocks, b.blocks)
        BY <3>2, <4>2, SolvedFacts
      <4>4. IsOriginal(p, b) /\ SameBounds(a.blocks, b.blocks)
        BY <2>1, <4>1, <4>3, RedoneOriginal
      <4> QED
        BY <3>1, <3>3, <3>5, <4>2, <4>3, <4>4
    <3> QED
      BY <3>4, <3>5
  <2>3. core' = [p \in Places |-> core'[p]]
    BY <2>1
  <2>4. Shaped' /\ NamesHold'
    <3>1. /\ use' = "inPlace" <=> use = "inPlace"
          /\ UNCHANGED <<case, names, storage>>
      BY <2>1
    <3>2. \A p \in Places :
            /\ core'[p].name = core[p].name
            /\ IF use = "inPlace" /\ p \in case.nonUniform
               THEN IsStandIn(core'[p]) /\ DOMAIN core'[p].blocks = DOMAIN core[p].blocks
               ELSE IsOriginal(p, core'[p])
      BY <1>2, <2>2
    <3> QED
      BY <2>3, <3>1, <3>2, RolesKept
  <2>5. ASSUME Filled PROVE Filled'
    <3>1. ASSUME NEW p \in Places PROVE Fills(core'[p].blocks, Top(Loading[p]))
      <4>1. PICK x : x = core[p].blocks
        OBVIOUS
      <4>2. PICK y : y = core'[p].blocks
        OBVIOUS
      <4>3. Len(x) \in Nat /\ Len(x) >= 1 /\ SameBounds(x, y) /\ Fills(x, Top(Loading[p]))
        BY <2>2, <2>5, <4>1, <4>2 DEF Filled
      <4> QED
        BY <4>2, <4>3, FillsOn
    <3> QED
      BY <2>1, <2>5, <3>1, StillFilled
  <2> QED
    BY <2>4, <2>5
<1> QED
  BY <1>1, <1>2

(* The tops of the reference assembly.                                     *)
LEMMA ReferenceTops ==
  ASSUME Shaped, use = "none"
  PROVE  LET tops == TopsOf(core[Reference].blocks)  r == core[Reference].blocks
         IN  /\ IsMesh(tops) /\ Len(tops) = Len(Loading[Reference]) /\ Len(tops) >= 2
             /\ Filled => /\ tops[1] >= 0 /\ tops[Len(tops)] = Top(Loading[Reference])
                          /\ \A i, j \in 1..Len(tops) : i <= j => tops[i] <= tops[j]
<1>1. PICK r : r = core[Reference].blocks
  OBVIOUS
<1>2. IsOriginal(Reference, core[Reference]) /\ Reference \in Places /\ case \in Cases
  BY LoadingAssumption DEF Shaped, InCore
<1>3. IsStack(r) /\ Len(r) = Len(Loading[Reference]) /\ Len(r) >= 2 /\ Len(r) \in Nat /\ r[1].zb = 0
  BY <1>1, <1>2, OriginalFacts DEF IsOriginal
<1>4. PICK tops : tops = TopsOf(r)
  OBVIOUS
<1>5. IsMesh(tops) /\ Len(tops) = Len(r) /\ \A i \in 1..Len(r) : tops[i] = r[i].zt
  BY <1>3, <1>4, TopsFacts
<1>6. ASSUME Filled
      PROVE  /\ tops[1] >= 0 /\ tops[Len(tops)] = Top(Loading[Reference])
             /\ \A i, j \in 1..Len(tops) : i <= j => tops[i] <= tops[j]
  <2>1. Fills(r, Top(Loading[Reference]))
    BY <1>1, <1>2, <1>6 DEF Filled
  <2>2. StacksTo(r, Len(r)) /\ 1 \in 1..Len(r) /\ Len(r) \in 1..Len(r)
    BY <1>3, <2>1 DEF Fills
  <2>3. tops[1] >= 0
    BY <1>3, <1>5, <2>2, StackFacts DEF StacksTo
  <2>4. \A i, j \in 1..Len(r) : i <= j => r[i].zt <= r[j].zt
    BY <1>3, <2>2, TopsRise
  <2>5. tops[Len(tops)] = Top(Loading[Reference])
    BY <1>5, <2>1, <2>2 DEF Fills
  <2> QED
    BY <1>5, <2>3, <2>4, <2>5
<1> QED
  BY <1>1, <1>3, <1>4, <1>5, <1>6

(* The points that blocks track rise with them, to the last of the mesh.   *)
LEMMA PointsRise ==
  ASSUME NEW p \in Places, ~case.detailed, p \notin case.nonUniform, case \in Cases
  PROVE  LET b == Built(p)
         IN  /\ \A i, j \in 1..Len(b) : i <= j => b[i].topIndex + 1 <= b[j].topIndex + 1
             /\ EqualHeights => b[Len(b)].topIndex + 1 = Len(Loading[Reference])
<1>1. PICK a : a = Loading[p]
  OBVIOUS
<1>2. PICK b : b = Built(p)
  OBVIOUS
<1>3. PICK r : r = Loading[Reference]
  OBVIOUS
<1>4. /\ Len(b) = Len(a)
      /\ \A i \in 1..Len(a) : b[i].topIndex + 1 \in 1..Len(r) /\ r[b[i].topIndex + 1].zt = a[i].zt
  BY <1>1, <1>2, <1>3, SnappingFacts DEF SameBounds
<1>5. /\ \A i, j \in 1..Len(r) : i < j => r[i].zt < r[j].zt
      /\ \A i \in 1..Len(r) : r[i].zt \in Int
      /\ Len(r) \in Nat /\ Len(r) >= 2 /\ Reference \in Places
  BY <1>3, LoadingRises, LoadingFacts, LoadingAssumption, StackFacts
<1>6. /\ \A i, j \in 1..Len(a) : i < j => a[i].zt < a[j].zt
      /\ \A i \in 1..Len(a) : a[i].zt \in Int
      /\ Len(a) \in Nat /\ Len(a) >= 2
  BY <1>1, LoadingRises, LoadingFacts, StackFacts
<1>7. ASSUME NEW i \in 1..Len(b), NEW j \in 1..Len(b), i <= j
      PROVE  b[i].topIndex + 1 <= b[j].topIndex + 1
  <2>1. PICK k \in 1..Len(r) : k = b[i].topIndex + 1 /\ r[k].zt = a[i].zt
    BY <1>4
  <2>2. PICK n \in 1..Len(r) : n = b[j].topIndex + 1 /\ r[n].zt = a[j].zt
    BY <1>4
  <2>3. a[i].zt <= a[j].zt
    BY <1>4, <1>6, <1>7
  <2>4. ~(n < k)
    BY <1>4, <1>5, <1>6, <2>1, <2>2, <2>3, SMTT(40)
  <2> QED
    BY <1>5, <2>1, <2>2, <2>4
<1>8. ASSUME EqualHeights PROVE b[Len(b)].topIndex + 1 = Len(r)
  <2>1. Len(a) \in 1..Len(a) /\ Len(r) \in 1..Len(r)
    BY <1>5, <1>6
  <2>2. PICK k \in 1..Len(r) : k = b[Len(b)].topIndex + 1 /\ r[k].zt = a[Len(a)].zt
    BY <1>4, <2>1
  <2>3. a[Len(a)].zt = r[Len(r)].zt
    BY <1>1, <1>3, <1>5, <1>8 DEF EqualHeights, Top
  <2>4. ~(k < Len(r))
    BY <1>5, <2>1, <2>2, <2>3
  <2> QED
    BY <1>5, <2>2, <2>4
<1> QED
  BY <1>2, <1>3, <1>7, <1>8

(* An original on the points it tracks fills its height. *)
LEMMA FillsOnMesh ==
  ASSUME NEW p \in Places, case \in Cases, ~case.detailed, EqualHeights,
         NEW a, IsOriginal(p, a), Fills(a.blocks, Top(Loading[p])),
         NEW tops, IsMesh(tops), Len(tops) = Len(Loading[Reference]),
         tops[1] >= 0, tops[Len(tops)] = Top(Loading[Reference]),
         \A i, j \in 1..Len(tops) : i <= j => tops[i] <= tops[j]
  PROVE  Fills(OnMesh(a.blocks, tops), Top(Loading[p]))
<1>1. PICK x : x = a.blocks
  OBVIOUS
<1>2. PICK b : b = Built(p)
  OBVIOUS
<1>3. PICK new : new = OnMesh(x, tops)
  OBVIOUS
<1>4. /\ IsStack(x) /\ Len(x) \in Nat /\ Len(x) >= 2
      /\ x[Len(x)].topIndex = 0 \/ Tracks(x, Len(tops))
      /\ Len(x) = Len(b) /\ \A i \in 1..Len(b) : x[i].topIndex = b[i].topIndex
  BY <1>1, <1>2, OriginalFacts DEF IsOriginal, SameShape
<1>5. CASE x[Len(x)].topIndex = 0
  BY <1>1, <1>3, <1>5 DEF OnMesh
<1>6. CASE x[Len(x)].topIndex # 0
  <2>1. p \notin case.nonUniform
    <3> SUFFICES ASSUME p \in case.nonUniform PROVE FALSE
      OBVIOUS
    <3>1. b = Loading[p]
      BY <1>2 DEF Built
    <3>2. \A i \in 1..Len(b) : b[i].topIndex = 0
      BY <3>1, LoadingFacts
    <3>3. Len(x) \in 1..Len(b)
      BY <1>4
    <3> QED
      BY <1>4, <1>6, <3>2, <3>3
  <2>2. /\ \A i, j \in 1..Len(x) : i <= j => x[i].topIndex + 1 <= x[j].topIndex + 1
        /\ x[Len(x)].topIndex + 1 = Len(tops)
    <3>1. /\ \A i, j \in 1..Len(b) : i <= j => b[i].topIndex + 1 <= b[j].topIndex + 1
          /\ b[Len(b)].topIndex + 1 = Len(tops)
      BY <1>2, <2>1, PointsRise
    <3>2. Len(x) \in 1..Len(b)
      BY <1>4
    <3> QED
      BY <1>4, <3>1, <3>2
  <2>3. /\ SameShape(x, new)
        /\ \A i \in 1..Len(x) : /\ new[i].zt = tops[x[i].topIndex + 1]
                                /\ new[i].zb = StartOf(new, i)
    BY <1>3, <1>4, <1>6, OnMeshFacts
  <2>4. Len(new) = Len(x)
    BY <2>3 DEF SameShape
  <2>5. ASSUME NEW i \in 1..Len(new) PROVE new[i].zb <= new[i].zt
    <3>1. PICK k \in 1..Len(tops) : k = x[i].topIndex + 1
      BY <1>4, <1>6, <2>4 DEF Tracks
    <3>2. new[i].zt = tops[k] /\ new[i].zb = StartOf(new, i)
      BY <2>3, <2>4, <3>1
    <3>3. CASE i = 1
      <4>1. 1 \in 1..Len(tops) /\ 1 <= k /\ tops[1] \in Int /\ tops[k] \in Int
        BY <3>1 DEF IsMesh, IsList
      <4>2. tops[1] <= tops[k]
        BY <4>1
      <4> QED
        BY <3>2, <3>3, <4>1, <4>2 DEF StartOf
    <3>4. CASE i # 1
      <4>1. i - 1 \in 1..Len(x) /\ i \in 1..Len(x) /\ i - 1 <= i
        BY <1>4, <2>4, <3>4
      <4>2. PICK n \in 1..Len(tops) : n = x[i - 1].topIndex + 1
        BY <1>4, <1>6, <4>1 DEF Tracks
      <4>3. n <= k
        BY <2>2, <3>1, <4>1, <4>2
      <4>4. new[i].zb = tops[n]
        BY <2>3, <3>2, <3>4, <4>1, <4>2 DEF StartOf
      <4> QED
        BY <3>2, <4>3, <4>4
    <3> QED
      BY <3>3, <3>4
  <2>6. new[Len(new)].zt = Top(Loading[p])
    <3>1. Len(x) \in 1..Len(x)
      BY <1>4
    <3>2. Top(Loading[p]) = Top(Loading[Reference])
      BY LoadingAssumption DEF EqualHeights
    <3> QED
      BY <2>2, <2>3, <2>4, <3>1, <3>2
  <2> QED
    BY <1>1, <1>3, <2>3, <2>4, <2>5, <2>6 DEF Fills, StacksTo
<1> QED
  BY <1>5, <1>6

LEMMA ManageKeeps ==
  ASSUME Shaped, NamesHold, ManageCoreMesh
  PROVE  Shaped' /\ NamesHold' /\ (Filled /\ EqualHeights => Filled')
<1>1. PICK tops : tops = TopsOf(core[Reference].blocks)
  OBVIOUS
<1>2. /\ use = "none" /\ use' = use /\ UNCHANGED <<case, names, storage>> /\ case \in Cases
      /\ ~case.detailed
      /\ core' = [p \in Places |-> [core[p] EXCEPT !.blocks = OnMesh(core[p].blocks, tops)]]
  BY <1>1 DEF ManageCoreMesh, Shaped
<1>3. /\ IsMesh(tops) /\ Len(tops) = Len(Loading[Reference])
      /\ Filled => /\ tops[1] >= 0 /\ tops[Len(tops)] = Top(Loading[Reference])
                   /\ \A i, j \in 1..Len(tops) : i <= j => tops[i] <= tops[j]
  BY <1>1, <1>2, ReferenceTops
<1>4. ASSUME NEW p \in Places
      PROVE  /\ core'[p].name = core[p].name /\ IsOriginal(p, core'[p])
             /\ core'[p].blocks = OnMesh(core[p].blocks, tops)
  <2>1. PICK a : a = core[p]
    OBVIOUS
  <2>2. PICK b : b = [a EXCEPT !.blocks = OnMesh(a.blocks, tops)]
    OBVIOUS
  <2>3. core'[p] = b
    BY <1>2, <2>1, <2>2
  <2>4. IsOriginal(p, a)
    BY <1>2, <2>1 DEF Shaped, InCore
  <2>5. IsOriginal(p, b) /\ b.name = a.name /\ b.blocks = OnMesh(a.blocks, tops)
    BY <1>2, <1>3, <2>2, <2>4, OnMeshOriginal
  <2> QED
    BY <2>1, <2>3, <2>5
<1>5. Shaped' /\ NamesHold'
  <2>1. core' = [p \in Places |-> core'[p]]
    BY <1>2
  <2>2. \A p \in Places :
          /\ core'[p].name = core[p].name
          /\ IF use = "inPlace" /\ p \in case.nonUniform
             THEN IsStandIn(core'[p]) /\ DOMAIN core'[p].blocks = DOMAIN core[p].blocks
             ELSE IsOriginal(p, core'[p])
    BY <1>2, <1>4
  <2> QED
    BY <1>2, <2>1, <2>2, RolesKept
<1>6. ASSUME Filled, EqualHeights PROVE Filled'
  <2>1. ASSUME NEW p \in Places PROVE Fills(core'[p].blocks, Top(Loading[p]))
    <3>1. PICK a : a = core[p]
      OBVIOUS
    <3>2. IsOriginal(p, a) /\ Fills(a.blocks, Top(Loading[p]))
      BY <1>2, <1>6, <3>1 DEF Shaped, InCore, Filled
    <3>3. Fills(OnMesh(a.blocks, tops), Top(Loading[p]))
      BY <1>2, <1>3, <1>6, <3>2, FillsOnMesh
    <3> QED
      BY <1>4, <3>1, <3>3
  <2> QED
    BY <1>2, <1>6, <2>1, StillFilled
<1> QED
  BY <1>5, <1>6

(* The tables of a core with some assemblies replaced.                     *)
LEMMA CoreReplaced ==
  ASSUME Shaped, NEW S \in SUBSET Places, NEW x, DOMAIN x = S, NamedByPlace(x, S),
         NEW u, \A p \in S : x[p].uniform = u, NEW d, d = Over(x, core)
  PROVE  /\ d = [p \in Places |-> d[p]] /\ NamedByPlace(d, Places)
         /\ \A p \in Places : d[p] = IF p \in S THEN x[p] ELSE core[p]
         /\ Over(NamesOf(x, u), NameTable(core)) = NameTable(d)
         /\ Over(BlocksOf(x, u), Without(BlockTable(core), BlocksOut(core, x))) = BlockTable(d)
<1>1. DOMAIN core = Places /\ NamedByPlace(core, Places)
  BY DEF Shaped
<1>2. d = [p \in Places |-> IF p \in S THEN x[p] ELSE core[p]]
  BY <1>1 DEF Over
<1>3. d = [p \in Places |-> d[p]] /\ \A p \in Places : d[p] = IF p \in S THEN x[p] ELSE core[p]
  BY <1>2
<1>4. NamedByPlace(d, Places)
  BY <1>1, <1>3 DEF NamedByPlace
<1>5. PICK c : c = core
  OBVIOUS
<1>6. NamedByPlace(c, Places) /\ \A p \in Places : d[p] = IF p \in S THEN x[p] ELSE c[p]
  BY <1>1, <1>3, <1>5
<1>7. Over(NamesOf(x, u), NameTable(c)) = NameTable(d)
  BY <1>6, NamesReplaced
<1>8. Over(BlocksOf(x, u), Without(BlockTable(c), BlocksOut(c, x))) = BlockTable(d)
  BY <1>6, BlockNamesReplaced
<1> QED
  BY <1>3, <1>4, <1>5, <1>7, <1>8

LEMMA SecondReplaced ==
  ASSUME NEW x, NEW y, NEW z PROVE [<<x, y>> EXCEPT ![2] = z] = <<x, z>>
OBVIOUS

LEMMA SuffixAdded ==
  ASSUME NEW p PROVE [<<p, "">> EXCEPT ![2] = Suffix] = <<p, Suffix>>
BY SecondReplaced

(* An assembly put aside under another name.                               *)
LEMMA PutAside ==
  ASSUME NEW p \in Places, NEW a, IsOriginal(p, a), a.name = <<p, "">>,
         NEW s, s = [a EXCEPT !.name[2] = Suffix]
  PROVE  s.name = <<p, Suffix>> /\ IsOriginal(p, s) /\ s.blocks = a.blocks
<1>1. DOMAIN a = AssemblyFields
  BY DEF IsOriginal
<1>2. s = [a EXCEPT !.name = [a.name EXCEPT ![2] = Suffix]]
  BY <1>1 DEF AssemblyFields
<1>3. [a.name EXCEPT ![2] = Suffix] = <<p, Suffix>>
  BY SuffixAdded
<1>4. s = [a EXCEPT !.name = <<p, Suffix>>]
  BY <1>2, <1>3
<1>5. DOMAIN s = AssemblyFields /\ s.name = <<p, Suffix>> /\ s.uniform = a.uniform /\ s.blocks = a.blocks
  BY <1>1, <1>4 DEF AssemblyFields
<1> QED
  BY <1>5 DEF IsOriginal

LEMMA ConvertInPlaceKeeps ==
  ASSUME Shaped, NamesHold, ConvertInPlace
  PROVE  Shaped' /\ NamesHold' /\ (Filled /\ EqualHeights => Filled')
<1> DEFINE S == case.nonUniform
<1>1. PICK tops : tops = TopsOf(core[Reference].blocks)
  OBVIOUS
<1>2. PICK new : new = [p \in S |-> Uniform(core[p], tops)]
  OBVIOUS
<1>3. /\ use = "none" /\ use' = "inPlace" /\ case' = case /\ core' = Over(new, core)
      /\ byName' = Over(NamesOf(new, TRUE), byName)
      /\ blocksByName' = Over(BlocksOf(new, TRUE), Without(blocksByName, BlocksOut(core, new)))
      /\ storage' = {[core[p] EXCEPT !.name[2] = Suffix] : p \in S}
  BY <1>1, <1>2 DEF ConvertInPlace, NamesOf, BlocksOf, BlocksOut
<1>4. case \in Cases /\ S \subseteq Places /\ NamedByPlace(core, Places)
  BY LoadingAssumption DEF Shaped
<1>5. \A p \in Places : IsOriginal(p, core[p])
  BY <1>3 DEF Shaped, InCore
<1>6. /\ IsMesh(tops) /\ Len(tops) = Len(Loading[Reference]) /\ Len(tops) >= 2
      /\ Filled => /\ tops[1] >= 0 /\ tops[Len(tops)] = Top(Loading[Reference])
                   /\ \A i, j \in 1..Len(tops) : i <= j => tops[i] <= tops[j]
  BY <1>1, <1>3, ReferenceTops
<1>7. ASSUME NEW p \in S
      PROVE  /\ new[p].name = <<p, "">> /\ new[p].uniform = TRUE /\ IsStandIn(new[p])
             /\ Len(new[p].blocks) = Len(tops)
             /\ \A k \in 1..Len(tops) : /\ new[p].blocks[k].zt = tops[k]
                                        /\ new[p].blocks[k].zb = StartOf(new[p].blocks, k)
  <2>1. PICK a : a = core[p]
    OBVIOUS
  <2>2. PICK b : b = Uniform(a, tops)
    OBVIOUS
  <2>3. new[p] = b
    BY <1>2, <2>1, <2>2
  <2>4. DOMAIN a = AssemblyFields /\ a.name = <<p, "">>
    BY <1>4, <1>5, <2>1 DEF IsOriginal, NamedByPlace
  <2>5. IsList(tops)
    BY <1>6 DEF IsMesh
  <2>6. /\ DOMAIN b = AssemblyFields /\ b.name = a.name /\ b.uniform = TRUE
        /\ OnTops(b.blocks, tops)
    BY <2>2, <2>4, <2>5, UniformFacts
  <2>7. Len(b.blocks) >= 1 /\ Len(tops) \in Nat
    BY <1>6, <2>5, <2>6 DEF IsList, OnTops
  <2>8. ASSUME NEW k \in 1..Len(tops) PROVE b.blocks[k].zb \in Int /\ b.blocks[k].zt \in Int
    <3>1. PICK x : x = b.blocks
      OBVIOUS
    <3>2. \A i \in 1..Len(tops) : x[i].zt = tops[i] /\ tops[i] \in Int /\ x[i].zb = StartOf(x, i)
      BY <1>6, <2>6, <3>1 DEF OnTops, IsMesh
    <3>3. k # 1 => k - 1 \in 1..Len(tops)
      BY <2>7
    <3>4. x[k].zb \in Int /\ x[k].zt \in Int
      BY <3>2, <3>3 DEF StartOf
    <3> QED
      BY <3>1, <3>4
  <2> QED
    BY <2>3, <2>4, <2>6, <2>7, <2>8 DEF IsStandIn, OnTops
<1>8. DOMAIN new = S /\ NamedByPlace(new, S) /\ \A p \in S : new[p].uniform = TRUE
  BY <1>2, <1>7 DEF NamedByPlace
<1>9. /\ core' = [p \in Places |-> core'[p]] /\ NamedByPlace(core', Places)
      /\ \A p \in Places : core'[p] = IF p \in S THEN new[p] ELSE core[p]
      /\ Over(NamesOf(new, TRUE), NameTable(core)) = NameTable(core')
      /\ Over(BlocksOf(new, TRUE), Without(BlockTable(core), BlocksOut(core, new))) = BlockTable(core')
  <2> HIDE DEF S
  <2>1. PICK d : d = core'
    OBVIOUS
  <2>2. d = Over(new, core)
    BY <1>3, <2>1
  <2>3. PICK u \in BOOLEAN : u = TRUE
    OBVIOUS
  <2>4. \A p \in S : new[p].uniform = u
    BY <1>8, <2>3
  <2>5. /\ d = [p \in Places |-> d[p]] /\ NamedByPlace(d, Places)
        /\ \A p \in Places : d[p] = IF p \in S THEN new[p] ELSE core[p]
        /\ Over(NamesOf(new, u), NameTable(core)) = NameTable(d)
        /\ Over(BlocksOf(new, u), Without(BlockTable(core), BlocksOut(core, new))) = BlockTable(d)
    BY <1>4, <1>8, <2>2, <2>4, CoreReplaced
  <2>6. /\ d = [p \in Places |-> d[p]] /\ NamedByPlace(d, Places)
        /\ \A p \in Places : d[p] = IF p \in S THEN new[p] ELSE core[p]
        /\ Over(NamesOf(new, TRUE), NameTable(core)) = NameTable(d)
        /\ Over(BlocksOf(new, TRUE), Without(BlockTable(core), BlocksOut(core, new))) = BlockTable(d)
    BY <2>3, <2>5
  <2> QED
    BY <2>1, <2>6
<1>10. NamesHold'
  BY <1>3, <1>9 DEF NamesHold, NameTable, BlockTable
<1>11. ASSUME NEW p \in S
       PROVE  LET s == [core[p] EXCEPT !.name[2] = Suffix]
              IN  s.name = <<p, Suffix>> /\ IsOriginal(p, s) /\ s.blocks = core[p].blocks
  <2>1. PICK a : a = core[p]
    OBVIOUS
  <2>2. IsOriginal(p, a) /\ a.name = <<p, "">> /\ p \in Places
    BY <1>4, <1>5, <2>1 DEF NamedByPlace
  <2>3. PICK s : s = [a EXCEPT !.name[2] = Suffix]
    OBVIOUS
  <2>4. s.name = <<p, Suffix>> /\ IsOriginal(p, s) /\ s.blocks = a.blocks
    BY <2>2, <2>3, PutAside
  <2> QED
    BY <2>1, <2>3, <2>4
<1>12. /\ \A p \in S : \E s \in storage' : s.name = <<p, Suffix>>
       /\ \A s \in storage' : \E p \in S : s.name = <<p, Suffix>> /\ IsOriginal(p, s) /\ s.blocks = core[p].blocks
  BY <1>3, <1>11
<1>13. InStorage'
  BY <1>3, <1>12 DEF InStorage, IsOriginal, Built
<1>14. \A p \in Places : InCore(p)'
  <2>1. \A p \in Places : IF p \in S THEN IsStandIn(core'[p]) ELSE IsOriginal(p, core'[p])
    BY <1>5, <1>7, <1>9
  <2> QED
    BY <1>3, <2>1 DEF InCore, IsOriginal, Built
<1>15. Shaped'
  BY <1>3, <1>4, <1>9, <1>13, <1>14 DEF Shaped, NamedByPlace
<1>16. ASSUME Filled, EqualHeights PROVE Filled'
  <2>1. ASSUME NEW p \in Places PROVE Fills(core'[p].blocks, Top(Loading[p]))
    <3>1. CASE p \notin S
      BY <1>9, <1>16, <3>1 DEF Filled
    <3>2. CASE p \in S
      <4>1. PICK x : x = new[p].blocks
        OBVIOUS
      <4>2. /\ Len(x) = Len(tops) /\ Len(tops) \in Nat
            /\ \A k \in 1..Len(tops) : x[k].zt = tops[k] /\ x[k].zb = StartOf(x, k) /\ tops[k] \in Int
        BY <1>6, <1>7, <3>2, <4>1 DEF IsMesh, IsList
      <4>3. ASSUME NEW k \in 1..Len(tops) PROVE x[k].zb <= x[k].zt
        <5>1. CASE k = 1
          BY <1>6, <1>16, <4>2, <5>1 DEF StartOf
        <5>2. CASE k # 1
          <6>1. k - 1 \in 1..Len(tops) /\ k - 1 <= k
            BY <4>2, <5>2
          <6>2. tops[k - 1] <= tops[k]
            BY <1>6, <1>16, <6>1
          <6> QED
            BY <4>2, <5>2, <6>1, <6>2 DEF StartOf
        <5> QED
          BY <5>1, <5>2
      <4>4. x[Len(x)].zt = Top(Loading[p])
        <5>1. Len(tops) \in 1..Len(tops)
          BY <1>6, <4>2
        <5>2. Top(Loading[p]) = Top(Loading[Reference])
          BY <1>16, LoadingAssumption DEF EqualHeights
        <5> QED
          BY <1>6, <1>16, <4>2, <5>1, <5>2
      <4>5. Fills(x, Top(Loading[p]))
        BY <4>2, <4>3, <4>4 DEF Fills, StacksTo
      <4> QED
        BY <1>9, <3>2, <4>1, <4>5
    <3> QED
      BY <3>1, <3>2
  <2>2. ASSUME NEW s \in storage', NEW p \in Places, s.name = <<p, Suffix>>
        PROVE  Fills(s.blocks, Top(Loading[p]))
    <3>1. PICK q \in S : s.name = <<q, Suffix>> /\ s.blocks = core[q].blocks
      BY <1>12, <2>2
    <3>2. p = q
      BY <2>2, <3>1
    <3> QED
      BY <1>16, <3>1, <3>2 DEF Filled
  <2> QED
    BY <2>1, <2>2 DEF Filled
<1> QED
  BY <1>10, <1>15, <1>16

LEMMA ApplyInPlaceKeeps ==
  ASSUME Shaped, NamesHold, ApplyInPlace
  PROVE  Shaped' /\ NamesHold' /\ (Filled => Filled')
<1> DEFINE S == case.nonUniform
           stored(p) == CHOOSE s \in StoredFor(core[p]) : TRUE
           returned(p) == [stored(p) EXCEPT !.name = core[p].name, !.moves = stored(p).moves + 1,
                                            !.blocks = Mapped(core[p].blocks, stored(p).blocks)]
<1>1. PICK back : back = [p \in S |-> returned(p)]
  OBVIOUS
<1>2. /\ use = "inPlace" /\ use' = "none" /\ case' = case /\ core' = Over(back, core)
      /\ byName' = Over(NamesOf(back, FALSE), byName)
      /\ blocksByName' = Over(BlocksOf(back, FALSE), Without(blocksByName, BlocksOut(core, back)))
      /\ storage' = {s \in storage : \A p \in S : s \notin StoredFor(core[p])}
  BY <1>1 DEF ApplyInPlace, NamesOf, BlocksOf, BlocksOut
<1>3. /\ case \in Cases /\ S \subseteq Places /\ NamedByPlace(core, Places)
      /\ \A p \in S : \E s \in storage : s.name = <<p, Suffix>>
      /\ \A s \in storage : \E p \in S : s.name = <<p, Suffix>> /\ IsOriginal(p, s)
  BY <1>2, LoadingAssumption DEF Shaped, InStorage
<1>4. ASSUME NEW p \in S PROVE StoredFor(core[p]) = {s \in storage : s.name = <<p, Suffix>>}
  <2>1. core[p].name = <<p, "">> /\ <<p, "">>[1] = p
    BY <1>3 DEF NamedByPlace
  <2>2. core[p].name[1] = p
    BY <2>1
  <2> QED
    BY <2>2 DEF StoredFor
<1>5. ASSUME NEW p \in S
      PROVE  /\ back[p].name = <<p, "">> /\ back[p].uniform = FALSE /\ IsOriginal(p, back[p])
             /\ Filled => Fills(back[p].blocks, Top(Loading[p]))
  <2>1. PICK s : s = stored(p)
    OBVIOUS
  <2>2. s \in storage /\ s.name = <<p, Suffix>>
    BY <1>3, <1>4, <2>1
  <2>3. PICK q \in S : s.name = <<q, Suffix>> /\ IsOriginal(q, s)
    BY <1>3, <2>2
  <2>4. p = q
    BY <2>2, <2>3
  <2>5. IsOriginal(p, s) /\ p \in Places
    BY <1>3, <2>3, <2>4
  <2>6. IsList(s.blocks) /\ Len(s.blocks) \in Nat /\ Len(s.blocks) >= 2
    BY <1>3, <2>5, OriginalFacts DEF IsStack
  <2>7. PICK x : x = Mapped(core[p].blocks, s.blocks)
    OBVIOUS
  <2>8. Redone(s.blocks, x)
    BY <2>6, <2>7, MappedFacts
  <2>9. PICK name : name = core[p].name
    OBVIOUS
  <2>10. PICK b : b = [s EXCEPT !.name = name, !.moves = s.moves + 1, !.blocks = x]
    OBVIOUS
  <2>11. DOMAIN s = AssemblyFields /\ s.uniform = FALSE
    BY <2>5 DEF IsOriginal
  <2>12. DOMAIN b = AssemblyFields /\ b.uniform = FALSE /\ b.name = name /\ b.blocks = x
    BY <2>10, <2>11 DEF AssemblyFields
  <2>13. IsOriginal(p, b) /\ SameBounds(s.blocks, b.blocks)
    BY <1>3, <2>5, <2>8, <2>12, RedoneOriginal
  <2>14. back[p] = b
    <3>1. back[p] = returned(p)
      BY <1>1
    <3> QED
      BY <2>1, <2>7, <2>9, <2>10, <3>1
  <2>15. ASSUME Filled PROVE Fills(b.blocks, Top(Loading[p]))
    <3>1. Fills(s.blocks, Top(Loading[p]))
      BY <2>2, <2>5, <2>15 DEF Filled
    <3> QED
      BY <2>6, <2>13, <3>1, FillsOn
  <2>16. name = <<p, "">>
    BY <1>3, <2>9 DEF NamedByPlace
  <2> QED
    BY <2>12, <2>13, <2>14, <2>15, <2>16
<1>6. DOMAIN back = S /\ NamedByPlace(back, S) /\ \A p \in S : back[p].uniform = FALSE
  BY <1>1, <1>5 DEF NamedByPlace
<1> HIDE DEF S, stored, returned
<1>7. /\ core' = [p \in Places |-> core'[p]] /\ NamedByPlace(core', Places)
      /\ \A p \in Places : core'[p] = IF p \in S THEN back[p] ELSE core[p]
      /\ Over(NamesOf(back, FALSE), NameTable(core)) = NameTable(core')
      /\ Over(BlocksOf(back, FALSE), Without(BlockTable(core), BlocksOut(core, back))) = BlockTable(core')
  <2>1. PICK d : d = core'
    OBVIOUS
  <2>2. d = Over(back, core)
    BY <1>2, <2>1
  <2>3. PICK u \in BOOLEAN : u = FALSE
    OBVIOUS
  <2>4. \A p \in S : back[p].uniform = u
    BY <1>6, <2>3
  <2>5. /\ d = [p \in Places |-> d[p]] /\ NamedByPlace(d, Places)
        /\ \A p \in Places : d[p] = IF p \in S THEN back[p] ELSE core[p]
        /\ Over(NamesOf(back, u), NameTable(core)) = NameTable(d)
        /\ Over(BlocksOf(back, u), Without(BlockTable(core), BlocksOut(core, back))) = BlockTable(d)
    BY <1>3, <1>6, <2>2, <2>4, CoreReplaced
  <2>6. /\ Over(NamesOf(back, FALSE), NameTable(core)) = NameTable(d)
        /\ Over(BlocksOf(back, FALSE), Without(BlockTable(core), BlocksOut(core, back))) = BlockTable(d)
    BY <2>3, <2>5
  <2> QED
    BY <2>1, <2>5, <2>6
<1>8. NamesHold'
  BY <1>2, <1>7 DEF NamesHold, NameTable, BlockTable
<1>9. storage' = {}
  BY <1>2, <1>3, <1>4
<1>10. \A p \in Places : IsOriginal(p, core'[p])
  <2>1. \A p \in Places \ S : IsOriginal(p, core[p])
    BY DEF Shaped, InCore, S
  <2> QED
    BY <1>5, <1>7, <2>1
<1>11. Shaped'
  <2>1. \A p \in Places : InCore(p)'
    BY <1>2, <1>10 DEF InCore, IsOriginal, Built
  <2>2. InStorage'
    BY <1>2, <1>9 DEF InStorage
  <2> QED
    BY <1>2, <1>3, <1>7, <2>1, <2>2 DEF Shaped, NamedByPlace
<1>12. ASSUME Filled PROVE Filled'
  <2>1. \A p \in Places : Fills(core'[p].blocks, Top(Loading[p]))
    BY <1>5, <1>7, <1>12 DEF Filled
  <2> QED
    BY <1>9, <2>1 DEF Filled
<1> QED
  BY <1>8, <1>11, <1>12

LEMMA StepHolds ==
  Shaped /\ NamesHold /\ [Next]_vars => Shaped' /\ NamesHold' /\ (Filled /\ EqualHeights => Filled')
<1> SUFFICES ASSUME Shaped, NamesHold, [Next]_vars
             PROVE  Shaped' /\ NamesHold' /\ (Filled /\ EqualHeights => Filled')
  OBVIOUS
<1>1. ASSUME NEW p \in Places, NEW change \in Changes[p], Expand(p, change)
      PROVE  Shaped' /\ NamesHold' /\ (Filled /\ EqualHeights => Filled')
  BY <1>1, ExpandKeeps
<1>2. ASSUME NEW p \in Places, NEW change \in Changes[p], ExpandFails(p, change)
      PROVE  Shaped' /\ NamesHold' /\ (Filled /\ EqualHeights => Filled')
  <2>1. UNCHANGED <<case, core, names, storage>> /\ (use' = "inPlace" <=> use = "inPlace")
    BY <1>2 DEF ExpandFails, MayExpand
  <2> QED
    BY <2>1, CoreUnchanged
<1>3. CASE ManageCoreMesh
  BY <1>3, ManageKeeps
<1>4. CASE ConvertInPlace
  BY <1>4, ConvertInPlaceKeeps
<1>5. ASSUME NEW size \in MinimumSizes, ConvertToCopy(size) \/ ConvertFails(size)
      PROVE  Shaped' /\ NamesHold' /\ (Filled /\ EqualHeights => Filled')
  <2>1. UNCHANGED <<case, core, names, storage>> /\ (use' = "inPlace" <=> use = "inPlace")
    BY <1>5 DEF ConvertToCopy, ConvertFails
  <2> QED
    BY <2>1, CoreUnchanged
<1>6. ASSUME NEW r \in Rates, Solve(r)
      PROVE  Shaped' /\ NamesHold' /\ (Filled /\ EqualHeights => Filled')
  BY <1>6, SolveKeeps
<1>7. CASE ApplyInPlace
  BY <1>7, ApplyInPlaceKeeps
<1>8. CASE ApplyCopy
  BY <1>8, ApplyCopyKeeps
<1>9. CASE LeaveCopy
  <2>1. UNCHANGED <<case, core, names, storage>> /\ (use' = "inPlace" <=> use = "inPlace")
    BY <1>9 DEF LeaveCopy
  <2> QED
    BY <2>1, CoreUnchanged
<1>10. CASE UNCHANGED vars
  <2>1. UNCHANGED <<case, core, names, storage>> /\ (use' = "inPlace" <=> use = "inPlace")
    BY <1>10 DEF vars, names
  <2> QED
    BY <2>1, CoreUnchanged
<1> QED
  BY <1>1, <1>2, <1>3, <1>4, <1>5, <1>6, <1>7, <1>8, <1>9, <1>10 DEF Next

(* Every assembly of a core keeps its blocks and their components through  *)
(* expansion, snapping and the uniform mesh, under the name of its place;  *)
(* each one that a uniform assembly stands in for is in the storage, and   *)
(* nothing else is.                                                        *)
THEOREM AssembliesAreKept == Spec => [](Shaped /\ NamesHold)
<1>1. Init => Shaped /\ NamesHold
  BY InitHolds
<1>2. Shaped /\ NamesHold /\ [Next]_vars => (Shaped /\ NamesHold)'
  BY StepHolds
<1> QED
  BY <1>1, <1>2, PTL DEF Spec

(* The tables of the core follow it, whatever the loading, the meshes and  *)
(* the expansions.                                                         *)
THEOREM TablesAreRight == Spec => []TablesFollow
<1>1. Shaped /\ NamesHold => TablesFollow
  <2> SUFFICES ASSUME Shaped, NamesHold PROVE TablesFollow
    OBVIOUS
  <2>1. byName = [n \in {core[p].name : p \in Places} |-> <<n[1], core[n[1]].uniform>>]
    BY DEF NamesHold, NameTable
  <2>2. blocksByName = [n \in UNION {BlockNames(core[p]) : p \in Places} |-> <<n[1], core[n[1]].uniform>>]
    BY DEF NamesHold, BlockTable
  <2>3. ASSUME use = "none" PROVE storage = {} /\ \A p \in Places : ~core[p].uniform
    BY <2>3 DEF Shaped, InStorage, InCore, IsOriginal
  <2> QED
    BY <2>1, <2>2, <2>3 DEF TablesFollow
<1> QED
  BY <1>1, AssembliesAreKept, PTL

(* Where the assemblies were built to one height, the blocks of each go on *)
(* filling it, on whatever mesh.                                           *)
THEOREM HeightsAreKept == EqualHeights => (Spec => []BlocksFill)
<1> SUFFICES ASSUME EqualHeights PROVE Spec => []BlocksFill
  OBVIOUS
<1>1. Init => Shaped /\ NamesHold /\ Filled
  BY InitHolds
<1>2. Shaped /\ NamesHold /\ Filled /\ [Next]_vars => (Shaped /\ NamesHold /\ Filled)'
  BY StepHolds
<1>3. Shaped /\ Filled => BlocksFill
  <2> SUFFICES ASSUME Shaped, Filled, NEW p \in Places
               PROVE  LET blocks == core[p].blocks
                      IN  /\ Top(blocks) = Top(Loading[p])
                          /\ \A i \in DOMAIN blocks :
                               /\ blocks[i].zb = (IF i = 1 THEN 0 ELSE blocks[i - 1].zt)
                               /\ Height(blocks[i]) >= 0
    BY DEF BlocksFill
  <2>1. PICK x : x = core[p].blocks
    OBVIOUS
  <2>2. Fills(x, Top(Loading[p])) /\ IsList(x)
    BY <2>1 DEF Filled, Shaped, InCore, IsOriginal, IsStandIn, SameShape, IsStack
  <2>3. \A i \in 1..Len(x) : x[i].zb \in Int /\ x[i].zt \in Int
    BY <2>1 DEF Shaped, InCore, IsOriginal, IsStandIn, SameShape, IsStack
  <2>4. DOMAIN x = 1..Len(x) /\ Top(x) = Top(Loading[p])
    BY <2>2 DEF IsList, Fills, Top
  <2>5. ASSUME NEW i \in 1..Len(x)
        PROVE  x[i].zb = (IF i = 1 THEN 0 ELSE x[i - 1].zt) /\ Height(x[i]) >= 0
    <3>1. x[i].zb = StartOf(x, i) /\ x[i].zb <= x[i].zt
      BY <2>2 DEF Fills, StacksTo
    <3> QED
      BY <2>3, <3>1 DEF StartOf, Height
  <2> QED
    BY <2>1, <2>4, <2>5
<1> QED
  BY <1>1, <1>2, <1>3, PTL DEF Spec

-----------------------------------------------------------------------------
(* Functions defined by recursion on what has a rank, and what holds of    *)
(* all that has one.                                                       *)
LEMMA RankInduction ==
  ASSUME NEW D, NEW r \in [D -> Nat], NEW Q,
         \A x \in D : (\A y \in D : r[y] < r[x] => y \in Q) => x \in Q
  PROVE  D \subseteq Q
<1> DEFINE S == {n \in Nat : \E x \in D : r[x] = n /\ x \notin Q}
<1>1. SUFFICES ASSUME S # {} PROVE FALSE
  OBVIOUS
<1>2. PICK m \in S : \A k \in S : m <= k
  BY <1>1, LeastNumber
<1>3. PICK x \in D : r[x] = m /\ x \notin Q
  BY <1>2
<1>4. ASSUME NEW y \in D, r[y] < r[x] PROVE y \in Q
  <2>1. r[y] \in Nat /\ m \in Nat
    BY <1>2
  <2>2. r[y] \notin S
    BY <1>2, <1>3, <1>4, <2>1
  <2> QED
    BY <2>1, <2>2
<1> QED
  BY <1>3, <1>4

(* D with its ranks r, and how a value in V is found for each member of it *)
(* from that of the next.                                                  *)
Recursion(D, r, stop, V, base, next, op) ==
  /\ r \in [D -> Nat] /\ base \in [D -> V] /\ op \in [D -> [V -> V]]
  /\ \A x \in D \ stop : next[x] \in D /\ r[next[x]] < r[x]

FoundBy(f, D, stop, V, base, next, op) ==
  f \in [D -> V] /\ \A x \in D : f[x] = IF x \in stop THEN base[x] ELSE op[x][f[next[x]]]

(* f is the recursive function, where the rank is below n. *)
Recurs(f, D, r, stop, base, next, op, n) ==
  \A x \in D : r[x] < n => f[x] = IF x \in stop THEN base[x] ELSE op[x][f[next[x]]]

LEMMA RecursionTo ==
  ASSUME NEW D, NEW r, NEW stop, NEW V, NEW base, NEW next, NEW op,
         Recursion(D, r, stop, V, base, next, op), NEW n \in Nat
  PROVE  \E f \in [D -> V] : Recurs(f, D, r, stop, base, next, op, n)
<1>0. /\ r \in [D -> Nat] /\ base \in [D -> V] /\ op \in [D -> [V -> V]]
      /\ \A x \in D \ stop : next[x] \in D /\ r[next[x]] < r[x]
  BY DEF Recursion
<1> DEFINE Lacks(m) == ~ \E f \in [D -> V] : Recurs(f, D, r, stop, base, next, op, m)
           S == {m \in Nat : Lacks(m)}
<1>1. SUFFICES ASSUME S # {} PROVE FALSE
  OBVIOUS
<1>2. PICK m \in S : \A k \in S : m <= k
  BY <1>1, LeastNumber
<1>3. m \in Nat /\ Lacks(m) /\ \A k \in Nat : k < m => ~Lacks(k)
  BY <1>2
<1>4. CASE m = 0
  <2>1. Recurs(base, D, r, stop, base, next, op, 0)
    BY <1>0 DEF Recurs
  <2> QED
    BY <1>0, <1>3, <1>4, <2>1
<1>5. CASE m # 0
  <2>1. m - 1 \in Nat /\ m - 1 < m
    BY <1>3, <1>5
  <2>2. PICK g \in [D -> V] : Recurs(g, D, r, stop, base, next, op, m - 1)
    BY <1>3, <2>1
  <2>3. PICK f : f = [x \in D |-> IF x \in stop THEN base[x] ELSE op[x][g[next[x]]]]
    OBVIOUS
  <2>4. f \in [D -> V]
    BY <1>0, <2>3
  <2>5. ASSUME NEW x \in D, r[x] < m - 1 PROVE f[x] = g[x]
    BY <2>2, <2>3, <2>5 DEF Recurs
  <2>6. ASSUME NEW x \in D, r[x] < m
        PROVE  f[x] = IF x \in stop THEN base[x] ELSE op[x][f[next[x]]]
    <3>1. CASE x \in stop
      BY <2>3, <3>1
    <3>2. CASE x \notin stop
      <4>1. next[x] \in D /\ r[next[x]] \in Nat /\ r[x] \in Nat /\ r[next[x]] < r[x]
        BY <1>0, <3>2
      <4>2. r[next[x]] < m - 1
        BY <1>3, <2>6, <4>1
      <4>3. f[next[x]] = g[next[x]]
        BY <2>5, <4>1, <4>2
      <4> QED
        BY <2>3, <3>2, <4>3
    <3> QED
      BY <3>1, <3>2
  <2>7. Recurs(f, D, r, stop, base, next, op, m)
    BY <2>6 DEF Recurs
  <2> QED
    BY <1>3, <2>4, <2>7
<1> QED
  BY <1>4, <1>5

(* The recursive functions to each rank agree: put together they are one.  *)
LEMMA RecursionExists ==
  ASSUME NEW D, NEW r, NEW stop, NEW V, NEW base, NEW next, NEW op,
         Recursion(D, r, stop, V, base, next, op)
  PROVE  \E f : FoundBy(f, D, stop, V, base, next, op)
<1>0. /\ r \in [D -> Nat] /\ base \in [D -> V] /\ op \in [D -> [V -> V]]
      /\ \A x \in D \ stop : next[x] \in D /\ r[next[x]] < r[x]
  BY DEF Recursion
<1> DEFINE To(n) == CHOOSE f \in [D -> V] : Recurs(f, D, r, stop, base, next, op, n)
<1>1. ASSUME NEW n \in Nat PROVE To(n) \in [D -> V] /\ Recurs(To(n), D, r, stop, base, next, op, n)
  <2>1. \E f \in [D -> V] : Recurs(f, D, r, stop, base, next, op, n)
    BY RecursionTo
  <2> QED
    BY <2>1
<1> HIDE DEF To
<1>2. ASSUME NEW m \in Nat, NEW n \in Nat
      PROVE  \A x \in D : r[x] < m /\ r[x] < n => To(m)[x] = To(n)[x]
  <2> DEFINE Q == {x \in D : r[x] < m /\ r[x] < n => To(m)[x] = To(n)[x]}
  <2>1. ASSUME NEW x \in D, \A y \in D : r[y] < r[x] => y \in Q PROVE x \in Q
    <3> SUFFICES ASSUME r[x] < m, r[x] < n PROVE To(m)[x] = To(n)[x]
      OBVIOUS
    <3>1. CASE x \in stop
      BY <1>1, <3>1 DEF Recurs
    <3>2. CASE x \notin stop
      <4>1. next[x] \in D /\ r[next[x]] \in Nat /\ r[x] \in Nat /\ r[next[x]] < r[x]
        BY <1>0, <3>2
      <4>2. r[next[x]] < m /\ r[next[x]] < n
        BY <4>1
      <4>3. To(m)[next[x]] = To(n)[next[x]]
        BY <2>1, <4>1, <4>2
      <4>4. To(m)[x] = op[x][To(m)[next[x]]] /\ To(n)[x] = op[x][To(n)[next[x]]]
        BY <1>1, <3>2 DEF Recurs
      <4> QED
        BY <4>3, <4>4
    <3> QED
      BY <3>1, <3>2
  <2>2. D \subseteq Q
    <3> HIDE DEF Q
    <3> QED
      BY <1>0, <2>1, RankInduction
  <2> QED
    BY <2>2
<1>3. PICK f : f = [x \in D |-> To(r[x] + 1)[x]]
  OBVIOUS
<1>4. ASSUME NEW x \in D
      PROVE  f[x] = To(r[x] + 1)[x] /\ r[x] + 1 \in Nat /\ r[x] < r[x] + 1 /\ r[x] \in Nat
  BY <1>0, <1>3
<1>5. f \in [D -> V]
  <2>1. ASSUME NEW x \in D PROVE To(r[x] + 1)[x] \in V
    <3>1. To(r[x] + 1) \in [D -> V]
      BY <1>1, <1>4
    <3> QED
      BY <3>1
  <2> QED
    BY <1>3, <2>1
<1>6. ASSUME NEW x \in D PROVE f[x] = IF x \in stop THEN base[x] ELSE op[x][f[next[x]]]
  <2>1. To(r[x] + 1)[x] = IF x \in stop THEN base[x] ELSE op[x][To(r[x] + 1)[next[x]]]
    <3>1. Recurs(To(r[x] + 1), D, r, stop, base, next, op, r[x] + 1)
      BY <1>1, <1>4
    <3> QED
      BY <1>4, <3>1 DEF Recurs
  <2>2. CASE x \in stop
    BY <1>4, <2>1, <2>2
  <2>3. CASE x \notin stop
    <3>1. next[x] \in D /\ r[next[x]] < r[x]
      BY <1>0, <2>3
    <3>2. r[next[x]] < r[x] + 1
      BY <1>0, <1>4, <3>1
    <3>3. To(r[next[x]] + 1)[next[x]] = To(r[x] + 1)[next[x]]
      BY <1>2, <1>4, <3>1, <3>2
    <3> QED
      BY <1>4, <2>1, <2>3, <3>1, <3>3
  <2> QED
    BY <2>2, <2>3
<1> QED
  BY <1>5, <1>6 DEF FoundBy

-----------------------------------------------------------------------------
(* Sums over finite sets, in whatever order.                               *)
Sums(g, f) ==
  /\ g \in [SUBSET DOMAIN f -> Int] /\ g[{}] = 0
  /\ \A T \in SUBSET DOMAIN f : \A x \in T : g[T] = f[x] + g[T \ {x}]

SomeOf(s) == CHOOSE x \in s : TRUE

LEMMA SizesShrink ==
  ASSUME NEW S, IsFiniteSet(S)
  PROVE  \E r \in [SUBSET S -> Nat] : \A T \in SUBSET S : \A x \in T : r[T \ {x}] < r[T]
<1>1. PICK r : r = [T \in SUBSET S |-> Cardinality(T)]
  OBVIOUS
<1>2. ASSUME NEW T \in SUBSET S PROVE IsFiniteSet(T) /\ Cardinality(T) \in Nat
  BY FS_Subset, FS_CardinalityType
<1>3. r \in [SUBSET S -> Nat]
  BY <1>1, <1>2
<1>4. ASSUME NEW T \in SUBSET S, NEW x \in T PROVE r[T \ {x}] < r[T]
  <2>1. Cardinality(T \ {x}) = Cardinality(T) - 1
    BY <1>2, FS_RemoveElement
  <2>2. r[T \ {x}] = Cardinality(T \ {x}) /\ r[T] = Cardinality(T) /\ Cardinality(T) \in Nat
    BY <1>1, <1>2
  <2> QED
    BY <2>1, <2>2
<1> QED
  BY <1>3, <1>4

SumsInOrder(g, f) ==
  g = [s \in SUBSET DOMAIN f |-> IF s = {} THEN 0 ELSE f[SomeOf(s)] + g[s \ {SomeOf(s)}]]

LEMMA SumInOrderExists ==
  ASSUME NEW f, IsFiniteSet(DOMAIN f), \A x \in DOMAIN f : f[x] \in Int
  PROVE  \E g \in [SUBSET DOMAIN f -> Int] : SumsInOrder(g, f)
<1> DEFINE D == SUBSET DOMAIN f
<1>1. PICK r \in [D -> Nat] : \A T \in D : \A x \in T : r[T \ {x}] < r[T]
  BY SizesShrink
<1>2. PICK base : base = [s \in D |-> 0]
  OBVIOUS
<1>3. PICK next : next = [s \in D |-> s \ {SomeOf(s)}]
  OBVIOUS
<1>4. PICK op : op = [s \in D |-> [v \in Int |-> IF s = {} THEN 0 ELSE f[SomeOf(s)] + v]]
  OBVIOUS
<1>5. ASSUME NEW s \in D, s # {} PROVE SomeOf(s) \in s /\ f[SomeOf(s)] \in Int
  BY <1>5 DEF SomeOf
<1>6. base \in [D -> Int]
  BY <1>2
<1>7. op \in [D -> [Int -> Int]]
  BY <1>4, <1>5
<1>8. PICK stop : stop = {{}}
  OBVIOUS
<1>9. PICK g : g \in [D -> Int] /\ \A s \in D : g[s] = IF s \in stop THEN base[s] ELSE op[s][g[next[s]]]
  <2>1. \A s \in D \ stop : next[s] \in D /\ r[next[s]] < r[s]
    BY <1>1, <1>3, <1>5, <1>8
  <2>2. Recursion(D, r, stop, Int, base, next, op)
    BY <1>6, <1>7, <2>1 DEF Recursion
  <2> QED
    <3>1. \E g : FoundBy(g, D, stop, Int, base, next, op)
      BY ONLY <2>2, RecursionExists
    <3> QED
      BY <3>1 DEF FoundBy
<1>10. ASSUME NEW s \in D PROVE g[s] = IF s = {} THEN 0 ELSE f[SomeOf(s)] + g[s \ {SomeOf(s)}]
  <2>1. CASE s = {}
    BY <1>2, <1>8, <1>9, <2>1
  <2>2. CASE s # {}
    <3>1. next[s] = s \ {SomeOf(s)} /\ next[s] \in D
      BY <1>3
    <3>2. g[next[s]] \in Int
      BY <1>9, <3>1
    <3>3. op[s][g[next[s]]] = f[SomeOf(s)] + g[next[s]]
      BY <1>4, <2>2, <3>2
    <3> QED
      BY <1>8, <1>9, <2>2, <3>1, <3>3
  <2> QED
    BY <2>1, <2>2
<1>11. g = [s \in D |-> g[s]]
  BY <1>9
<1>12. g = [s \in D |-> IF s = {} THEN 0 ELSE f[SomeOf(s)] + g[s \ {SomeOf(s)}]]
  BY <1>10, <1>11
<1> QED
  BY <1>9, <1>12 DEF SumsInOrder

(* Whatever is added first, the sum is the same.                           *)
LEMMA AnyOrder ==
  ASSUME NEW f, IsFiniteSet(DOMAIN f), \A x \in DOMAIN f : f[x] \in Int,
         NEW g, SumsInOrder(g, f)
  PROVE  Sums(g, f)
<1> DEFINE D == SUBSET DOMAIN f
<1>1. \A s \in D : g[s] = IF s = {} THEN 0 ELSE f[SomeOf(s)] + g[s \ {SomeOf(s)}]
  BY DEF SumsInOrder
<1>2. g[{}] = 0
  BY <1>1
<1>3. PICK r \in [D -> Nat] : \A T \in D : \A x \in T : r[T \ {x}] < r[T]
  BY SizesShrink
<1> DEFINE Q == {s \in D : g[s] \in Int /\ \A x \in s : g[s] = f[x] + g[s \ {x}]}
<1>4. ASSUME NEW s \in D, \A t \in D : r[t] < r[s] => t \in Q PROVE s \in Q
  <2>1. CASE s = {}
    BY <1>2, <2>1
  <2>2. CASE s # {}
    <3>1. PICK y : y = SomeOf(s)
      OBVIOUS
    <3>2. y \in s /\ y \in DOMAIN f /\ f[y] \in Int
      BY <2>2, <3>1 DEF SomeOf
    <3>3. g[s] = f[y] + g[s \ {y}]
      BY <1>1, <2>2, <3>1
    <3>4. \A x \in s : s \ {x} \in D /\ s \ {x} \in Q
      BY <1>3, <1>4
    <3>5. g[s] \in Int
      BY <3>2, <3>3, <3>4
    <3>6. ASSUME NEW x \in s, x # y PROVE g[s] = f[x] + g[s \ {x}]
      <4>1. x \in s \ {y} /\ y \in s \ {x} /\ (s \ {y}) \ {x} = (s \ {x}) \ {y}
        BY <3>2, <3>6
      <4>2. PICK t : t = (s \ {y}) \ {x}
        OBVIOUS
      <4>3. g[s \ {y}] = f[x] + g[t] /\ g[s \ {x}] = f[y] + g[t]
        BY <3>2, <3>4, <4>1, <4>2
      <4>4. t \in D /\ r[t] < r[s \ {x}] /\ r[s \ {x}] < r[s]
        BY <1>3, <4>1, <4>2
      <4>5. r[t] \in Nat /\ r[s] \in Nat /\ r[s \ {x}] \in Nat
        BY <4>4
      <4>6. g[t] \in Int
        <5>1. r[t] < r[s]
          BY <4>4, <4>5
        <5> QED
          BY <1>4, <4>4, <5>1
      <4>7. f[x] \in Int
        BY <3>6
      <4> QED
        BY <3>2, <3>3, <4>3, <4>6, <4>7
    <3> QED
      BY <3>3, <3>5, <3>6
  <2> QED
    BY <2>1, <2>2
<1>5. D \subseteq Q
  <2> HIDE DEF D, Q
  <2> QED
    BY <1>3, <1>4, RankInduction
<1>6. \A s \in D : g[s] \in Int
  BY <1>5
<1>7. g \in [D -> Int]
  <2>1. PICK h : h = [s \in D |-> IF s = {} THEN 0 ELSE f[SomeOf(s)] + g[s \ {SomeOf(s)}]]
    OBVIOUS
  <2>2. g = h
    BY <2>1 DEF SumsInOrder
  <2> QED
    BY <1>6, <2>1, <2>2
<1> QED
  BY <1>2, <1>5, <1>7 DEF Sums

LEMMA SumIs ==
  ASSUME NEW f, IsFiniteSet(DOMAIN f), \A x \in DOMAIN f : f[x] \in Int
  PROVE  \E g : Sums(g, f) /\ SumFunction(f) = g[DOMAIN f]
<1>1. PICK g : g = CHOOSE h : SumsInOrder(h, f)
  OBVIOUS
<1>2. SumsInOrder(g, f)
  BY <1>1, SumInOrderExists
<1>3. g = CHOOSE iter : iter = [s \in SUBSET DOMAIN f |-> IF s = {} THEN 0 ELSE f[CHOOSE x \in s : TRUE] + iter[s \ {CHOOSE x \in s : TRUE}]]
  BY <1>1 DEF SumsInOrder, SomeOf
<1>4. SumFunction(f) = g[DOMAIN f]
  BY <1>3 DEF SumFunction, SumFunctionOnSet, FoldFunctionOnSet, MapThenFoldSet
<1> QED
  BY <1>2, <1>4, AnyOrder

(* A sum does not depend on what else could be added.                      *)
LEMMA SumsAgree ==
  ASSUME NEW f, IsFiniteSet(DOMAIN f), \A x \in DOMAIN f : f[x] \in Int, NEW g, Sums(g, f),
         NEW e, DOMAIN e \subseteq DOMAIN f, \A x \in DOMAIN e : e[x] = f[x], NEW h, Sums(h, e)
  PROVE  \A T \in SUBSET DOMAIN e : h[T] = g[T]
<1> DEFINE D == SUBSET DOMAIN e
           Q == {T \in D : h[T] = g[T]}
<1>1. IsFiniteSet(DOMAIN e)
  BY FS_Subset
<1>2. PICK r \in [D -> Nat] : \A T \in D : \A x \in T : r[T \ {x}] < r[T]
  BY <1>1, SizesShrink
<1>3. ASSUME NEW T \in D, \A U \in D : r[U] < r[T] => U \in Q PROVE T \in Q
  <2>1. CASE T = {}
    BY <2>1 DEF Sums
  <2>2. CASE T # {}
    <3>1. PICK x \in T : TRUE
      BY <2>2
    <3>2. T \ {x} \in Q
      BY <1>2, <1>3
    <3>3. h[T] = e[x] + h[T \ {x}]
      BY DEF Sums
    <3>4. g[T] = f[x] + g[T \ {x}]
      BY DEF Sums
    <3> QED
      BY <3>2, <3>3, <3>4
  <2> QED
    BY <2>1, <2>2
<1> HIDE DEF D, Q
<1>4. D \subseteq Q
  BY <1>2, <1>3, RankInduction
<1> QED
  BY <1>4 DEF D, Q

LEMMA SumOfPart ==
  ASSUME NEW f, IsFiniteSet(DOMAIN f), \A x \in DOMAIN f : f[x] \in Int,
         NEW g, Sums(g, f), NEW T \in SUBSET DOMAIN f
  PROVE  SumFunction([x \in T |-> f[x]]) = g[T]
<1>1. PICK e : e = [x \in T |-> f[x]]
  OBVIOUS
<1>2. DOMAIN e = T /\ \A x \in DOMAIN e : e[x] = f[x] /\ e[x] \in Int
  BY <1>1
<1>3. IsFiniteSet(DOMAIN e)
  BY <1>2, FS_Subset
<1>4. PICK h : Sums(h, e) /\ SumFunction(e) = h[DOMAIN e]
  BY <1>2, <1>3, SumIs
<1>5. h[T] = g[T]
  <2>1. DOMAIN e \subseteq DOMAIN f /\ T \in SUBSET DOMAIN e
    BY <1>2
  <2> QED
    BY <1>2, <1>4, <2>1, SumsAgree
<1> QED
  BY <1>1, <1>2, <1>4, <1>5

(* A sum is a number; what one more adds; and what zeros do.              *)
LEMMA SumFacts ==
  ASSUME NEW S, IsFiniteSet(S), NEW f, \A x \in S : f[x] \in Int
  PROVE  /\ SumFunction([x \in S |-> f[x]]) \in Int
         /\ S = {} => SumFunction([x \in S |-> f[x]]) = 0
<1>1. PICK e : e = [x \in S |-> f[x]]
  OBVIOUS
<1>2. DOMAIN e = S /\ \A x \in S : e[x] = f[x] /\ e[x] \in Int
  BY <1>1
<1>3. PICK g : Sums(g, e) /\ SumFunction(e) = g[DOMAIN e]
  BY <1>2, SumIs
<1>4. g[S] \in Int /\ g[{}] = 0
  BY <1>2, <1>3 DEF Sums
<1> QED
  BY <1>1, <1>2, <1>3, <1>4

LEMMA OneMore ==
  ASSUME NEW S, IsFiniteSet(S), NEW f, \A x \in S : f[x] \in Int, NEW y \in S, NEW T, T = S \ {y}
  PROVE  SumFunction([x \in S |-> f[x]]) = f[y] + SumFunction([x \in T |-> f[x]])
<1>1. PICK e : e = [x \in S |-> f[x]]
  OBVIOUS
<1>2. DOMAIN e = S /\ \A x \in S : e[x] = f[x] /\ e[x] \in Int
  BY <1>1
<1>3. PICK g : Sums(g, e) /\ SumFunction(e) = g[DOMAIN e]
  BY <1>2, SumIs
<1>4. g[S] = e[y] + g[T]
  BY <1>2, <1>3 DEF Sums
<1>5. SumFunction([x \in T |-> e[x]]) = g[T]
  <2>1. T \in SUBSET DOMAIN e
    BY <1>2
  <2> QED
    BY <1>2, <1>3, <2>1, SumOfPart
<1>6. [x \in T |-> e[x]] = [x \in T |-> f[x]]
  BY <1>2
<1> QED
  BY <1>1, <1>2, <1>3, <1>4, <1>5, <1>6

LEMMA SameSum ==
  ASSUME NEW S, NEW e, NEW f, \A x \in S : e[x] = f[x]
  PROVE  SumFunction([x \in S |-> e[x]]) = SumFunction([x \in S |-> f[x]])
<1>1. [x \in S |-> e[x]] = [x \in S |-> f[x]]
  OBVIOUS
<1> QED
  BY <1>1

LEMMA ZerosAdded ==
  ASSUME NEW S, IsFiniteSet(S), NEW T \in SUBSET S, NEW f, \A x \in S : f[x] \in Int,
         \A x \in S \ T : f[x] = 0
  PROVE  SumFunction([x \in T |-> f[x]]) = SumFunction([x \in S |-> f[x]])
<1>1. PICK e : e = [x \in S |-> f[x]]
  OBVIOUS
<1>2. DOMAIN e = S /\ \A x \in S : e[x] = f[x] /\ e[x] \in Int
  BY <1>1
<1>3. PICK g : Sums(g, e) /\ SumFunction(e) = g[DOMAIN e]
  BY <1>2, SumIs
<1> DEFINE D == SUBSET S
           Q == {U \in D : T \subseteq U => g[U] = g[T]}
<1>4. PICK r \in [D -> Nat] : \A U \in D : \A x \in U : r[U \ {x}] < r[U]
  BY SizesShrink
<1>5. ASSUME NEW U \in D, \A W \in D : r[W] < r[U] => W \in Q PROVE U \in Q
  <2> SUFFICES ASSUME T \subseteq U PROVE g[U] = g[T]
    OBVIOUS
  <2>1. CASE U = T
    BY <2>1
  <2>2. CASE U # T
    <3>1. PICK x \in U : x \notin T
      BY <2>2
    <3>2. U \ {x} \in Q /\ T \subseteq U \ {x}
      BY <1>4, <1>5, <3>1
    <3>3. g[U] = e[x] + g[U \ {x}] /\ e[x] = 0 /\ g[U \ {x}] \in Int
      BY <1>2, <1>3, <3>1 DEF Sums
    <3> QED
      BY <3>2, <3>3
  <2> QED
    BY <2>1, <2>2
<1>6. D \subseteq Q
  <2> HIDE DEF D, Q
  <2> QED
    BY <1>4, <1>5, RankInduction
<1>7. g[S] = g[T]
  BY <1>6
<1>8. SumFunction([x \in T |-> e[x]]) = g[T]
  BY <1>2, <1>3, SumOfPart
<1>9. SumFunction([x \in T |-> e[x]]) = SumFunction([x \in T |-> f[x]])
  BY <1>2, SameSum
<1> QED
  BY <1>1, <1>2, <1>3, <1>7, <1>8, <1>9

-----------------------------------------------------------------------------
(* Sums along numbers.                                                     *)
LEMMA UpTo ==
  ASSUME NEW n \in Nat, NEW Q, 0 \in Q, \A k \in 1..n : k - 1 \in Q => k \in Q
  PROVE  \A k \in 0..n : k \in Q
<1> DEFINE S == {k \in Nat : k \in 0..n /\ k \notin Q}
<1>1. SUFFICES ASSUME S # {} PROVE FALSE
  OBVIOUS
<1>2. PICK m \in S : \A k \in S : m <= k
  BY <1>1, LeastNumber
<1>3. m \in Nat /\ m \in 0..n /\ m \notin Q /\ m # 0
  BY <1>2
<1>4. m \in 1..n /\ m - 1 \in Nat /\ m - 1 \in 0..n /\ ~(m <= m - 1)
  BY <1>3
<1>5. m - 1 \in Q
  BY <1>2, <1>4
<1> QED
  BY <1>3, <1>4, <1>5

SumTo(f, k) == SumFunction([i \in 1..k |-> f[i]])

LEMMA SumToFacts ==
  ASSUME NEW n \in Nat, NEW f, \A i \in 1..n : f[i] \in Int
  PROVE  /\ SumTo(f, 0) = 0 /\ \A k \in 0..n : SumTo(f, k) \in Int
         /\ \A k \in 1..n : SumTo(f, k) = SumTo(f, k - 1) + f[k]
<1>1. ASSUME NEW k \in 0..n PROVE IsFiniteSet(1..k) /\ \A i \in 1..k : f[i] \in Int
  BY FS_Interval
<1>2. SumTo(f, 0) = 0
  <2>1. PICK S : S = 1..0
    OBVIOUS
  <2>2. S = {} /\ IsFiniteSet(S) /\ \A i \in S : f[i] \in Int
    BY <2>1, FS_EmptySet
  <2>3. SumFunction([x \in S |-> f[x]]) = 0
    BY <2>2, SumFacts
  <2> QED
    BY <2>1, <2>3 DEF SumTo
<1>3. ASSUME NEW k \in 0..n PROVE SumTo(f, k) \in Int
  BY <1>1, SumFacts DEF SumTo
<1>4. ASSUME NEW k \in 1..n PROVE SumTo(f, k) = SumTo(f, k - 1) + f[k]
  <2>1. PICK S : S = 1..k
    OBVIOUS
  <2>2. IsFiniteSet(S) /\ (\A i \in S : f[i] \in Int) /\ k \in S /\ S \ {k} = 1..k - 1
    BY <1>1, <2>1
  <2>3. SumFunction([x \in S |-> f[x]]) = f[k] + SumFunction([x \in S \ {k} |-> f[x]])
    <3>1. PICK T : T = S \ {k}
      OBVIOUS
    <3>2. SumFunction([x \in S |-> f[x]]) = f[k] + SumFunction([x \in T |-> f[x]])
      BY <2>2, <3>1, OneMore
    <3> QED
      BY <3>1, <3>2
  <2>4. SumTo(f, k) = f[k] + SumTo(f, k - 1)
    BY <2>1, <2>2, <2>3 DEF SumTo
  <2>5. k - 1 \in 0..n /\ f[k] \in Int
    BY <2>2
  <2> QED
    BY <1>3, <2>4, <2>5
<1> QED
  BY <1>2, <1>3, <1>4

(* What is equal, or smaller, step by step is so in sum.                   *)
LEMMA SumsDiffer ==
  ASSUME NEW n \in Nat, NEW e, NEW f, NEW h,
         \A i \in 1..n : e[i] \in Int /\ f[i] \in Int /\ h[i] \in Int /\ e[i] = f[i] - h[i]
  PROVE  SumTo(e, n) = SumTo(f, n) - SumTo(h, n)
<1> DEFINE Q == {k \in 0..n : SumTo(e, k) = SumTo(f, k) - SumTo(h, k)}
<1>1. /\ SumTo(e, 0) = 0 /\ SumTo(f, 0) = 0 /\ SumTo(h, 0) = 0
      /\ \A k \in 0..n : SumTo(e, k) \in Int /\ SumTo(f, k) \in Int /\ SumTo(h, k) \in Int
      /\ \A k \in 1..n : /\ SumTo(e, k) = SumTo(e, k - 1) + e[k]
                         /\ SumTo(f, k) = SumTo(f, k - 1) + f[k]
                         /\ SumTo(h, k) = SumTo(h, k - 1) + h[k]
  BY SumToFacts
<1>2. 0 \in Q
  BY <1>1
<1>3. ASSUME NEW k \in 1..n, k - 1 \in Q PROVE k \in Q
  <2>1. k - 1 \in 0..n /\ k \in 0..n
    OBVIOUS
  <2>2. SumTo(e, k - 1) = SumTo(f, k - 1) - SumTo(h, k - 1)
    BY <1>3
  <2>3. SumTo(e, k) = SumTo(f, k) - SumTo(h, k)
    BY <1>1, <2>1, <2>2
  <2> QED
    BY <2>1, <2>3
<1>4. n \in Q
  <2>1. \A k \in 0..n : k \in Q
    <3> HIDE DEF Q
    <3> QED
      BY <1>2, <1>3, UpTo
  <2>2. n \in 0..n
    OBVIOUS
  <2> QED
    BY <2>1, <2>2
<1> QED
  BY <1>4

LEMMA SumsBounded ==
  ASSUME NEW n \in Nat, NEW e, NEW f, NEW c \in Int,
         \A i \in 1..n : e[i] \in Int /\ f[i] \in Int /\ e[i] <= c * f[i]
  PROVE  SumTo(e, n) <= c * SumTo(f, n)
<1> DEFINE Q == {k \in 0..n : SumTo(e, k) <= c * SumTo(f, k)}
<1>1. /\ SumTo(e, 0) = 0 /\ SumTo(f, 0) = 0
      /\ \A k \in 0..n : SumTo(e, k) \in Int /\ SumTo(f, k) \in Int
      /\ \A k \in 1..n : /\ SumTo(e, k) = SumTo(e, k - 1) + e[k]
                         /\ SumTo(f, k) = SumTo(f, k - 1) + f[k]
  BY SumToFacts
<1>2. 0 \in Q
  BY <1>1
<1>3. ASSUME NEW k \in 1..n, k - 1 \in Q PROVE k \in Q
  <2>1. k - 1 \in 0..n /\ k \in 0..n
    OBVIOUS
  <2>2. SumTo(e, k - 1) <= c * SumTo(f, k - 1)
    BY <1>3
  <2>3. PICK s \in Int, t \in Int, x \in Int, y \in Int :
          s = SumTo(e, k - 1) /\ t = SumTo(f, k - 1) /\ x = e[k] /\ y = f[k]
    BY <1>1, <2>1
  <2>4. s <= c * t /\ x <= c * y
    BY <2>2, <2>3
  <2>5. c * (t + y) = c * t + c * y /\ c * t \in Int /\ c * y \in Int
    OBVIOUS
  <2>6. s + x <= c * (t + y)
    BY <2>4, <2>5
  <2>7. SumTo(e, k) <= c * SumTo(f, k)
    BY <1>1, <2>3, <2>6
  <2> QED
    BY <2>1, <2>7
<1>4. n \in Q
  <2>1. \A k \in 0..n : k \in Q
    <3> HIDE DEF Q
    <3> QED
      BY <1>2, <1>3, UpTo
  <2>2. n \in 0..n
    OBVIOUS
  <2> QED
    BY <2>1, <2>2
<1> QED
  BY <1>4

-----------------------------------------------------------------------------
(* What blocks of given densities hold below an elevation.                 *)
IsStacked(blocks) ==
  /\ IsList(blocks) /\ StacksTo(blocks, Len(blocks))
  /\ \A i \in 1..Len(blocks) : blocks[i].zb \in Int /\ blocks[i].zt \in Int

(* The length of a block that lies below an elevation. *)
Clipped(b, z) == IF z <= b.zb THEN 0 ELSE IF z >= b.zt THEN b.zt - b.zb ELSE z - b.zb

Parts(blocks, d, z) == [i \in 1..Len(blocks) |-> d[i] * Clipped(blocks[i], z)]

Below(blocks, d, z) == SumTo(Parts(blocks, d, z), Len(blocks))

IsDense(held, d, blocks) ==
  \A i \in 1..Len(blocks) : d[i] \in Int /\ held[i] = d[i] * Height(blocks[i])

LEMMA LeastAndGreatest ==
  ASSUME NEW m \in Int, NEW n \in Int
  PROVE  /\ Least(m, n) \in Int /\ Greatest(m, n) \in Int
         /\ m < n => Least(m, n) = m /\ Greatest(m, n) = n
         /\ m = n => Least(m, n) = m /\ Greatest(m, n) = m
         /\ m > n => Least(m, n) = n /\ Greatest(m, n) = m
BY DEF Least, Greatest

LEMMA ClippedFacts ==
  ASSUME NEW b, b.zb \in Int, b.zt \in Int, b.zb <= b.zt, NEW z1 \in Int, NEW z2 \in Int, z1 <= z2
  PROVE  /\ Clipped(b, z1) \in Int /\ Clipped(b, z2) \in Int /\ Overlap(b, z1, z2) \in Int
         /\ Overlap(b, z1, z2) > 0 => Overlap(b, z1, z2) = Clipped(b, z2) - Clipped(b, z1) /\ Height(b) > 0
         /\ ~(Overlap(b, z1, z2) > 0) => Clipped(b, z2) = Clipped(b, z1)
<1>1. PICK p \in Int, q \in Int : p = b.zb /\ q = b.zt /\ p <= q
  OBVIOUS
<1>2. Overlap(b, z1, z2) = (IF q < z2 THEN q ELSE z2) - (IF p > z1 THEN p ELSE z1)
  BY <1>1 DEF Overlap, Least, Greatest
<1>3. /\ Clipped(b, z1) = IF z1 <= p THEN 0 ELSE IF z1 >= q THEN q - p ELSE z1 - p
      /\ Clipped(b, z2) = IF z2 <= p THEN 0 ELSE IF z2 >= q THEN q - p ELSE z2 - p
      /\ Height(b) = q - p
  BY <1>1 DEF Clipped, Height
<1> QED
  BY <1>1, <1>2, <1>3

LEMMA WholePortion ==
  ASSUME NEW d \in Int, NEW n \in Int, NEW h \in Int, h > 0
  PROVE  Portion(d * h, n, h) = d * n
<1>1. (d * h) * n = (d * n) * h
  OBVIOUS
<1>2. PICK x \in Int : x = d * n
  OBVIOUS
<1>3. (x * h) \div h = x
  <2>1. PICK q \in Int : q = (x * h) \div h
    OBVIOUS
  <2> QED
    OBVIOUS
<1> QED
  BY <1>1, <1>2, <1>3 DEF Portion

LEMMA PartsFacts ==
  ASSUME NEW blocks, IsStacked(blocks), NEW d, \A i \in 1..Len(blocks) : d[i] \in Int, NEW z \in Int
  PROVE  /\ Len(blocks) \in Nat
         /\ \A i \in 1..Len(blocks) :
              /\ Parts(blocks, d, z)[i] = d[i] * Clipped(blocks[i], z)
              /\ Clipped(blocks[i], z) \in Int /\ Parts(blocks, d, z)[i] \in Int
<1>1. Len(blocks) \in Nat
  BY DEF IsStacked, IsList
<1>2. ASSUME NEW i \in 1..Len(blocks) PROVE Clipped(blocks[i], z) \in Int
  <2>1. blocks[i].zb \in Int /\ blocks[i].zt \in Int
    BY DEF IsStacked
  <2> QED
    BY <2>1 DEF Clipped
<1> QED
  BY <1>1, <1>2 DEF Parts

LEMMA BelowIsInt ==
  ASSUME NEW blocks, IsStacked(blocks), NEW d, \A i \in 1..Len(blocks) : d[i] \in Int, NEW z \in Int
  PROVE  Below(blocks, d, z) \in Int
<1>1. PICK f : f = Parts(blocks, d, z)
  OBVIOUS
<1>2. Len(blocks) \in Nat /\ (\A i \in 1..Len(blocks) : f[i] \in Int) /\ Len(blocks) \in 0..Len(blocks)
  BY <1>1, PartsFacts
<1>3. SumTo(f, Len(blocks)) \in Int
  BY <1>2, SumToFacts
<1> QED
  BY <1>1, <1>3 DEF Below

(* What the parts of blocks hold between two elevations.                   *)
LEMMA BetweenElevations ==
  ASSUME NEW blocks, IsStacked(blocks), NEW d, NEW held, IsDense(held, d, blocks),
         NEW z1 \in Int, NEW z2 \in Int, z1 <= z2
  PROVE  FromOverlaps(blocks, z1, z2, held) = Below(blocks, d, z2) - Below(blocks, d, z1)
<1> DEFINE n == Len(blocks)
           S == 1..n
           T == BlocksBetween(blocks, z1, z2)
           share(i) == Portion(held[i], Overlap(blocks[i], z1, z2), Height(blocks[i]))
<1>1. n \in Nat /\ DOMAIN blocks = S
  BY DEF IsStacked, IsList
<1>2. IsFiniteSet(S) /\ T \in SUBSET S
  BY <1>1, FS_Interval DEF BlocksBetween
<1>3. ASSUME NEW i \in S
      PROVE  /\ blocks[i].zb \in Int /\ blocks[i].zt \in Int /\ blocks[i].zb <= blocks[i].zt
             /\ Height(blocks[i]) \in Int /\ d[i] \in Int /\ held[i] = d[i] * Height(blocks[i])
  BY DEF IsStacked, StacksTo, IsDense, Height
<1>4. PICK f : f = Parts(blocks, d, z2)
  OBVIOUS
<1>5. PICK h : h = Parts(blocks, d, z1)
  OBVIOUS
<1>6. PICK e : e = [i \in S |-> f[i] - h[i]]
  OBVIOUS
<1>7. ASSUME NEW i \in S
      PROVE  /\ f[i] = d[i] * Clipped(blocks[i], z2) /\ h[i] = d[i] * Clipped(blocks[i], z1)
             /\ f[i] \in Int /\ h[i] \in Int /\ e[i] \in Int /\ e[i] = f[i] - h[i]
  <2>1. \A k \in 1..Len(blocks) : d[k] \in Int
    BY <1>3
  <2>2. IsStacked(blocks) /\ z1 \in Int /\ z2 \in Int /\ i \in 1..Len(blocks)
    OBVIOUS
  <2>3. f[i] = d[i] * Clipped(blocks[i], z2) /\ f[i] \in Int
    BY ONLY <1>4, <2>1, <2>2, PartsFacts
  <2>4. h[i] = d[i] * Clipped(blocks[i], z1) /\ h[i] \in Int
    BY ONLY <1>5, <2>1, <2>2, PartsFacts
  <2>5. e[i] = f[i] - h[i]
    BY <1>6
  <2>6. e[i] \in Int
    BY ONLY <2>3, <2>4, <2>5
  <2> QED
    BY <2>3, <2>4, <2>5, <2>6
<1>8. ASSUME NEW i \in T PROVE share(i) = e[i]
  <2>1. i \in S /\ Overlap(blocks[i], z1, z2) > 0
    BY <1>2 DEF BlocksBetween
  <2>2. PICK a \in Int, b \in Int, v \in Int, k \in Int, x \in Int :
          /\ a = Clipped(blocks[i], z1) /\ b = Clipped(blocks[i], z2) /\ v = Overlap(blocks[i], z1, z2)
          /\ k = Height(blocks[i]) /\ x = d[i] /\ v = b - a /\ k > 0
    BY <1>3, <2>1, ClippedFacts
  <2>3. Portion(x * k, v, k) = x * v
    BY <2>2, WholePortion
  <2>4. share(i) = x * v
    BY <1>3, <2>1, <2>2, <2>3
  <2>5. x * v = x * b - x * a
    BY <2>2
  <2>6. e[i] = x * b - x * a
    BY <1>7, <2>1, <2>2
  <2> QED
    BY <2>4, <2>5, <2>6
<1>9. ASSUME NEW i \in S \ T PROVE e[i] = 0
  <2>1. ~(Overlap(blocks[i], z1, z2) > 0)
    BY <1>1 DEF BlocksBetween
  <2>2. Clipped(blocks[i], z2) = Clipped(blocks[i], z1)
    BY <1>3, <2>1, ClippedFacts
  <2>3. f[i] = h[i]
    BY <1>7, <2>2
  <2> QED
    BY <1>7, <2>3
<1>10. FromOverlaps(blocks, z1, z2, held) = SumFunction([i \in T |-> e[i]])
  <2>1. [i \in T |-> share(i)] = [i \in T |-> e[i]]
    BY <1>8
  <2> QED
    BY <2>1 DEF FromOverlaps
<1>11. SumFunction([i \in T |-> e[i]]) = SumFunction([i \in S |-> e[i]])
  <2> HIDE DEF S, T
  <2>1. (\A x \in S : e[x] \in Int) /\ \A x \in S \ T : e[x] = 0
    BY <1>7, <1>9
  <2>2. IsFiniteSet(S) /\ T \in SUBSET S
    BY <1>2
  <2> QED
    BY ONLY <2>1, <2>2, ZerosAdded, ZenonT(30)
<1>12. SumTo(e, n) = SumTo(f, n) - SumTo(h, n)
  <2>1. n \in Nat /\ \A i \in 1..n : e[i] \in Int /\ f[i] \in Int /\ h[i] \in Int /\ e[i] = f[i] - h[i]
    BY <1>1, <1>7
  <2> HIDE DEF n
  <2> QED
    BY ONLY <2>1, SumsDiffer
<1> QED
  BY <1>4, <1>5, <1>10, <1>11, <1>12 DEF Below, SumTo

(* Nothing is below the bottom; below the top of a block is what it and    *)
(* those under it hold.                                                    *)
LEMMA NothingBelow ==
  ASSUME NEW blocks, IsStacked(blocks), NEW d, \A i \in 1..Len(blocks) : d[i] \in Int
  PROVE  Below(blocks, d, 0) = 0
<1> DEFINE n == Len(blocks)
<1>1. n \in Nat
  BY DEF IsStacked, IsList
<1>2. PICK f : f = Parts(blocks, d, 0)
  OBVIOUS
<1>3. ASSUME NEW i \in 1..n PROVE f[i] = 0
  <2>1. i \in 1..Len(blocks) /\ 0 \in Int
    OBVIOUS
  <2>2. f[i] = d[i] * Clipped(blocks[i], 0)
    BY <1>2, <2>1, PartsFacts
  <2>3. blocks[i].zb \in Int /\ 0 <= blocks[i].zb
    <3>1. \A k \in 1..n : blocks[k].zb \in Int /\ blocks[k].zt \in Int /\ blocks[k].zb = StartOf(blocks, k) /\ blocks[k].zb <= blocks[k].zt
      BY DEF IsStacked, StacksTo
    <3> DEFINE Q == {k \in 0..n : k > 0 => blocks[k].zb >= 0 /\ blocks[k].zt >= 0}
    <3>2. 0 \in Q
      BY <1>1
    <3>3. ASSUME NEW k \in 1..n, k - 1 \in Q PROVE k \in Q
      <4>1. k \in 0..n /\ (k # 1 => k - 1 > 0 /\ k - 1 \in 1..n)
        BY <1>1
      <4>2. k # 1 => blocks[k].zb = blocks[k - 1].zt /\ blocks[k - 1].zt >= 0
        BY <3>1, <3>3, <4>1 DEF StartOf
      <4>3. k = 1 => blocks[k].zb = 0
        BY <3>1 DEF StartOf
      <4> QED
        BY <3>1, <4>1, <4>2, <4>3
    <3>4. \A k \in 0..n : k \in Q
      <4> HIDE DEF Q, n
      <4> QED
        BY <1>1, <3>2, <3>3, UpTo
    <3>5. i \in 0..n /\ i > 0
      BY <1>1
    <3> QED
      BY <3>1, <3>4, <3>5
  <2>4. Clipped(blocks[i], 0) = 0 /\ d[i] \in Int
    BY <2>3 DEF Clipped
  <2> QED
    BY <2>2, <2>4
<1>4. SumTo(f, n) = 0
  <2>1. PICK h : h = [i \in 1..n |-> 0]
    OBVIOUS
  <2>2. n \in Nat /\ \A i \in 1..n : f[i] \in Int /\ h[i] \in Int /\ f[i] = f[i] - h[i] /\ h[i] = f[i] - f[i]
    BY <1>1, <1>3, <2>1
  <2> HIDE DEF n
  <2>3. SumTo(h, n) = SumTo(f, n) - SumTo(f, n) /\ n \in 0..n
    <3>1. \A i \in 1..n : h[i] \in Int /\ f[i] \in Int /\ f[i] \in Int /\ h[i] = f[i] - f[i]
      BY <2>2
    <3>2. SumTo(h, n) = SumTo(f, n) - SumTo(f, n)
      BY ONLY <2>2, <3>1, SumsDiffer
    <3> QED
      BY <2>2, <3>2
  <2>4. SumTo(f, n) \in Int /\ SumTo(h, n) \in Int
    BY <2>2, <2>3, SumToFacts
  <2>5. SumTo(f, n) = SumTo(h, n)
    BY <1>3, <2>1, SameSum DEF SumTo
  <2> QED
    BY <2>3, <2>4, <2>5
<1> QED
  BY <1>2, <1>4 DEF Below

LEMMA StackedRise ==
  ASSUME NEW a, IsStacked(a)
  PROVE  \A i, j \in 1..Len(a) : i <= j => a[i].zt <= a[j].zt
<1> DEFINE n == Len(a)
<1>1. n \in Nat /\ \A k \in 1..n : a[k].zt \in Int /\ a[k].zb = StartOf(a, k) /\ a[k].zb <= a[k].zt
  BY DEF IsStacked, StacksTo, IsList
<1>2. PICK f : f = [i \in 1..n |-> a[i].zt]
  OBVIOUS
<1>3. ASSUME NEW i \in 1..n - 1 PROVE f[i] <= f[i + 1]
  <2>1. i \in 1..n /\ i + 1 \in 1..n /\ i + 1 # 1 /\ (i + 1) - 1 = i
    BY <1>1
  <2>2. a[i + 1].zb = a[i].zt /\ a[i + 1].zb <= a[i + 1].zt
    BY <1>1, <2>1 DEF StartOf
  <2> QED
    BY <1>2, <2>1, <2>2
<1>4. \A i \in 1..n : f[i] \in Int
  BY <1>1, <1>2
<1>5. \A i, j \in 1..n : i <= j => f[i] <= f[j]
  <2> HIDE DEF n
  <2> QED
    BY <1>1, <1>3, <1>4, Increasing
<1> QED
  BY <1>2, <1>5

LEMMA BelowTop ==
  ASSUME NEW blocks, IsStacked(blocks), NEW d, NEW held, IsDense(held, d, blocks), NEW i \in 1..Len(blocks)
  PROVE  Below(blocks, d, blocks[i].zt) = SumFunction([j \in 1..i |-> held[j]])
<1> DEFINE n == Len(blocks)
<1>1. n \in Nat /\ \A k \in 1..n : /\ blocks[k].zt \in Int /\ blocks[k].zb \in Int
                                   /\ blocks[k].zb = StartOf(blocks, k) /\ blocks[k].zb <= blocks[k].zt
  BY DEF IsStacked, StacksTo, IsList
<1>2. \A k \in 1..n : d[k] \in Int /\ held[k] = d[k] * Height(blocks[k])
  BY DEF IsDense
<1>3. PICK z \in Int : z = blocks[i].zt
  BY <1>1
<1>4. PICK f : f = Parts(blocks, d, z)
  OBVIOUS
<1>5. \A k \in 1..n : f[k] = d[k] * Clipped(blocks[k], z) /\ f[k] \in Int
  <2>1. \A k \in 1..Len(blocks) : d[k] \in Int
    BY <1>2
  <2>2. IsStacked(blocks) /\ z \in Int
    OBVIOUS
  <2>3. \A k \in 1..Len(blocks) :
          /\ Parts(blocks, d, z)[k] = d[k] * Clipped(blocks[k], z)
          /\ Clipped(blocks[k], z) \in Int /\ Parts(blocks, d, z)[k] \in Int
    BY ONLY <2>1, <2>2, PartsFacts
  <2> QED
    BY <1>4, <2>3
<1>6. \A j, k \in 1..n : j <= k => blocks[j].zt <= blocks[k].zt
  BY StackedRise
<1>7. ASSUME NEW j \in 1..i PROVE f[j] = held[j]
  <2>1. j \in 1..n /\ blocks[j].zt <= z
    BY <1>1, <1>3, <1>6
  <2>2. Clipped(blocks[j], z) = Height(blocks[j])
    BY <1>1, <2>1 DEF Clipped, Height
  <2> QED
    BY <1>2, <1>5, <2>1, <2>2
<1>8. ASSUME NEW j \in (1..n) \ (1..i) PROVE f[j] = 0
  <2>1. j \in 1..n /\ j - 1 \in 1..n /\ i <= j - 1 /\ j # 1
    BY <1>1
  <2>2. z <= blocks[j].zb
    BY <1>1, <1>3, <1>6, <2>1 DEF StartOf
  <2>3. Clipped(blocks[j], z) = 0
    BY <2>2 DEF Clipped
  <2> QED
    BY <1>2, <1>5, <2>1, <2>3
<1>9. PICK S, T : S = 1..n /\ T = 1..i
  OBVIOUS
<1>10. IsFiniteSet(S) /\ T \in SUBSET S
  BY <1>1, <1>9, FS_Interval
<1>11. (\A x \in S : f[x] \in Int) /\ (\A x \in S \ T : f[x] = 0) /\ \A x \in T : f[x] = held[x]
  BY <1>5, <1>7, <1>8, <1>9
<1>12. SumFunction([x \in T |-> f[x]]) = SumFunction([x \in S |-> f[x]])
  <2>1. (\A x \in S : f[x] \in Int) /\ \A x \in S \ T : f[x] = 0
    BY ONLY <1>11
  <2> QED
    BY ONLY <1>10, <2>1, ZerosAdded, ZenonT(30)
<1>13. SumFunction([x \in T |-> f[x]]) = SumFunction([x \in T |-> held[x]])
  BY ONLY <1>11, SameSum
<1> QED
  BY <1>3, <1>4, <1>9, <1>12, <1>13 DEF Below, SumTo

(* What the blocks of another mesh get adds up to what is below them.      *)
LEMMA Telescoped ==
  ASSUME NEW blocks, IsStacked(blocks), NEW d, NEW held, IsDense(held, d, blocks),
         NEW u, IsStacked(u), NEW got,
         \A k \in 1..Len(u) : got[k] = FromOverlaps(blocks, u[k].zb, u[k].zt, held)
  PROVE  \A k \in 1..Len(u) : /\ got[k] \in Int
                              /\ SumFunction([j \in 1..k |-> got[j]]) = Below(blocks, d, u[k].zt)
<1> DEFINE n == Len(u)
           B(z) == Below(blocks, d, z)
<1>1. n \in Nat /\ \A k \in 1..n : /\ u[k].zt \in Int /\ u[k].zb \in Int
                                   /\ u[k].zb = StartOf(u, k) /\ u[k].zb <= u[k].zt
  BY DEF IsStacked, StacksTo, IsList
<1>2. \A i \in 1..Len(blocks) : d[i] \in Int
  BY DEF IsDense
<1>3. (\A z \in Int : B(z) \in Int) /\ B(0) = 0
  BY <1>2, BelowIsInt, NothingBelow
<1>4. ASSUME NEW k \in 1..n PROVE got[k] = B(u[k].zt) - B(u[k].zb) /\ got[k] \in Int
  <2>1. PICK p \in Int, q \in Int : p = u[k].zb /\ q = u[k].zt /\ p <= q
    BY <1>1
  <2>2. FromOverlaps(blocks, p, q, held) = Below(blocks, d, q) - Below(blocks, d, p)
    BY <2>1, BetweenElevations
  <2>3. got[k] = FromOverlaps(blocks, p, q, held)
    BY <2>1
  <2>4. B(p) \in Int /\ B(q) \in Int /\ got[k] = B(q) - B(p)
    BY <1>3, <2>1, <2>2, <2>3
  <2> HIDE DEF B
  <2> QED
    BY <2>1, <2>4
<1> HIDE DEF B
<1>5. \A k \in 1..n : SumTo(got, k) = SumTo(got, k - 1) + got[k]
  <2> HIDE DEF n
  <2> QED
    BY <1>1, <1>4, SumToFacts
<1>6. SumTo(got, 0) = 0
  <2> HIDE DEF n
  <2> QED
    BY <1>1, <1>4, SumToFacts
<1> DEFINE Q == {k \in 0..n : SumTo(got, k) = IF k = 0 THEN 0 ELSE B(u[k].zt)}
<1>7. 0 \in Q
  BY <1>1, <1>6
<1>8. ASSUME NEW k \in 1..n, k - 1 \in Q PROVE k \in Q
  <2>1. k \in 0..n /\ k # 0 /\ (k # 1 => k - 1 # 0 /\ k - 1 \in 1..n)
    BY <1>1
  <2>2. SumTo(got, k - 1) = B(u[k].zb)
    <3>1. CASE k = 1
      <4>1. u[k].zb = 0 /\ SumTo(got, k - 1) = 0
        BY <1>1, <1>6, <3>1 DEF StartOf
      <4> QED
        BY <1>3, <4>1
    <3>2. CASE k # 1
      <4>1. u[k].zb = u[k - 1].zt
        BY <1>1, <3>2 DEF StartOf
      <4>2. SumTo(got, k - 1) = B(u[k - 1].zt)
        BY <1>8, <2>1, <3>2
      <4> QED
        BY <4>1, <4>2
    <3> QED
      BY <3>1, <3>2
  <2>3. B(u[k].zb) \in Int /\ B(u[k].zt) \in Int
    BY <1>1, <1>3
  <2>4. SumTo(got, k) = B(u[k].zt)
    BY <1>4, <1>5, <2>2, <2>3
  <2> QED
    BY <2>1, <2>4
<1>9. \A k \in 0..n : k \in Q
  <2> HIDE DEF Q, n
  <2> QED
    BY <1>1, <1>7, <1>8, UpTo
<1>10. ASSUME NEW k \in 1..n PROVE SumTo(got, k) = B(u[k].zt)
  <2>1. k \in 0..n /\ k # 0
    BY <1>1
  <2> QED
    BY <1>9, <2>1
<1> QED
  BY <1>4, <1>10 DEF B, SumTo

-----------------------------------------------------------------------------
(* The unit of mass is such that in every block each material has a whole  *)
(* number of them per unit of height.                                      *)
WholeDensities(a) ==
  \A i \in 1..Len(a), m \in Materials : \E d \in Int : MassIn(a[i], m) = d * Height(a[i])

MassesIn(a, m) == [i \in DOMAIN a |-> MassIn(a[i], m)]

(* The blocks u have the atoms that overlap them in those of a.            *)
Represents(a, u) ==
  /\ IsStacked(u) /\ Len(u) >= 1
  /\ \A k \in 1..Len(u) :
       /\ DOMAIN u[k] = UniformFields
       /\ \A m \in Materials : u[k].atoms[m] = FromOverlaps(a, u[k].zb, u[k].zt, MassesIn(a, m))

LEMMA AtomsFollow ==
  ASSUME NEW a, IsStacked(a), WholeDensities(a), NEW u, Represents(a, u)
  PROVE  SameAtoms(a, u)
<1>1. Len(a) \in Nat /\ DOMAIN a = 1..Len(a) /\ Len(u) \in Nat /\ DOMAIN u = 1..Len(u)
  BY DEF IsStacked, IsList, Represents
<1> SUFFICES ASSUME NEW i \in 1..Len(a), NEW k \in 1..Len(u), a[i].zt = u[k].zt, NEW m \in Materials
             PROVE  SumFunction([j \in 1..i |-> MassIn(a[j], m)]) = SumFunction([j \in 1..k |-> u[j].atoms[m]])
  BY <1>1 DEF SameAtoms
<1>2. PICK held : held = MassesIn(a, m)
  OBVIOUS
<1>3. PICK d : d = [j \in 1..Len(a) |-> CHOOSE x \in Int : MassIn(a[j], m) = x * Height(a[j])]
  OBVIOUS
<1>4. IsDense(held, d, a)
  <2>1. ASSUME NEW j \in 1..Len(a) PROVE d[j] \in Int /\ held[j] = d[j] * Height(a[j])
    <3>1. \E x \in Int : MassIn(a[j], m) = x * Height(a[j])
      BY DEF WholeDensities
    <3>2. d[j] \in Int /\ MassIn(a[j], m) = d[j] * Height(a[j])
      BY <1>3, <3>1
    <3> QED
      BY <1>1, <1>2, <3>2 DEF MassesIn
  <2> QED
    BY <2>1 DEF IsDense
<1>5. PICK got : got = [j \in 1..Len(u) |-> u[j].atoms[m]]
  OBVIOUS
<1>6. \A j \in 1..Len(u) : got[j] = FromOverlaps(a, u[j].zb, u[j].zt, held)
  BY <1>2, <1>5 DEF Represents
<1>7. IsStacked(u)
  BY DEF Represents
<1>8. SumFunction([j \in 1..k |-> got[j]]) = Below(a, d, u[k].zt)
  BY <1>4, <1>6, <1>7, Telescoped
<1>9. Below(a, d, a[i].zt) = SumFunction([j \in 1..i |-> held[j]])
  BY <1>4, BelowTop
<1>10. [j \in 1..k |-> got[j]] = [j \in 1..k |-> u[j].atoms[m]]
  BY <1>1, <1>5
<1>11. [j \in 1..i |-> held[j]] = [j \in 1..i |-> MassIn(a[j], m)]
  BY <1>1, <1>2 DEF MassesIn
<1> QED
  BY <1>8, <1>9, <1>10, <1>11

(* Where every cell overlaps a block the mesh rises.                       *)
LEMMA CoveredRises ==
  ASSUME NEW a, IsStacked(a), NEW tops, IsMesh(tops), Covers(a, tops)
  PROVE  \A k \in 1..Len(tops) : Bottom(tops, k) \in Int /\ Bottom(tops, k) < tops[k]
<1>1. Len(tops) \in Nat /\ DOMAIN tops = 1..Len(tops) /\ DOMAIN a = 1..Len(a)
  BY DEF IsMesh, IsList, IsStacked
<1> SUFFICES ASSUME NEW k \in 1..Len(tops) PROVE Bottom(tops, k) \in Int /\ Bottom(tops, k) < tops[k]
  OBVIOUS
<1>2. k # 1 => k - 1 \in 1..Len(tops)
  BY <1>1
<1>3. PICK z1 \in Int, z2 \in Int : z1 = Bottom(tops, k) /\ z2 = tops[k]
  BY <1>2 DEF Bottom, IsMesh
<1>4. BlocksBetween(a, z1, z2) # {}
  BY <1>1, <1>3 DEF Covers
<1>5. PICK i \in 1..Len(a) : Overlap(a[i], z1, z2) > 0
  BY <1>1, <1>4 DEF BlocksBetween
<1>6. PICK p \in Int, q \in Int : p = a[i].zb /\ q = a[i].zt
  BY DEF IsStacked
<1>7. Overlap(a[i], z1, z2) = (IF q < z2 THEN q ELSE z2) - (IF p > z1 THEN p ELSE z1)
  BY <1>6 DEF Overlap, Least, Greatest
<1>8. z1 < z2
  BY <1>5, <1>7
<1> QED
  BY <1>3, <1>8

LEMMA UniformRepresents ==
  ASSUME NEW a, DOMAIN a = AssemblyFields, IsStacked(a.blocks), NEW tops, IsMesh(tops), Len(tops) >= 1,
         Covers(a.blocks, tops), NEW b, b = Uniform(a, tops)
  PROVE  Represents(a.blocks, b.blocks)
<1> DEFINE n == Len(tops)
           held(k) == [m \in Materials |->
                   FromOverlaps(a.blocks, Bottom(tops, k), tops[k],
                                [i \in DOMAIN a.blocks |-> MassIn(a.blocks[i], m)])]
           new == [k \in DOMAIN tops |->
     [zb |-> Bottom(tops, k), zt |-> tops[k], power |-> 0, peak |-> 0, atoms |-> held(k)]]
<1>1. n \in Nat /\ DOMAIN tops = 1..n
  BY DEF IsMesh, IsList
<1>2. b = [a EXCEPT !.uniform = TRUE, !.moves = 1, !.blocks = new]
  BY DEF Uniform
<1>3. PICK x : x = new
  OBVIOUS
<1> HIDE DEF held
<1>4. x = [k \in 1..n |->
     [zb |-> Bottom(tops, k), zt |-> tops[k], power |-> 0, peak |-> 0, atoms |-> held(k)]]
  BY <1>1, <1>3
<1>5. b = [a EXCEPT !.uniform = TRUE, !.moves = 1, !.blocks = x]
  BY <1>2, <1>3
<1> HIDE DEF new
<1>6. b.blocks = x
  BY <1>5 DEF AssemblyFields
<1>7. Len(x) = n /\ IsList(x)
  BY <1>1, <1>4, LenOf
<1>8. ASSUME NEW k \in 1..n
      PROVE  /\ DOMAIN x[k] = UniformFields /\ x[k].atoms = held(k)
             /\ x[k].zt = tops[k] /\ x[k].zb = Bottom(tops, k)
  BY <1>4 DEF UniformFields
<1>9. ASSUME NEW k \in 1..n
      PROVE  x[k].zt \in Int /\ x[k].zb \in Int /\ x[k].zb = StartOf(x, k) /\ x[k].zb <= x[k].zt
  <2>1. Bottom(tops, k) \in Int /\ tops[k] \in Int /\ Bottom(tops, k) < tops[k]
    <3>1. \A j \in 1..Len(tops) : Bottom(tops, j) \in Int /\ Bottom(tops, j) < tops[j]
      BY CoveredRises
    <3> QED
      BY <3>1 DEF IsMesh
  <2>2. k # 1 => k - 1 \in 1..n
    BY <1>1
  <2>3. x[k].zb = StartOf(x, k)
    BY <1>8, <2>2 DEF Bottom, StartOf
  <2> QED
    BY <1>8, <2>1, <2>3
<1>10. IsStacked(x)
  BY <1>7, <1>9 DEF IsStacked, StacksTo
<1>11. ASSUME NEW k \in 1..n, NEW m \in Materials
       PROVE  x[k].atoms[m] = FromOverlaps(a.blocks, x[k].zb, x[k].zt, MassesIn(a.blocks, m))
  <2>1. x[k].atoms[m] = FromOverlaps(a.blocks, Bottom(tops, k), tops[k], MassesIn(a.blocks, m))
    BY <1>8 DEF held, MassesIn
  <2> QED
    BY <1>8, <2>1
<1> QED
  BY <1>6, <1>7, <1>8, <1>10, <1>11 DEF Represents

(* Results do not change the atoms.                                        *)
LEMMA RedoneRepresents ==
  ASSUME NEW a, NEW u, Represents(a, u), NEW v, Redone(u, v)
  PROVE  Represents(a, v)
<1>1. IsList(v) /\ Len(v) = Len(u) /\ Len(u) \in Nat
  BY DEF Redone, Represents, IsStacked, IsList
<1>2. ASSUME NEW k \in 1..Len(u)
      PROVE  DOMAIN v[k] = UniformFields /\ v[k].zb = u[k].zb /\ v[k].zt = u[k].zt /\ v[k].atoms = u[k].atoms
  <2>1. DOMAIN u[k] = UniformFields
    BY DEF Represents
  <2>2. DOMAIN v[k] = DOMAIN u[k] /\ \A f \in DOMAIN u[k] \ {"power", "peak"} : v[k][f] = u[k][f]
    BY DEF Redone
  <2>3. {"zb", "zt", "atoms"} \subseteq DOMAIN u[k] \ {"power", "peak"}
    BY <2>1 DEF UniformFields
  <2> QED
    BY <2>1, <2>2, <2>3
<1>3. IsStacked(v)
  <2>1. \A k \in 1..Len(u) : k # 1 => k - 1 \in 1..Len(u)
    BY <1>1
  <2>2. ASSUME NEW k \in 1..Len(u)
        PROVE  v[k].zb \in Int /\ v[k].zt \in Int /\ v[k].zb = StartOf(v, k) /\ v[k].zb <= v[k].zt
    <3>1. u[k].zb \in Int /\ u[k].zt \in Int /\ u[k].zb = StartOf(u, k) /\ u[k].zb <= u[k].zt
      BY DEF Represents, IsStacked, StacksTo
    <3>2. StartOf(v, k) = StartOf(u, k)
      BY <1>2, <2>1 DEF StartOf
    <3> QED
      BY <1>2, <3>1, <3>2
  <2> QED
    BY <1>1, <2>2 DEF IsStacked, StacksTo
<1>4. \A k \in 1..Len(u), m \in Materials :
         v[k].atoms[m] = FromOverlaps(a, v[k].zb, v[k].zt, MassesIn(a, m))
  BY <1>2 DEF Represents
<1> QED
  BY <1>1, <1>2, <1>3, <1>4 DEF Represents

-----------------------------------------------------------------------------
(* Meshes as sets of points, and the points in order.                      *)
LEMMA ImageIsFinite ==
  ASSUME NEW S, IsFiniteSet(S), NEW f
  PROVE  IsFiniteSet({f[x] : x \in S})
<1>1. PICK T : T = {f[x] : x \in S}
  OBVIOUS
<1>2. PICK g : g = [x \in S |-> f[x]]
  OBVIOUS
<1>3. g \in Surjection(S, T)
  BY <1>1, <1>2 DEF Surjection
<1>4. IsFiniteSet(T)
  BY ONLY <1>3, IsFiniteSet(S), FS_Surjection
<1> QED
  BY <1>1, <1>4

LEMMA LeastOfPoints ==
  ASSUME NEW S, IsFiniteSet(S), S \subseteq Int
  PROVE  S # {} => Min(S) \in S /\ \A y \in S : Min(S) <= y
<1> DEFINE D == SUBSET S
           Q == {T \in D : T # {} => \E x \in T : \A y \in T : x <= y}
<1>1. PICK r \in [D -> Nat] : \A T \in D : \A x \in T : r[T \ {x}] < r[T]
  BY SizesShrink
<1>2. ASSUME NEW T \in D, \A U \in D : r[U] < r[T] => U \in Q PROVE T \in Q
  <2> SUFFICES ASSUME T # {} PROVE \E x \in T : \A y \in T : x <= y
    OBVIOUS
  <2>1. PICK z \in T : TRUE
    OBVIOUS
  <2>2. T \ {z} \in Q /\ z \in Int /\ T \subseteq Int
    BY <1>1, <1>2
  <2>3. CASE T \ {z} = {}
    BY <2>2, <2>3
  <2>4. CASE T \ {z} # {}
    <3>1. PICK x \in T \ {z} : \A y \in T \ {z} : x <= y
      BY <2>2, <2>4
    <3>2. CASE x <= z
      BY <3>1, <3>2
    <3>3. CASE ~(x <= z)
      <4>1. \A y \in T : z <= y
        BY <2>2, <3>1, <3>3
      <4> QED
        BY <4>1
    <3> QED
      BY <3>2, <3>3
  <2> QED
    BY <2>3, <2>4
<1>3. D \subseteq Q
  <2> HIDE DEF D, Q
  <2> QED
    BY <1>1, <1>2, RankInduction
<1>4. S # {} => \E x \in S : \A y \in S : x <= y
  BY <1>3
<1> QED
  BY <1>4 DEF Min

LEMMA GreatestOfPoints ==
  ASSUME NEW S, IsFiniteSet(S), S \subseteq Int
  PROVE  S # {} => Max(S) \in S /\ \A y \in S : Max(S) >= y
<1>1. PICK f : f = [x \in S |-> -x]
  OBVIOUS
<1>2. PICK T : T = {f[x] : x \in S}
  OBVIOUS
<1>3. IsFiniteSet(T) /\ T \subseteq Int
  BY <1>1, <1>2, ImageIsFinite
<1>4. ASSUME S # {} PROVE \E x \in S : \A y \in S : x >= y
  <2>1. T # {}
    BY <1>2, <1>4
  <2>2. PICK t \in T : \A y \in T : t <= y
    BY <1>3, <2>1, LeastOfPoints
  <2>3. PICK x \in S : t = f[x]
    BY <1>2
  <2>4. ASSUME NEW y \in S PROVE x >= y
    <3>1. t <= f[y] /\ f[y] = -y /\ t = -x /\ x \in Int /\ y \in Int
      BY <1>1, <1>2, <2>2, <2>3
    <3> QED
      BY <3>1
  <2> QED
    BY <2>4
<1> QED
  BY <1>4 DEF Max

Ordered(order, points) ==
  order = [S \in SUBSET points |->
             IF S = {} THEN << >> ELSE <<Min(S)>> \o order[S \ {Min(S)}]]

LEMMA OrderExists ==
  ASSUME NEW points, IsFiniteSet(points), points \subseteq Int
  PROVE  \E order : Ordered(order, points)
<1> DEFINE D == SUBSET points
           V == Seq(points)
<1>1. PICK r \in [D -> Nat] : \A T \in D : \A x \in T : r[T \ {x}] < r[T]
  BY SizesShrink
<1>2. PICK base : base = [S \in D |-> << >>]
  OBVIOUS
<1>3. PICK next : next = [S \in D |-> S \ {Min(S)}]
  OBVIOUS
<1>4. PICK op : op = [S \in D |-> [v \in V |-> IF S = {} THEN << >> ELSE <<Min(S)>> \o v]]
  OBVIOUS
<1>5. ASSUME NEW S \in D, S # {} PROVE Min(S) \in S /\ Min(S) \in points
  <2>1. IsFiniteSet(S) /\ S \subseteq Int
    BY FS_Subset
  <2> QED
    BY <1>5, <2>1, LeastOfPoints
<1>6. base \in [D -> V]
  BY <1>2
<1>7. op \in [D -> [V -> V]]
  <2>1. ASSUME NEW S \in D, NEW v \in V PROVE (IF S = {} THEN << >> ELSE <<Min(S)>> \o v) \in V
    <3>1. CASE S = {}
      BY <3>1
    <3>2. CASE S # {}
      BY <1>5, <3>2
    <3> QED
      BY <3>1, <3>2
  <2> HIDE DEF D, V
  <2> QED
    BY <1>4, <2>1
<1>8. PICK stop : stop = {{}}
  OBVIOUS
<1>9. PICK g : g \in [D -> V] /\ \A S \in D : g[S] = IF S \in stop THEN base[S] ELSE op[S][g[next[S]]]
  <2>1. \A S \in D \ stop : next[S] \in D /\ r[next[S]] < r[S]
    BY <1>1, <1>3, <1>5, <1>8
  <2>2. Recursion(D, r, stop, V, base, next, op)
    BY <1>6, <1>7, <2>1 DEF Recursion
  <2>3. \E g : FoundBy(g, D, stop, V, base, next, op)
    BY ONLY <2>2, RecursionExists
  <2> QED
    BY <2>3 DEF FoundBy
<1>10. ASSUME NEW S \in D PROVE g[S] = IF S = {} THEN << >> ELSE <<Min(S)>> \o g[S \ {Min(S)}]
  <2>1. CASE S = {}
    BY <1>2, <1>8, <1>9, <2>1
  <2>2. CASE S # {}
    <3>1. next[S] = S \ {Min(S)} /\ next[S] \in D
      BY <1>3
    <3>2. g[next[S]] \in V
      BY <1>9, <3>1
    <3>3. op[S][g[next[S]]] = <<Min(S)>> \o g[next[S]]
      BY <1>4, <2>2, <3>2
    <3> QED
      BY <1>8, <1>9, <2>2, <3>1, <3>3
  <2> QED
    BY <2>1, <2>2
<1>11. g = [S \in D |-> g[S]]
  BY <1>9
<1>12. g = [S \in D |-> IF S = {} THEN << >> ELSE <<Min(S)>> \o g[S \ {Min(S)}]]
  BY <1>10, <1>11
<1> QED
  BY <1>12 DEF Ordered

LEMMA InOrderFacts ==
  ASSUME NEW points, IsFiniteSet(points), points \subseteq Int
  PROVE  LET list == InOrder(points)
         IN  /\ list \in Seq(points)
             /\ points # {} => Len(list) >= 1 /\ \A x \in points : x <= list[Len(list)]
<1> DEFINE D == SUBSET points
<1>1. PICK order : order = CHOOSE o : Ordered(o, points)
  OBVIOUS
<1>2. Ordered(order, points)
  BY <1>1, OrderExists
<1>3. InOrder(points) = order[points]
  BY <1>1 DEF InOrder, Ordered
<1>4. \A S \in D : order[S] = IF S = {} THEN << >> ELSE <<Min(S)>> \o order[S \ {Min(S)}]
  BY <1>2 DEF Ordered
<1>5. PICK r \in [D -> Nat] : \A T \in D : \A x \in T : r[T \ {x}] < r[T]
  BY SizesShrink
<1> DEFINE Ends(S, list) ==
             /\ list \in Seq(points)
             /\ S # {} => Len(list) >= 1 /\ \A x \in S : x <= list[Len(list)]
           Q == {S \in D : Ends(S, order[S])}
<1>6. ASSUME NEW S \in D, \A U \in D : r[U] < r[S] => U \in Q PROVE S \in Q
  <2>1. CASE S = {}
    <3>1. order[S] = << >>
      BY <1>4, <2>1
    <3>2. << >> \in Seq(points)
      OBVIOUS
    <3> QED
      BY <2>1, <3>1, <3>2
  <2>2. CASE S # {}
    <3>1. IsFiniteSet(S) /\ S \subseteq Int
      BY FS_Subset
    <3>2. PICK m : m = Min(S)
      OBVIOUS
    <3>3. m \in S /\ (\A y \in S : m <= y) /\ m \in points
      BY <2>2, <3>1, <3>2, LeastOfPoints
    <3>4. PICK T : T = S \ {m}
      OBVIOUS
    <3>5. T \in D /\ r[T] < r[S]
      BY <1>5, <3>3, <3>4
    <3>6. PICK list : list = order[T]
      OBVIOUS
    <3>7. Ends(T, list)
      BY <1>6, <3>5, <3>6
    <3>8. order[S] = <<m>> \o list
      BY <1>4, <2>2, <3>2, <3>4, <3>6
    <3>9. PICK new : new = <<m>> \o list
      OBVIOUS
    <3>10. /\ new \in Seq(points) /\ Len(new) = Len(list) + 1 /\ Len(list) \in Nat
           /\ new[1] = m /\ \A i \in 1..Len(list) : new[i + 1] = list[i]
      BY <3>3, <3>7, <3>9
    <3>11. ASSUME NEW x \in S PROVE x <= new[Len(new)]
      <4>1. CASE T = {}
        <5>1. order[T] = << >>
          BY <1>4, <3>5, <4>1
        <5>2. Len(list) = 0 /\ x = m
          BY <3>4, <3>6, <4>1, <5>1
        <5> QED
          BY <3>1, <3>10, <5>2
      <4>2. CASE T # {}
        <5>1. Len(list) >= 1 /\ \A y \in T : y <= list[Len(list)]
          BY <3>7, <4>2
        <5>2. new[Len(new)] = list[Len(list)] /\ list[Len(list)] \in Int
          <6>1. Len(list) \in 1..Len(list)
            BY <3>10, <5>1
          <6>2. list[Len(list)] \in points
            BY <3>7, <6>1
          <6> QED
            BY <3>10, <6>1, <6>2
        <5>3. CASE x \in T
          BY <5>1, <5>2, <5>3
        <5>4. CASE x \notin T
          <6>1. x = m
            BY <3>4, <5>4
          <6>2. PICK y \in T : TRUE
            BY <4>2
          <6>3. m <= y /\ y <= list[Len(list)] /\ y \in Int /\ m \in Int
            BY <3>1, <3>3, <3>4, <5>1
          <6> QED
            BY <5>2, <6>1, <6>3
        <5> QED
          BY <5>3, <5>4
      <4> QED
        BY <4>1, <4>2
    <3>12. Ends(S, new)
      BY <3>10, <3>11
    <3> QED
      BY <3>8, <3>9, <3>12
  <2> QED
    BY <2>1, <2>2
<1>7. D \subseteq Q
  <2> HIDE DEF D, Q
  <2> QED
    BY <1>5, <1>6, RankInduction
<1>8. Ends(points, order[points])
  BY <1>7
<1> QED
  BY <1>3, <1>8

CloseIn(list, size) ==
  {i \in 1..Len(list) - 1 : Greatest(list[i + 1] - list[i], list[i] - list[i + 1]) < size}

Filters(filter, points, size, anchors) ==
  filter = [list \in Seq(points) |->
    LET close == CloseIn(list, size)
        i == Min(close)
    IN  IF close = {} THEN ToSet(list)
        ELSE IF {list[i], list[i + 1]} \subseteq anchors THEN {}
        ELSE IF list[i + 1] \in anchors THEN filter[RemoveAt(list, i)]
        ELSE filter[RemoveAt(list, i + 1)]]

LEMMA Removed ==
  ASSUME NEW points, NEW list \in Seq(points), NEW i \in 1..Len(list)
  PROVE  RemoveAt(list, i) \in Seq(points) /\ Len(RemoveAt(list, i)) < Len(list)
<1>1. PICK x : x = SubSeq(list, 1, i - 1)
  OBVIOUS
<1>2. PICK y : y = SubSeq(list, i + 1, Len(list))
  OBVIOUS
<1>3. \A j \in 1..Len(list) : list[j] \in points
  OBVIOUS
<1>4. Len(list) \in Nat /\ i \in Int /\ i - 1 \in Int /\ i + 1 \in Int
  OBVIOUS
<1>5. x \in Seq(points) /\ Len(x) = i - 1
  <2>1. \A j \in 1..i - 1 : list[j] \in points
    BY <1>3, <1>4
  <2>2. x \in Seq(points) /\ Len(x) = IF 1 <= i - 1 THEN (i - 1) - 1 + 1 ELSE 0
    BY <1>1, <1>4, <2>1, SubSeqProperties
  <2> QED
    BY <1>4, <2>2
<1>6. y \in Seq(points) /\ Len(y) = Len(list) - i
  <2>1. \A j \in i + 1..Len(list) : list[j] \in points
    BY <1>3, <1>4
  <2>2. y \in Seq(points) /\ Len(y) = IF i + 1 <= Len(list) THEN Len(list) - (i + 1) + 1 ELSE 0
    BY <1>2, <1>4, <2>1, SubSeqProperties
  <2> QED
    BY <1>4, <2>2
<1>7. x \o y \in Seq(points) /\ Len(x \o y) = Len(x) + Len(y)
  BY <1>5, <1>6, ConcatProperties
<1>8. RemoveAt(list, i) = x \o y
  BY <1>1, <1>2 DEF RemoveAt
<1> QED
  BY <1>4, <1>5, <1>6, <1>7, <1>8

LEMMA CloseFacts ==
  ASSUME NEW points, NEW list \in Seq(points), NEW size, CloseIn(list, size) # {}
  PROVE  LET i == Min(CloseIn(list, size))
         IN  i \in 1..Len(list) /\ i + 1 \in 1..Len(list)
<1>1. PICK S : S = CloseIn(list, size)
  OBVIOUS
<1>2. S \subseteq 1..Len(list) - 1 /\ Len(list) \in Nat
  BY <1>1 DEF CloseIn
<1>3. IsFiniteSet(1..Len(list) - 1)
  <2>1. 1 \in Int /\ Len(list) - 1 \in Int
    BY <1>2
  <2> QED
    BY <2>1, FS_Interval
<1>4. IsFiniteSet(S)
  BY <1>2, <1>3, FS_Subset
<1>5. S \subseteq Int /\ S # {}
  BY <1>1, <1>2
<1>6. Min(S) \in S
  BY <1>4, <1>5, LeastOfPoints
<1> QED
  BY <1>1, <1>2, <1>6

LEMMA FilterExists ==
  ASSUME NEW points, NEW size, NEW anchors
  PROVE  \E filter : Filters(filter, points, size, anchors) /\ filter \in [Seq(points) -> SUBSET points]
<1> DEFINE D == Seq(points)
           V == SUBSET points
           close(l) == CloseIn(l, size)
           i(l) == Min(close(l))
           both(l) == {l[i(l)], l[i(l) + 1]} \subseteq anchors
           shorter(l) == IF l[i(l) + 1] \in anchors THEN RemoveAt(l, i(l)) ELSE RemoveAt(l, i(l) + 1)
<1>1. PICK r : r = [l \in D |-> Len(l)]
  OBVIOUS
<1>2. PICK stop : stop = {l \in D : close(l) = {} \/ both(l)}
  OBVIOUS
<1>3. PICK base : base = [l \in D |-> IF close(l) = {} THEN ToSet(l) ELSE {}]
  OBVIOUS
<1>4. PICK next : next = [l \in D |-> shorter(l)]
  OBVIOUS
<1>5. PICK op : op = [l \in D |-> [v \in V |-> v]]
  OBVIOUS
<1>6. ASSUME NEW l \in D, close(l) # {} PROVE shorter(l) \in D /\ Len(shorter(l)) < Len(l)
  <2>1. i(l) \in 1..Len(l) /\ i(l) + 1 \in 1..Len(l)
    BY <1>6, CloseFacts
  <2>2. \A j \in 1..Len(l) : RemoveAt(l, j) \in Seq(points) /\ Len(RemoveAt(l, j)) < Len(l)
    BY Removed
  <2> HIDE DEF i
  <2> QED
    BY <2>1, <2>2
<1>7. \A l \in D : ToSet(l) \in V
  BY DEF ToSet
<1>8. r \in [D -> Nat] /\ base \in [D -> V] /\ op \in [D -> [V -> V]]
  <2>1. r \in [D -> Nat]
    BY <1>1
  <2>2. base \in [D -> V]
    <3> HIDE DEF D, close
    <3> QED
      BY <1>3, <1>7
  <2>3. op \in [D -> [V -> V]]
    <3> HIDE DEF D, V
    <3> QED
      BY <1>5
  <2> QED
    BY <2>1, <2>2, <2>3
<1> HIDE DEF i, shorter, close, both
<1>9. ASSUME NEW l \in D \ stop PROVE next[l] \in D /\ r[next[l]] < r[l]
  <2>1. close(l) # {} /\ l \in D
    BY <1>2
  <2>2. shorter(l) \in D /\ Len(shorter(l)) < Len(l)
    BY <1>6, <2>1
  <2> HIDE DEF D
  <2> QED
    BY <1>1, <1>4, <2>1, <2>2
<1>10. PICK g : g \in [D -> V] /\ \A l \in D : g[l] = IF l \in stop THEN base[l] ELSE op[l][g[next[l]]]
  <2>1. Recursion(D, r, stop, V, base, next, op)
    BY <1>8, <1>9 DEF Recursion
  <2>2. \E g : FoundBy(g, D, stop, V, base, next, op)
    BY ONLY <2>1, RecursionExists
  <2> QED
    BY <2>2 DEF FoundBy
<1> DEFINE value(l) == IF close(l) = {} THEN ToSet(l) ELSE IF both(l) THEN {}
                       ELSE IF l[i(l) + 1] \in anchors THEN g[RemoveAt(l, i(l))]
                       ELSE g[RemoveAt(l, i(l) + 1)]
<1>11. ASSUME NEW l \in D PROVE g[l] = value(l)
  <2>1. CASE l \in stop
    <3>1. g[l] = base[l] /\ (close(l) = {} \/ both(l))
      BY <1>2, <1>10, <2>1
    <3> HIDE DEF D
    <3> QED
      BY <1>3, <3>1
  <2>2. CASE l \notin stop
    <3>1. close(l) # {} /\ ~both(l)
      BY <1>2, <2>2
    <3>2. next[l] = shorter(l) /\ next[l] \in D
      BY <1>4, <1>9, <2>2
    <3>3. g[next[l]] \in V
      BY <1>10, <3>2
    <3>4. op[l][g[next[l]]] = g[next[l]]
      <4> HIDE DEF D, V
      <4> QED
        BY <1>5, <3>3
    <3>5. g[l] = g[shorter(l)]
      BY <1>10, <2>2, <3>2, <3>4
    <3> HIDE DEF D
    <3> QED
      BY <3>1, <3>5 DEF shorter
  <2> QED
    BY <2>1, <2>2
<1>12. g = [l \in D |-> g[l]]
  <2> HIDE DEF D, V
  <2> QED
    BY <1>10
<1>13. g = [l \in D |-> value(l)]
  <2> HIDE DEF value, D
  <2> QED
    BY <1>11, <1>12
<1>14. Filters(g, points, size, anchors)
  BY <1>13 DEF Filters, close, i, both
<1> QED
  BY <1>10, <1>14

LEMMA FilteredFacts ==
  ASSUME NEW points, IsFiniteSet(points), points \subseteq Int, NEW size, NEW anchors, NEW preference
  PROVE  Filtered(points, size, anchors, preference) \subseteq points
<1>1. PICK order : order = IF preference = "bottom" THEN InOrder(points) ELSE Reverse(InOrder(points))
  OBVIOUS
<1>2. PICK list : list = InOrder(points)
  OBVIOUS
<1>3. list \in Seq(points)
  BY <1>2, InOrderFacts
<1>4. order \in Seq(points)
  <2>1. CASE preference = "bottom"
    BY <1>1, <1>2, <1>3, <2>1
  <2>2. CASE preference # "bottom"
    <3>1. order = [j \in 1..Len(list) |-> list[(Len(list) - j) + 1]]
      BY <1>1, <1>2, <2>2 DEF Reverse
    <3>2. Len(list) \in Nat /\ \A j \in 1..Len(list) : list[j] \in points
      BY <1>3
    <3>3. \A j \in 1..Len(list) : order[j] \in points
      <4>1. \A j \in 1..Len(list) : (Len(list) - j) + 1 \in 1..Len(list)
        BY <3>2
      <4> QED
        BY <3>1, <3>2, <4>1
    <3>4. order \in [1..Len(list) -> points]
      BY <3>1, <3>3
    <3> QED
      BY <3>2, <3>4, SeqDef
  <2> QED
    BY <2>1, <2>2
<1>5. PICK filter : filter = CHOOSE g : Filters(g, points, size, anchors)
  OBVIOUS
<1>6. Filters(filter, points, size, anchors)
  BY <1>5, FilterExists
<1>7. Filtered(points, size, anchors, preference) = filter[order]
  BY <1>1, <1>5 DEF Filtered, Filters, CloseIn
<1> DEFINE Q == {l \in Seq(points) : filter[l] \subseteq points}
<1>8. PICK r : r = [l \in Seq(points) |-> Len(l)]
  OBVIOUS
<1>9. r \in [Seq(points) -> Nat]
  BY <1>8
<1>10. ASSUME NEW l \in Seq(points), \A k \in Seq(points) : r[k] < r[l] => k \in Q PROVE l \in Q
  <2> DEFINE close == CloseIn(l, size)
             i == Min(close)
  <2>1. filter[l] = IF close = {} THEN ToSet(l)
                    ELSE IF {l[i], l[i + 1]} \subseteq anchors THEN {}
                    ELSE IF l[i + 1] \in anchors THEN filter[RemoveAt(l, i)]
                    ELSE filter[RemoveAt(l, i + 1)]
    BY <1>6 DEF Filters
  <2>2. ToSet(l) \subseteq points
    BY DEF ToSet
  <2>3. ASSUME close # {}
        PROVE  filter[RemoveAt(l, i)] \subseteq points /\ filter[RemoveAt(l, i + 1)] \subseteq points
    <3>1. i \in 1..Len(l) /\ i + 1 \in 1..Len(l)
      BY <2>3, CloseFacts
    <3> HIDE DEF i
    <3>2. \A j \in 1..Len(l) : RemoveAt(l, j) \in Seq(points) /\ Len(RemoveAt(l, j)) < Len(l)
      BY Removed
    <3>3. \A j \in 1..Len(l) : RemoveAt(l, j) \in Q
      BY <1>8, <1>10, <3>2
    <3> QED
      BY <3>1, <3>3
  <2> HIDE DEF close, i
  <2> QED
    BY <2>1, <2>2, <2>3
<1>11. Seq(points) \subseteq Q
  <2> HIDE DEF Q
  <2>1. PICK D : D = Seq(points)
    OBVIOUS
  <2>2. r \in [D -> Nat] /\ \A l \in D : (\A k \in D : r[k] < r[l] => k \in Q) => l \in Q
    BY <1>9, <1>10, <2>1
  <2>3. D \subseteq Q
    BY ONLY <2>2, RankInduction
  <2> QED
    BY <2>1, <2>3
<1> QED
  BY <1>4, <1>7, <1>11

LEMMA SumOfBounded ==
  ASSUME NEW S, IsFiniteSet(S), NEW f, NEW c \in Int, \A x \in S : f[x] \in Int /\ 0 <= f[x] /\ f[x] <= c
  PROVE  LET sum == SumFunction([x \in S |-> f[x]])
         IN  /\ sum \in Int /\ 0 <= sum /\ sum <= Cardinality(S) * c
             /\ (\A x \in S : f[x] = c) => sum = Cardinality(S) * c
<1>1. PICK e : e = [x \in S |-> f[x]]
  OBVIOUS
<1>2. DOMAIN e = S /\ \A x \in S : e[x] = f[x] /\ e[x] \in Int
  BY <1>1
<1>3. PICK g : Sums(g, e) /\ SumFunction(e) = g[DOMAIN e]
  BY <1>2, SumIs
<1> DEFINE D == SUBSET S
           Fits(T) == /\ g[T] \in Int /\ 0 <= g[T] /\ g[T] <= Cardinality(T) * c
                      /\ (\A x \in S : f[x] = c) => g[T] = Cardinality(T) * c
           Q == {T \in D : Fits(T)}
<1>4. PICK r \in [D -> Nat] : \A T \in D : \A x \in T : r[T \ {x}] < r[T]
  BY SizesShrink
<1>5. g[{}] = 0 /\ Cardinality({}) = 0
  BY <1>3, FS_EmptySet DEF Sums
<1>6. ASSUME NEW T \in D, \A U \in D : r[U] < r[T] => U \in Q PROVE T \in Q
  <2>1. CASE T = {}
    BY <1>5, <2>1
  <2>2. CASE T # {}
    <3>1. PICK x \in T : TRUE
      BY <2>2
    <3>2. PICK U : U = T \ {x}
      OBVIOUS
    <3>3. U \in Q
      BY <1>4, <1>6, <3>2
    <3>4. IsFiniteSet(T) /\ Cardinality(U) = Cardinality(T) - 1 /\ Cardinality(T) \in Nat
      BY <3>2, FS_Subset, FS_RemoveElement, FS_CardinalityType
    <3>5. g[T] = e[x] + g[U]
      BY <1>2, <1>3, <3>2 DEF Sums
    <3>6. PICK n \in Int, m \in Int, s \in Int, v \in Int :
            /\ n = Cardinality(T) /\ m = Cardinality(U) /\ s = g[U] /\ v = e[x]
            /\ m = n - 1 /\ 0 <= s /\ s <= m * c /\ 0 <= v /\ v <= c
            /\ (\A y \in S : f[y] = c) => s = m * c /\ v = c
      <4>1. Cardinality(T) \in Int /\ Cardinality(U) \in Int /\ g[U] \in Int /\ e[x] \in Int
        BY <1>2, <3>3, <3>4
      <4>2. 0 <= g[U] /\ g[U] <= Cardinality(U) * c /\ ((\A y \in S : f[y] = c) => g[U] = Cardinality(U) * c)
        BY <3>3
      <4>3. 0 <= e[x] /\ e[x] <= c /\ ((\A y \in S : f[y] = c) => e[x] = c)
        BY <1>2
      <4> QED
        BY <3>4, <4>1, <4>2, <4>3
    <3>7. n * c = m * c + c
      BY <3>6
    <3>8. Fits(T)
      BY <3>5, <3>6, <3>7
    <3> QED
      BY <3>8
  <2> QED
    BY <2>1, <2>2
<1>7. D \subseteq Q
  <2> HIDE DEF D, Q
  <2> QED
    BY <1>4, <1>6, RankInduction
<1>8. Fits(S)
  BY <1>7
<1> QED
  BY <1>1, <1>2, <1>3, <1>8

-----------------------------------------------------------------------------
(* The blocks of a core of one height lie between its bottom and its top.  *)
Height0 == Top(Loading[Reference])

Within(a) ==
  /\ IsStacked(a) /\ Len(a) >= 1 /\ a[Len(a)].zt = Height0
  /\ \A i \in 1..Len(a) : a[i].zb \in 0..Height0 /\ a[i].zt \in 0..Height0

LEMMA StackedWithin ==
  ASSUME NEW a, IsStacked(a), Len(a) >= 1, a[Len(a)].zt = Height0
  PROVE  Within(a)
<1>1. Len(a) \in Nat /\ \A i \in 1..Len(a) : /\ a[i].zb \in Int /\ a[i].zt \in Int
                                             /\ a[i].zb = StartOf(a, i) /\ a[i].zb <= a[i].zt
  BY DEF IsStacked, StacksTo, IsList
<1>2. \A i, j \in 1..Len(a) : i <= j => a[i].zt <= a[j].zt
  BY StackedRise
<1>3. 1 \in 1..Len(a) /\ Len(a) \in 1..Len(a)
  BY <1>1
<1>4. a[1].zb = 0 /\ 0 <= a[1].zt /\ Height0 \in Int
  BY <1>1, <1>3 DEF StartOf
<1>5. ASSUME NEW i \in 1..Len(a) PROVE 0 <= a[i].zt /\ a[i].zt <= Height0 /\ 0 <= a[i].zb /\ a[i].zb <= Height0
  <2>1. a[1].zt <= a[i].zt /\ a[i].zt <= a[Len(a)].zt
    BY <1>1, <1>2, <1>3
  <2>2. 0 <= a[i].zt /\ a[i].zt <= Height0
    BY <1>1, <1>3, <1>4, <2>1
  <2>3. 0 <= a[i].zb
    <3>1. CASE i = 1
      BY <1>4, <3>1
    <3>2. CASE i # 1
      <4>1. i - 1 \in 1..Len(a) /\ 1 <= i - 1
        BY <1>1, <3>2
      <4>2. a[1].zt <= a[i - 1].zt /\ a[i].zb = a[i - 1].zt
        BY <1>1, <1>2, <1>3, <3>2, <4>1 DEF StartOf
      <4> QED
        BY <1>1, <1>3, <1>4, <4>1, <4>2
    <3> QED
      BY <3>1, <3>2
  <2> QED
    BY <1>1, <1>4, <2>2, <2>3
<1>6. \A i \in 1..Len(a) : a[i].zb \in 0..Height0 /\ a[i].zt \in 0..Height0
  BY <1>1, <1>4, <1>5
<1> QED
  BY <1>6 DEF Within

LEMMA OriginalWithin ==
  ASSUME EqualHeights, NEW p \in Places, case \in Cases, NEW a, IsOriginal(p, a), Fills(a.blocks, Top(Loading[p]))
  PROVE  Within(a.blocks) /\ IsStacked(a.blocks) /\ DOMAIN a = AssemblyFields
<1>1. PICK x : x = a.blocks
  OBVIOUS
<1>2. IsStack(x) /\ Len(x) \in Nat /\ Len(x) >= 2
  BY <1>1, OriginalFacts
<1>3. IsStacked(x)
  BY <1>1, <1>2, StackFacts DEF IsStacked, IsStack, Fills
<1>4. x[Len(x)].zt = Height0
  BY <1>1, LoadingAssumption DEF Fills, EqualHeights, Height0
<1>5. Within(x)
  BY <1>2, <1>3, <1>4, StackedWithin
<1> QED
  BY <1>1, <1>3, <1>5 DEF IsOriginal

Settled(settled) ==
  settled = [places \in SUBSET AveragedPlaces |->
    IF NearAverage(places) = places THEN places ELSE settled[NearAverage(places)]]

LEMMA SettledExists ==
  \E settled : Settled(settled) /\ settled \in [SUBSET AveragedPlaces -> SUBSET AveragedPlaces]
<1> DEFINE D == SUBSET AveragedPlaces
<1>1. IsFiniteSet(AveragedPlaces)
  BY LoadingAssumption, FS_Subset DEF AveragedPlaces
<1>2. PICK r : r = [S \in D |-> Cardinality(S)]
  OBVIOUS
<1>3. PICK stop : stop = {S \in D : NearAverage(S) = S}
  OBVIOUS
<1>4. PICK base : base = [S \in D |-> S]
  OBVIOUS
<1>5. PICK next : next = [S \in D |-> NearAverage(S)]
  OBVIOUS
<1>6. PICK op : op = [S \in D |-> [v \in D |-> v]]
  OBVIOUS
<1>7. ASSUME NEW S \in D PROVE IsFiniteSet(S) /\ Cardinality(S) \in Nat
  BY <1>1, FS_Subset, FS_CardinalityType
<1>8. r \in [D -> Nat] /\ base \in [D -> D] /\ op \in [D -> [D -> D]]
  <2> HIDE DEF D
  <2> QED
    BY <1>2, <1>4, <1>6, <1>7
<1>9. ASSUME NEW S \in D \ stop PROVE next[S] \in D /\ r[next[S]] < r[S]
  <2>1. PICK T : T = NearAverage(S)
    OBVIOUS
  <2>2. T \subseteq S /\ T # S /\ S \in D
    BY <1>3, <2>1 DEF NearAverage
  <2>3. T \in D /\ IsFiniteSet(S) /\ T \in SUBSET S
    BY <1>7, <2>2
  <2>4. Cardinality(T) <= Cardinality(S) /\ (Cardinality(S) = Cardinality(T) => S = T)
    BY <2>3, FS_Subset
  <2>5. Cardinality(T) < Cardinality(S)
    BY <1>7, <2>2, <2>3, <2>4
  <2> HIDE DEF D
  <2> QED
    BY <1>2, <1>5, <2>1, <2>2, <2>3, <2>5
<1>10. PICK g : g \in [D -> D] /\ \A S \in D : g[S] = IF S \in stop THEN base[S] ELSE op[S][g[next[S]]]
  <2>1. Recursion(D, r, stop, D, base, next, op)
    BY <1>8, <1>9 DEF Recursion
  <2>2. \E g : FoundBy(g, D, stop, D, base, next, op)
    BY ONLY <2>1, RecursionExists
  <2> QED
    BY <2>2 DEF FoundBy
<1>11. ASSUME NEW S \in D PROVE g[S] = IF NearAverage(S) = S THEN S ELSE g[NearAverage(S)]
  <2>1. CASE S \in stop
    BY <1>3, <1>4, <1>10, <2>1
  <2>2. CASE S \notin stop
    <3>1. NearAverage(S) # S /\ next[S] = NearAverage(S) /\ next[S] \in D
      BY <1>3, <1>5, <1>9, <2>2
    <3>2. g[next[S]] \in D
      BY <1>10, <3>1
    <3>3. op[S][g[next[S]]] = g[next[S]]
      <4> HIDE DEF D
      <4> QED
        BY <1>6, <3>2
    <3> QED
      BY <1>10, <2>2, <3>1, <3>3
  <2> QED
    BY <2>1, <2>2
<1>12. g = [S \in D |-> g[S]]
  <2> HIDE DEF D
  <2> QED
    BY <1>10
<1>13. g = [S \in D |-> IF NearAverage(S) = S THEN S ELSE g[NearAverage(S)]]
  <2> HIDE DEF D
  <2> QED
    BY <1>11, <1>12
<1> QED
  BY <1>10, <1>13 DEF Settled

(* The average mesh is within the height of the core, and reaches it.      *)
LEMMA AverageMeshFacts ==
  ASSUME \A p \in Places : Within(core[p].blocks)
  PROVE  /\ AverageMesh \subseteq 0..Height0 /\ IsFiniteSet(AverageMesh)
         /\ AverageMesh # {} => Height0 \in AverageMesh
<1>1. PICK settled : settled = CHOOSE s : Settled(s)
  OBVIOUS
<1>2. Settled(settled)
  BY <1>1, SettledExists
<1>3. PICK rows : rows = settled[AveragedPlaces]
  OBVIOUS
<1> DEFINE Q == {S \in SUBSET AveragedPlaces : settled[S] \subseteq AveragedPlaces}
           D == SUBSET AveragedPlaces
<1>4. IsFiniteSet(AveragedPlaces) /\ AveragedPlaces \subseteq Places
  BY LoadingAssumption, FS_Subset DEF AveragedPlaces
<1>5. PICK r : r = [S \in D |-> Cardinality(S)]
  OBVIOUS
<1>6. ASSUME NEW S \in D PROVE IsFiniteSet(S) /\ Cardinality(S) \in Nat
  BY <1>4, FS_Subset, FS_CardinalityType
<1>7. r \in [D -> Nat]
  BY <1>5, <1>6
<1>8. ASSUME NEW S \in D, \A U \in D : r[U] < r[S] => U \in Q PROVE S \in Q
  <2>1. settled[S] = IF NearAverage(S) = S THEN S ELSE settled[NearAverage(S)]
    BY <1>2 DEF Settled
  <2>2. CASE NearAverage(S) = S
    BY <2>1, <2>2
  <2>3. CASE NearAverage(S) # S
    <3>1. PICK T : T = NearAverage(S)
      OBVIOUS
    <3>2. T \in SUBSET S /\ T # S /\ T \in D
      BY <2>3, <3>1 DEF NearAverage
    <3>3. Cardinality(T) <= Cardinality(S) /\ (Cardinality(S) = Cardinality(T) => S = T)
      BY <1>6, <3>2, FS_Subset
    <3>4. r[T] < r[S]
      BY <1>5, <1>6, <3>2, <3>3
    <3>5. T \in Q
      BY <1>8, <3>2, <3>4
    <3> QED
      BY <2>1, <2>3, <3>1, <3>5
  <2> QED
    BY <2>2, <2>3
<1>9. D \subseteq Q
  <2> HIDE DEF D, Q
  <2> QED
    BY <1>7, <1>8, RankInduction
<1>10. rows \subseteq AveragedPlaces
  BY <1>3, <1>9
<1>11. AverageMesh = {Total(rows, k) \div Cardinality(rows) :
         k \in IF rows = {} THEN {} ELSE DOMAIN core[Reference].blocks}
  BY <1>1, <1>3 DEF AverageMesh, Settled
<1>12. CASE rows = {}
  <2>1. AverageMesh = {}
    BY <1>11, <1>12
  <2> QED
    BY <2>1, FS_EmptySet
<1>13. CASE rows # {}
  <2> DEFINE n == Len(core[Reference].blocks)
             c == Cardinality(rows)
  <2>1. n \in Nat /\ n >= 1 /\ DOMAIN core[Reference].blocks = 1..n /\ Height0 \in Int
    <3>1. Within(core[Reference].blocks)
      BY LoadingAssumption
    <3>2. Len(core[Reference].blocks) \in 1..Len(core[Reference].blocks)
      BY <3>1 DEF Within, IsStacked, IsList
    <3> QED
      BY <3>1, <3>2 DEF Within, IsStacked, IsList
  <2>2. IsFiniteSet(rows) /\ c \in Nat /\ c # 0
    BY <1>6, <1>10, <1>13, FS_EmptySet
  <2>3. ASSUME NEW k \in 1..n
        PROVE  /\ Total(rows, k) \in Int /\ 0 <= Total(rows, k) /\ Total(rows, k) <= c * Height0
               /\ k = n => Total(rows, k) = c * Height0
    <3>1. PICK f : f = [p \in rows |-> core[p].blocks[k].zt]
      OBVIOUS
    <3>2. ASSUME NEW p \in rows
          PROVE  f[p] \in Int /\ 0 <= f[p] /\ f[p] <= Height0 /\ (k = n => f[p] = Height0)
      <4>1. Within(core[p].blocks) /\ Len(core[p].blocks) = n
        BY <1>4, <1>10 DEF AveragedPlaces
      <4>2. core[p].blocks[k].zt \in 0..Height0 /\ core[p].blocks[n].zt = Height0
        BY <4>1 DEF Within
      <4>3. f[p] = core[p].blocks[k].zt
        BY <3>1
      <4> QED
        BY <2>1, <4>2, <4>3
    <3>3. Total(rows, k) = SumFunction([p \in rows |-> f[p]])
      <4>1. [p \in rows |-> core[p].blocks[k].zt] = [p \in rows |-> f[p]]
        BY <3>1
      <4> QED
        BY <4>1 DEF Total
    <3>4. PICK h \in Int : h = Height0
      BY <2>1
    <3>5. \A p \in rows : f[p] \in Int /\ 0 <= f[p] /\ f[p] <= h
      BY <3>2, <3>4
    <3>6. PICK sum : sum = SumFunction([p \in rows |-> f[p]])
      OBVIOUS
    <3>7. /\ sum \in Int /\ 0 <= sum /\ sum <= Cardinality(rows) * h
          /\ (\A p \in rows : f[p] = h) => sum = Cardinality(rows) * h
      BY ONLY <2>2, <3>5, <3>6, h \in Int, SumOfBounded
    <3>8. k = n => \A p \in rows : f[p] = h
      BY <3>2, <3>4
    <3> QED
      BY <3>3, <3>4, <3>6, <3>7, <3>8
  <2>4. PICK f : f = [k \in 1..n |-> Total(rows, k) \div c]
    OBVIOUS
  <2>5. AverageMesh = {f[k] : k \in 1..n}
    BY <1>11, <1>13, <2>1, <2>4
  <2>6. IsFiniteSet(AverageMesh)
    <3>1. IsFiniteSet(1..n)
      BY <2>1, FS_Interval
    <3> QED
      BY <2>5, <3>1, ImageIsFinite
  <2>7. ASSUME NEW k \in 1..n PROVE f[k] \in 0..Height0 /\ (k = n => f[k] = Height0)
    <3>1. PICK t \in Int, h \in Int, m \in Int : t = Total(rows, k) /\ h = Height0 /\ m = c
      BY <2>1, <2>2, <2>3
    <3>2. 0 <= t /\ t <= m * h /\ m > 0 /\ (k = n => t = m * h)
      BY <2>2, <2>3, <3>1
    <3>3. (m * h) \div m = h
      BY <3>2
    <3>4. 0 <= t \div m /\ t \div m <= h /\ t \div m \in Int
      <4>1. t \div m \in Int
        BY <3>2
      <4>2. 0 <= t \div m
        BY <3>2
      <4>3. t \div m <= h
        <5>1. PICK q \in Int : q = t \div m
          BY <4>1
        <5>2. m * q <= t
          BY <3>2, <5>1
        <5>3. m * q <= m * h
          BY <3>2, <5>2
        <5>4. q <= h
          BY <3>2, <5>3
        <5> QED
          BY <5>1, <5>4
      <4> QED
        BY <4>1, <4>2, <4>3
    <3>5. f[k] = t \div m
      BY <2>4, <3>1
    <3> QED
      BY <3>1, <3>2, <3>3, <3>4, <3>5
  <2>8. n \in 1..n
    BY <2>1
  <2> QED
    BY <2>5, <2>6, <2>7, <2>8
<1> QED
  BY <1>12, <1>13

(* A mesh of points between the bottom and the top of the core.            *)
MeshPoints(points) == IsFiniteSet(points) /\ points \subseteq 0..Height0

LEMMA FilteredPoints ==
  ASSUME NEW points, MeshPoints(points), Height0 \in Int, NEW size, NEW anchors, NEW preference
  PROVE  MeshPoints(Filtered(points, size, anchors, preference))
<1>1. IsFiniteSet(points) /\ points \subseteq Int /\ points \subseteq 0..Height0
  BY DEF MeshPoints
<1>2. PICK f : f = Filtered(points, size, anchors, preference)
  OBVIOUS
<1>3. f \subseteq points
  BY <1>1, <1>2, FilteredFacts
<1>4. IsFiniteSet(f)
  BY <1>1, <1>3, FS_Subset
<1> QED
  BY <1>1, <1>2, <1>3, <1>4 DEF MeshPoints

LEMMA PointsJoined ==
  ASSUME NEW S, NEW T, MeshPoints(S), MeshPoints(T) PROVE MeshPoints(S \cup T)
<1>1. IsFiniteSet(S \cup T)
  BY FS_Union DEF MeshPoints
<1> QED
  BY <1>1 DEF MeshPoints

LEMMA BoundaryPoints ==
  ASSUME \A p \in Places : Within(core[p].blocks), NEW flag
  PROVE  MeshPoints(BottomsOf(flag)) /\ MeshPoints(UppersOf(flag))
<1> DEFINE S == {q \in Places : With(flag, q) # {}}
<1>1. IsFiniteSet(S)
  BY LoadingAssumption, FS_Subset
<1>2. PICK f : f = [p \in S |-> core[p].blocks[Min(With(flag, p))].zb]
  OBVIOUS
<1>3. PICK g : g = [p \in S |-> core[p].blocks[Max(With(flag, p))].zt]
  OBVIOUS
<1>4. BottomsOf(flag) = {f[p] : p \in S} /\ UppersOf(flag) = {g[p] : p \in S}
  BY <1>2, <1>3 DEF BottomsOf, UppersOf
<1>5. ASSUME NEW p \in S PROVE f[p] \in 0..Height0 /\ g[p] \in 0..Height0
  <2>1. PICK x : x = core[p].blocks
    OBVIOUS
  <2>2. Within(x) /\ Len(x) \in Nat /\ DOMAIN x = 1..Len(x)
    BY <2>1 DEF Within, IsStacked, IsList
  <2>3. PICK W : W = With(flag, p)
    OBVIOUS
  <2>4. W \in SUBSET (1..Len(x)) /\ W # {}
    BY <2>1, <2>2, <2>3 DEF With
  <2>5. IsFiniteSet(1..Len(x))
    BY <2>2, FS_Interval
  <2>6. IsFiniteSet(W) /\ W \subseteq Int
    <3>1. PICK N : N = 1..Len(x)
      OBVIOUS
    <3>2. IsFiniteSet(N) /\ W \in SUBSET N /\ W \subseteq N
      BY <2>4, <2>5, <3>1
    <3>3. IsFiniteSet(W)
      BY ONLY <3>2, FS_Subset
    <3>4. N \subseteq Int
      BY <2>2, <3>1
    <3> QED
      BY <3>2, <3>3, <3>4
  <2>7. Min(W) \in 1..Len(x) /\ Max(W) \in 1..Len(x)
    BY <2>4, <2>6, LeastOfPoints, GreatestOfPoints
  <2>8. x[Min(W)].zb \in 0..Height0 /\ x[Max(W)].zt \in 0..Height0
    BY <2>2, <2>7 DEF Within
  <2> QED
    BY <1>2, <1>3, <2>1, <2>3, <2>8
<1> HIDE DEF S
<1>6. IsFiniteSet({f[p] : p \in S}) /\ IsFiniteSet({g[p] : p \in S})
  BY <1>1, ImageIsFinite
<1> QED
  BY <1>4, <1>5, <1>6 DEF MeshPoints

LEMMA DecuspedFacts ==
  ASSUME \A p \in Places : Within(core[p].blocks), NEW common, MeshPoints(common), NEW size, Height0 \in Int
  PROVE  MeshPoints(Decusped(common, size))
<1> DEFINE fb == Filtered(BottomsOf("fuel"), size, {Min(BottomsOf("fuel"))}, "bottom")
           ft == Filtered(UppersOf("fuel"), size, {Max(UppersOf("fuel"))}, "top")
           bottoms == Filtered(fb \cup BottomsOf("control"), size, fb, "bottom")
           tops == Filtered(ft \cup UppersOf("control"), size, ft, "top")
           anchors == Filtered(bottoms \cup tops, size, fb \cup ft, "bottom")
           withBottoms == Filtered(common \cup bottoms, size, bottoms, "bottom")
           withTops == Filtered(common \cup tops, size, tops, "top")
           last == Filtered(withBottoms \cup withTops, size, anchors, "top")
<1>1. /\ MeshPoints(BottomsOf("fuel")) /\ MeshPoints(UppersOf("fuel"))
      /\ MeshPoints(BottomsOf("control")) /\ MeshPoints(UppersOf("control"))
  BY BoundaryPoints
<1>2. MeshPoints(fb) /\ MeshPoints(ft)
  BY <1>1, FilteredPoints
<1> HIDE DEF fb, ft
<1>3. MeshPoints(bottoms) /\ MeshPoints(tops)
  <2>1. MeshPoints(fb \cup BottomsOf("control")) /\ MeshPoints(ft \cup UppersOf("control"))
    BY <1>1, <1>2, PointsJoined
  <2> QED
    BY <2>1, FilteredPoints
<1> HIDE DEF bottoms, tops
<1>4. MeshPoints(withBottoms) /\ MeshPoints(withTops)
  <2>1. MeshPoints(common \cup bottoms) /\ MeshPoints(common \cup tops)
    BY <1>3, PointsJoined
  <2> QED
    BY <2>1, FilteredPoints
<1> HIDE DEF withBottoms, withTops
<1>5. MeshPoints(last)
  <2>1. MeshPoints(withBottoms \cup withTops)
    BY <1>4, PointsJoined
  <2> QED
    BY <2>1, FilteredPoints
<1> HIDE DEF anchors, last
<1>6. Decusped(common, size) = IF {} \in {fb, ft, bottoms, tops, anchors, withBottoms, withTops} THEN {} ELSE last
  BY DEF Decusped, fb, ft, bottoms, tops, anchors, withBottoms, withTops, last
<1>7. MeshPoints({})
  BY FS_EmptySet DEF MeshPoints
<1> QED
  BY <1>5, <1>6, <1>7

(* The mesh of a uniform copy.                                             *)
LEMMA CommonMeshFacts ==
  ASSUME \A p \in Places : Within(core[p].blocks), NEW size
  PROVE  LET tops == CommonMesh(size)
         IN  /\ IsMesh(tops)
             /\ tops # << >> => Len(tops) >= 1 /\ tops[Len(tops)] <= Height0
             /\ tops # << >> /\ size = NoSize => tops[Len(tops)] = Height0
<1>1. Height0 \in Int
  <2>1. Within(core[Reference].blocks)
    BY LoadingAssumption
  <2>2. Len(core[Reference].blocks) \in 1..Len(core[Reference].blocks)
    BY <2>1 DEF Within, IsStacked, IsList
  <2> QED
    BY <2>1, <2>2 DEF Within, IsStacked
<1>2. MeshPoints(AverageMesh) /\ (AverageMesh # {} => Height0 \in AverageMesh)
  BY AverageMeshFacts DEF MeshPoints
<1>3. PICK points : points = IF size = NoSize \/ AverageMesh = {} THEN AverageMesh ELSE Decusped(AverageMesh, size)
  OBVIOUS
<1>4. MeshPoints(points)
  <2>1. MeshPoints(Decusped(AverageMesh, size))
    BY <1>1, <1>2, DecuspedFacts
  <2> QED
    BY <1>2, <1>3, <2>1
<1>5. IsFiniteSet(points) /\ points \subseteq Int /\ points \subseteq 0..Height0
  BY <1>1, <1>4 DEF MeshPoints
<1>6. PICK list : list = InOrder(points)
  OBVIOUS
<1>7. /\ list \in Seq(points)
      /\ points # {} => Len(list) >= 1 /\ \A x \in points : x <= list[Len(list)]
  BY <1>5, <1>6, InOrderFacts
<1>8. list = CommonMesh(size)
  BY <1>3, <1>6 DEF CommonMesh
<1>9. IsMesh(list)
  <2>1. Len(list) \in Nat /\ list = [i \in 1..Len(list) |-> list[i]] /\ \A i \in 1..Len(list) : list[i] \in points
    BY <1>7
  <2> QED
    BY <1>5, <2>1 DEF IsMesh, IsList
<1>10. ASSUME list # << >> PROVE Len(list) >= 1 /\ list[Len(list)] \in points
  <2>1. Len(list) \in Nat /\ Len(list) # 0
    BY <1>7, <1>10
  <2> QED
    BY <1>7, <2>1
<1>11. ASSUME list # << >>, size = NoSize PROVE list[Len(list)] = Height0
  <2>1. points = AverageMesh /\ list[Len(list)] \in points
    BY <1>3, <1>10, <1>11
  <2>2. Height0 \in points
    BY <1>2, <2>1
  <2>3. PICK x : x = list[Len(list)]
    OBVIOUS
  <2>4. Height0 <= x
    BY <1>7, <2>2, <2>3
  <2>5. x \in 0..Height0
    BY <1>5, <2>1, <2>3
  <2>6. x \in Int /\ x <= Height0
    BY <1>1, <2>5
  <2>7. x = Height0
    BY <1>1, <2>4, <2>6
  <2> QED
    BY <2>3, <2>7
<1>12. ASSUME list # << >> PROVE list[Len(list)] <= Height0
  <2>1. list[Len(list)] \in 0..Height0
    BY <1>5, <1>10, <1>12
  <2> QED
    BY <1>1, <2>1
<1>13. /\ IsMesh(list)
       /\ list # << >> => Len(list) >= 1 /\ list[Len(list)] <= Height0
       /\ list # << >> /\ size = NoSize => list[Len(list)] = Height0
  BY <1>9, <1>10, <1>11, <1>12
<1> QED
  BY <1>8, <1>13

-----------------------------------------------------------------------------
(* What a block gets from those of another mesh, if it gets any: all that  *)
(* a solve found in them, and a peak no lower than its average.            *)
RatedAt(blocks, r) ==
  \A k \in 1..Len(blocks) :
    blocks[k].power = (r + k) * Height(blocks[k]) /\ blocks[k].peak = r + k

(* Blocks of no height, which nothing is mapped to, have no results.       *)
Idle(blocks) ==
  \A k \in DOMAIN blocks : Height(blocks[k]) = 0 => blocks[k].power = 0 /\ blocks[k].peak = 0

LEMMA AboveTop ==
  ASSUME NEW blocks, IsStacked(blocks), Len(blocks) >= 1, NEW d, NEW held, IsDense(held, d, blocks),
         NEW z \in Int, z >= blocks[Len(blocks)].zt
  PROVE  Below(blocks, d, z) = SumFunction([j \in 1..Len(blocks) |-> held[j]])
<1>1. PICK n : n = Len(blocks)
  OBVIOUS
<1>2. n \in Nat /\ n \in 1..n
  BY <1>1 DEF IsStacked, IsList
<1>3. PICK t \in Int : t = blocks[n].zt
  BY <1>1, <1>2 DEF IsStacked
<1>4. ASSUME NEW i \in 1..n PROVE Clipped(blocks[i], z) = Clipped(blocks[i], t)
  <2>1. blocks[i].zt <= blocks[n].zt
    BY <1>1, <1>2, StackedRise
  <2>2. PICK p \in Int, q \in Int : p = blocks[i].zb /\ q = blocks[i].zt /\ p <= q
    BY <1>1 DEF IsStacked, StacksTo
  <2>3. q <= t /\ t <= z
    BY <1>1, <1>3, <2>1, <2>2
  <2> QED
    BY <2>2, <2>3 DEF Clipped
<1>5. Parts(blocks, d, z) = Parts(blocks, d, t)
  BY <1>1, <1>4 DEF Parts
<1>6. Below(blocks, d, t) = SumFunction([j \in 1..n |-> held[j]])
  BY <1>1, <1>2, <1>3, BelowTop
<1> QED
  BY <1>1, <1>5, <1>6 DEF Below

LEMMA PartBetween ==
  ASSUME NEW b, NEW p \in Int, NEW q \in Int, b.zb = p, b.zt = q, p <= q,
         NEW z1 \in Int, NEW z2 \in Int, z1 <= z2
  PROVE  /\ Clipped(b, z2) \in Int /\ Clipped(b, z1) \in Int
         /\ Clipped(b, z2) - Clipped(b, z1) =
              (IF q >= z2 THEN z2 - z1 ELSE IF q <= z1 THEN 0 ELSE q - z1) -
              (IF p >= z2 THEN z2 - z1 ELSE IF p <= z1 THEN 0 ELSE p - z1)
BY DEF Clipped

(* The lengths of the parts between two elevations.                        *)
LEMMA LengthBetween ==
  ASSUME NEW blocks, IsStacked(blocks), NEW z1 \in Int, NEW z2 \in Int, 0 <= z1, z1 <= z2, NEW f,
         \A i \in 1..Len(blocks) : f[i] = Clipped(blocks[i], z2) - Clipped(blocks[i], z1)
  PROVE  SumTo(f, Len(blocks)) \in Int /\ SumTo(f, Len(blocks)) <= z2 - z1
<1> DEFINE n == Len(blocks)
           start(k) == IF k = 0 THEN 0 ELSE blocks[k].zt
           G(t) == IF t >= z2 THEN z2 - z1 ELSE IF t <= z1 THEN 0 ELSE t - z1
           Q == {k \in 0..n : SumTo(f, k) = G(start(k))}
<1>1. n \in Nat /\ \A k \in 1..n : /\ blocks[k].zb \in Int /\ blocks[k].zt \in Int
                                   /\ blocks[k].zb = StartOf(blocks, k) /\ blocks[k].zb <= blocks[k].zt
  BY DEF IsStacked, StacksTo, IsList
<1>2. ASSUME NEW k \in 1..n
      PROVE  f[k] \in Int /\ f[k] = G(start(k)) - G(start(k - 1)) /\ start(k) \in Int /\ start(k - 1) \in Int
  <2>1. PICK p \in Int, q \in Int : p = blocks[k].zb /\ q = blocks[k].zt /\ p <= q
    BY <1>1
  <2>2. start(k) = q
    BY <1>1, <2>1
  <2>3. start(k - 1) = p
    BY <1>1, <2>1 DEF StartOf
  <2>4. f[k] = G(q) - G(p) /\ f[k] \in Int
    <3>1. f[k] = Clipped(blocks[k], z2) - Clipped(blocks[k], z1)
      OBVIOUS
    <3>2. PICK b : b = blocks[k]
      OBVIOUS
    <3>3. /\ b.zb = p /\ b.zt = q /\ p <= q /\ p \in Int /\ q \in Int
          /\ z1 \in Int /\ z2 \in Int /\ z1 <= z2
      BY <2>1, <3>2
    <3>4. /\ Clipped(b, z2) \in Int /\ Clipped(b, z1) \in Int
          /\ Clipped(b, z2) - Clipped(b, z1) = G(q) - G(p)
      BY ONLY <3>3, PartBetween
    <3> HIDE DEF G
    <3> QED
      BY <3>1, <3>2, <3>4
  <2> HIDE DEF G, start
  <2> QED
    BY <2>2, <2>3, <2>4
<1>3. /\ SumTo(f, 0) = 0 /\ \A k \in 0..n : SumTo(f, k) \in Int
      /\ \A k \in 1..n : SumTo(f, k) = SumTo(f, k - 1) + f[k]
  <2>1. n \in Nat /\ \A k \in 1..n : f[k] \in Int
    BY <1>1, <1>2
  <2> QED
    BY ONLY <2>1, SumToFacts
<1>4. 0 \in Q
  BY <1>1, <1>3
<1>5. ASSUME NEW k \in 1..n, k - 1 \in Q PROVE k \in Q
  <2>1. SumTo(f, k - 1) = G(start(k - 1)) /\ SumTo(f, k) = SumTo(f, k - 1) + f[k]
    BY <1>3, <1>5
  <2>2. PICK p \in Int, q \in Int : p = start(k - 1) /\ q = start(k) /\ f[k] = G(q) - G(p)
    <3> HIDE DEF G, start
    <3> QED
      BY <1>2
  <2>3. SumTo(f, k) = G(q)
    <3>1. G(q) \in Int /\ G(p) \in Int
      OBVIOUS
    <3> HIDE DEF G
    <3> QED
      BY <2>1, <2>2, <3>1
  <2>4. k \in 0..n
    BY <1>1
  <2> HIDE DEF G, start, n
  <2> QED
    BY <2>2, <2>3, <2>4
<1>6. n \in Q
  <2> HIDE DEF Q, n
  <2>1. \A k \in 0..n : k \in Q
    BY <1>1, <1>4, <1>5, UpTo
  <2> QED
    BY <1>1, <2>1
<1>7. start(n) \in Int
  BY <1>1
<1>8. SumTo(f, n) = G(start(n))
  BY <1>6
<1>9. PICK t \in Int : t = start(n)
  BY <1>7
<1>10. G(t) \in Int /\ G(t) <= z2 - z1
  OBVIOUS
<1> HIDE DEF G, start
<1> QED
  BY <1>8, <1>9, <1>10

PowersOf(source) == [i \in DOMAIN source |-> source[i].power]
RatesOf(source) == [i \in DOMAIN source |-> source[i].peak]

LEMMA RatedFacts ==
  ASSUME NEW source, IsStacked(source), NEW r \in Nat, RatedAt(source, r)
  PROVE  /\ IsDense(PowersOf(source), RatesOf(source), source)
         /\ \A i \in 1..Len(source) : RatesOf(source)[i] = source[i].peak /\ source[i].peak \in Nat
<1>1. Len(source) \in Nat /\ DOMAIN source = 1..Len(source)
  BY DEF IsStacked, IsList
<1>2. ASSUME NEW i \in 1..Len(source)
      PROVE  /\ RatesOf(source)[i] = source[i].peak /\ PowersOf(source)[i] = source[i].power
             /\ source[i].peak = r + i /\ r + i \in Nat /\ source[i].power = (r + i) * Height(source[i])
  BY <1>1 DEF RatedAt, RatesOf, PowersOf
<1> QED
  BY <1>2 DEF IsDense

(* The average of what a block gets is no higher than the highest rate.    *)
LEMMA PeakCovers ==
  ASSUME NEW source, IsStacked(source), NEW r \in Nat, RatedAt(source, r),
         NEW z1 \in Int, NEW z2 \in Int, 0 <= z1, z1 <= z2,
         NEW peak, peak = Max({0} \cup {source[i].peak : i \in BlocksBetween(source, z1, z2)})
  PROVE  peak \in Int /\ peak * (z2 - z1) >= FromOverlaps(source, z1, z2, PowersOf(source))
<1>1. PICK n : n = Len(source)
  OBVIOUS
<1>2. n \in Nat /\ DOMAIN source = 1..n
  BY <1>1 DEF IsStacked, IsList
<1>3. PICK d : d = RatesOf(source)
  OBVIOUS
<1>4. IsDense(PowersOf(source), d, source) /\ \A i \in 1..n : d[i] = source[i].peak /\ d[i] \in Nat
  BY <1>1, <1>3, RatedFacts
<1>5. PICK from : from = BlocksBetween(source, z1, z2)
  OBVIOUS
<1>6. from = {i \in 1..n : Overlap(source[i], z1, z2) > 0}
  BY <1>2, <1>5 DEF BlocksBetween
<1>7. peak \in Nat /\ \A i \in from : d[i] <= peak
  <2>1. PICK S : S = {d[i] : i \in from}
    OBVIOUS
  <2>2. IsFiniteSet(from)
    <3>1. PICK N : N = 1..n
      OBVIOUS
    <3>2. IsFiniteSet(N) /\ from \in SUBSET N /\ from \subseteq N
      BY <1>2, <1>6, <3>1, FS_Interval
    <3> QED
      BY ONLY <3>2, FS_Subset
  <2>3. IsFiniteSet(S) /\ S \subseteq Nat
    BY <1>4, <1>6, <2>1, <2>2, ImageIsFinite
  <2>4. PICK T : T = {0} \cup S
    OBVIOUS
  <2>5. IsFiniteSet(T) /\ T \subseteq Int /\ T \subseteq Nat /\ T # {}
    <3>1. PICK U : U = {0}
      OBVIOUS
    <3>2. IsFiniteSet(U)
      BY <3>1, FS_Singleton
    <3>3. IsFiniteSet(U) /\ IsFiniteSet(S)
      BY <2>3, <3>2
    <3>4. IsFiniteSet(U \cup S)
      BY ONLY <3>3, FS_Union
    <3> QED
      BY <2>3, <2>4, <3>1, <3>4
  <2>6. {source[i].peak : i \in BlocksBetween(source, z1, z2)} = S
    BY <1>4, <1>5, <1>6, <2>1
  <2>7. peak = Max(T)
    BY <2>4, <2>6
  <2>8. Max(T) \in T /\ \A y \in T : Max(T) >= y
    BY <2>5, GreatestOfPoints
  <2>9. ASSUME NEW i \in from PROVE d[i] <= peak
    <3>1. d[i] \in T /\ d[i] \in Nat
      BY <1>4, <1>6, <2>1, <2>4
    <3>2. peak \in Nat /\ peak >= d[i]
      BY <2>5, <2>7, <2>8, <3>1
    <3> QED
      BY <3>1, <3>2
  <2> QED
    BY <2>5, <2>7, <2>8, <2>9
<1>8. PICK f : f = Parts(source, d, z2)
  OBVIOUS
<1>9. PICK h : h = Parts(source, d, z1)
  OBVIOUS
<1>10. PICK e : e = [i \in 1..n |-> f[i] - h[i]]
  OBVIOUS
<1>11. PICK g : g = [i \in 1..n |-> Clipped(source[i], z2) - Clipped(source[i], z1)]
  OBVIOUS
<1>12. ASSUME NEW i \in 1..n
       PROVE  /\ f[i] \in Int /\ h[i] \in Int /\ e[i] \in Int /\ e[i] = f[i] - h[i]
              /\ g[i] \in Int /\ e[i] <= peak * g[i]
  <2>1. PICK b : b = source[i]
    OBVIOUS
  <2>2. b.zb \in Int /\ b.zt \in Int /\ b.zb <= b.zt /\ z1 \in Int /\ z2 \in Int /\ z1 <= z2
    BY <1>1, <2>1 DEF IsStacked, StacksTo
  <2>3. /\ Clipped(b, z1) \in Int /\ Clipped(b, z2) \in Int /\ Overlap(b, z1, z2) \in Int
        /\ Overlap(b, z1, z2) > 0 => Overlap(b, z1, z2) = Clipped(b, z2) - Clipped(b, z1) /\ Height(b) > 0
        /\ ~(Overlap(b, z1, z2) > 0) => Clipped(b, z2) = Clipped(b, z1)
    BY ONLY <2>2, ClippedFacts
  <2>4. PICK x \in Int, y \in Int, v \in Int : x = Clipped(b, z1) /\ y = Clipped(b, z2) /\ v = y - x
    BY <2>3
  <2>5. f[i] = d[i] * y /\ h[i] = d[i] * x
    BY <1>1, <1>8, <1>9, <2>1, <2>4 DEF Parts
  <2>6. PICK q \in Nat : q = d[i]
    BY <1>4
  <2>7. e[i] = q * y - q * x /\ f[i] \in Int /\ h[i] \in Int /\ e[i] = f[i] - h[i] /\ e[i] \in Int
    <3>1. e[i] = f[i] - h[i]
      BY <1>10
    <3>2. f[i] = q * y /\ h[i] = q * x
      BY <2>5, <2>6
    <3>3. PICK m \in Int, k \in Int : m = q * y /\ k = q * x
      BY ONLY q \in Nat, x \in Int, y \in Int
    <3> QED
      BY <3>1, <3>2, <3>3
  <2>8. g[i] = v
    BY <1>11, <2>1, <2>4
  <2>9. q * y - q * x = q * v
    BY <2>4, <2>6
  <2>10. q * v <= peak * v
    <3>1. CASE i \in from
      <4>1. v > 0
        BY <1>6, <2>1, <2>3, <2>4, <3>1
      <4>2. q <= peak /\ peak \in Nat
        BY <1>7, <2>6, <3>1
      <4> QED
        BY ONLY <4>1, <4>2, q \in Nat, v \in Int
    <3>2. CASE i \notin from
      <4>1. v = 0
        BY <1>6, <2>1, <2>3, <2>4, <3>2
      <4>2. q * 0 = 0 /\ peak * 0 = 0
        BY <1>7, <2>6
      <4> QED
        BY <4>1, <4>2
    <3> QED
      BY <3>1, <3>2
  <2> QED
    BY <2>4, <2>7, <2>8, <2>9, <2>10
<1>13. SumTo(e, n) = SumTo(f, n) - SumTo(h, n)
  <2>1. n \in Nat /\ \A i \in 1..n : e[i] \in Int /\ f[i] \in Int /\ h[i] \in Int /\ e[i] = f[i] - h[i]
    BY <1>2, <1>12
  <2> QED
    BY ONLY <2>1, SumsDiffer
<1>14. SumTo(e, n) <= peak * SumTo(g, n)
  <2>1. n \in Nat /\ peak \in Int /\ \A i \in 1..n : e[i] \in Int /\ g[i] \in Int /\ e[i] <= peak * g[i]
    <3>1. n \in Nat /\ peak \in Int
      BY <1>2, <1>7
    <3> QED
      BY <1>12, <3>1
  <2> QED
    BY ONLY <2>1, SumsBounded
<1>15. SumTo(g, n) \in Int /\ SumTo(g, n) <= z2 - z1
  BY <1>1, <1>11, LengthBetween
<1>16. PICK got : got = FromOverlaps(source, z1, z2, PowersOf(source))
  OBVIOUS
<1>17. got = SumTo(e, n) /\ got \in Int
  <2>1. got = Below(source, d, z2) - Below(source, d, z1)
    BY <1>4, <1>16, BetweenElevations
  <2>2. Below(source, d, z2) = SumTo(f, n) /\ Below(source, d, z1) = SumTo(h, n)
    BY <1>1, <1>8, <1>9 DEF Below
  <2>3. Below(source, d, z2) \in Int /\ Below(source, d, z1) \in Int
    <3>1. IsStacked(source) /\ (\A i \in 1..Len(source) : d[i] \in Int) /\ z1 \in Int /\ z2 \in Int
      BY <1>1, <1>4
    <3> QED
      BY ONLY <3>1, BelowIsInt
  <2> QED
    BY <1>13, <2>1, <2>2, <2>3
<1>18. PICK s \in Int, w \in Int, p \in Nat : s = SumTo(g, n) /\ w = z2 - z1 /\ p = peak
  <2>1. peak \in Nat /\ SumTo(g, n) \in Int /\ z2 - z1 \in Int
    BY <1>7, <1>15
  <2> QED
    BY ONLY <2>1
<1>19. s <= w /\ got <= p * s
  BY <1>14, <1>15, <1>17, <1>18
<1>20. p * s <= p * w
  BY ONLY <1>19, s \in Int, w \in Int, p \in Nat
<1>21. p * w >= got
  BY <1>17, <1>18, <1>19, <1>20
<1> QED
  BY <1>7, <1>16, <1>18, <1>21

LEMMA ResultsMapped ==
  ASSUME NEW source, IsStacked(source), Len(source) >= 1, NEW r \in Nat, RatedAt(source, r),
         NEW blocks, Within(blocks), \A k \in 1..Len(blocks) : DOMAIN blocks[k] = BlockFields,
         source[Len(source)].zt <= Height0, CanBeMapped(source, blocks), Idle(blocks),
         NEW new, new = Mapped(source, blocks)
  PROVE  /\ Everything(new) = Everything(source)
         /\ \A k \in 1..Len(blocks) : new[k].peak * Height(new[k]) >= new[k].power
<1>1. PICK n : n = Len(blocks)
  OBVIOUS
<1>2. /\ n \in Nat /\ n \in 1..n /\ DOMAIN blocks = 1..n /\ IsStacked(blocks) /\ IsList(blocks)
      /\ blocks[n].zt = Height0
      /\ \A k \in 1..n : /\ blocks[k].zb \in Int /\ blocks[k].zt \in Int
                         /\ 0 <= blocks[k].zb /\ blocks[k].zb <= blocks[k].zt
  <2>1. IsStacked(blocks) /\ Len(blocks) >= 1 /\ blocks[Len(blocks)].zt = Height0
    BY DEF Within
  <2>2. n \in Nat /\ n \in 1..n /\ DOMAIN blocks = 1..n /\ IsList(blocks)
    BY <1>1, <2>1 DEF IsStacked, IsList
  <2>3. ASSUME NEW k \in 1..n
        PROVE  blocks[k].zb \in Int /\ blocks[k].zt \in Int /\ 0 <= blocks[k].zb /\ blocks[k].zb <= blocks[k].zt
    <3>1. blocks[k].zb \in 0..Height0
      BY <1>1 DEF Within
    <3> QED
      BY <1>1, <2>1, <3>1 DEF IsStacked, StacksTo
  <2> QED
    BY <1>1, <2>1, <2>2, <2>3
<1>3. PICK powers : powers = PowersOf(source)
  OBVIOUS
<1>4. PICK got : got = [k \in 1..n |-> FromOverlaps(source, blocks[k].zb, blocks[k].zt, powers)]
  OBVIOUS
<1>5. PICK d : d = RatesOf(source)
  OBVIOUS
<1>6. IsDense(powers, d, source)
  BY <1>3, <1>5, RatedFacts
<1>7. Redone(blocks, new)
  BY <1>2, MappedFacts
<1>8. Len(new) = n /\ DOMAIN new = 1..n
  BY <1>1, <1>2, <1>7 DEF Redone, IsList
<1>9. ASSUME NEW k \in 1..n
      PROVE  /\ new[k].power = got[k] /\ got[k] \in Int
             /\ new[k].peak * Height(new[k]) >= new[k].power
  <2>1. PICK b : b = blocks[k]
    OBVIOUS
  <2>2. PICK z1 \in Int, z2 \in Int : z1 = b.zb /\ z2 = b.zt /\ 0 <= z1 /\ z1 <= z2
    BY <1>2, <2>1
  <2>3. PICK from : from = BlocksBetween(source, z1, z2)
    OBVIOUS
  <2>4. PICK peak : peak = Max({0} \cup {source[i].peak : i \in BlocksBetween(source, z1, z2)})
    OBVIOUS
  <2>5. PICK power : power = FromOverlaps(source, z1, z2, powers)
    OBVIOUS
  <2>6. peak \in Int /\ peak * (z2 - z1) >= power
    <3>1. peak \in Int /\ peak * (z2 - z1) >= FromOverlaps(source, z1, z2, PowersOf(source))
      BY <2>2, <2>4, PeakCovers
    <3> QED
      BY <1>3, <2>5, <3>1
  <2>7. new[k] = IF from = {} THEN b ELSE [b EXCEPT !.power = power, !.peak = peak]
    <3>1. DOMAIN blocks = 1..n
      BY <1>2
    <3> QED
      BY <1>3, <2>1, <2>2, <2>3, <2>4, <2>5, <3>1 DEF Mapped, PowersOf
  <2>8. got[k] = power
    BY <1>4, <2>1, <2>2, <2>5
  <2>9. power \in Int
    <3>1. IsStacked(source) /\ (\A i \in 1..Len(source) : d[i] \in Int) /\ z1 \in Int /\ z2 \in Int
      BY <1>6 DEF IsDense
    <3>2. Below(source, d, z1) \in Int /\ Below(source, d, z2) \in Int
      BY ONLY <3>1, BelowIsInt
    <3>3. power = Below(source, d, z2) - Below(source, d, z1)
      BY <1>6, <2>2, <2>5, BetweenElevations
    <3> QED
      BY <3>2, <3>3
  <2>10. CASE from # {}
    <3>1. DOMAIN b = BlockFields
      BY <1>1, <2>1
    <3>2. new[k].power = power /\ new[k].peak = peak /\ new[k].zb = z1 /\ new[k].zt = z2
      BY <2>2, <2>7, <2>10, <3>1 DEF BlockFields
    <3>3. Height(new[k]) = z2 - z1
      BY <3>2 DEF Height
    <3> QED
      BY <2>6, <2>8, <2>9, <3>2, <3>3
  <2>11. CASE from = {}
    <3>1. Height(b) = 0
      BY <1>2, <2>1, <2>2, <2>3, <2>11 DEF CanBeMapped
    <3>2. new[k] = b /\ b.power = 0 /\ b.peak = 0
      BY <1>2, <2>1, <2>7, <2>11, <3>1 DEF Idle
    <3>3. power = 0
      <4>1. PICK e : e = [i \in from |-> Portion(powers[i], Overlap(source[i], z1, z2), Height(source[i]))]
        OBVIOUS
      <4>2. power = SumFunction(e)
        BY <2>3, <2>5, <4>1 DEF FromOverlaps
      <4>3. e = [i \in {} |-> powers[i]]
        BY <2>11, <4>1
      <4>4. PICK S : S = {}
        OBVIOUS
      <4>5. IsFiniteSet(S) /\ S = {} /\ \A i \in S : powers[i] \in Int
        BY <4>4, FS_EmptySet
      <4>6. SumFunction([i \in S |-> powers[i]]) = 0
        BY ONLY <4>5, SumFacts
      <4>7. e = [i \in S |-> powers[i]]
        BY <4>3, <4>4
      <4> QED
        BY <4>2, <4>6, <4>7
    <3> QED
      BY <2>8, <3>1, <3>2, <3>3
  <2> QED
    BY <2>10, <2>11
<1>10. SumFunction([j \in 1..n |-> got[j]]) = Below(source, d, Height0)
  <2>1. \A k \in 1..Len(blocks) : got[k] = FromOverlaps(source, blocks[k].zb, blocks[k].zt, powers)
    BY <1>1, <1>4
  <2>2. /\ IsStacked(source) /\ IsDense(powers, d, source) /\ IsStacked(blocks)
        /\ \A k \in 1..Len(blocks) : got[k] = FromOverlaps(source, blocks[k].zb, blocks[k].zt, powers)
    BY <1>2, <1>6, <2>1
  <2>3. \A k \in 1..Len(blocks) : /\ got[k] \in Int
                                  /\ SumFunction([j \in 1..k |-> got[j]]) = Below(source, d, blocks[k].zt)
    BY ONLY <2>2, Telescoped
  <2> QED
    BY <1>1, <1>2, <2>3
<1>11. Below(source, d, Height0) = SumFunction([j \in 1..Len(source) |-> powers[j]])
  <2>1. Height0 \in Int
    BY <1>2
  <2> QED
    BY <1>6, <2>1, AboveTop
<1>12. Everything(new) = SumFunction([j \in 1..n |-> got[j]])
  <2>1. Everything(new) = SumFunction([i \in 1..n |-> new[i].power])
    BY <1>8 DEF Everything, AllOf
  <2>2. [i \in 1..n |-> new[i].power] = [i \in 1..n |-> got[i]]
    BY <1>9
  <2> QED
    BY <2>1, <2>2
<1>13. Everything(source) = SumFunction([j \in 1..Len(source) |-> powers[j]])
  <2>1. DOMAIN source = 1..Len(source)
    BY DEF IsStacked, IsList
  <2>2. Everything(source) = SumFunction([i \in 1..Len(source) |-> source[i].power])
    BY <2>1 DEF Everything, AllOf
  <2>3. [i \in 1..Len(source) |-> source[i].power] = [j \in 1..Len(source) |-> powers[j]]
    BY <1>3, <2>1 DEF PowersOf
  <2> QED
    BY <2>2, <2>3
<1> QED
  BY <1>1, <1>9, <1>10, <1>11, <1>12, <1>13

(* A solve rates the blocks. *)
LEMMA SolvedRates ==
  ASSUME NEW a, DOMAIN a = AssemblyFields, IsList(a.blocks),
         \A k \in 1..Len(a.blocks) : {"power", "peak", "zb", "zt"} \subseteq DOMAIN a.blocks[k],
         NEW r, NEW b, b = SolvedWith(a, r)
  PROVE  RatedAt(b.blocks, r)
<1>1. PICK x : x = a.blocks
  OBVIOUS
<1>2. PICK n : n = Len(x)
  OBVIOUS
<1>3. n \in Nat /\ DOMAIN x = 1..n
  BY <1>1, <1>2 DEF IsList
<1>4. PICK power : power = [k \in 1..n |-> (r + k) * Height(x[k])]
  OBVIOUS
<1>5. PICK peak : peak = [k \in 1..n |-> r + k]
  OBVIOUS
<1>6. PICK y : y = [k \in 1..n |-> [x[k] EXCEPT !.power = power[k], !.peak = peak[k]]]
  OBVIOUS
<1>7. b = [a EXCEPT !.blocks = y]
  <2>1. y = [k \in DOMAIN a.blocks |->
               [a.blocks[k] EXCEPT !.power = (r + k) * Height(a.blocks[k]), !.peak = r + k]]
    BY <1>1, <1>3, <1>4, <1>5, <1>6
  <2>2. b = [a EXCEPT !.blocks = [k \in DOMAIN a.blocks |->
               [a.blocks[k] EXCEPT !.power = (r + k) * Height(a.blocks[k]), !.peak = r + k]]]
    BY DEF SolvedWith, AssemblyFields
  <2> QED
    BY ONLY <2>1, <2>2
<1>8. b.blocks = y
  BY <1>7 DEF AssemblyFields
<1>9. Len(y) = n
  <2>1. n \in Nat /\ y = [k \in 1..n |-> y[k]]
    BY <1>3, <1>6
  <2> QED
    BY ONLY <2>1, LenOf
<1>10. ASSUME NEW k \in 1..n
       PROVE  y[k].power = (r + k) * Height(y[k]) /\ y[k].peak = r + k
  <2>1. y[k] = [x[k] EXCEPT !.power = power[k], !.peak = peak[k]]
    BY <1>6
  <2>2. {"power", "peak", "zb", "zt"} \subseteq DOMAIN x[k]
    BY <1>1, <1>2
  <2>3. y[k].power = power[k] /\ y[k].peak = peak[k] /\ y[k].zb = x[k].zb /\ y[k].zt = x[k].zt
    BY <2>1, <2>2
  <2>4. power[k] = (r + k) * Height(x[k]) /\ peak[k] = r + k
    BY <1>4, <1>5
  <2>5. Height(y[k]) = Height(x[k])
    BY <2>3 DEF Height
  <2> QED
    BY <2>3, <2>4, <2>5
<1> QED
  BY <1>8, <1>9, <1>10 DEF RatedAt

-----------------------------------------------------------------------------
(* While a uniform core is in use its blocks have the atoms of those they  *)
(* stand for, and once it was solved a rate in each one.                   *)
Copied ==
  use = "copy" => \A p \in Places :
    /\ DOMAIN copy[p] = AssemblyFields
    /\ Represents(core[p].blocks, copy[p].blocks)
    /\ Top(copy[p].blocks) <= Height0
    /\ MinimumSizes = {NoSize} => Top(copy[p].blocks) = Height0

StandingIn ==
  /\ use = "inPlace" => \A s \in storage, p \in Places :
       s.name = <<p, Suffix>> => Represents(s.blocks, core[p].blocks)
  /\ \A s, t \in storage : s.name = t.name => s = t

Rated ==
  /\ use = "none" => ~solved
  /\ use = "inPlace" /\ solved => \E r \in Rates : \A p \in Places : RatedAt(core[p].blocks, r)
  /\ use = "copy" /\ solved => \E r \in Rates : \A p \in Places : RatedAt(copy[p].blocks, r)

MeshHolds == Copied /\ StandingIn /\ Rated

LEMMA LeftAlone ==
  ASSUME StandingIn, use' # "copy", use' # "inPlace", storage' \subseteq storage,
         use' = "none" => ~solved'
  PROVE  MeshHolds'
BY DEF MeshHolds, Copied, StandingIn, Rated

LEMMA CoreWithin ==
  ASSUME Shaped, Filled, EqualHeights, use # "inPlace"
  PROVE  \A p \in Places : /\ Within(core[p].blocks) /\ IsStacked(core[p].blocks)
                           /\ DOMAIN core[p] = AssemblyFields
<1> SUFFICES ASSUME NEW p \in Places
             PROVE  /\ Within(core[p].blocks) /\ IsStacked(core[p].blocks)
                    /\ DOMAIN core[p] = AssemblyFields
  OBVIOUS
<1>1. PICK a : a = core[p]
  OBVIOUS
<1>2. EqualHeights /\ case \in Cases /\ IsOriginal(p, a) /\ Fills(a.blocks, Top(Loading[p])) /\ p \in Places
  BY <1>1 DEF Shaped, InCore, Filled
<1>3. Within(a.blocks) /\ IsStacked(a.blocks) /\ DOMAIN a = AssemblyFields
  BY ONLY <1>2, OriginalWithin
<1> QED
  BY <1>1, <1>3

LEMMA CopyMade ==
  ASSUME Shaped, Filled, EqualHeights, MeshHolds, NEW size \in MinimumSizes, ConvertToCopy(size)
  PROVE  MeshHolds'
<1>1. PICK tops : tops = CommonMesh(size)
  OBVIOUS
<1>2. /\ use = "none" /\ use' = "copy" /\ UNCHANGED <<case, core, storage, solved>>
      /\ tops # << >> /\ \A p \in Places : Covers(core[p].blocks, tops)
      /\ copy' = [p \in Places |-> Uniform(core[p], tops)]
  BY <1>1 DEF ConvertToCopy
<1>3. \A p \in Places : /\ Within(core[p].blocks) /\ IsStacked(core[p].blocks)
                        /\ DOMAIN core[p] = AssemblyFields
  BY <1>2, CoreWithin
<1>4. /\ IsMesh(tops) /\ Len(tops) >= 1 /\ tops[Len(tops)] <= Height0
      /\ size = NoSize => tops[Len(tops)] = Height0
  BY <1>1, <1>2, <1>3, CommonMeshFacts
<1>5. ASSUME NEW p \in Places
      PROVE  /\ DOMAIN copy'[p] = AssemblyFields
             /\ Represents(core'[p].blocks, copy'[p].blocks)
             /\ Top(copy'[p].blocks) <= Height0
             /\ MinimumSizes = {NoSize} => Top(copy'[p].blocks) = Height0
  <2>1. PICK a : a = core[p]
    OBVIOUS
  <2>2. PICK b : b = Uniform(a, tops)
    OBVIOUS
  <2>3. /\ DOMAIN a = AssemblyFields /\ IsStacked(a.blocks) /\ IsMesh(tops) /\ Len(tops) >= 1
        /\ Covers(a.blocks, tops) /\ b = Uniform(a, tops) /\ IsList(tops)
    BY <1>2, <1>3, <1>4, <2>1, <2>2 DEF IsMesh
  <2>4. Represents(a.blocks, b.blocks)
    BY ONLY <2>3, UniformRepresents
  <2>5. DOMAIN b = AssemblyFields /\ OnTops(b.blocks, tops)
    BY ONLY <2>3, UniformFacts
  <2>6. Top(b.blocks) = tops[Len(tops)]
    BY <2>3, <2>5 DEF OnTops, Top, IsList
  <2>7. copy'[p] = b /\ core'[p] = a
    BY <1>2, <2>1, <2>2
  <2>8. MinimumSizes = {NoSize} => size = NoSize
    OBVIOUS
  <2> QED
    BY <1>4, <2>4, <2>5, <2>6, <2>7, <2>8
<1>6. Copied'
  BY <1>5 DEF Copied, Height0, Top
<1>7. StandingIn'
  BY <1>2 DEF MeshHolds, StandingIn
<1>8. Rated'
  <2>1. ~solved
    BY <1>2 DEF MeshHolds, Rated
  <2>2. ~solved'
    BY <1>2, <2>1
  <2> QED
    BY <1>2, <2>2 DEF Rated
<1> QED
  BY <1>6, <1>7, <1>8 DEF MeshHolds

LEMMA StandInsMade ==
  ASSUME Shaped, Filled, EqualHeights, MeshHolds, ConvertInPlace
  PROVE  MeshHolds'
<1> DEFINE S == case.nonUniform
<1>1. PICK tops : tops = TopsOf(core[Reference].blocks)
  OBVIOUS
<1>2. PICK new : new = [p \in S |-> Uniform(core[p], tops)]
  OBVIOUS
<1>3. /\ use = "none" /\ use' = "inPlace" /\ core' = Over(new, core) /\ UNCHANGED solved
      /\ storage' = {[core[p] EXCEPT !.name[2] = Suffix] : p \in S}
      /\ \A p \in S : Covers(core[p].blocks, tops)
  BY <1>1, <1>2 DEF ConvertInPlace
<1>4. case \in Cases /\ S \subseteq Places /\ NamedByPlace(core, Places)
  BY LoadingAssumption DEF Shaped
<1>5. \A p \in Places : /\ Within(core[p].blocks) /\ IsStacked(core[p].blocks)
                        /\ DOMAIN core[p] = AssemblyFields
  BY <1>3, CoreWithin
<1>6. IsMesh(tops) /\ Len(tops) >= 1 /\ IsList(tops)
  <2>1. IsMesh(tops) /\ Len(tops) >= 2
    BY <1>1, <1>3, ReferenceTops
  <2>2. Len(tops) \in Nat
    BY <2>1 DEF IsMesh, IsList
  <2> QED
    BY <2>1, <2>2 DEF IsMesh
<1>7. ASSUME NEW p \in S PROVE Represents(core[p].blocks, core'[p].blocks)
  <2>1. PICK a : a = core[p]
    OBVIOUS
  <2>2. PICK b : b = Uniform(a, tops)
    OBVIOUS
  <2>3. /\ DOMAIN a = AssemblyFields /\ IsStacked(a.blocks) /\ IsMesh(tops) /\ Len(tops) >= 1
        /\ Covers(a.blocks, tops) /\ b = Uniform(a, tops)
    BY <1>3, <1>4, <1>5, <1>6, <2>1, <2>2
  <2>4. Represents(a.blocks, b.blocks)
    BY ONLY <2>3, UniformRepresents
  <2>5. core'[p] = b
    BY <1>2, <1>3, <2>1, <2>2 DEF Over
  <2> QED
    BY <2>1, <2>4, <2>5
<1>8. ASSUME NEW s \in storage'
      PROVE  \E p \in S : s.name = <<p, Suffix>> /\ s.blocks = core[p].blocks /\ s = [core[p] EXCEPT !.name[2] = Suffix]
  <2>1. PICK p \in S : s = [core[p] EXCEPT !.name[2] = Suffix]
    BY <1>3
  <2>2. PICK a : a = core[p]
    OBVIOUS
  <2>3. p \in Places /\ IsOriginal(p, a) /\ a.name = <<p, "">> /\ s = [a EXCEPT !.name[2] = Suffix]
    BY <1>3, <1>4, <2>1, <2>2 DEF Shaped, InCore, NamedByPlace
  <2>4. s.name = <<p, Suffix>> /\ s.blocks = a.blocks
    BY ONLY <2>3, PutAside
  <2> QED
    BY <2>1, <2>2, <2>4
<1>9. \A s \in storage', p \in Places : s.name = <<p, Suffix>> => Represents(s.blocks, core'[p].blocks)
  <2> SUFFICES ASSUME NEW s \in storage', NEW p \in Places, s.name = <<p, Suffix>>
               PROVE  Represents(s.blocks, core'[p].blocks)
    OBVIOUS
  <2>1. PICK q \in S : s.name = <<q, Suffix>> /\ s.blocks = core[q].blocks
    BY <1>8
  <2>2. p = q
    BY <2>1
  <2> QED
    BY <1>7, <2>1, <2>2
<1>10. \A s, t \in storage' : s.name = t.name => s = t
  <2> SUFFICES ASSUME NEW s \in storage', NEW t \in storage', s.name = t.name PROVE s = t
    OBVIOUS
  <2>1. PICK p \in S : s.name = <<p, Suffix>> /\ s = [core[p] EXCEPT !.name[2] = Suffix]
    BY <1>8
  <2>2. PICK q \in S : t.name = <<q, Suffix>> /\ t = [core[q] EXCEPT !.name[2] = Suffix]
    BY <1>8
  <2>3. <<p, Suffix>> = <<q, Suffix>>
    BY <2>1, <2>2
  <2>4. p = q
    BY ONLY <2>3
  <2> QED
    BY <2>1, <2>2, <2>4
<1>11. StandingIn'
  BY <1>9, <1>10 DEF StandingIn
<1>12. Copied'
  BY <1>3 DEF Copied
<1>13. Rated'
  <2>1. ~solved
    BY <1>3 DEF MeshHolds, Rated
  <2>2. ~solved'
    BY <1>3, <2>1
  <2> QED
    BY <1>3, <2>2 DEF Rated
<1> QED
  BY <1>11, <1>12, <1>13 DEF MeshHolds

LEMMA SolvedAssembly ==
  ASSUME NEW a, DOMAIN a = AssemblyFields, IsList(a.blocks),
         \A k \in 1..Len(a.blocks) : {"power", "peak", "zb", "zt"} \subseteq DOMAIN a.blocks[k],
         NEW r, NEW b, b = SolvedWith(a, r)
  PROVE  DOMAIN b = AssemblyFields /\ Redone(a.blocks, b.blocks) /\ RatedAt(b.blocks, r)
<1>1. RatedAt(b.blocks, r)
  BY SolvedRates
<1>2. DOMAIN b = AssemblyFields /\ Redone(a.blocks, b.blocks)
  BY SolvedFacts
<1> QED
  BY <1>1, <1>2

LEMMA StandInsSolved ==
  ASSUME Shaped, MeshHolds, NEW r \in Rates, Solve(r), use = "inPlace"
  PROVE  MeshHolds'
<1>1. /\ use' = "inPlace" /\ UNCHANGED storage
      /\ core' = [p \in Places |-> SolvedWith(core[p], r)] /\ case \in Cases
  BY DEF Solve, Shaped
<1>2. ASSUME NEW p \in Places
      PROVE  Redone(core[p].blocks, core'[p].blocks) /\ RatedAt(core'[p].blocks, r)
  <2>1. PICK a : a = core[p]
    OBVIOUS
  <2>2. PICK b : b = SolvedWith(a, r)
    OBVIOUS
  <2>3. /\ DOMAIN a = AssemblyFields /\ IsList(a.blocks)
        /\ \A k \in 1..Len(a.blocks) : {"power", "peak", "zb", "zt"} \subseteq DOMAIN a.blocks[k]
    <3>1. CASE p \in case.nonUniform
      <4>1. IsStandIn(a)
        BY <2>1, <3>1 DEF Shaped, InCore
      <4> QED
        BY <4>1 DEF IsStandIn, UniformFields
    <3>2. CASE p \notin case.nonUniform
      <4>1. IsOriginal(p, a)
        BY <2>1, <3>2 DEF Shaped, InCore
      <4>2. IsStack(a.blocks)
        BY <1>1, <4>1, OriginalFacts
      <4> QED
        BY <4>1, <4>2 DEF IsOriginal, IsStack, BlockFields
    <3> QED
      BY <3>1, <3>2
  <2>4. Redone(a.blocks, b.blocks) /\ RatedAt(b.blocks, r)
    BY <2>2, <2>3, SolvedAssembly
  <2>5. core'[p] = b
    BY <1>1, <2>1, <2>2
  <2> QED
    BY <2>1, <2>4, <2>5
<1>3. \A s \in storage', p \in Places : s.name = <<p, Suffix>> => Represents(s.blocks, core'[p].blocks)
  <2> SUFFICES ASSUME NEW s \in storage', NEW p \in Places, s.name = <<p, Suffix>>
               PROVE  Represents(s.blocks, core'[p].blocks)
    OBVIOUS
  <2>1. PICK u : u = core[p].blocks
    OBVIOUS
  <2>2. PICK v : v = core'[p].blocks
    OBVIOUS
  <2>3. PICK a : a = s.blocks
    OBVIOUS
  <2>4. Represents(a, u) /\ Redone(u, v)
    BY <1>1, <1>2, <2>1, <2>2, <2>3 DEF MeshHolds, StandingIn
  <2>5. Represents(a, v)
    BY ONLY <2>4, RedoneRepresents
  <2> QED
    BY <2>2, <2>3, <2>5
<1>4. StandingIn'
  BY <1>1, <1>3 DEF MeshHolds, StandingIn
<1>5. Copied' /\ Rated'
  BY <1>1, <1>2 DEF Copied, Rated
<1> QED
  BY <1>4, <1>5 DEF MeshHolds

LEMMA CopySolved ==
  ASSUME Shaped, MeshHolds, NEW r \in Rates, Solve(r), use = "copy"
  PROVE  MeshHolds'
<1>1. /\ use' = "copy" /\ UNCHANGED <<storage, core>>
      /\ copy' = [p \in Places |-> SolvedWith(copy[p], r)]
  BY DEF Solve
<1>2. ASSUME NEW p \in Places
      PROVE  /\ DOMAIN copy'[p] = AssemblyFields
             /\ Represents(core'[p].blocks, copy'[p].blocks) /\ RatedAt(copy'[p].blocks, r)
             /\ Top(copy'[p].blocks) = Top(copy[p].blocks)
  <2>1. PICK a : a = copy[p]
    OBVIOUS
  <2>2. PICK b : b = SolvedWith(a, r)
    OBVIOUS
  <2>3. PICK c : c = core[p].blocks
    OBVIOUS
  <2>4. DOMAIN a = AssemblyFields /\ Represents(c, a.blocks)
    BY <2>1, <2>3 DEF MeshHolds, Copied
  <2>5. /\ IsList(a.blocks) /\ Len(a.blocks) \in 1..Len(a.blocks)
        /\ \A k \in 1..Len(a.blocks) : DOMAIN a.blocks[k] = UniformFields
    BY <2>4 DEF Represents, IsStacked, IsList
  <2>6. DOMAIN b = AssemblyFields /\ Redone(a.blocks, b.blocks) /\ RatedAt(b.blocks, r)
    BY <2>2, <2>4, <2>5, SolvedAssembly DEF UniformFields
  <2>7. PICK u : u = a.blocks
    OBVIOUS
  <2>8. PICK v : v = b.blocks
    OBVIOUS
  <2>9. Represents(c, u) /\ Redone(u, v)
    BY <2>4, <2>6, <2>7, <2>8
  <2>10. Represents(c, v)
    BY ONLY <2>9, RedoneRepresents
  <2>11. Top(v) = Top(u)
    <3>1. Len(v) = Len(u) /\ Len(u) \in 1..Len(u) /\ DOMAIN u[Len(u)] = UniformFields
      BY <2>5, <2>7, <2>9 DEF Redone
    <3>2. v[Len(u)].zt = u[Len(u)].zt
      BY <2>9, <3>1 DEF Redone, UniformFields
    <3> QED
      BY <3>1, <3>2 DEF Top
  <2>12. copy'[p] = b /\ core'[p].blocks = c
    BY <1>1, <2>1, <2>2, <2>3
  <2> QED
    BY <2>1, <2>6, <2>7, <2>8, <2>10, <2>11, <2>12
<1>3. Copied'
  <2>1. \A p \in Places : /\ Top(copy[p].blocks) <= Height0
                          /\ MinimumSizes = {NoSize} => Top(copy[p].blocks) = Height0
    BY DEF MeshHolds, Copied
  <2> QED
    BY <1>1, <1>2, <2>1 DEF Copied, Top, Height0
<1>4. StandingIn'
  BY <1>1 DEF MeshHolds, StandingIn
<1>5. Rated'
  BY <1>1, <1>2 DEF Rated
<1> QED
  BY <1>3, <1>4, <1>5 DEF MeshHolds

LEMMA MeshStep ==
  ASSUME Shaped, Filled, EqualHeights, MeshHolds, [Next]_vars
  PROVE  MeshHolds'
<1>1. ASSUME NEW p \in Places, NEW change \in Changes[p], Expand(p, change) \/ ExpandFails(p, change)
      PROVE  MeshHolds'
  <2>1. /\ use' # "copy" /\ use' # "inPlace" /\ storage' = storage
        /\ use' = "none" => use = "none" /\ solved' = solved
    BY <1>1 DEF Expand, ExpandFails, MayExpand
  <2> QED
    BY <2>1, LeftAlone DEF MeshHolds, Rated
<1>2. CASE ManageCoreMesh
  <2>1. use' = "none" /\ use = "none" /\ storage' = storage /\ solved' = solved
    BY <1>2 DEF ManageCoreMesh
  <2> QED
    BY <2>1, LeftAlone DEF MeshHolds, Rated
<1>3. CASE ConvertInPlace
  BY <1>3, StandInsMade
<1>4. ASSUME NEW size \in MinimumSizes, ConvertToCopy(size)
      PROVE  MeshHolds'
  BY <1>4, CopyMade
<1>5. ASSUME NEW size \in MinimumSizes, ConvertFails(size)
      PROVE  MeshHolds'
  <2>1. use' = "failed" /\ storage' = storage
    BY <1>5 DEF ConvertFails
  <2> QED
    BY <2>1, LeftAlone DEF MeshHolds
<1>6. ASSUME NEW r \in Rates, Solve(r)
      PROVE  MeshHolds'
  <2>1. use = "inPlace" \/ use = "copy"
    BY <1>6 DEF Solve
  <2> QED
    BY <1>6, <2>1, StandInsSolved, CopySolved
<1>7. CASE ApplyInPlace
  <2>1. use' = "none" /\ storage' \subseteq storage /\ ~solved'
    BY <1>7 DEF ApplyInPlace
  <2> QED
    BY <2>1, LeftAlone DEF MeshHolds
<1>8. CASE ApplyCopy
  <2>1. (use' = "none" /\ ~solved') \/ use' = "unmapped"
    BY <1>8 DEF ApplyCopy
  <2>2. storage' = storage
    BY <1>8 DEF ApplyCopy
  <2> QED
    BY <2>1, <2>2, LeftAlone DEF MeshHolds
<1>9. CASE LeaveCopy
  <2>1. use' = "none" /\ storage' = storage /\ ~solved'
    BY <1>9 DEF LeaveCopy
  <2> QED
    BY <2>1, LeftAlone DEF MeshHolds
<1>10. CASE UNCHANGED vars
  BY <1>10 DEF vars, MeshHolds, Copied, StandingIn, Rated, Top, Height0
<1> QED
  BY <1>1, <1>2, <1>3, <1>4, <1>5, <1>6, <1>7, <1>8, <1>9, <1>10 DEF Next

LEMMA UnsolvedSame ==
  ASSUME NEW a, NEW b, DOMAIN a = AssemblyFields, DOMAIN b = AssemblyFields,
         a.name = b.name, a.uniform = b.uniform, IsStack(a.blocks), Redone(a.blocks, b.blocks)
  PROVE  Unsolved(a) = Unsolved(b)
<1>1. PICK x : x = a.blocks
  OBVIOUS
<1>2. PICK y : y = b.blocks
  OBVIOUS
<1>3. Len(x) \in Nat /\ DOMAIN x = 1..Len(x) /\ DOMAIN y = 1..Len(x)
  BY <1>1, <1>2 DEF IsStack, IsList, Redone
<1>4. PICK u : u = [i \in 1..Len(x) |-> [x[i] EXCEPT !.power = 0, !.peak = 0]]
  OBVIOUS
<1>5. PICK v : v = [i \in 1..Len(x) |-> [y[i] EXCEPT !.power = 0, !.peak = 0]]
  OBVIOUS
<1>6. ASSUME NEW i \in 1..Len(x)
      PROVE  [x[i] EXCEPT !.power = 0, !.peak = 0] = [y[i] EXCEPT !.power = 0, !.peak = 0]
  <2>1. PICK c : c = x[i]
    OBVIOUS
  <2>2. PICK d : d = y[i]
    OBVIOUS
  <2>3. DOMAIN d = DOMAIN c /\ \A f \in DOMAIN c \ {"power", "peak"} : d[f] = c[f]
    BY <1>1, <1>2, <2>1, <2>2 DEF Redone
  <2>4. [c EXCEPT !.power = 0, !.peak = 0] = [d EXCEPT !.power = 0, !.peak = 0]
    BY ONLY <2>3
  <2> QED
    BY <2>1, <2>2, <2>4
<1>7. u = v
  BY <1>4, <1>5, <1>6
<1>8. Unsolved(a) = [a EXCEPT !.moves = 0, !.blocks = u]
  <2>1. u = [i \in DOMAIN a.blocks |-> [a.blocks[i] EXCEPT !.power = 0, !.peak = 0]]
    BY <1>1, <1>3, <1>4
  <2>2. Unsolved(a) = [a EXCEPT !.moves = 0,
          !.blocks = [i \in DOMAIN a.blocks |-> [a.blocks[i] EXCEPT !.power = 0, !.peak = 0]]]
    BY DEF Unsolved, AssemblyFields
  <2> QED
    BY ONLY <2>1, <2>2
<1>9. Unsolved(b) = [b EXCEPT !.moves = 0, !.blocks = v]
  <2>1. v = [i \in DOMAIN b.blocks |-> [b.blocks[i] EXCEPT !.power = 0, !.peak = 0]]
    BY <1>2, <1>3, <1>5
  <2>2. Unsolved(b) = [b EXCEPT !.moves = 0,
          !.blocks = [i \in DOMAIN b.blocks |-> [b.blocks[i] EXCEPT !.power = 0, !.peak = 0]]]
    BY DEF Unsolved, AssemblyFields
  <2> QED
    BY ONLY <2>1, <2>2
<1>10. [a EXCEPT !.moves = 0, !.blocks = u] = [b EXCEPT !.moves = 0, !.blocks = u]
  <2>1. PICK n : n = a.name
    OBVIOUS
  <2>2. /\ DOMAIN a = AssemblyFields /\ DOMAIN b = AssemblyFields
        /\ a.name = b.name /\ a.uniform = b.uniform
    OBVIOUS
  <2> QED
    BY ONLY <2>2 DEF AssemblyFields
<1> QED
  BY <1>7, <1>8, <1>9, <1>10

(* So it is in all blocks that others stand in for.                        *)
DensitiesAreWhole ==
  /\ use = "copy" => \A p \in Places : WholeDensities(core[p].blocks)
  /\ use = "inPlace" => \A s \in storage : WholeDensities(s.blocks)

(* Nothing was found in blocks of no height among those that are mapped to. *)
EmptyBlocksIdle ==
  /\ use = "copy" => \A p \in Places : Idle(core[p].blocks)
  /\ use = "inPlace" => \A s \in storage : Idle(s.blocks)

LEMMA StoredWithin ==
  ASSUME Shaped, Filled, EqualHeights, use = "inPlace", NEW s \in storage
  PROVE  \E p \in case.nonUniform :
           /\ p \in Places /\ s.name = <<p, Suffix>> /\ s.name[1] = p
           /\ IsOriginal(p, s) /\ Within(s.blocks) /\ IsStacked(s.blocks)
<1>1. PICK p \in case.nonUniform : s.name = <<p, Suffix>> /\ IsOriginal(p, s)
  BY DEF Shaped, InStorage
<1>2. p \in Places /\ case \in Cases
  BY LoadingAssumption DEF Shaped
<1>3. EqualHeights /\ case \in Cases /\ IsOriginal(p, s) /\ Fills(s.blocks, Top(Loading[p])) /\ p \in Places
  BY <1>1, <1>2 DEF Filled
<1>4. Within(s.blocks) /\ IsStacked(s.blocks)
  BY ONLY <1>3, OriginalWithin
<1> QED
  BY <1>1, <1>2, <1>4

LEMMA AtomsThen ==
  ASSUME Shaped, Filled, EqualHeights, MeshHolds, DensitiesAreWhole
  PROVE  /\ use = "copy" => \A p \in Places : SameAtoms(core[p].blocks, copy[p].blocks)
         /\ use = "inPlace" => \A s \in storage : SameAtoms(s.blocks, core[s.name[1]].blocks)
         /\ use = "copy" /\ MinimumSizes = {NoSize} =>
              \A p \in Places : Top(copy[p].blocks) = Top(core[p].blocks)
<1>1. ASSUME use = "copy", NEW p \in Places
      PROVE  /\ SameAtoms(core[p].blocks, copy[p].blocks)
             /\ MinimumSizes = {NoSize} => Top(copy[p].blocks) = Top(core[p].blocks)
  <2>1. PICK a : a = core[p].blocks
    OBVIOUS
  <2>2. PICK u : u = copy[p].blocks
    OBVIOUS
  <2>3. Within(a) /\ IsStacked(a)
    BY <1>1, <2>1, CoreWithin
  <2>4. IsStacked(a) /\ WholeDensities(a) /\ Represents(a, u)
    BY <1>1, <2>1, <2>2, <2>3 DEF DensitiesAreWhole, MeshHolds, Copied
  <2>5. SameAtoms(a, u)
    BY ONLY <2>4, AtomsFollow
  <2>6. MinimumSizes = {NoSize} => Top(u) = Top(a)
    BY <1>1, <2>2, <2>3 DEF MeshHolds, Copied, Within, Top
  <2> QED
    BY <2>1, <2>2, <2>5, <2>6
<1>2. ASSUME use = "inPlace", NEW s \in storage
      PROVE  SameAtoms(s.blocks, core[s.name[1]].blocks)
  <2>1. PICK p \in Places : s.name = <<p, Suffix>> /\ s.name[1] = p /\ IsStacked(s.blocks)
    BY <1>2, StoredWithin
  <2>2. PICK a : a = s.blocks
    OBVIOUS
  <2>3. PICK u : u = core[p].blocks
    OBVIOUS
  <2>4. IsStacked(a) /\ WholeDensities(a) /\ Represents(a, u)
    BY <1>2, <2>1, <2>2, <2>3 DEF DensitiesAreWhole, MeshHolds, StandingIn
  <2>5. SameAtoms(a, u)
    BY ONLY <2>4, AtomsFollow
  <2> QED
    BY <2>1, <2>2, <2>3, <2>5
<1> QED
  BY <1>1, <1>2

LEMMA MeshAlways == EqualHeights => (Spec => [](Shaped /\ Filled /\ MeshHolds))
<1> SUFFICES ASSUME EqualHeights PROVE Spec => [](Shaped /\ Filled /\ MeshHolds)
  OBVIOUS
<1>1. Init => Shaped /\ NamesHold /\ Filled /\ MeshHolds
  <2>1. Init => MeshHolds
    BY DEF Init, MeshHolds, Copied, StandingIn, Rated
  <2> QED
    BY <2>1, InitHolds
<1>2. Shaped /\ NamesHold /\ Filled /\ MeshHolds /\ [Next]_vars
        => (Shaped /\ NamesHold /\ Filled /\ MeshHolds)'
  BY StepHolds, MeshStep
<1> QED
  BY <1>1, <1>2, PTL DEF Spec

(* Where the assemblies were built to one height: on whatever mesh a core  *)
(* is made uniform, of whatever minimum size, each of its assemblies has   *)
(* below every elevation where the meshes meet the atoms of the one it     *)
(* stands for, if the unit of mass makes densities whole numbers           *)
(* (setNumberDensitiesFromOverlaps divides without a remainder).           *)
THEOREM AtomsFollowMeshes ==
  ASSUME EqualHeights
  PROVE  Spec => [](DensitiesAreWhole =>
           /\ use = "copy" => \A p \in Places : SameAtoms(core[p].blocks, copy[p].blocks)
           /\ use = "inPlace" => \A s \in storage : SameAtoms(s.blocks, core[s.name[1]].blocks))
<1>1. Shaped /\ Filled /\ MeshHolds =>
        (DensitiesAreWhole =>
           /\ use = "copy" => \A p \in Places : SameAtoms(core[p].blocks, copy[p].blocks)
           /\ use = "inPlace" => \A s \in storage : SameAtoms(s.blocks, core[s.name[1]].blocks))
  BY AtomsThen
<1> QED
  BY <1>1, MeshAlways, PTL

(* With no minimum size the generated mesh ends at the top of the core, so *)
(* that a uniform copy has all of the atoms.  A minimum size may lose the  *)
(* top (EveryBlockIsMapped).                                               *)
THEOREM AtomsStay ==
  ASSUME EqualHeights, MinimumSizes = {NoSize}
  PROVE  Spec => [](DensitiesAreWhole => AtomsAreKept)
<1>1. Shaped /\ Filled /\ MeshHolds => (DensitiesAreWhole => AtomsAreKept)
  <2> SUFFICES ASSUME Shaped, Filled, MeshHolds, DensitiesAreWhole PROVE AtomsAreKept
    OBVIOUS
  <2>1. /\ use = "copy" => \A p \in Places : SameAtoms(core[p].blocks, copy[p].blocks)
        /\ use = "inPlace" => \A s \in storage : SameAtoms(s.blocks, core[s.name[1]].blocks)
        /\ use = "copy" => \A p \in Places : Top(copy[p].blocks) = Top(core[p].blocks)
    BY AtomsThen
  <2> QED
    BY <2>1 DEF AtomsAreKept
<1> QED
  BY <1>1, MeshAlways, PTL

(* What a place is left with.                                              *)
ComesBack(p) ==
  LET was == IF core[p].uniform
             THEN CHOOSE s \in storage : s.name[1] = p ELSE core[p]
      found == IF use = "copy" THEN copy[p] ELSE core[p]
  IN  /\ Unsolved(core'[p]) = Unsolved([was EXCEPT !.name = <<p, "">>])
      /\ core' # core =>
           /\ Everything(core'[p].blocks) = Everything(found.blocks)
           /\ \A b \in Range(core'[p].blocks) : (b.peak * Height(b) >= b.power)

LEMMA PutBack ==
  ASSUME NEW p \in Places, case \in Cases, NEW was, IsOriginal(p, was), Within(was.blocks), Idle(was.blocks),
         NEW source, IsStacked(source), Len(source) >= 1, source[Len(source)].zt <= Height0,
         NEW r \in Nat, RatedAt(source, r), CanBeMapped(source, was.blocks),
         NEW b, DOMAIN b = AssemblyFields, b.name = <<p, "">>, b.uniform = was.uniform,
         b.blocks = Mapped(source, was.blocks)
  PROVE  /\ Unsolved(b) = Unsolved([was EXCEPT !.name = <<p, "">>])
         /\ Everything(b.blocks) = Everything(source)
         /\ \A c \in Range(b.blocks) : (c.peak * Height(c) >= c.power)
<1>1. PICK x : x = was.blocks
  OBVIOUS
<1>2. PICK y : y = b.blocks
  OBVIOUS
<1>3. IsStack(x) /\ IsList(x) /\ \A k \in 1..Len(x) : DOMAIN x[k] = BlockFields
  <2>1. IsStack(x)
    BY <1>1, OriginalFacts
  <2> QED
    BY <2>1 DEF IsStack
<1>4. Redone(x, y) /\ y = Mapped(source, x)
  BY <1>1, <1>2, <1>3, MappedFacts
<1>5. PICK c : c = [was EXCEPT !.name = <<p, "">>]
  OBVIOUS
<1>6. DOMAIN c = AssemblyFields /\ c.name = <<p, "">> /\ c.uniform = was.uniform /\ c.blocks = x
  BY <1>1, <1>5 DEF IsOriginal, AssemblyFields
<1>7. Unsolved(c) = Unsolved(b)
  <2>1. /\ DOMAIN c = AssemblyFields /\ DOMAIN b = AssemblyFields
        /\ c.name = b.name /\ c.uniform = b.uniform /\ IsStack(c.blocks) /\ Redone(c.blocks, b.blocks)
    BY <1>2, <1>3, <1>4, <1>6
  <2> QED
    BY ONLY <2>1, UnsolvedSame
<1>8. /\ Everything(y) = Everything(source)
      /\ \A k \in 1..Len(x) : y[k].peak * Height(y[k]) >= y[k].power
  <2>1. /\ IsStacked(source) /\ Len(source) >= 1 /\ r \in Nat /\ RatedAt(source, r)
        /\ Within(x) /\ (\A k \in 1..Len(x) : DOMAIN x[k] = BlockFields)
        /\ source[Len(source)].zt <= Height0 /\ CanBeMapped(source, x) /\ Idle(x)
        /\ y = Mapped(source, x)
    BY <1>1, <1>3, <1>4
  <2> QED
    BY ONLY <2>1, ResultsMapped
<1>9. DOMAIN y = 1..Len(x)
  BY <1>4 DEF Redone, IsList
<1>10. \A d \in Range(y) : (d.peak * Height(d) >= d.power)
  BY <1>8, <1>9 DEF Range
<1> QED
  BY <1>2, <1>5, <1>7, <1>8, <1>10

LEMMA CopyComesBack ==
  ASSUME Shaped, Filled, EqualHeights, MeshHolds, EmptyBlocksIdle, ApplyCopy, use' = "none", NEW p \in Places
  PROVE  ComesBack(p)
<1>1. /\ use = "copy" /\ solved /\ case \in Cases
      /\ \A q \in Places : CanBeMapped(copy[q].blocks, core[q].blocks)
      /\ core' = [q \in Places |-> [core[q] EXCEPT !.blocks = Mapped(copy[q].blocks, core[q].blocks)]]
  BY DEF ApplyCopy, Shaped
<1>2. PICK was : was = core[p]
  OBVIOUS
<1>3. IsOriginal(p, was) /\ was.name = <<p, "">> /\ Within(was.blocks) /\ Idle(was.blocks)
  BY <1>1, <1>2, CoreWithin DEF Shaped, InCore, NamedByPlace, EmptyBlocksIdle
<1>4. PICK source : source = copy[p].blocks
  OBVIOUS
<1>5. IsStacked(source) /\ Len(source) >= 1 /\ source[Len(source)].zt <= Height0
  BY <1>1, <1>4 DEF MeshHolds, Copied, Represents, Top
<1>6. PICK r \in Rates : RatedAt(source, r)
  BY <1>1, <1>4 DEF MeshHolds, Rated
<1>7. r \in Nat
  BY RatesAssumption
<1>8. PICK b : b = [was EXCEPT !.blocks = Mapped(source, was.blocks)]
  OBVIOUS
<1>9. core'[p] = b
  BY <1>1, <1>2, <1>4, <1>8
<1>10. /\ DOMAIN b = AssemblyFields /\ b.name = <<p, "">> /\ b.uniform = was.uniform
       /\ b.blocks = Mapped(source, was.blocks)
  BY <1>3, <1>8 DEF IsOriginal, AssemblyFields
<1>11. CanBeMapped(source, was.blocks)
  BY <1>1, <1>2, <1>4
<1>12. /\ Unsolved(b) = Unsolved([was EXCEPT !.name = <<p, "">>])
       /\ Everything(b.blocks) = Everything(source)
       /\ \A c \in Range(b.blocks) : (c.peak * Height(c) >= c.power)
  BY <1>1, <1>3, <1>5, <1>6, <1>7, <1>10, <1>11, PutBack
<1>13. core[p].uniform = FALSE
  BY <1>2, <1>3 DEF IsOriginal
<1> QED
  BY <1>1, <1>2, <1>4, <1>9, <1>12, <1>13 DEF ComesBack

LEMMA StandInComesBack ==
  ASSUME Shaped, Filled, EqualHeights, MeshHolds, EmptyBlocksIdle, ApplyInPlace, NEW p \in case.nonUniform
  PROVE  ComesBack(p)
<1> DEFINE S == case.nonUniform
           stored(q) == CHOOSE s \in StoredFor(core[q]) : TRUE
           returned(q) == [stored(q) EXCEPT !.name = core[q].name, !.moves = stored(q).moves + 1,
                                            !.blocks = Mapped(core[q].blocks, stored(q).blocks)]
<1>1. PICK back : back = [q \in S |-> returned(q)]
  OBVIOUS
<1>2. /\ use = "inPlace" /\ solved /\ core' = Over(back, core)
      /\ \A q \in S : \A s \in StoredFor(core[q]) : CanBeMapped(core[q].blocks, s.blocks)
  BY <1>1 DEF ApplyInPlace
<1>3. /\ case \in Cases /\ S \subseteq Places /\ p \in Places /\ NamedByPlace(core, Places)
      /\ \E s \in storage : s.name = <<p, Suffix>>
  BY <1>2, LoadingAssumption DEF Shaped, InStorage
<1>4. StoredFor(core[p]) = {s \in storage : s.name = <<p, Suffix>>}
  <2>1. core[p].name = <<p, "">> /\ <<p, "">>[1] = p
    BY <1>3 DEF NamedByPlace
  <2>2. core[p].name[1] = p
    BY <2>1
  <2> QED
    BY <2>2 DEF StoredFor
<1>5. PICK s : s = stored(p)
  OBVIOUS
<1>6. s \in storage /\ s.name = <<p, Suffix>> /\ s \in StoredFor(core[p])
  BY <1>3, <1>4, <1>5
<1>7. IsOriginal(p, s) /\ Within(s.blocks)
  <2>1. PICK q \in Places : s.name = <<q, Suffix>> /\ IsOriginal(q, s) /\ Within(s.blocks)
    BY <1>2, <1>6, StoredWithin
  <2>2. p = q
    BY <1>6, <2>1
  <2> QED
    BY <2>1, <2>2
<1>8. (CHOOSE t \in storage : t.name[1] = p) = s
  <2>1. s.name[1] = p
    BY <1>6
  <2>2. ASSUME NEW t \in storage, t.name[1] = p PROVE t = s
    <3>1. PICK q \in Places : t.name = <<q, Suffix>> /\ t.name[1] = q
      BY <1>2, StoredWithin
    <3>2. t.name = s.name
      BY <1>6, <2>2, <3>1
    <3> QED
      BY <1>6, <3>2 DEF MeshHolds, StandingIn
  <2> QED
    BY <1>6, <2>1, <2>2
<1>9. PICK source : source = core[p].blocks
  OBVIOUS
<1>10. IsStandIn(core[p]) /\ core[p].uniform = TRUE
  BY <1>2, <1>3 DEF Shaped, InCore, IsStandIn
<1>11. IsStacked(source) /\ Len(source) >= 1 /\ source[Len(source)].zt <= Height0
  <2>1. Represents(s.blocks, source)
    BY <1>2, <1>3, <1>6, <1>9 DEF MeshHolds, StandingIn
  <2>2. source[Len(source)].zt = Height0
    BY <1>3, <1>9, LoadingAssumption DEF Filled, Fills, EqualHeights, Height0
  <2>3. Len(source) \in 1..Len(source) /\ IsStacked(source) /\ Len(source) >= 1
    BY <2>1 DEF Represents, IsStacked, IsList
  <2>4. source[Len(source)].zt \in Int
    BY <2>3 DEF IsStacked
  <2> QED
    BY <2>2, <2>3, <2>4
<1>12. PICK r \in Rates : RatedAt(source, r)
  BY <1>2, <1>3, <1>9 DEF MeshHolds, Rated
<1>13. r \in Nat
  BY RatesAssumption
<1>14. PICK name : name = core[p].name
  OBVIOUS
<1>15. PICK x : x = Mapped(source, s.blocks)
  OBVIOUS
<1>16. PICK b : b = [s EXCEPT !.name = name, !.moves = s.moves + 1, !.blocks = x]
  OBVIOUS
<1>17. core'[p] = b
  <2>1. back[p] = returned(p)
    BY <1>1
  <2>2. core'[p] = back[p]
    BY <1>1, <1>2 DEF Over
  <2> QED
    BY <1>5, <1>9, <1>14, <1>15, <1>16, <2>1, <2>2
<1>18. DOMAIN b = AssemblyFields /\ b.name = <<p, "">> /\ b.uniform = s.uniform /\ b.blocks = x
  <2>1. DOMAIN s = AssemblyFields /\ name = <<p, "">>
    BY <1>3, <1>7, <1>14 DEF IsOriginal, NamedByPlace
  <2> QED
    BY <1>16, <2>1 DEF AssemblyFields
<1>19. CanBeMapped(source, s.blocks) /\ Idle(s.blocks)
  BY <1>2, <1>6, <1>9 DEF EmptyBlocksIdle
<1> HIDE DEF S, stored, returned
<1>20. /\ Unsolved(b) = Unsolved([s EXCEPT !.name = <<p, "">>])
       /\ Everything(b.blocks) = Everything(source)
       /\ \A c \in Range(b.blocks) : (c.peak * Height(c) >= c.power)
  BY <1>3, <1>7, <1>11, <1>12, <1>13, <1>15, <1>18, <1>19, PutBack
<1>21. use # "copy"
  BY <1>2
<1> QED
  BY <1>8, <1>9, <1>10, <1>17, <1>20, <1>21 DEF ComesBack

LEMMA OthersComeBack ==
  ASSUME Shaped, MeshHolds, ApplyInPlace, NEW p \in Places, p \notin case.nonUniform
  PROVE  ComesBack(p)
<1>1. use = "inPlace" /\ solved /\ case \in Cases
  BY DEF ApplyInPlace, Shaped
<1>2. core'[p] = core[p]
  <2> DEFINE stored(q) == CHOOSE s \in StoredFor(core[q]) : TRUE
             returned(q) == [stored(q) EXCEPT !.name = core[q].name, !.moves = stored(q).moves + 1,
                                              !.blocks = Mapped(core[q].blocks, stored(q).blocks)]
  <2>1. PICK back : back = [q \in case.nonUniform |-> returned(q)] /\ core' = Over(back, core)
    BY DEF ApplyInPlace
  <2>2. DOMAIN core = Places
    BY DEF Shaped
  <2> QED
    BY <2>1, <2>2 DEF Over
<1>3. PICK a : a = core[p]
  OBVIOUS
<1>4. IsOriginal(p, a) /\ a.name = <<p, "">> /\ a.uniform = FALSE
  BY <1>1, <1>3 DEF Shaped, InCore, NamedByPlace, IsOriginal
<1>5. PICK x : x = a.blocks
  OBVIOUS
<1>6. IsStack(x) /\ IsList(x) /\ DOMAIN x = 1..Len(x)
  <2>1. IsStack(x)
    BY <1>1, <1>4, <1>5, OriginalFacts
  <2> QED
    BY <2>1 DEF IsStack, IsList
<1>7. PICK c : c = [a EXCEPT !.name = <<p, "">>]
  OBVIOUS
<1>8. DOMAIN c = AssemblyFields /\ c.name = a.name /\ c.uniform = a.uniform /\ c.blocks = x
  BY <1>4, <1>5, <1>7 DEF IsOriginal, AssemblyFields
<1>9. Unsolved(c) = Unsolved(a)
  <2>1. /\ DOMAIN c = AssemblyFields /\ DOMAIN a = AssemblyFields /\ c.name = a.name
        /\ c.uniform = a.uniform /\ IsStack(c.blocks) /\ Redone(c.blocks, a.blocks)
    <3>1. Redone(x, x)
      BY <1>6 DEF Redone
    <3> QED
      BY <1>4, <1>5, <1>6, <1>8, <3>1 DEF IsOriginal
  <2> QED
    BY ONLY <2>1, UnsolvedSame
<1>10. PICK r \in Rates : RatedAt(x, r)
  BY <1>1, <1>3, <1>5 DEF MeshHolds, Rated
<1>11. ASSUME NEW k \in 1..Len(x) PROVE x[k].peak * Height(x[k]) >= x[k].power
  <2>1. r \in Int /\ Height(x[k]) \in Int
    BY <1>6, StackFacts, RatesAssumption
  <2>2. x[k].peak = r + k /\ x[k].power = (r + k) * Height(x[k])
    BY <1>10 DEF RatedAt
  <2>3. PICK m \in Int, h \in Int : m = r + k /\ h = Height(x[k])
    BY <2>1
  <2>4. PICK n \in Int : n = m * h
    BY ONLY m \in Int, h \in Int
  <2> QED
    BY <2>2, <2>3, <2>4
<1>12. \A d \in Range(x) : (d.peak * Height(d) >= d.power)
  BY <1>6, <1>11 DEF Range
<1>13. use # "copy"
  BY <1>1
<1> QED
  BY <1>2, <1>3, <1>4, <1>5, <1>7, <1>9, <1>12, <1>13 DEF ComesBack

LEMMA CopyLeft ==
  ASSUME Shaped, LeaveCopy, NEW p \in Places
  PROVE  ComesBack(p)
<1>1. core' = core /\ use = "copy" /\ case \in Cases
  BY DEF LeaveCopy, Shaped
<1>2. PICK a : a = core[p]
  OBVIOUS
<1>3. IsOriginal(p, a) /\ a.name = <<p, "">> /\ a.uniform = FALSE
  BY <1>1, <1>2 DEF Shaped, InCore, NamedByPlace, IsOriginal
<1>4. PICK x : x = a.blocks
  OBVIOUS
<1>5. IsStack(x)
  BY <1>1, <1>3, <1>4, OriginalFacts
<1>6. PICK c : c = [a EXCEPT !.name = <<p, "">>]
  OBVIOUS
<1>7. DOMAIN c = AssemblyFields /\ c.name = a.name /\ c.uniform = a.uniform /\ c.blocks = x
  BY <1>3, <1>4, <1>6 DEF IsOriginal, AssemblyFields
<1>8. Unsolved(c) = Unsolved(a)
  <2>1. /\ DOMAIN c = AssemblyFields /\ DOMAIN a = AssemblyFields /\ c.name = a.name
        /\ c.uniform = a.uniform /\ IsStack(c.blocks) /\ Redone(c.blocks, a.blocks)
    <3>1. DOMAIN a = AssemblyFields
      BY <1>3 DEF IsOriginal
    <3>2. Redone(x, x)
      BY <1>5 DEF Redone, IsStack
    <3> QED
      BY <1>4, <1>5, <1>7, <3>1, <3>2
  <2> QED
    BY ONLY <2>1, UnsolvedSame
<1> QED
  BY <1>1, <1>2, <1>3, <1>6, <1>8 DEF ComesBack

(* Where the assemblies were built to one height: once a uniform core was  *)
(* left, every assembly is back as it was, with all of the power that was  *)
(* found and peaks no lower than the averages, on whatever mesh it was     *)
(* solved, if no block of no height holds results of its own               *)
(* (setAssemblyStateFromOverlaps leaves such a block what it has).         *)
THEOREM ResultsReturn ==
  ASSUME EqualHeights
  PROVE  Spec /\ []EmptyBlocksIdle => ResultsComeBack
<1> DEFINE Back ==
      use # use' /\ use' = "none" =>
        \A p \in Places :
          LET was == IF core[p].uniform
                     THEN CHOOSE s \in storage : s.name[1] = p ELSE core[p]
              found == IF use = "copy" THEN copy[p] ELSE core[p]
          IN  /\ Unsolved(core'[p]) = Unsolved([was EXCEPT !.name = <<p, "">>])
              /\ core' # core =>
                   /\ Everything(core'[p].blocks) = Everything(found.blocks)
                   /\ \A b \in Range(core'[p].blocks) : (b.peak * Height(b) >= b.power)
<1>1. ASSUME Shaped, Filled, MeshHolds, EmptyBlocksIdle, [Next]_vars PROVE [Back]_vars
  <2> SUFFICES ASSUME use # use', use' = "none", NEW p \in Places PROVE ComesBack(p)
    BY DEF ComesBack
  <2>1. ApplyInPlace \/ ApplyCopy \/ LeaveCopy
    <3>1. CASE \E q \in Places : \E change \in Changes[q] : Expand(q, change) \/ ExpandFails(q, change)
      BY <3>1 DEF Expand, ExpandFails, MayExpand
    <3>2. CASE ManageCoreMesh \/ ConvertInPlace
      BY <3>2 DEF ManageCoreMesh, ConvertInPlace
    <3>3. CASE \E size \in MinimumSizes : ConvertToCopy(size) \/ ConvertFails(size)
      BY <3>3 DEF ConvertToCopy, ConvertFails
    <3>4. CASE \E r \in Rates : Solve(r)
      BY <3>4 DEF Solve
    <3>5. CASE UNCHANGED vars
      BY <3>5 DEF vars
    <3> QED
      BY <1>1, <3>1, <3>2, <3>3, <3>4, <3>5 DEF Next
  <2>2. CASE ApplyInPlace
    BY <1>1, <2>2, StandInComesBack, OthersComeBack
  <2>3. CASE ApplyCopy
    BY <1>1, <2>3, CopyComesBack
  <2>4. CASE LeaveCopy
    BY <1>1, <2>4, CopyLeft
  <2> QED
    BY <2>1, <2>2, <2>3, <2>4
<1>2. Shaped /\ Filled /\ MeshHolds /\ EmptyBlocksIdle /\ [Next]_vars => [Back]_vars
  BY <1>1
<1>3. Spec /\ []EmptyBlocksIdle => [][Back]_vars
  BY <1>2, MeshAlways, PTL DEF Spec
<1> QED
  BY <1>3, PTL DEF ResultsComeBack

-----------------------------------------------------------------------------
(* What the steps of an expansion make of the components, and what they    *)
(* leave of a block.                                                       *)
LEMMA GrownIs ==
  ASSUME NEW a, IsStack(a), NEW change
  PROVE  LET g == Grown(a, change)
         IN  \A i \in 1..Len(a) :
               /\ g[i].flags = a[i].flags
               /\ \A s \in DOMAIN a[i].solids :
                    /\ g[i].solids[s].material = a[i].solids[s].material
                    /\ g[i].solids[s].mass = a[i].solids[s].mass
<1> DEFINE g == Grown(a, change)
           grows(i, s) == IF <<i, s>> \in DOMAIN change THEN change[<<i, s>>] ELSE 0
           taller(i, s) == [a[i].solids[s] EXCEPT !.h = Height(a[i]) + grows(i, s)]
           solids(i) == [s \in DOMAIN a[i].solids |-> AtElevation(taller(i, s), a[i].zb)]
<1> SUFFICES ASSUME NEW i \in 1..Len(a)
             PROVE  /\ g[i].flags = a[i].flags
                    /\ \A s \in DOMAIN a[i].solids :
                         /\ g[i].solids[s].material = a[i].solids[s].material
                         /\ g[i].solids[s].mass = a[i].solids[s].mass
  OBVIOUS
<1>1. g[i] = [a[i] EXCEPT !.solids = solids(i)]
  BY StackFacts DEF Grown
<1>2. DOMAIN a[i] = BlockFields
  BY StackFacts
<1>3. PICK new : new = solids(i)
  OBVIOUS
<1>4. g[i].flags = a[i].flags /\ g[i].solids = new
  <2> HIDE DEF g, solids
  <2> QED
    BY <1>1, <1>2, <1>3 DEF BlockFields
<1>5. ASSUME NEW s \in DOMAIN a[i].solids
      PROVE  new[s].material = a[i].solids[s].material /\ new[s].mass = a[i].solids[s].mass
  <2>1. PICK c : c = a[i].solids[s]
    OBVIOUS
  <2>2. DOMAIN c = SolidFields
    BY <2>1, StackFacts
  <2>3. PICK e : e = grows(i, s)
    OBVIOUS
  <2>4. new[s] = AtElevation([c EXCEPT !.h = Height(a[i]) + e], a[i].zb)
    BY <1>3, <2>1, <2>3
  <2> QED
    BY ONLY <2>1, <2>2, <2>4 DEF AtElevation, SolidFields
<1> HIDE DEF g
<1> QED
  BY <1>4, <1>5 DEF g

LEMMA OnTargetIs ==
  ASSUME NEW a, IsStack(a), NEW i \in 1..Len(a) - 1
  PROVE  LET b == AlignedOnTarget(a, i)
             t == a[i].solids[a[i].target]
         IN  /\ \A k \in 1..Len(a) : b[k].flags = a[k].flags
             /\ \A k \in 1..Len(a) : k # i + 1 => b[k].solids = a[k].solids
             /\ \A s \in DOMAIN a[i + 1].solids :
                  b[i + 1].solids[s] = IF s \in MovesWith(a, i) THEN AtElevation(a[i + 1].solids[s], t.zt)
                                       ELSE a[i + 1].solids[s]
<1> DEFINE b == AlignedOnTarget(a, i)
           t == a[i].solids[a[i].target]
           moved == [s \in DOMAIN a[i + 1].solids |->
                       IF s \in MovesWith(a, i) THEN AtElevation(a[i + 1].solids[s], t.zt)
                       ELSE a[i + 1].solids[s]]
<1>1. /\ Len(a) \in Nat /\ {i, i + 1} \subseteq 1..Len(a) /\ i # i + 1
      /\ DOMAIN a[i] = BlockFields /\ DOMAIN a[i + 1] = BlockFields /\ DOMAIN a = 1..Len(a)
  BY StackFacts
<1>2. PICK m : m = moved
  OBVIOUS
<1>3. PICK x : x = [a[i] EXCEPT !.zb = t.zb, !.zt = t.zt]
  OBVIOUS
<1>4. PICK y : y = [a[i + 1] EXCEPT !.solids = m]
  OBVIOUS
<1>5. b = [a EXCEPT ![i] = x, ![i + 1] = y]
  <2>1. b = [a EXCEPT ![i] = [a[i] EXCEPT !.zb = t.zb, !.zt = t.zt],
                      ![i + 1] = [a[i + 1] EXCEPT !.solids = moved]]
    BY <1>1 DEF AlignedOnTarget
  <2> HIDE DEF b, t, moved
  <2> QED
    BY <1>2, <1>3, <1>4, <2>1
<1>6. \A s \in DOMAIN a[i + 1].solids :
        m[s] = IF s \in MovesWith(a, i) THEN AtElevation(a[i + 1].solids[s], t.zt) ELSE a[i + 1].solids[s]
  BY <1>2
<1> HIDE DEF b, t, moved
<1>7. b[i] = x /\ b[i + 1] = y /\ \A k \in 1..Len(a) : k # i /\ k # i + 1 => b[k] = a[k]
  BY <1>1, <1>5
<1>8. x.flags = a[i].flags /\ x.solids = a[i].solids
  BY <1>1, <1>3 DEF BlockFields
<1>9. y.flags = a[i + 1].flags /\ y.solids = m
  BY <1>1, <1>4 DEF BlockFields
<1>10. \A k \in 1..Len(a) : b[k].flags = a[k].flags /\ (k # i + 1 => b[k].solids = a[k].solids)
  <2> SUFFICES ASSUME NEW k \in 1..Len(a)
               PROVE  b[k].flags = a[k].flags /\ (k # i + 1 => b[k].solids = a[k].solids)
    OBVIOUS
  <2>1. CASE k = i
    BY <1>1, <1>7, <1>8, <2>1
  <2>2. CASE k = i + 1
    BY <1>7, <1>9, <2>2
  <2>3. CASE k # i /\ k # i + 1
    BY <1>7, <2>3
  <2> QED
    BY <2>1, <2>2, <2>3
<1> QED
  BY <1>6, <1>7, <1>9, <1>10 DEF b, t

LEMMA OthersFittedIs ==
  ASSUME NEW a, IsStack(a), NEW i \in 1..Len(a) - 1
  PROVE  LET b == OthersFitted(a, i)
         IN  /\ \A k \in 1..Len(a) : b[k].flags = a[k].flags
             /\ \A k \in 1..Len(a) : k # i /\ k # i + 1 => b[k].solids = a[k].solids
             /\ \A s \in DOMAIN a[i].solids :
                  b[i].solids[s] = IF s = a[i].target           THEN a[i].solids[s]
                                   ELSE IF LinkedAbove(a, i, s) THEN Fitted(a, i, s)[1]
                                   ELSE Placed(a, i, s)
             /\ \A s \in DOMAIN a[i + 1].solids :
                  b[i + 1].solids[s] = IF s \in Others(a, i) THEN Fitted(a, i, s)[2] ELSE a[i + 1].solids[s]
<1> DEFINE b == OthersFitted(a, i)
           lower == [s \in DOMAIN a[i].solids |->
                       IF s = a[i].target              THEN a[i].solids[s]
                       ELSE IF LinkedAbove(a, i, s)    THEN Fitted(a, i, s)[1]
                       ELSE Placed(a, i, s)]
           upper == [s \in DOMAIN a[i + 1].solids |->
                       IF s \in Others(a, i) THEN Fitted(a, i, s)[2] ELSE a[i + 1].solids[s]]
<1>1. /\ Len(a) \in Nat /\ i \in 1..Len(a) /\ i + 1 \in 1..Len(a) /\ i # i + 1
      /\ DOMAIN a[i] = BlockFields /\ DOMAIN a[i + 1] = BlockFields /\ DOMAIN a = 1..Len(a)
  BY StackFacts
<1>2. PICK lows : lows = lower
  OBVIOUS
<1>3. PICK ups : ups = upper
  OBVIOUS
<1>4. PICK x : x = [a[i] EXCEPT !.solids = lows]
  OBVIOUS
<1>5. PICK y : y = [a[i + 1] EXCEPT !.solids = ups]
  OBVIOUS
<1>6. b = [a EXCEPT ![i] = x, ![i + 1] = y]
  <2>1. b = [a EXCEPT ![i] = [a[i] EXCEPT !.solids = lower], ![i + 1] = [a[i + 1] EXCEPT !.solids = upper]]
    BY <1>1 DEF OthersFitted
  <2> HIDE DEF b, lower, upper
  <2> QED
    BY <1>2, <1>3, <1>4, <1>5, <2>1
<1>7. \A s \in DOMAIN a[i].solids :
        lows[s] = IF s = a[i].target           THEN a[i].solids[s]
                  ELSE IF LinkedAbove(a, i, s) THEN Fitted(a, i, s)[1]
                  ELSE Placed(a, i, s)
  BY <1>2
<1>8. \A s \in DOMAIN a[i + 1].solids :
        ups[s] = IF s \in Others(a, i) THEN Fitted(a, i, s)[2] ELSE a[i + 1].solids[s]
  BY <1>3
<1> HIDE DEF b, lower, upper
<1>9. b[i] = x /\ b[i + 1] = y /\ \A k \in 1..Len(a) : k # i /\ k # i + 1 => b[k] = a[k]
  BY <1>1, <1>6
<1>10. x.flags = a[i].flags /\ x.solids = lows
  BY <1>1, <1>4 DEF BlockFields
<1>11. y.flags = a[i + 1].flags /\ y.solids = ups
  BY <1>1, <1>5 DEF BlockFields
<1>12. \A k \in 1..Len(a) : b[k].flags = a[k].flags
  BY <1>9, <1>10, <1>11
<1>13. \A k \in 1..Len(a) : k # i /\ k # i + 1 => b[k].solids = a[k].solids
  BY <1>9
<1>14. b[i].solids = lows /\ b[i + 1].solids = ups
  BY <1>9, <1>10, <1>11
<1> QED
  BY <1>7, <1>8, <1>12, <1>13, <1>14 DEF b

LEMMA PlacedIs ==
  ASSUME NEW a, IsStack(a), NEW i \in 1..Len(a), NEW s \in DOMAIN a[i].solids
  PROVE  LET c == Placed(a, i, s)
         IN  /\ c.material = a[i].solids[s].material /\ c.mass = a[i].solids[s].mass
             /\ c.h = a[i].solids[s].h
             /\ c.zb = IF LinkedBelow(a, i, s) THEN a[i].solids[s].zb ELSE a[i].zb
<1>1. PICK c : c = a[i].solids[s]
  OBVIOUS
<1>2. DOMAIN c = SolidFields
  BY <1>1, StackFacts
<1>3. /\ AtElevation(c, a[i].zb).material = c.material /\ AtElevation(c, a[i].zb).mass = c.mass
      /\ AtElevation(c, a[i].zb).h = c.h /\ AtElevation(c, a[i].zb).zb = a[i].zb
  BY <1>2 DEF AtElevation, SolidFields
<1> QED
  BY <1>1, <1>3 DEF Placed

(* A part of a mass that has a height is a number.                         *)
LEMMA PortionIsInt ==
  ASSUME NEW m \in Int, NEW n \in Int, NEW h \in Int, h > 0
  PROVE  Portion(m, n, h) \in Int
<1>1. PICK x \in Int : x = m * n
  OBVIOUS
<1>2. x \div h \in Int
  OBVIOUS
<1> QED
  BY <1>1, <1>2 DEF Portion

(* What one component gives another of its material is all it gives.       *)
LEMMA RedistributedSum ==
  ASSUME NEW c, NEW above, c.material = above.material, c.mass \in Int, above.mass \in Int,
         c.h \in Int, above.h \in Int, NEW delta \in Int,
         c.h >= 0, c.h + delta >= 0, above.h - delta >= 0
  PROVE  LET mass == Redistributed(c, above, delta)
         IN  mass[1] \in Int /\ mass[2] \in Int /\ mass[1] + mass[2] = c.mass + above.mass
<1>1. CASE delta = 0
  BY <1>1 DEF Redistributed
<1>2. CASE delta > 0
  <2>1. above.h > 0
    BY <1>2
  <2>2. PICK moved \in Int : moved = Portion(above.mass, delta, above.h)
    BY <2>1, PortionIsInt
  <2>3. Gives(above, c, delta) = [from |-> above.mass - moved, to |-> c.mass + moved]
    BY <2>2 DEF Gives
  <2>4. Redistributed(c, above, delta) = <<c.mass + moved, above.mass - moved>>
    BY <1>2, <2>3 DEF Redistributed
  <2> QED
    BY <2>2, <2>4
<1>3. CASE delta < 0
  <2>1. c.h > 0 /\ -delta \in Int
    BY <1>3
  <2>2. PICK moved \in Int : moved = Portion(c.mass, -delta, c.h)
    BY <2>1, PortionIsInt
  <2>3. Gives(c, above, -delta) = [from |-> c.mass - moved, to |-> above.mass + moved]
    BY <2>2 DEF Gives
  <2>4. Redistributed(c, above, delta) = <<c.mass - moved, above.mass + moved>>
    BY <1>3, <2>3 DEF Redistributed
  <2> QED
    BY <2>2, <2>4
<1> QED
  BY <1>1, <1>2, <1>3

LEMMA FittedIs ==
  ASSUME NEW a, IsStack(a), Stand(a), NEW i \in 1..Len(a) - 1, NEW s \in DOMAIN a[i].solids,
         s \in DOMAIN a[i + 1].solids
  PROVE  LET c == Placed(a, i, s)
             x == a[i].solids[s]  u == a[i + 1].solids[s]
             lower == Fitted(a, i, s)[1]  upper == Fitted(a, i, s)[2]
         IN  /\ lower.material = x.material /\ upper.material = u.material
             /\ lower.zb = c.zb
             /\ (x.material = u.material /\ x.mass \in Int /\ u.mass \in Int
                   /\ c.h >= 0 /\ lower.h >= 0 /\ upper.h >= 0)
                => /\ lower.mass \in Int /\ upper.mass \in Int
                   /\ lower.mass + upper.mass = x.mass + u.mass
<1>1. i \in 1..Len(a) /\ i + 1 \in 1..Len(a) /\ a[i].zt \in Int
  BY StackFacts
<1>2. PICK c : c = Placed(a, i, s)
  OBVIOUS
<1>3. Stands(c) /\ c.zt \in Int /\ c.h \in Int
  BY <1>1, <1>2, PlacedFacts DEF Stands
<1>4. PICK u : u = a[i + 1].solids[s]
  OBVIOUS
<1>5. DOMAIN u = SolidFields /\ u.h \in Int
  BY <1>1, <1>4 DEF Stand, Stands
<1>6. PICK above : above = AtElevation(u, c.zt)
  OBVIOUS
<1>7. Stands(above) /\ above.zb = c.zt /\ above.h = u.h
  BY <1>3, <1>5, <1>6, ElevatedFacts
<1>8. above.material = u.material /\ above.mass = u.mass
  BY <1>5, <1>6 DEF AtElevation, SolidFields
<1>9. PICK delta \in Int : delta = a[i].zt - c.zt
  BY <1>1, <1>3
<1>10. PICK mass : mass = Redistributed(c, above, delta)
  OBVIOUS
<1>11. PICK lower : lower = [c EXCEPT !.h = c.h + delta, !.zt = c.zt + delta, !.mass = mass[1]]
  OBVIOUS
<1>12. PICK upper : upper = [above EXCEPT !.h = above.h - delta, !.zb = above.zb + delta, !.mass = mass[2]]
  OBVIOUS
<1>13. Fitted(a, i, s) = <<lower, upper>>
  BY <1>2, <1>3, <1>4, <1>6, <1>7, <1>9, <1>10, <1>11, <1>12 DEF Fitted, SolidFields, Stands
<1>14. lower.material = c.material /\ lower.zb = c.zb /\ lower.h = c.h + delta /\ lower.mass = mass[1]
  BY <1>3, <1>11 DEF SolidFields, Stands
<1>15. upper.material = above.material /\ upper.h = above.h - delta /\ upper.mass = mass[2]
  BY <1>7, <1>12 DEF SolidFields, Stands
<1>16. PICK x : x = a[i].solids[s]
  OBVIOUS
<1>17. c.material = x.material /\ c.mass = x.mass
  BY <1>1, <1>2, <1>16, PlacedIs
<1>18. ASSUME x.material = u.material, x.mass \in Int, u.mass \in Int, c.h >= 0, lower.h >= 0, upper.h >= 0
       PROVE  lower.mass \in Int /\ upper.mass \in Int /\ lower.mass + upper.mass = x.mass + u.mass
  <2>1. /\ c.material = above.material /\ c.mass \in Int /\ above.mass \in Int
        /\ c.h \in Int /\ above.h \in Int /\ c.h >= 0 /\ c.h + delta >= 0 /\ above.h - delta >= 0
    BY <1>3, <1>5, <1>7, <1>8, <1>14, <1>15, <1>17, <1>18
  <2>2. mass[1] \in Int /\ mass[2] \in Int /\ mass[1] + mass[2] = c.mass + above.mass
    BY ONLY <1>9, <1>10, <2>1, RedistributedSum
  <2> QED
    BY <1>8, <1>14, <1>15, <1>17, <2>2
<1>19. Fitted(a, i, s)[1] = lower /\ Fitted(a, i, s)[2] = upper
  BY <1>13
<1> QED
  BY <1>2, <1>4, <1>8, <1>14, <1>15, <1>16, <1>17, <1>18, <1>19

LEMMA TopChoppedIs ==
  ASSUME NEW a, IsStack(a), Len(a) >= 1
  PROVE  \A k \in 1..Len(a) : TopChopped(a)[k].flags = a[k].flags
<1> DEFINE b == TopChopped(a)
           n == Len(a)
           zb == a[n - 1].zt
           h == a[n].zt - zb
           whole == [s \in DOMAIN a[n].solids |->
                       [a[n].solids[s] EXCEPT !.zb = zb, !.zt = a[n].zt, !.h = h,
                                              !.mass = Portion(a[n].solids[s].mass, h, a[n].solids[s].h)]]
<1>1. n \in Nat /\ n \in 1..n /\ DOMAIN a[n] = BlockFields /\ DOMAIN a = 1..n
  BY StackFacts
<1>2. PICK x : x = [a[n] EXCEPT !.zb = zb, !.solids = whole]
  OBVIOUS
<1>3. b = [a EXCEPT ![n] = x]
  BY <1>1, <1>2 DEF TopChopped
<1>4. x.flags = a[n].flags
  BY <1>1, <1>2 DEF BlockFields
<1> HIDE DEF b, zb, h, whole
<1> QED
  BY <1>1, <1>3, <1>4 DEF b

-----------------------------------------------------------------------------
(* The same flags and materials; and the same masses.                      *)
SameKind(a, b) ==
  \A i \in 1..Len(a) :
    /\ b[i].flags = a[i].flags
    /\ \A s \in DOMAIN a[i].solids : b[i].solids[s].material = a[i].solids[s].material

SameMasses(a, b) ==
  \A i \in 1..Len(a) : \A s \in DOMAIN a[i].solids : b[i].solids[s].mass = a[i].solids[s].mass

WholeMasses(a) == \A i \in 1..Len(a) : \A s \in DOMAIN a[i].solids : a[i].solids[s].mass \in Int

(* Linked components are of one material.                                 *)
OneMaterial(a) ==
  \A i \in 1..Len(a) - 1 : \A s \in DOMAIN a[i].solids \cap DOMAIN a[i + 1].solids :
    a[i].solids[s].material = a[i + 1].solids[s].material

(* Only fluid at the top.                                                  *)
FluidOnTop(a) == a[Len(a)].target = NoTarget /\ DOMAIN a[Len(a)].solids = {}

(* The blocks with a component of a shape.                                 *)
Having(a, s) == {k \in DOMAIN a : s \in DOMAIN a[k].solids}

LEMMA MassesAdd ==
  ASSUME NEW a, IsStack(a), NEW b, SameShape(a, b), SameMasses(a, b), NEW s
  PROVE  MassOf(b, s) = MassOf(a, s)
<1>1. DOMAIN a = 1..Len(a) /\ DOMAIN b = 1..Len(a)
  BY StackFacts DEF SameShape
<1>2. PICK S : S = Having(a, s)
  OBVIOUS
<1>3. S = Having(b, s)
  BY <1>1, <1>2 DEF Having, SameShape
<1>4. \A i \in S : b[i].solids[s].mass = a[i].solids[s].mass
  BY <1>1, <1>2 DEF Having, SameMasses
<1>5. [i \in S |-> b[i].solids[s].mass] = [i \in S |-> a[i].solids[s].mass]
  BY <1>4
<1> QED
  BY <1>2, <1>3, <1>5 DEF MassOf, Having

(* e and f differ in two elements, and what one has more another has less. *)
Exchange(S, e, f, i, j) ==
  /\ IsFiniteSet(S) /\ i \in S /\ j \in S /\ i # j
  /\ \A x \in S : e[x] \in Int /\ f[x] \in Int
  /\ \A x \in S : x # i /\ x # j => e[x] = f[x]
  /\ e[i] + e[j] = f[i] + f[j]
  /\ e = [x \in S |-> e[x]] /\ f = [x \in S |-> f[x]]

(* An exchange leaves the sum as it was.                                   *)
LEMMA TwoChanged ==
  ASSUME NEW S, NEW e, NEW f, NEW i, NEW j, Exchange(S, e, f, i, j)
  PROVE  SumFunction(e) = SumFunction(f)
<1>0. /\ IsFiniteSet(S) /\ i \in S /\ j \in S /\ i # j
      /\ \A x \in S : e[x] \in Int /\ f[x] \in Int
      /\ \A x \in S : x # i /\ x # j => e[x] = f[x]
      /\ e[i] + e[j] = f[i] + f[j]
  BY DEF Exchange
<1>1. PICK T : T = S \ {i}
  OBVIOUS
<1>2. PICK U : U = T \ {j}
  OBVIOUS
<1>3. IsFiniteSet(T) /\ IsFiniteSet(U) /\ j \in T /\ T \subseteq S /\ U \subseteq S
  BY <1>0, <1>1, <1>2, FS_Subset
<1>4. (\A x \in S : e[x] \in Int) /\ (\A x \in S : f[x] \in Int)
  BY <1>0
<1>5. (\A x \in T : e[x] \in Int) /\ (\A x \in T : f[x] \in Int)
  BY <1>3, <1>4
<1>6. (\A x \in U : e[x] \in Int) /\ (\A x \in U : f[x] \in Int)
  BY <1>3, <1>4
<1>7. SumFunction([x \in S |-> e[x]]) = e[i] + SumFunction([x \in T |-> e[x]])
  BY ONLY <1>0, <1>1, <1>4, OneMore
<1>8. SumFunction([x \in S |-> f[x]]) = f[i] + SumFunction([x \in T |-> f[x]])
  BY ONLY <1>0, <1>1, <1>4, OneMore
<1>9. SumFunction([x \in T |-> e[x]]) = e[j] + SumFunction([x \in U |-> e[x]])
  BY ONLY <1>2, <1>3, <1>5, OneMore
<1>10. SumFunction([x \in T |-> f[x]]) = f[j] + SumFunction([x \in U |-> f[x]])
  BY ONLY <1>2, <1>3, <1>5, OneMore
<1>11. SumFunction([x \in U |-> e[x]]) = SumFunction([x \in U |-> f[x]])
  <2>1. \A x \in U : e[x] = f[x]
    BY <1>0, <1>1, <1>2
  <2> QED
    BY ONLY <2>1, SameSum
<1>12. SumFunction([x \in U |-> f[x]]) \in Int
  BY ONLY <1>3, <1>6, SumFacts
<1>13. PICK n \in Int : n = SumFunction([x \in U |-> f[x]])
  BY <1>12
<1>14. e[i] \in Int /\ e[j] \in Int /\ f[i] \in Int /\ f[j] \in Int
  BY <1>0
<1>15. e[i] + (e[j] + n) = f[i] + (f[j] + n)
  BY ONLY <1>13, <1>0, <1>14
<1>16. SumFunction([x \in S |-> e[x]]) = SumFunction([x \in S |-> f[x]])
  BY <1>7, <1>8, <1>9, <1>10, <1>11, <1>13, <1>15
<1>17. /\ SumFunction(e) = SumFunction([x \in S |-> e[x]])
      /\ SumFunction(f) = SumFunction([x \in S |-> f[x]])
  BY DEF Exchange
<1> QED
  BY <1>17, <1>16

(* A mass moved from one block to the next is in the chain still.          *)
LEMMA MassMoved ==
  ASSUME NEW a, IsStack(a), NEW b, SameShape(a, b), WholeMasses(a), WholeMasses(b), NEW s,
         NEW i \in 1..Len(a) - 1,
         \A k \in 1..Len(a) : k # i /\ k # i + 1 /\ s \in DOMAIN a[k].solids =>
           b[k].solids[s].mass = a[k].solids[s].mass,
         \/ \A k \in {i, i + 1} : s \in DOMAIN a[k].solids => b[k].solids[s].mass = a[k].solids[s].mass
         \/ /\ s \in DOMAIN a[i].solids /\ s \in DOMAIN a[i + 1].solids
            /\ b[i].solids[s].mass + b[i + 1].solids[s].mass = a[i].solids[s].mass + a[i + 1].solids[s].mass
  PROVE  MassOf(b, s) = MassOf(a, s)
<1>1. /\ DOMAIN a = 1..Len(a) /\ DOMAIN b = 1..Len(a) /\ Len(a) \in Nat /\ Len(b) = Len(a)
      /\ i \in 1..Len(a) /\ i + 1 \in 1..Len(a) /\ i # i + 1
  BY StackFacts DEF SameShape
<1>2. PICK S : S = Having(a, s)
  OBVIOUS
<1>3. S = Having(b, s) /\ S \subseteq 1..Len(a) /\ \A k \in 1..Len(a) : k \in S <=> s \in DOMAIN a[k].solids
  BY <1>1, <1>2 DEF Having, SameShape
<1>4. IsFiniteSet(S)
  <2>1. PICK R : R = 1..Len(a)
    OBVIOUS
  <2>2. IsFiniteSet(R) /\ S \subseteq R
    BY <1>1, <1>3, <2>1, FS_Interval
  <2> QED
    BY ONLY <2>2, FS_Subset
<1>5. PICK e : e = [k \in S |-> b[k].solids[s].mass]
  OBVIOUS
<1>6. PICK f : f = [k \in S |-> a[k].solids[s].mass]
  OBVIOUS
<1>7. \A k \in S : /\ e[k] = b[k].solids[s].mass /\ f[k] = a[k].solids[s].mass
                   /\ e[k] \in Int /\ f[k] \in Int
  <2> SUFFICES ASSUME NEW k \in S
               PROVE  /\ e[k] = b[k].solids[s].mass /\ f[k] = a[k].solids[s].mass
                      /\ e[k] \in Int /\ f[k] \in Int
    OBVIOUS
  <2>1. k \in 1..Len(a) /\ s \in DOMAIN a[k].solids /\ s \in DOMAIN b[k].solids
    BY <1>1, <1>3 DEF SameShape
  <2> QED
    BY <1>1, <1>5, <1>6, <2>1 DEF WholeMasses
<1>8. MassOf(b, s) = SumFunction(e) /\ MassOf(a, s) = SumFunction(f)
  <2>1. MassOf(b, s) = SumFunction(e)
    BY <1>3, <1>5 DEF MassOf, Having
  <2>2. MassOf(a, s) = SumFunction(f)
    BY <1>2, <1>6 DEF MassOf, Having
  <2> QED
    BY <2>1, <2>2
<1>9. \A k \in S : k # i /\ k # i + 1 => e[k] = f[k]
  BY <1>3, <1>7
<1>10. e = [k \in S |-> e[k]] /\ f = [k \in S |-> f[k]]
  BY <1>5, <1>6
<1>11. CASE \A k \in {i, i + 1} : s \in DOMAIN a[k].solids => b[k].solids[s].mass = a[k].solids[s].mass
  <2>1. \A k \in S : e[k] = f[k]
    BY <1>3, <1>7, <1>9, <1>11
  <2>2. e = f
    BY ONLY <1>10, <2>1
  <2> QED
    BY <1>8, <2>2
<1>12. CASE /\ s \in DOMAIN a[i].solids /\ s \in DOMAIN a[i + 1].solids
            /\ b[i].solids[s].mass + b[i + 1].solids[s].mass = a[i].solids[s].mass + a[i + 1].solids[s].mass
  <2>1. PICK j : j = i + 1
    OBVIOUS
  <2>2. i \in S /\ j \in S /\ i # j
    BY <1>1, <1>3, <1>12, <2>1
  <2>3. e[i] + e[j] = f[i] + f[j] /\ \A k \in S : k # i /\ k # j => e[k] = f[k]
    BY <1>7, <1>9, <1>12, <2>1, <2>2
  <2>4. \A k \in S : e[k] \in Int /\ f[k] \in Int
    BY <1>7
  <2>5. Exchange(S, e, f, i, j)
    BY ONLY <1>4, <1>10, <2>2, <2>3, <2>4 DEF Exchange
  <2>6. SumFunction(e) = SumFunction(f)
    BY ONLY <2>5, TwoChanged
  <2> QED
    BY <1>8, <2>6
<1> QED
  BY <1>11, <1>12

-----------------------------------------------------------------------------
(* In an assembly that expansion is meant for, each block with a target    *)
(* component ends in that alone.                                           *)
OthersLinked(a) == \A i \in 1..Len(a) - 1 : \A s \in Others(a, i) : LinkedAbove(a, i, s)

LEMMA LinksKept ==
  ASSUME NEW a, IsStack(a), NEW b, SameShape(a, b), NEW i \in 1..Len(a)
  PROVE  /\ Others(b, i) = Others(a, i)
         /\ \A s : LinkedAbove(b, i, s) = LinkedAbove(a, i, s) /\ LinkedBelow(b, i, s) = LinkedBelow(a, i, s)
<1>1. Len(a) \in Nat /\ Len(b) = Len(a) /\ (i < Len(a) => i + 1 \in 1..Len(a)) /\ (i > 1 => i - 1 \in 1..Len(a))
  BY StackFacts DEF SameShape
<1>2. Others(b, i) = Others(a, i)
  BY DEF Others, SameShape
<1>3. \A s : LinkedAbove(b, i, s) = LinkedAbove(a, i, s)
  BY <1>1 DEF LinkedAbove, SameShape
<1>4. \A s : LinkedBelow(b, i, s) = LinkedBelow(a, i, s)
  BY <1>1 DEF LinkedBelow, SameShape
<1> QED
  BY <1>2, <1>3, <1>4

LEMMA HeightsBelow ==
  ASSUME NEW a, IsStack(a), HaveTargets(a), Stand(a), OthersLinked(a), NEW i \in 1..Len(a) - 1,
         ~NegativeHeight(AlignedOnTarget(a, i), i)
  PROVE  \A s \in DOMAIN a[i].solids : a[i].solids[s].h >= 0
<1>1. PICK b : b = AlignedOnTarget(a, i)
  OBVIOUS
<1>2. PICK t : t = a[i].solids[a[i].target]
  OBVIOUS
<1>3. /\ SameShape(a, b) /\ Stand(b) /\ b[i].zb = t.zb /\ b[i].zt = t.zt
      /\ b[i].solids = a[i].solids
  <2>1. i \in 1..Len(a) /\ i # i + 1
    BY StackFacts
  <2>2. SameShape(a, b) /\ Stand(b) /\ b[i].zb = t.zb /\ b[i].zt = t.zt
    BY <1>1, <1>2, AlignedOnTargetFacts
  <2>3. b[i].solids = a[i].solids
    BY <1>1, <2>1, OnTargetIs
  <2> QED
    BY <2>2, <2>3
<1>4. i \in 1..Len(a) /\ i < Len(a) /\ IsStack(b) /\ i \in 1..Len(b)
  BY <1>3, StackFacts DEF SameShape
<1>5. Others(b, i) = Others(a, i) /\ \A s : LinkedAbove(b, i, s) = LinkedAbove(a, i, s)
  BY <1>3, <1>4, LinksKept
<1>6. ASSUME NEW s \in DOMAIN a[i].solids, s = a[i].target PROVE a[i].solids[s].h >= 0
  <2>1. Stands(t) /\ t = a[i].solids[s]
    BY <1>2, <1>4, <1>6 DEF Stand
  <2>2. ~(Height(b[i]) < 0)
    BY <1>1 DEF NegativeHeight
  <2>3. ~(t.zt - t.zb < 0)
    BY <1>3, <2>2 DEF Height
  <2> QED
    BY <2>1, <2>3 DEF Stands
<1>7. ASSUME NEW s \in DOMAIN a[i].solids, s # a[i].target PROVE a[i].solids[s].h >= 0
  <2>1. s \in Others(a, i)
    BY <1>7 DEF Others
  <2>2. LinkedAbove(b, i, s) /\ s \in Others(b, i)
    BY <1>5, <2>1 DEF OthersLinked
  <2>3. ~(Placed(b, i, s).h < 0)
    BY <1>1, <2>2 DEF NegativeHeight
  <2>4. Placed(b, i, s).h = a[i].solids[s].h
    BY <1>3, <1>4, PlacedIs
  <2>5. a[i].solids[s].h \in Int
    BY <1>4 DEF Stand, Stands
  <2> QED
    BY <2>3, <2>4, <2>5
<1> QED
  BY <1>6, <1>7

(* What aligning blocks to the i-th keeps.                                 *)
KeptSoFar(a, x, i) ==
  /\ SameKind(a, x) /\ WholeMasses(x)
  /\ \A s : MassOf(x, s) = MassOf(a, s)
  /\ \A k \in 1..i : \A s \in DOMAIN x[k].solids :
       x[k].solids[s].zb = x[k].zb /\ x[k].solids[s].zt = x[k].zt
  /\ i + 1 < Len(a) => \A s \in Others(x, i + 1) :
       LinkedBelow(x, i + 1, s) => x[i + 1].solids[s].zb = StartOf(x, i + 1)
  /\ \A k \in 1..Len(a) : a[k].target \in DOMAIN a[k].solids /\ TargetAlone(a, k) =>
       x[k].solids[a[k].target].mass = a[k].solids[a[k].target].mass

(* The components of one block fitted to it.                               *)
LEMMA BlockFitted ==
  ASSUME NEW y, IsStack(y), Stand(y), NEW i \in 1..Len(y) - 1, NEW s \in Others(y, i),
         LinkedAbove(y, i, s), WholeMasses(y), ~NegativeHeight(y, i),
         LinkedBelow(y, i, s) => y[i].solids[s].zb = y[i].zb,
         y[i].solids[s].material = y[i + 1].solids[s].material,
         Fitted(y, i, s)[2].h >= 0
  PROVE  LET lower == Fitted(y, i, s)[1]  upper == Fitted(y, i, s)[2]
         IN  /\ lower.zb = y[i].zb /\ lower.zt = y[i].zt /\ upper.zb = y[i].zt
             /\ lower.mass \in Int /\ upper.mass \in Int
             /\ lower.mass + upper.mass = y[i].solids[s].mass + y[i + 1].solids[s].mass
             /\ lower.material = y[i].solids[s].material
             /\ upper.material = y[i + 1].solids[s].material
<1>1. s \in DOMAIN y[i].solids /\ s \in DOMAIN y[i + 1].solids
  BY DEF Others, LinkedAbove
<1>2. i \in 1..Len(y) /\ i + 1 \in 1..Len(y) /\ y[i].zb \in Int /\ y[i].zt \in Int
  BY StackFacts
<1>3. PICK c : c = Placed(y, i, s)
  OBVIOUS
<1>4. PICK lower : lower = Fitted(y, i, s)[1]
  OBVIOUS
<1>5. PICK upper : upper = Fitted(y, i, s)[2]
  OBVIOUS
<1>6. Stands(lower) /\ Stands(upper) /\ lower.zt = y[i].zt /\ upper.zb = y[i].zt
  BY <1>1, <1>4, <1>5, FittedFacts
<1>7. c.zb = y[i].zb
  BY <1>1, <1>2, <1>3, PlacedIs
<1>8. Stands(c)
  BY <1>1, <1>2, <1>3, PlacedFacts
<1>9. ~(c.h < 0) /\ ~(Height(y[i]) < 0)
  BY <1>3 DEF NegativeHeight
<1>10. /\ lower.material = y[i].solids[s].material /\ upper.material = y[i + 1].solids[s].material
       /\ lower.zb = c.zb
       /\ (y[i].solids[s].material = y[i + 1].solids[s].material
             /\ y[i].solids[s].mass \in Int /\ y[i + 1].solids[s].mass \in Int
             /\ c.h >= 0 /\ lower.h >= 0 /\ upper.h >= 0)
          => /\ lower.mass \in Int /\ upper.mass \in Int
             /\ lower.mass + upper.mass = y[i].solids[s].mass + y[i + 1].solids[s].mass
  BY <1>1, <1>3, <1>4, <1>5, FittedIs
<1>11. c.h >= 0
  BY <1>8, <1>9 DEF Stands
<1>12. lower.h >= 0
  <2>1. lower.h = y[i].zt - y[i].zb /\ lower.h \in Int
    BY <1>2, <1>6, <1>7, <1>10 DEF Stands
  <2> QED
    BY <1>2, <1>9, <2>1 DEF Height
<1>13. upper.h >= 0
  BY <1>5
<1>14. y[i].solids[s].mass \in Int /\ y[i + 1].solids[s].mass \in Int
  BY <1>1, <1>2 DEF WholeMasses
<1> QED
  BY <1>4, <1>5, <1>6, <1>7, <1>10, <1>11, <1>12, <1>13, <1>14

-----------------------------------------------------------------------------
(* A stack that expansion keeps the masses of.                             *)
MeantFor(a) ==
  /\ Alignable(a) /\ OthersLinked(a) /\ OneMaterial(a) /\ FluidOnTop(a)

LEMMA KindMaterial ==
  ASSUME NEW a, IsStack(a), OneMaterial(a), NEW x, SameShape(a, x), SameKind(a, x),
         NEW i \in 1..Len(a) - 1, NEW s \in Others(x, i), LinkedAbove(x, i, s)
  PROVE  x[i].solids[s].material = x[i + 1].solids[s].material
<1>1. i \in 1..Len(a) /\ i + 1 \in 1..Len(a)
  BY StackFacts
<1>2. s \in DOMAIN a[i].solids /\ s \in DOMAIN a[i + 1].solids
  BY <1>1 DEF Others, LinkedAbove, SameShape
<1>3. a[i].solids[s].material = a[i + 1].solids[s].material
  BY <1>1, <1>2 DEF OneMaterial
<1> QED
  BY <1>1, <1>2, <1>3 DEF SameKind

LEMMA KeptBelowTop ==
  ASSUME NEW a, MeantFor(a), NEW i \in 1..Len(a) - 1,
         NEW x, AlignedSoFar(a, x, i - 1), KeptSoFar(a, x, i - 1),
         NEW y, y = AlignedOnTarget(x, i), ~NegativeHeight(y, i),
         NEW z, z = OthersFitted(y, i),
         i + 1 < Len(a) => ~NegativeHeight(AlignedOnTarget(z, i + 1), i + 1)
  PROVE  KeptSoFar(a, z, i)
<1>1. /\ Len(a) \in Nat /\ Len(x) = Len(a) /\ IsStack(x) /\ Stand(x) /\ HaveTargets(x) /\ IsStack(a)
      /\ i \in 1..Len(x) - 1 /\ i \in 1..Len(a) /\ i + 1 \in 1..Len(a) /\ i < Len(a) /\ SameShape(a, x)
  <2>1. /\ IsStack(a) /\ HaveTargets(a) /\ SameShape(a, x) /\ (i - 1 < Len(a) => Stand(x))
    BY DEF MeantFor, Alignable, AlignedSoFar
  <2>2. Len(a) \in Nat
    BY <2>1, StackFacts
  <2>3. /\ Len(x) = Len(a) /\ IsStack(x)
    BY <2>1 DEF SameShape
  <2>4. i \in 1..Len(x) - 1 /\ i \in 1..Len(a) /\ i + 1 \in 1..Len(a) /\ i < Len(a) /\ i - 1 < Len(a)
    BY <2>2, <2>3
  <2>5. HaveTargets(x)
    <3> SUFFICES ASSUME NEW k \in 1..Len(x) - 1 PROVE x[k].target \in DOMAIN x[k].solids
      BY DEF HaveTargets
    <3>1. k \in 1..Len(a) - 1 /\ k \in 1..Len(a)
      BY <2>2, <2>3
    <3> QED
      BY <2>1, <3>1 DEF HaveTargets, SameShape
  <2> QED
    BY <2>1, <2>2, <2>3, <2>4, <2>5
<1>2. PICK t : t = x[i].solids[x[i].target]
  OBVIOUS
<1>3. /\ SameShape(x, y) /\ Stand(y) /\ y[i].zb = t.zb /\ y[i].zt = t.zt
      /\ \A k \in 1..Len(x) \ {i} : y[k].zb = x[k].zb /\ y[k].zt = x[k].zt
      /\ i + 1 < Len(x) => y[i + 1].solids[x[i + 1].target].zb = t.zt
  BY <1>1, <1>2, AlignedOnTargetFacts
<1>4. /\ \A k \in 1..Len(x) : y[k].flags = x[k].flags
      /\ \A k \in 1..Len(x) : k # i + 1 => y[k].solids = x[k].solids
      /\ \A s \in DOMAIN x[i + 1].solids :
           y[i + 1].solids[s] = IF s \in MovesWith(x, i) THEN AtElevation(x[i + 1].solids[s], t.zt)
                                ELSE x[i + 1].solids[s]
  BY <1>1, <1>2, OnTargetIs
<1>5. /\ Len(y) = Len(a) /\ IsStack(y) /\ i \in 1..Len(y) - 1 /\ HaveTargets(y) /\ SameShape(a, y)
  BY <1>1, <1>3, SameShapeTransitive DEF SameShape, HaveTargets
<1>6. i + 1 < Len(y) => /\ y[i + 1].target = x[i + 1].target
                        /\ y[i + 1].target \in DOMAIN y[i + 1].solids
                        /\ y[i + 1].solids[y[i + 1].target].zb = y[i].zt
  BY <1>1, <1>3, <1>5 DEF SameShape, HaveTargets
<1>7. /\ SameShape(y, z) /\ Stand(z)
      /\ \A k \in 1..Len(y) : z[k].zb = y[k].zb /\ z[k].zt = y[k].zt
  BY <1>3, <1>5, <1>6, OthersFittedFacts
<1>8. /\ \A k \in 1..Len(y) : z[k].flags = y[k].flags
      /\ \A k \in 1..Len(y) : k # i /\ k # i + 1 => z[k].solids = y[k].solids
      /\ \A s \in DOMAIN y[i].solids :
           z[i].solids[s] = IF s = y[i].target           THEN y[i].solids[s]
                            ELSE IF LinkedAbove(y, i, s) THEN Fitted(y, i, s)[1]
                            ELSE Placed(y, i, s)
      /\ \A s \in DOMAIN y[i + 1].solids :
           z[i + 1].solids[s] = IF s \in Others(y, i) THEN Fitted(y, i, s)[2] ELSE y[i + 1].solids[s]
  BY <1>5, OthersFittedIs
<1>9. SameShape(a, z) /\ SameShape(x, z)
  BY <1>3, <1>5, <1>7, SameShapeTransitive
<1>10. IsStack(z) /\ Len(z) = Len(a) /\ HaveTargets(z)
  BY <1>5, <1>7 DEF SameShape, HaveTargets
(* What the block above moves.                                             *)
<1>11. ASSUME NEW k \in 1..Len(a), NEW s \in DOMAIN x[k].solids
       PROVE  /\ s \in DOMAIN y[k].solids /\ s \in DOMAIN z[k].solids
              /\ y[k].solids[s].material = x[k].solids[s].material
              /\ y[k].solids[s].mass = x[k].solids[s].mass
  <2>1. s \in DOMAIN y[k].solids /\ s \in DOMAIN z[k].solids
    BY <1>1, <1>3, <1>9 DEF SameShape
  <2>2. CASE k # i + 1
    BY <1>1, <1>4, <2>1, <2>2
  <2>3. CASE k = i + 1
    <3>1. PICK c : c = x[k].solids[s]
      OBVIOUS
    <3>2. DOMAIN c = SolidFields
      BY <1>1, <3>1, StackFacts
    <3>3. y[k].solids[s] = AtElevation(c, t.zt) \/ y[k].solids[s] = c
      BY <1>4, <2>3, <3>1
    <3>4. AtElevation(c, t.zt).material = c.material /\ AtElevation(c, t.zt).mass = c.mass
      BY <3>2 DEF AtElevation, SolidFields
    <3> QED
      BY <2>1, <3>1, <3>3, <3>4
  <2> QED
    BY <2>2, <2>3
<1>12. SameKind(a, y) /\ WholeMasses(y) /\ SameMasses(x, y)
  <2>1. SameMasses(x, y)
    BY <1>1, <1>11 DEF SameMasses
  <2>2. WholeMasses(y)
    <3> SUFFICES ASSUME NEW k \in 1..Len(y), NEW s \in DOMAIN y[k].solids
                 PROVE  y[k].solids[s].mass \in Int
      BY DEF WholeMasses
    <3>1. k \in 1..Len(x) /\ k \in 1..Len(a)
      BY <1>1, <1>5
    <3>2. s \in DOMAIN x[k].solids
      BY <1>3, <3>1 DEF SameShape
    <3>3. x[k].solids[s].mass \in Int
      BY <3>1, <3>2 DEF KeptSoFar, WholeMasses
    <3> QED
      BY <1>11, <3>1, <3>2, <3>3
  <2>3. SameKind(a, y)
    <3> SUFFICES ASSUME NEW k \in 1..Len(a), NEW s \in DOMAIN a[k].solids
                 PROVE  y[k].solids[s].material = a[k].solids[s].material
      BY <1>1, <1>4 DEF SameKind, KeptSoFar
    <3>1. s \in DOMAIN x[k].solids
      BY <1>1 DEF SameShape
    <3> QED
      BY <1>11, <3>1 DEF KeptSoFar, SameKind
  <2> QED
    BY <2>1, <2>2, <2>3
(* The components that are fitted.                                         *)
<1>13. /\ Others(y, i) = Others(a, i) /\ Others(x, i) = Others(a, i)
       /\ \A s \in Others(y, i) : LinkedAbove(y, i, s) /\ i + 1 < Len(a)
       /\ \A s : LinkedBelow(y, i, s) = LinkedBelow(x, i, s)
  <2>1. /\ Others(y, i) = Others(a, i) /\ \A s : LinkedAbove(y, i, s) = LinkedAbove(a, i, s)
        /\ \A s : LinkedBelow(y, i, s) = LinkedBelow(a, i, s)
    BY <1>1, <1>5, LinksKept
  <2>2. /\ Others(x, i) = Others(a, i) /\ \A s : LinkedBelow(x, i, s) = LinkedBelow(a, i, s)
    BY <1>1, LinksKept
  <2>3. ASSUME NEW s \in Others(y, i) PROVE LinkedAbove(y, i, s) /\ i + 1 < Len(a)
    <3>1. LinkedAbove(a, i, s)
      BY <2>1 DEF MeantFor, OthersLinked
    <3>2. i + 1 # Len(a)
      BY <1>1, <3>1 DEF LinkedAbove, MeantFor, FluidOnTop
    <3> QED
      BY <1>1, <2>1, <3>1, <3>2
  <2> QED
    BY <2>1, <2>2, <2>3
<1>14. ASSUME NEW s \in Others(y, i)
       PROVE  LET lower == Fitted(y, i, s)[1]  upper == Fitted(y, i, s)[2]
              IN  /\ s \in DOMAIN y[i].solids /\ s \in DOMAIN y[i + 1].solids
                  /\ z[i].solids[s] = lower /\ z[i + 1].solids[s] = upper
                  /\ lower.zb = y[i].zb /\ lower.zt = y[i].zt /\ upper.zb = y[i].zt
                  /\ lower.mass \in Int /\ upper.mass \in Int
                  /\ lower.mass + upper.mass = y[i].solids[s].mass + y[i + 1].solids[s].mass
                  /\ lower.material = y[i].solids[s].material
                  /\ upper.material = y[i + 1].solids[s].material
  <2>1. /\ s \in DOMAIN y[i].solids /\ s \in DOMAIN y[i + 1].solids /\ s # y[i].target
        /\ LinkedAbove(y, i, s) /\ i + 1 < Len(a)
    BY <1>13, <1>14 DEF Others, LinkedAbove
  <2>2. z[i].solids[s] = Fitted(y, i, s)[1] /\ z[i + 1].solids[s] = Fitted(y, i, s)[2]
    BY <1>8, <1>14, <2>1
  <2>3. Fitted(y, i, s)[2].h >= 0
    <3>1. PICK j : j = i + 1
      OBVIOUS
    <3>2. j \in 1..Len(z) - 1 /\ ~NegativeHeight(AlignedOnTarget(z, j), j) /\ s \in DOMAIN z[j].solids
      BY <1>1, <1>7, <1>10, <2>1, <3>1 DEF SameShape
    <3>3. OthersLinked(z)
      <4> SUFFICES ASSUME NEW k \in 1..Len(z) - 1, NEW u \in Others(z, k) PROVE LinkedAbove(z, k, u)
        BY DEF OthersLinked
      <4>1. k \in 1..Len(a) /\ k \in 1..Len(a) - 1
        BY <1>1, <1>10
      <4>2. Others(z, k) = Others(a, k) /\ LinkedAbove(z, k, u) = LinkedAbove(a, k, u)
        BY <1>1, <1>9, <4>1, LinksKept
      <4> QED
        BY <4>1, <4>2 DEF MeantFor, OthersLinked
    <3>4. z[j].solids[s].h >= 0
      BY <1>7, <1>10, <3>2, <3>3, HeightsBelow
    <3> QED
      BY <2>2, <3>1, <3>4
  <2>4. LinkedBelow(y, i, s) => y[i].solids[s].zb = y[i].zb
    <3> SUFFICES ASSUME LinkedBelow(y, i, s) PROVE y[i].solids[s].zb = y[i].zb
      OBVIOUS
    <3>1. LinkedBelow(x, i, s) /\ s \in Others(x, i)
      BY <1>13, <1>14
    <3>2. (i - 1) + 1 = i /\ i # i + 1
      BY <1>1
    <3>3. x[i].solids[s].zb = StartOf(x, i)
      BY <1>1, <3>1, <3>2 DEF KeptSoFar
    <3>4. t.zb = StartOf(x, i)
      BY <1>1, <1>2, <3>2 DEF AlignedSoFar
    <3> QED
      BY <1>1, <1>3, <1>4, <3>2, <3>3, <3>4
  <2>5. y[i].solids[s].material = y[i + 1].solids[s].material
    <3>1. IsStack(a) /\ OneMaterial(a) /\ SameShape(a, y) /\ SameKind(a, y)
      BY <1>1, <1>5, <1>12 DEF MeantFor
    <3> QED
      BY <1>14, <2>1, <3>1, KindMaterial
  <2>6. LET lower == Fitted(y, i, s)[1]  upper == Fitted(y, i, s)[2]
        IN  /\ lower.zb = y[i].zb /\ lower.zt = y[i].zt /\ upper.zb = y[i].zt
            /\ lower.mass \in Int /\ upper.mass \in Int
            /\ lower.mass + upper.mass = y[i].solids[s].mass + y[i + 1].solids[s].mass
            /\ lower.material = y[i].solids[s].material
            /\ upper.material = y[i + 1].solids[s].material
    <3>1. /\ IsStack(y) /\ Stand(y) /\ i \in 1..Len(y) - 1 /\ s \in Others(y, i)
          /\ LinkedAbove(y, i, s) /\ WholeMasses(y) /\ ~NegativeHeight(y, i)
      BY <1>3, <1>5, <1>12, <1>14, <2>1
    <3> QED
      BY ONLY <3>1, <2>3, <2>4, <2>5, BlockFitted
  <2> QED
    BY <2>1, <2>2, <2>6
<1>15. ASSUME NEW s \in DOMAIN y[i].solids, s \notin Others(y, i)
       PROVE  z[i].solids[s] = y[i].solids[s] /\ s = y[i].target
  BY <1>8, <1>15 DEF Others
<1>16. ASSUME NEW s \in DOMAIN y[i + 1].solids, s \notin Others(y, i)
       PROVE  z[i + 1].solids[s] = y[i + 1].solids[s]
  BY <1>8, <1>16
<1>17. ASSUME NEW k \in 1..Len(a), NEW s \in DOMAIN y[k].solids
       PROVE  /\ z[k].solids[s].material = y[k].solids[s].material
              /\ z[k].solids[s].mass \in Int
              /\ s \notin Others(y, i) \/ (k # i /\ k # i + 1) => z[k].solids[s] = y[k].solids[s]
  <2>1. y[k].solids[s].mass \in Int
    BY <1>5, <1>12 DEF WholeMasses
  <2>2. CASE s \in Others(y, i) /\ (k = i \/ k = i + 1)
    BY <1>1, <1>14, <2>2
  <2>3. CASE k # i /\ k # i + 1
    BY <1>5, <1>8, <2>1, <2>3
  <2>4. CASE s \notin Others(y, i)
    BY <1>15, <1>16, <2>1, <2>3, <2>4
  <2> QED
    BY <2>2, <2>3, <2>4
<1>18. SameKind(a, z)
  <2> SUFFICES ASSUME NEW k \in 1..Len(a), NEW s \in DOMAIN a[k].solids
               PROVE  z[k].solids[s].material = a[k].solids[s].material
    BY <1>1, <1>4, <1>5, <1>8 DEF SameKind, KeptSoFar
  <2>1. s \in DOMAIN y[k].solids
    BY <1>5 DEF SameShape
  <2> QED
    BY <1>12, <1>17, <2>1 DEF SameKind
<1>19. WholeMasses(z)
  <2> SUFFICES ASSUME NEW k \in 1..Len(z), NEW s \in DOMAIN z[k].solids PROVE z[k].solids[s].mass \in Int
    BY DEF WholeMasses
  <2>1. k \in 1..Len(a) /\ s \in DOMAIN y[k].solids
    BY <1>5, <1>7, <1>10 DEF SameShape
  <2> QED
    BY <1>17, <2>1
<1>20. ASSUME NEW s PROVE MassOf(z, s) = MassOf(a, s)
  <2>1. MassOf(y, s) = MassOf(x, s)
    BY <1>1, <1>3, <1>12, MassesAdd
  <2>2. \A k \in 1..Len(y) : k # i /\ k # i + 1 /\ s \in DOMAIN y[k].solids =>
          z[k].solids[s].mass = y[k].solids[s].mass
    BY <1>5, <1>17
  <2>3. \/ \A k \in {i, i + 1} : s \in DOMAIN y[k].solids => z[k].solids[s].mass = y[k].solids[s].mass
        \/ /\ s \in DOMAIN y[i].solids /\ s \in DOMAIN y[i + 1].solids
           /\ z[i].solids[s].mass + z[i + 1].solids[s].mass = y[i].solids[s].mass + y[i + 1].solids[s].mass
    <3>1. CASE s \in Others(y, i)
      BY <1>14, <3>1
    <3>2. CASE s \notin Others(y, i)
      BY <1>15, <1>16, <3>2
    <3> QED
      BY <3>1, <3>2
  <2>4. MassOf(z, s) = MassOf(y, s)
    <3>1. IsStack(y) /\ SameShape(y, z) /\ WholeMasses(y) /\ WholeMasses(z) /\ i \in 1..Len(y) - 1
      BY <1>5, <1>7, <1>12, <1>19
    <3> QED
      BY ONLY <3>1, <2>2, <2>3, MassMoved
  <2> QED
    BY <2>1, <2>4 DEF KeptSoFar
<1>21. ASSUME NEW k \in 1..i, NEW s \in DOMAIN z[k].solids
       PROVE  z[k].solids[s].zb = z[k].zb /\ z[k].solids[s].zt = z[k].zt
  <2>1. k \in 1..Len(a) /\ z[k].zb = y[k].zb /\ z[k].zt = y[k].zt /\ s \in DOMAIN y[k].solids /\ k # i + 1
        /\ s \in DOMAIN x[k].solids
    BY <1>1, <1>5, <1>7, <1>9 DEF SameShape
  <2>2. CASE k # i
    <3>1. k \in 1..(i - 1)
      BY <1>1, <2>2
    <3>2. x[k].solids[s].zb = x[k].zb /\ x[k].solids[s].zt = x[k].zt
      BY <2>1, <3>1 DEF KeptSoFar
    <3>3. z[k].solids[s] = x[k].solids[s]
      BY <1>1, <1>4, <1>17, <2>1, <2>2
    <3>4. y[k].zb = x[k].zb /\ y[k].zt = x[k].zt
      BY <1>1, <1>3, <2>1, <2>2
    <3> QED
      BY <2>1, <3>2, <3>3, <3>4
  <2>3. CASE k = i /\ s \in Others(y, i)
    BY <1>14, <2>1, <2>3
  <2>4. CASE k = i /\ s \notin Others(y, i)
    <3>1. z[i].solids[s] = y[i].solids[s] /\ s = y[i].target
      BY <1>15, <2>1, <2>4
    <3>2. y[i].target = x[i].target /\ y[i].solids = x[i].solids
      BY <1>1, <1>3, <1>4, <2>1, <2>4 DEF SameShape
    <3> QED
      BY <1>2, <1>3, <2>1, <2>4, <3>1, <3>2
  <2> QED
    BY <2>2, <2>3, <2>4
<1>22. ASSUME i + 1 < Len(a), NEW s \in Others(z, i + 1), LinkedBelow(z, i + 1, s)
       PROVE  z[i + 1].solids[s].zb = StartOf(z, i + 1)
  <2>1. StartOf(z, i + 1) = y[i].zt
    <3>1. i + 1 # 1 /\ (i + 1) - 1 = i
      BY <1>1
    <3> QED
      BY <1>1, <1>5, <1>7, <3>1 DEF StartOf
  <2>2. s \in DOMAIN z[i].solids /\ s \in DOMAIN z[i + 1].solids /\ s # z[i + 1].target
    <3>1. (i + 1) - 1 = i
      BY <1>1
    <3> QED
      BY <1>22, <3>1 DEF LinkedBelow, Others
  <2>3. s \in DOMAIN x[i].solids /\ s \in DOMAIN y[i].solids /\ s \in DOMAIN x[i + 1].solids
        /\ s \in DOMAIN y[i + 1].solids /\ z[i + 1].target = x[i + 1].target
    BY <1>1, <1>3, <1>5, <1>9, <2>2 DEF SameShape
  <2>4. CASE s \in Others(y, i)
    BY <1>14, <2>1, <2>4
  <2>5. CASE s \notin Others(y, i)
    <3>1. s = x[i].target
      BY <1>1, <1>3, <1>15, <2>3, <2>5 DEF SameShape
    <3>2. z[i + 1].solids[s] = y[i + 1].solids[s]
      BY <1>16, <2>3, <2>5
    <3>3. LinkedAbove(x, i, x[i].target) /\ x[i + 1].target # x[i].target
      BY <1>1, <2>2, <2>3, <3>1 DEF LinkedAbove
    <3>4. MovesWith(x, i) = DOMAIN x[i + 1].solids
      BY <3>3 DEF MovesWith
    <3>5. y[i + 1].solids[s] = AtElevation(x[i + 1].solids[s], t.zt)
      BY <1>4, <2>3, <3>4
    <3>6. AtElevation(x[i + 1].solids[s], t.zt).zb = t.zt
      <4>1. PICK c : c = x[i + 1].solids[s]
        OBVIOUS
      <4>2. DOMAIN c = SolidFields
        BY <1>1, <2>3, <4>1, StackFacts
      <4> QED
        BY <4>1, <4>2 DEF AtElevation, SolidFields
    <3> QED
      BY <1>3, <2>1, <3>2, <3>5, <3>6
  <2> QED
    BY <2>4, <2>5
<1>23. ASSUME NEW k \in 1..Len(a), a[k].target \in DOMAIN a[k].solids, TargetAlone(a, k)
       PROVE  z[k].solids[a[k].target].mass = a[k].solids[a[k].target].mass
  <2>1. PICK s : s = a[k].target
    OBVIOUS
  <2>2. s \in DOMAIN x[k].solids /\ s \in DOMAIN y[k].solids
    BY <1>1, <1>5, <1>23, <2>1 DEF SameShape
  <2>3. s \notin Others(y, i) \/ (k # i /\ k # i + 1)
    <3>1. CASE k = i
      BY <1>5, <2>1, <3>1 DEF Others, SameShape
    <3>2. CASE k = i + 1
      <4> SUFFICES ASSUME s \in Others(a, i) PROVE FALSE
        BY <1>13
      <4>1. k > 1 /\ k - 1 = i
        BY <1>1, <3>2
      <4>2. LinkedBelow(a, k, s) /\ a[i].target # s
        BY <4>1 DEF LinkedBelow, Others
      <4> QED
        BY <1>23, <2>1, <4>1, <4>2 DEF TargetAlone
    <3> QED
      BY <3>1, <3>2
  <2>4. z[k].solids[s] = y[k].solids[s]
    BY <1>17, <2>2, <2>3
  <2>5. x[k].solids[s].mass = a[k].solids[s].mass
    BY <1>23, <2>1 DEF KeptSoFar
  <2> QED
    BY <1>11, <2>1, <2>2, <2>4, <2>5
<1> QED
  BY <1>18, <1>19, <1>20, <1>21, <1>22, <1>23 DEF KeptSoFar

-----------------------------------------------------------------------------
LEMMA KeptAtTop ==
  ASSUME NEW a, MeantFor(a), NEW x, AlignedSoFar(a, x, Len(a) - 1), KeptSoFar(a, x, Len(a) - 1),
         NEW z, z = TopChopped(x)
  PROVE  KeptSoFar(a, z, Len(a)) /\ Stand(z)
<1>1. PICK n : n = Len(a)
  OBVIOUS
<1>2. /\ n \in Nat /\ n >= 2 /\ Len(x) = n /\ IsStack(x) /\ Stand(x) /\ IsStack(a) /\ SameShape(a, x)
      /\ \A k \in 1..n : k # n => k \in 1..n - 1
  BY <1>1, StackFacts DEF MeantFor, Alignable, AlignedSoFar, SameShape
<1>3. SameShape(x, z) /\ \A k \in 1..n - 1 : z[k] = x[k]
  BY <1>2, TopChoppedFacts
<1>4. \A k \in 1..n : z[k].flags = x[k].flags
  BY <1>2, TopChoppedIs
<1>5. SameShape(a, z)
  BY <1>2, <1>3, SameShapeTransitive
<1>6. Len(z) = n /\ n \in 1..n /\ DOMAIN z[n].solids = {} /\ DOMAIN x[n].solids = {} /\ DOMAIN a[n].solids = {}
  BY <1>1, <1>2, <1>5 DEF MeantFor, FluidOnTop, SameShape
<1>7. ASSUME NEW k \in 1..n, NEW s \in DOMAIN z[k].solids PROVE z[k] = x[k]
  <2>1. k # n
    BY <1>6, <1>7
  <2> QED
    BY <1>2, <1>3, <2>1
<1>8. Stand(z)
  BY <1>2, <1>6, <1>7 DEF Stand
<1>9. SameKind(a, z)
  <2> SUFFICES ASSUME NEW k \in 1..n, NEW s \in DOMAIN a[k].solids
               PROVE  z[k].solids[s].material = a[k].solids[s].material
    BY <1>1, <1>4 DEF SameKind, KeptSoFar
  <2>1. s \in DOMAIN z[k].solids
    BY <1>1, <1>5 DEF SameShape
  <2> QED
    BY <1>1, <1>7, <2>1 DEF SameKind, KeptSoFar
<1>10. WholeMasses(z)
  BY <1>2, <1>6, <1>7 DEF WholeMasses, KeptSoFar
<1>11. ASSUME NEW s PROVE MassOf(z, s) = MassOf(a, s)
  <2>1. SameMasses(x, z)
    <3> SUFFICES ASSUME NEW k \in 1..n, NEW u \in DOMAIN x[k].solids
                 PROVE  z[k].solids[u].mass = x[k].solids[u].mass
      BY <1>2 DEF SameMasses
    <3>1. u \in DOMAIN z[k].solids
      BY <1>2, <1>3 DEF SameShape
    <3> QED
      BY <1>7, <3>1
  <2>2. MassOf(z, s) = MassOf(x, s)
    BY <1>2, <1>3, <2>1, MassesAdd
  <2> QED
    BY <2>2 DEF KeptSoFar
<1>12. ASSUME NEW k \in 1..n, NEW s \in DOMAIN z[k].solids
       PROVE  z[k].solids[s].zb = z[k].zb /\ z[k].solids[s].zt = z[k].zt
  <2>1. k # n /\ z[k] = x[k]
    BY <1>6, <1>7, <1>12
  <2>2. k \in 1..(n - 1)
    BY <1>2, <2>1
  <2> QED
    BY <1>1, <1>12, <2>1, <2>2 DEF KeptSoFar
<1>13. ASSUME NEW k \in 1..n, a[k].target \in DOMAIN a[k].solids, TargetAlone(a, k)
       PROVE  z[k].solids[a[k].target].mass = a[k].solids[a[k].target].mass
  <2>1. a[k].target \in DOMAIN z[k].solids
    BY <1>1, <1>5, <1>13 DEF SameShape
  <2> QED
    BY <1>1, <1>7, <1>13, <2>1 DEF KeptSoFar
<1>14. ~(n + 1 < n)
  BY <1>2
<1> QED
  BY <1>1, <1>8, <1>9, <1>10, <1>11, <1>12, <1>13, <1>14 DEF KeptSoFar

(* Aligned without an error from the bottom, no block on the way raised.   *)
LEMMA NoneRaised ==
  ASSUME NEW n \in Nat, NEW f, \A i \in 1..n : f[i] = Aligned(f[i - 1], i), ~f[n].raised
  PROVE  \A i \in 0..n : ~f[i].raised
<1> DEFINE S == {j \in Nat : j <= n /\ f[n - j].raised}
<1>1. S = {}
  <2> SUFFICES ASSUME S # {} PROVE FALSE
    OBVIOUS
  <2>1. PICK j \in S : \A k \in S : j <= k
    BY LeastNumber
  <2>2. j # 0
    <3> SUFFICES ASSUME j = 0 PROVE FALSE
      OBVIOUS
    <3>1. n - j = n
      OBVIOUS
    <3> QED
      BY <3>1
  <2>3. PICK i : i = n - j + 1
    OBVIOUS
  <2>4. i \in 1..n /\ i - 1 = n - j /\ j - 1 \in Nat /\ j - 1 <= n /\ ~(j <= j - 1) /\ n - (j - 1) = i
    BY <2>2, <2>3
  <2>5. ~f[i].raised
    <3>1. j - 1 \notin S
      BY <2>1, <2>4
    <3> QED
      BY <2>4, <3>1
  <2>6. f[i - 1].raised
    BY <2>4
  <2>7. f[i] = f[i - 1]
    BY <2>4, <2>6 DEF Aligned
  <2> QED
    BY <2>5, <2>6, <2>7
<1>2. ASSUME NEW i \in 0..n PROVE ~f[i].raised
  <2>1. n - i \in Nat /\ n - i <= n /\ n - (n - i) = i
    OBVIOUS
  <2>2. n - i \notin S
    BY <1>1
  <2> QED
    BY <2>1, <2>2
<1> QED
  BY <1>2

LEMMA AlignedKeeps ==
  ASSUME NEW a, MeantFor(a), WholeMasses(a), ~AlignedTo(a, Len(a)).raised
  PROVE  LET z == AlignedTo(a, Len(a)).blocks
         IN  SameShape(a, z) /\ Stand(z) /\ KeptSoFar(a, z, Len(a))
<1>1. PICK n : n = Len(a)
  OBVIOUS
<1>2. n \in Nat /\ n >= 2 /\ IsStack(a) /\ Alignable(a)
  BY <1>1, StackFacts DEF MeantFor, Alignable
<1>3. PICK f : /\ f[0] = StartWith(a) /\ AlignedTo(a, n) = f[n]
               /\ \A i \in 1..n : f[i] = Aligned(f[i - 1], i)
  BY <1>2, AlignedSteps
<1>4. \A i \in 0..n : ~f[i].raised
  BY <1>1, <1>2, <1>3, NoneRaised
<1>5. ASSUME NEW i \in 1..n, Len(f[i - 1].blocks) = n
      PROVE  /\ i = n => f[i].blocks = TopChopped(f[i - 1].blocks)
                         /\ ~NegativeHeight(TopChopped(f[i - 1].blocks), i)
             /\ i # n => f[i].blocks = OthersFitted(AlignedOnTarget(f[i - 1].blocks, i), i)
                         /\ ~NegativeHeight(AlignedOnTarget(f[i - 1].blocks, i), i)
  <2>1. PICK below : below = f[i - 1]
    OBVIOUS
  <2>2. f[i] = Aligned(below, i)
    BY <1>3, <2>1
  <2>3. ~below.raised /\ ~f[i].raised
    <3>1. i - 1 \in 0..n /\ i \in 0..n
      BY <1>2
    <3> QED
      BY <1>4, <2>1, <3>1
  <2>4. CASE i = n
    <3>1. ~NegativeHeight(TopChopped(below.blocks), i)
      BY <1>5, <2>1, <2>2, <2>3, <2>4 DEF Aligned
    <3> QED
      BY <1>5, <2>1, <2>2, <2>3, <2>4, <3>1 DEF Aligned
  <2>5. CASE i # n
    <3>1. ~NegativeHeight(AlignedOnTarget(below.blocks, i), i)
      BY <1>5, <2>1, <2>2, <2>3, <2>5 DEF Aligned
    <3> QED
      BY <1>5, <2>1, <2>2, <2>3, <2>5, <3>1 DEF Aligned
  <2> QED
    BY <2>4, <2>5
<1> DEFINE So(i) == AlignedSoFar(a, f[i].blocks, i) /\ KeptSoFar(a, f[i].blocks, i)
           S == {i \in Nat : i < n /\ ~So(i)}
<1>6. So(0)
  <2>1. f[0].blocks = a
    BY <1>3 DEF StartWith
  <2>2. AlignedSoFar(a, a, 0)
    <3>1. SameShape(a, a)
      BY <1>2 DEF SameShape
    <3>2. StacksTo(a, 0)
      BY DEF StacksTo
    <3>3. StartOf(a, 1) = 0
      BY DEF StartOf
    <3> QED
      BY <3>1, <3>2, <3>3 DEF MeantFor, Alignable, AlignedSoFar
  <2>3. KeptSoFar(a, a, 0)
    <3>1. SameKind(a, a)
      BY DEF SameKind
    <3>2. ~LinkedBelow(a, 1, 0) /\ \A s : ~LinkedBelow(a, 1, s)
      BY DEF LinkedBelow
    <3>3. 1..0 = {}
      OBVIOUS
    <3> QED
      BY <3>1, <3>2, <3>3 DEF KeptSoFar
  <2> QED
    BY <2>1, <2>2, <2>3
<1>7. ASSUME NEW i \in 1..n - 1, So(i - 1) PROVE So(i)
  <2>1. PICK x : x = f[i - 1].blocks
    OBVIOUS
  <2>2. AlignedSoFar(a, x, i - 1) /\ KeptSoFar(a, x, i - 1) /\ Len(x) = n /\ i \in 1..n /\ i # n
    <3>1. AlignedSoFar(a, x, i - 1) /\ KeptSoFar(a, x, i - 1)
      BY <1>7, <2>1
    <3>2. Len(x) = Len(a)
      BY <3>1 DEF AlignedSoFar, SameShape
    <3>3. i \in 1..n /\ i # n
      BY <1>1, <1>2
    <3> QED
      BY <1>1, <1>2, <3>1, <3>2, <3>3
  <2>3. PICK y : y = AlignedOnTarget(x, i)
    OBVIOUS
  <2>4. PICK z : z = OthersFitted(y, i)
    OBVIOUS
  <2>5. f[i].blocks = z /\ ~NegativeHeight(y, i)
    BY <1>5, <2>1, <2>2, <2>3, <2>4
  <2>6. AlignedSoFar(a, z, i)
    BY <1>1, <1>2, <2>2, <2>3, <2>4, <2>5, AlignedBelowTop
  <2>7. ASSUME i + 1 < n PROVE ~NegativeHeight(AlignedOnTarget(z, i + 1), i + 1)
    <3>1. PICK j : j = i + 1
      OBVIOUS
    <3>2. j \in 1..n /\ j # n /\ j - 1 = i
      BY <1>2, <2>7, <3>1
    <3>3. Len(f[j - 1].blocks) = n
      BY <1>1, <2>5, <2>6, <3>2 DEF AlignedSoFar, SameShape
    <3> QED
      BY <1>5, <2>5, <3>1, <3>2, <3>3
  <2>8. KeptSoFar(a, z, i)
    <3>1. i \in 1..Len(a) - 1 /\ (i + 1 < Len(a) => ~NegativeHeight(AlignedOnTarget(z, i + 1), i + 1))
      BY <1>1, <2>7
    <3> QED
      BY ONLY MeantFor(a), <2>2, <2>3, <2>4, <2>5, <3>1, KeptBelowTop
  <2> QED
    BY <2>5, <2>6, <2>8
<1> HIDE DEF So
<1>8. S = {}
  <2> SUFFICES ASSUME S # {} PROVE FALSE
    OBVIOUS
  <2>1. PICK i \in S : \A k \in S : i <= k
    BY LeastNumber
  <2>2. i # 0
    BY <1>6
  <2>3. i \in 1..n - 1 /\ i - 1 \in Nat /\ i - 1 < n /\ ~(i <= i - 1)
    BY <1>2, <2>2
  <2>4. So(i - 1)
    BY <2>1, <2>3
  <2>5. So(i)
    BY <1>7, <2>3, <2>4
  <2> QED
    BY <2>5
<1>9. So(n - 1)
  <2>1. n - 1 \in Nat /\ n - 1 < n
    BY <1>2
  <2> QED
    BY <1>8, <2>1
<1>10. PICK x : x = f[n - 1].blocks
  OBVIOUS
<1>11. AlignedSoFar(a, x, n - 1) /\ KeptSoFar(a, x, n - 1) /\ Len(x) = n
  BY <1>1, <1>9, <1>10 DEF So, AlignedSoFar, SameShape
<1>12. f[n].blocks = TopChopped(x) /\ ~NegativeHeight(TopChopped(x), n)
  <2>1. n \in 1..n
    BY <1>2
  <2> QED
    BY <1>5, <1>10, <1>11, <2>1
<1>13. AlignedSoFar(a, TopChopped(x), Len(a))
  BY <1>1, <1>2, <1>11, <1>12, AlignedAtTop
<1>14. KeptSoFar(a, TopChopped(x), Len(a)) /\ Stand(TopChopped(x))
  BY <1>1, <1>11, KeptAtTop
<1> QED
  BY <1>1, <1>3, <1>12, <1>13, <1>14 DEF AlignedSoFar

-----------------------------------------------------------------------------
(* At rest a component that is as high as its block has what it had.       *)
LEMMA AtRestIs ==
  ASSUME NEW a, IsStack(a), Stand(a),
         \A i \in 1..Len(a) : \A s \in DOMAIN a[i].solids :
           a[i].solids[s].zb = a[i].zb /\ a[i].solids[s].zt = a[i].zt
  PROVE  LET b == AtRest(a)
         IN  \A i \in 1..Len(a) :
               /\ b[i].flags = a[i].flags
               /\ \A s \in DOMAIN a[i].solids :
                    /\ b[i].solids[s].material = a[i].solids[s].material
                    /\ b[i].solids[s].mass = a[i].solids[s].mass
                    /\ b[i].solids[s].zb = a[i].zb /\ b[i].solids[s].zt = a[i].zt
<1> DEFINE rest(i) == [s \in DOMAIN a[i].solids |->
              [a[i].solids[s] EXCEPT !.mass = Portion(a[i].solids[s].mass, Height(a[i]), a[i].solids[s].h)]]
<1>1. PICK b : b = AtRest(a)
  OBVIOUS
<1>2. b = [i \in 1..Len(a) |-> [a[i] EXCEPT !.solids = rest(i)]]
  BY <1>1, StackFacts DEF AtRest
<1>3. ASSUME NEW i \in 1..Len(a)
      PROVE  b[i].flags = a[i].flags /\ b[i].solids = rest(i)
  <2>1. PICK new : new = rest(i)
    OBVIOUS
  <2>2. DOMAIN a[i] = BlockFields
    BY StackFacts
  <2>3. b[i] = [a[i] EXCEPT !.solids = new]
    BY <1>2, <2>1
  <2> HIDE DEF rest
  <2> QED
    BY <2>1, <2>2, <2>3 DEF BlockFields
<1>4. ASSUME NEW i \in 1..Len(a), NEW s \in DOMAIN a[i].solids
      PROVE  /\ b[i].solids[s].material = a[i].solids[s].material
             /\ b[i].solids[s].mass = a[i].solids[s].mass
             /\ b[i].solids[s].zb = a[i].zb /\ b[i].solids[s].zt = a[i].zt
  <2>1. PICK c : c = a[i].solids[s]
    OBVIOUS
  <2>2. Stands(c) /\ c.zb = a[i].zb /\ c.zt = a[i].zt
    BY <2>1 DEF Stand
  <2>3. a[i].zb \in Int /\ a[i].zt \in Int
    BY StackFacts
  <2>4. Height(a[i]) = c.h
    BY <2>2, <2>3 DEF Height, Stands
  <2>5. Portion(c.mass, Height(a[i]), c.h) = c.mass
    BY <2>4 DEF Portion
  <2>6. PICK d : d = [c EXCEPT !.mass = c.mass]
    OBVIOUS
  <2>7. b[i].solids[s] = d
    <3>1. b[i].solids[s] = [c EXCEPT !.mass = Portion(c.mass, Height(a[i]), c.h)]
      BY <1>3, <2>1
    <3> QED
      BY <2>5, <2>6, <3>1
  <2>8. d.material = c.material /\ d.mass = c.mass /\ d.zb = c.zb /\ d.zt = c.zt
    BY <2>2, <2>6 DEF Stands, SolidFields
  <2> QED
    BY <2>1, <2>2, <2>7, <2>8
<1> QED
  BY <1>1, <1>3, <1>4

KeepsMass(a, b) ==
  /\ \A s : MassOf(b, s) = MassOf(a, s)
  /\ \A i \in 1..Len(a) : TargetAlone(a, i) =>
       b[i].solids[b[i].target].mass = a[i].solids[a[i].target].mass
  /\ \A i \in 1..Len(b) : \A s \in DOMAIN b[i].solids :
       b[i].solids[s].zb = b[i].zb /\ b[i].solids[s].zt = b[i].zt

(* An expansion that raises nothing keeps what it is meant to keep.        *)
LEMMA ExpandedKeeps ==
  ASSUME NEW a, IsStack(a), Len(a) >= 2, HaveTargets(a), a[1].zb = 0,
         OneEndPerBlock(a), OneMaterial(a), FluidOnTop(a), WholeMasses(a),
         NEW change, \A x \in DOMAIN change : change[x] \in Int,
         ~AxiallyExpanded(a, change).raised,
         NEW b, b = AtRest(AxiallyExpanded(a, change).blocks)
  PROVE  SameShape(a, b) /\ SameKind(a, b) /\ KeepsMass(a, b)
<1>1. PICK g : g = Grown(a, change)
  OBVIOUS
<1>2. /\ SameShape(a, g) /\ Stand(g)
      /\ \A i \in 1..Len(a) : /\ g[i].zb = a[i].zb /\ g[i].zt = a[i].zt
                              /\ \A s \in DOMAIN a[i].solids : g[i].solids[s].zb = a[i].zb
  BY <1>1, GrownFacts
<1>3. /\ Len(a) \in Nat /\ 1 \in 1..Len(a) - 1 /\ 1 \in 1..Len(a) /\ Len(a) \in 1..Len(a)
      /\ Len(g) = Len(a) /\ IsStack(g)
  BY <1>2, StackFacts DEF SameShape
<1>4. SameKind(a, g) /\ SameMasses(a, g)
  <2>1. \A i \in 1..Len(a) :
               /\ g[i].flags = a[i].flags
               /\ \A s \in DOMAIN a[i].solids :
                    /\ g[i].solids[s].material = a[i].solids[s].material
                    /\ g[i].solids[s].mass = a[i].solids[s].mass
    BY <1>1, GrownIs
  <2> QED
    BY <2>1 DEF SameKind, SameMasses
<1>5. MeantFor(g)
  <2>1. HaveTargets(g)
    BY <1>2, <1>3 DEF HaveTargets, SameShape
  <2>2. g[1].target = a[1].target /\ a[1].target \in DOMAIN a[1].solids
    BY <1>2, <1>3 DEF SameShape, HaveTargets
  <2>3. Alignable(g)
    BY <1>2, <1>3, <2>1, <2>2 DEF Alignable
  <2>4. OthersLinked(g)
    <3> SUFFICES ASSUME NEW i \in 1..Len(g) - 1, NEW s \in Others(g, i) PROVE LinkedAbove(g, i, s)
      BY DEF OthersLinked
    <3>1. i \in 1..Len(a) /\ i \in 1..Len(a) - 1
      BY <1>3
    <3>2. Others(g, i) = Others(a, i) /\ LinkedAbove(g, i, s) = LinkedAbove(a, i, s)
      BY <1>2, <3>1, LinksKept
    <3> QED
      BY <3>1, <3>2 DEF OneEndPerBlock
  <2>5. OneMaterial(g)
    <3> SUFFICES ASSUME NEW i \in 1..Len(a) - 1,
                        NEW s \in DOMAIN g[i].solids \cap DOMAIN g[i + 1].solids
                 PROVE  g[i].solids[s].material = g[i + 1].solids[s].material
      BY <1>3 DEF OneMaterial
    <3>1. i \in 1..Len(a) /\ i + 1 \in 1..Len(a)
      BY <1>3
    <3>2. s \in DOMAIN a[i].solids /\ s \in DOMAIN a[i + 1].solids
      BY <1>2, <3>1 DEF SameShape
    <3> QED
      BY <1>4, <3>1, <3>2 DEF OneMaterial, SameKind
  <2>6. FluidOnTop(g)
    BY <1>2, <1>3 DEF FluidOnTop, SameShape
  <2> QED
    BY <2>3, <2>4, <2>5, <2>6 DEF MeantFor
<1>6. WholeMasses(g)
  BY <1>2, <1>3, <1>4 DEF WholeMasses, SameMasses, SameShape
<1>7. PICK x : x = AlignedTo(g, Len(g)).blocks
  OBVIOUS
<1>8. ~AlignedTo(g, Len(g)).raised /\ x = AxiallyExpanded(a, change).blocks
  BY <1>1, <1>3, <1>7 DEF AxiallyExpanded
<1>9. SameShape(g, x) /\ Stand(x) /\ KeptSoFar(g, x, Len(g))
  BY <1>5, <1>6, <1>7, <1>8, AlignedKeeps
<1>10. b = AtRest(x)
  BY <1>8
<1>11. SameShape(x, b) /\ SameBounds(x, b) /\ IsStack(x) /\ Len(x) = Len(a)
  BY <1>3, <1>9, <1>10, AtRestFacts DEF SameShape
<1>12. \A i \in 1..Len(x) :
               /\ b[i].flags = x[i].flags
               /\ \A s \in DOMAIN x[i].solids :
                    /\ b[i].solids[s].material = x[i].solids[s].material
                    /\ b[i].solids[s].mass = x[i].solids[s].mass
                    /\ b[i].solids[s].zb = x[i].zb /\ b[i].solids[s].zt = x[i].zt
  <2>1. \A i \in 1..Len(x) : \A s \in DOMAIN x[i].solids :
          x[i].solids[s].zb = x[i].zb /\ x[i].solids[s].zt = x[i].zt
    BY <1>3, <1>9, <1>11 DEF KeptSoFar
  <2> QED
    BY <1>9, <1>10, <1>11, <2>1, AtRestIs
<1>13. SameShape(a, x) /\ SameShape(a, b) /\ Len(b) = Len(a)
  BY <1>2, <1>9, <1>11, SameShapeTransitive DEF SameShape
<1>14. SameKind(a, b)
  <2> SUFFICES ASSUME NEW i \in 1..Len(a)
               PROVE  /\ b[i].flags = a[i].flags
                      /\ \A s \in DOMAIN a[i].solids : b[i].solids[s].material = a[i].solids[s].material
    BY DEF SameKind
  <2>1. DOMAIN x[i].solids = DOMAIN a[i].solids /\ DOMAIN g[i].solids = DOMAIN a[i].solids
    BY <1>2, <1>13 DEF SameShape
  <2>2. /\ x[i].flags = g[i].flags
        /\ \A s \in DOMAIN g[i].solids : x[i].solids[s].material = g[i].solids[s].material
    BY <1>3, <1>9 DEF KeptSoFar, SameKind
  <2>3. /\ g[i].flags = a[i].flags
        /\ \A s \in DOMAIN a[i].solids : g[i].solids[s].material = a[i].solids[s].material
    BY <1>4 DEF SameKind
  <2> QED
    BY <1>11, <1>12, <2>1, <2>2, <2>3
<1>15. ASSUME NEW s PROVE MassOf(b, s) = MassOf(a, s)
  <2>1. MassOf(g, s) = MassOf(a, s)
    BY <1>2, <1>4, MassesAdd
  <2>2. MassOf(x, s) = MassOf(g, s)
    BY <1>9 DEF KeptSoFar
  <2>3. SameMasses(x, b)
    BY <1>12 DEF SameMasses
  <2>4. MassOf(b, s) = MassOf(x, s)
    BY <1>11, <2>3, MassesAdd
  <2> QED
    BY <2>1, <2>2, <2>4
<1>16. ASSUME NEW i \in 1..Len(a), TargetAlone(a, i)
       PROVE  b[i].solids[b[i].target].mass = a[i].solids[a[i].target].mass
  <2>1. i # Len(a)
    BY <1>16 DEF TargetAlone, FluidOnTop
  <2>2. i \in 1..Len(a) - 1 /\ (i > 1 => i - 1 \in 1..Len(a))
    BY <1>3, <2>1
  <2>3. PICK s : s = a[i].target
    OBVIOUS
  <2>4. s \in DOMAIN a[i].solids
    BY <2>2, <2>3 DEF HaveTargets
  <2>5. /\ g[i].target = s /\ x[i].target = s /\ b[i].target = s
        /\ s \in DOMAIN g[i].solids /\ s \in DOMAIN x[i].solids
    BY <1>2, <1>13, <2>3, <2>4 DEF SameShape
  <2>6. TargetAlone(g, i)
    <3>1. LinkedBelow(g, i, s) = LinkedBelow(a, i, s)
      BY <1>2, LinksKept
    <3>2. LinkedBelow(a, i, s) => g[i - 1].target = a[i - 1].target
      BY <1>2, <2>2 DEF LinkedBelow, SameShape
    <3> QED
      BY <1>16, <2>3, <2>5, <3>1, <3>2 DEF TargetAlone
  <2>7. x[i].solids[s].mass = g[i].solids[s].mass
    BY <1>3, <1>9, <2>5, <2>6 DEF KeptSoFar
  <2>8. g[i].solids[s].mass = a[i].solids[s].mass
    BY <1>4, <2>4 DEF SameMasses
  <2>9. b[i].solids[s].mass = x[i].solids[s].mass
    BY <1>11, <1>12, <2>5
  <2> QED
    BY <2>3, <2>5, <2>7, <2>8, <2>9
<1>17. ASSUME NEW i \in 1..Len(a), NEW s \in DOMAIN b[i].solids
       PROVE  b[i].solids[s].zb = b[i].zb /\ b[i].solids[s].zt = b[i].zt
  <2>1. s \in DOMAIN x[i].solids /\ b[i].zb = x[i].zb /\ b[i].zt = x[i].zt
    BY <1>11 DEF SameShape, SameBounds
  <2> QED
    BY <1>11, <1>12, <2>1
<1> QED
  BY <1>8, <1>10, <1>13, <1>14, <1>15, <1>16, <1>17 DEF KeepsMass

-----------------------------------------------------------------------------
(* A stack on the points of a mesh that it tracks.                         *)
TracksTops(x, tops) ==
  \A i \in 1..Len(x) : x[i].zt = tops[x[i].topIndex + 1] /\ x[i].zb = StartOf(x, i)

(* The blocks of an assembly that has not been expanded: of the kind they  *)
(* were built as, where they were built unless they moved with the         *)
(* reference assembly, and of a mass that is whole yet.                    *)
Unexpanded(p, x, moved, tops) ==
  /\ SameKind(Loading[p], x) /\ WholeMasses(x)
  /\ SameBounds(Loading[p], x) \/ (moved /\ TracksTops(x, tops))

LEMMA RedoneKeeps ==
  ASSUME NEW p \in Places, NEW x, IsStack(x), Len(x) = Len(Loading[p]),
         \A i \in 1..Len(x) : DOMAIN x[i].solids = DOMAIN Loading[p][i].solids,
         NEW y, Redone(x, y)
  PROVE  /\ \A moved, tops : Unexpanded(p, x, moved, tops) => Unexpanded(p, y, moved, tops)
         /\ TopsOf(y) = TopsOf(x)
<1>1. SameShape(x, y) /\ SameBounds(x, y) /\ Len(y) = Len(x) /\ Len(x) \in Nat
  BY RedoneFacts, StackFacts DEF Redone
<1>2. ASSUME NEW i \in 1..Len(x)
      PROVE  /\ y[i].flags = x[i].flags /\ y[i].solids = x[i].solids /\ y[i].topIndex = x[i].topIndex
             /\ y[i].zb = x[i].zb /\ y[i].zt = x[i].zt
  <2>1. DOMAIN x[i] = BlockFields
    BY StackFacts
  <2>2. {"flags", "solids", "topIndex", "zb", "zt"} \subseteq DOMAIN x[i] \ {"power", "peak"}
    BY <2>1 DEF BlockFields
  <2> QED
    BY <2>1, <2>2 DEF Redone
<1>3. ASSUME NEW moved, NEW tops, Unexpanded(p, x, moved, tops) PROVE Unexpanded(p, y, moved, tops)
  <2>1. SameKind(Loading[p], y)
    BY <1>2, <1>3 DEF Unexpanded, SameKind
  <2>2. WholeMasses(y)
    BY <1>1, <1>2, <1>3 DEF Unexpanded, WholeMasses
  <2>3. SameBounds(Loading[p], x) => SameBounds(Loading[p], y)
    BY <1>1, <1>2 DEF SameBounds
  <2>4. TracksTops(x, tops) => TracksTops(y, tops)
    <3> SUFFICES ASSUME TracksTops(x, tops), NEW i \in 1..Len(x)
                 PROVE  y[i].zt = tops[y[i].topIndex + 1] /\ y[i].zb = StartOf(y, i)
      BY <1>1 DEF TracksTops
    <3>1. i # 1 => i - 1 \in 1..Len(x)
      BY <1>1
    <3> QED
      BY <1>2, <3>1 DEF TracksTops, StartOf
  <2> QED
    BY <1>3, <2>1, <2>2, <2>3, <2>4 DEF Unexpanded
<1>4. TopsOf(y) = TopsOf(x)
  <2>1. DOMAIN x = 1..Len(x) /\ DOMAIN y = 1..Len(x)
    BY <1>1, StackFacts DEF SameShape
  <2> QED
    BY <1>2, <2>1 DEF TopsOf
<1> QED
  BY <1>3, <1>4

(* What snapping to a mesh makes of the components.                        *)
LEMMA OnMeshIs ==
  ASSUME NEW a, IsStack(a), NEW tops, a[Len(a)].topIndex # 0
  PROVE  LET b == OnMesh(a, tops)
         IN  \A i \in 1..Len(a) :
               /\ b[i].flags = a[i].flags
               /\ \A s \in DOMAIN a[i].solids :
                    /\ b[i].solids[s].material = a[i].solids[s].material
                    /\ \/ b[i].solids[s].mass = a[i].solids[s].mass
                       \/ b[i].solids[s].mass = Portion(a[i].solids[s].mass, b[i].zt - b[i].zb, Height(a[i]))
<1> DEFINE top(i) == tops[a[i].topIndex + 1]
           start(i) == IF i = 1 THEN 0 ELSE top(i - 1)
           solid(i) == [s \in DOMAIN a[i].solids |->
              IF MassConserved(a, i, a[i].solids[s]) THEN a[i].solids[s]
              ELSE [a[i].solids[s] EXCEPT
                      !.mass = Portion(a[i].solids[s].mass, top(i) - start(i), Height(a[i]))]]
           c(i) == [a[i] EXCEPT !.zb = start(i), !.zt = top(i), !.solids = solid(i)]
<1>1. PICK b : b = OnMesh(a, tops)
  OBVIOUS
<1>2. b = [i \in 1..Len(a) |-> c(i)]
  BY <1>1, StackFacts DEF OnMesh
<1>3. ASSUME NEW i \in 1..Len(a)
      PROVE  b[i].flags = a[i].flags /\ b[i].solids = solid(i) /\ b[i].zb = start(i) /\ b[i].zt = top(i)
  <2>1. b[i] = c(i)
    BY <1>2
  <2>2. DOMAIN a[i] = BlockFields
    BY StackFacts
  <2> HIDE DEF start, top, solid
  <2> QED
    BY <2>1, <2>2 DEF BlockFields
<1>4. ASSUME NEW i \in 1..Len(a), NEW s \in DOMAIN a[i].solids
      PROVE  /\ b[i].solids[s].material = a[i].solids[s].material
             /\ \/ b[i].solids[s].mass = a[i].solids[s].mass
                \/ b[i].solids[s].mass = Portion(a[i].solids[s].mass, b[i].zt - b[i].zb, Height(a[i]))
  <2>1. PICK d : d = a[i].solids[s]
    OBVIOUS
  <2>2. DOMAIN d = SolidFields
    BY <2>1, StackFacts
  <2>3. PICK m : m = Portion(d.mass, top(i) - start(i), Height(a[i]))
    OBVIOUS
  <2>4. b[i].solids[s] = d \/ b[i].solids[s] = [d EXCEPT !.mass = m]
    <3>1. b[i].solids = solid(i)
      BY <1>3
    <3>2. solid(i)[s] = IF MassConserved(a, i, d) THEN d ELSE [d EXCEPT !.mass = m]
      BY ONLY s \in DOMAIN a[i].solids, <2>1, <2>3
    <3> HIDE DEF start, top, solid, c
    <3> QED
      BY ONLY <3>1, <3>2
  <2>5. m = Portion(d.mass, b[i].zt - b[i].zb, Height(a[i]))
    BY <1>3, <2>3
  <2> HIDE DEF start, top, solid, c
  <2> QED
    BY <2>1, <2>2, <2>4, <2>5 DEF SolidFields
<1> QED
  BY <1>1, <1>3, <1>4

(* The points an assembly tracks were those of its blocks.                 *)
LEMMA TrackedPoints ==
  ASSUME NEW p \in Places, case \in Cases, NEW x, SameShape(Built(p), x), x[Len(x)].topIndex # 0
  PROVE  /\ Len(x) = Len(Loading[p]) /\ ~case.detailed /\ p \notin case.nonUniform
         /\ \A i \in 1..Len(x) : /\ x[i].topIndex + 1 \in 1..Len(Loading[Reference])
                                 /\ Loading[Reference][x[i].topIndex + 1].zt = Loading[p][i].zt
<1>1. PICK a : a = Loading[p]
  OBVIOUS
<1>2. PICK b : b = Built(p)
  OBVIOUS
<1>3. Len(a) \in Nat /\ Len(a) >= 2 /\ Len(b) = Len(a) /\ Len(x) = Len(a) /\ Len(x) \in 1..Len(a)
  BY <1>1, <1>2, LoadingFacts, BuiltFacts, StackFacts DEF SameShape
<1>4. \A i \in 1..Len(a) : x[i].topIndex = b[i].topIndex
  BY <1>2, <1>3 DEF SameShape
<1>5. ~case.detailed /\ p \notin case.nonUniform
  <2> SUFFICES ASSUME case.detailed \/ p \in case.nonUniform PROVE FALSE
    OBVIOUS
  <2>1. b = a
    BY <1>1, <1>2 DEF Built
  <2>2. a[Len(x)].topIndex = 0
    BY <1>1, <1>3, LoadingFacts
  <2> QED
    BY <1>3, <1>4, <2>1, <2>2
<1>6. \A i \in 1..Len(a) :
                  /\ b[i].topIndex + 1 \in 1..Len(Loading[Reference])
                  /\ Loading[Reference][b[i].topIndex + 1].zt = a[i].zt
  BY <1>1, <1>2, <1>5, SnappingFacts
<1> QED
  BY <1>1, <1>3, <1>4, <1>5, <1>6

(* The reference assembly snaps to itself.                                 *)
LEMMA ReferenceStays ==
  ASSUME case \in Cases, NEW x, SameShape(Built(Reference), x), NEW tops, tops = TopsOf(x)
  PROVE  TopsOf(OnMesh(x, tops)) = tops
<1>1. IsStack(x) /\ DOMAIN x = 1..Len(x) /\ Reference \in Places
  BY StackFacts, LoadingAssumption DEF SameShape
<1>2. CASE x[Len(x)].topIndex = 0
  <2>1. OnMesh(x, tops) = x
    BY <1>2 DEF OnMesh
  <2> QED
    BY <2>1
<1>3. CASE x[Len(x)].topIndex # 0
  <2>1. PICK r : r = Loading[Reference]
    OBVIOUS
  <2>2. /\ Len(x) = Len(r)
        /\ \A i \in 1..Len(x) : /\ x[i].topIndex + 1 \in 1..Len(r)
                                /\ r[x[i].topIndex + 1].zt = r[i].zt
    BY <1>1, <1>3, <2>1, TrackedPoints
  <2>3. Len(x) \in Nat /\ Len(x) >= 1
    BY <1>1, <2>1, <2>2, LoadingFacts, StackFacts
  <2>4. \A i, j \in 1..Len(r) : i < j => r[i].zt < r[j].zt
    BY <1>1, <2>1, LoadingRises
  <2>5. \A i \in 1..Len(r) : r[i].zt \in Int
    BY <1>1, <2>1, LoadingFacts, StackFacts
  <2>6. ASSUME NEW i \in 1..Len(x) PROVE x[i].topIndex + 1 = i
    <3>1. PICK k : k = x[i].topIndex + 1
      OBVIOUS
    <3>2. k \in 1..Len(r) /\ i \in 1..Len(r) /\ r[k].zt = r[i].zt
      BY <2>2, <3>1
    <3>3. ~(k < i) /\ ~(i < k)
      BY <2>4, <2>5, <3>2
    <3> QED
      BY <2>2, <2>3, <3>1, <3>2, <3>3
  <2>7. IsMesh(tops) /\ Len(tops) = Len(x) /\ tops = [i \in 1..Len(x) |-> tops[i]]
    BY <1>1, TopsFacts DEF IsMesh, IsList
  <2>8. PICK y : y = OnMesh(x, tops)
    OBVIOUS
  <2>9. Tracks(x, Len(tops))
    BY <2>2, <2>7 DEF Tracks
  <2>10. SameShape(x, y) /\ \A i \in 1..Len(x) : y[i].zt = tops[x[i].topIndex + 1]
    BY <1>1, <1>3, <2>3, <2>7, <2>8, <2>9, OnMeshFacts
  <2>11. DOMAIN y = 1..Len(x)
    BY <2>10, StackFacts DEF SameShape
  <2>12. \A i \in 1..Len(x) : y[i].zt = tops[i]
    BY <2>6, <2>10
  <2>13. TopsOf(y) = [i \in 1..Len(x) |-> tops[i]]
    BY <2>11, <2>12 DEF TopsOf
  <2> QED
    BY <2>7, <2>8, <2>13
<1> QED
  BY <1>2, <1>3

LEMMA OnMeshKeeps ==
  ASSUME NEW p \in Places, case \in Cases, NEW x, SameShape(Built(p), x),
         \A i \in 1..Len(Loading[p]) : DOMAIN Built(p)[i].solids = DOMAIN Loading[p][i].solids,
         NEW tops, IsMesh(tops), Len(tops) = Len(Loading[Reference]),
         NEW moved \in BOOLEAN, ~moved => tops = TopsOf(Loading[Reference]),
         Unexpanded(p, x, moved, tops)
  PROVE  Unexpanded(p, OnMesh(x, tops), moved, tops)
<1>1. CASE x[Len(x)].topIndex = 0
  <2>1. OnMesh(x, tops) = x
    BY <1>1 DEF OnMesh
  <2> QED
    BY <2>1
<1>2. CASE x[Len(x)].topIndex # 0
  <2>1. PICK a : a = Loading[p]
    OBVIOUS
  <2>2. PICK r : r = Loading[Reference]
    OBVIOUS
  <2>3. PICK y : y = OnMesh(x, tops)
    OBVIOUS
  <2>4. /\ Len(x) = Len(a)
        /\ \A i \in 1..Len(x) : x[i].topIndex + 1 \in 1..Len(r) /\ r[x[i].topIndex + 1].zt = a[i].zt
    BY <1>2, <2>1, <2>2, TrackedPoints
  <2>5. /\ IsStack(x) /\ Len(x) \in Nat /\ Len(x) >= 1 /\ Len(Built(p)) = Len(a)
        /\ \A i \in 1..Len(x) : DOMAIN x[i].solids = DOMAIN a[i].solids
    BY <2>1, <2>4, LoadingFacts, BuiltFacts, StackFacts DEF SameShape
  <2>6. Tracks(x, Len(tops))
    BY <2>2, <2>4 DEF Tracks
  <2>7. /\ SameShape(x, y) /\ Len(y) = Len(x)
        /\ \A i \in 1..Len(x) : y[i].zt = tops[x[i].topIndex + 1] /\ y[i].zb = StartOf(y, i)
    BY <1>2, <2>3, <2>5, <2>6, OnMeshFacts DEF SameShape
  <2>8. \A i \in 1..Len(x) :
               /\ y[i].flags = x[i].flags
               /\ \A s \in DOMAIN x[i].solids :
                    /\ y[i].solids[s].material = x[i].solids[s].material
                    /\ \/ y[i].solids[s].mass = x[i].solids[s].mass
                       \/ y[i].solids[s].mass = Portion(x[i].solids[s].mass, y[i].zt - y[i].zb, Height(x[i]))
    <3>1. IsStack(x) /\ x[Len(x)].topIndex # 0
      BY <1>2, <2>5
    <3> QED
      BY ONLY <2>3, <3>1, OnMeshIs
  <2>9. SameKind(a, y)
    <3>1. SameKind(a, x)
      BY <2>1 DEF Unexpanded
    <3> SUFFICES ASSUME NEW i \in 1..Len(a)
                 PROVE  /\ y[i].flags = a[i].flags
                        /\ \A s \in DOMAIN a[i].solids : y[i].solids[s].material = a[i].solids[s].material
      BY DEF SameKind
    <3>2. i \in 1..Len(x) /\ DOMAIN x[i].solids = DOMAIN a[i].solids
      BY <2>4, <2>5
    <3>3. /\ x[i].flags = a[i].flags
          /\ \A s \in DOMAIN a[i].solids : x[i].solids[s].material = a[i].solids[s].material
      BY ONLY <3>1, i \in 1..Len(a) DEF SameKind
    <3>4. /\ y[i].flags = x[i].flags
          /\ \A s \in DOMAIN x[i].solids : y[i].solids[s].material = x[i].solids[s].material
      BY ONLY <2>8, <3>2
    <3> QED
      BY ONLY <3>2, <3>3, <3>4
  <2>10. TracksTops(y, tops)
    BY <2>7 DEF TracksTops, SameShape
  <2>11. ~moved => SameBounds(a, y)
    <3> SUFFICES ASSUME ~moved, NEW i \in 1..Len(a) PROVE y[i].zb = a[i].zb /\ y[i].zt = a[i].zt
      BY <2>4, <2>7 DEF SameBounds
    <3>1. IsStack(r) /\ tops = TopsOf(r)
      BY <2>2, LoadingFacts, LoadingAssumption
    <3>2. \A k \in 1..Len(r) : tops[k] = r[k].zt
      BY <3>1, TopsFacts
    <3>3. \A k \in 1..Len(a) : y[k].zt = a[k].zt
      BY <2>4, <2>7, <3>2
    <3>4. a[i].zb = StartOf(a, i)
      BY <2>1, LoadingFacts DEF Fills, StacksTo
    <3>5. y[i].zb = StartOf(y, i) /\ (i # 1 => i - 1 \in 1..Len(a))
      BY <2>4, <2>5, <2>7
    <3> QED
      BY <3>3, <3>4, <3>5 DEF StartOf
  <2>12. ASSUME NEW i \in 1..Len(x), NEW s \in DOMAIN x[i].solids PROVE y[i].solids[s].mass \in Int
    <3>1. PICK m \in Int : m = x[i].solids[s].mass
      BY DEF Unexpanded, WholeMasses
    <3>2. /\ y[i].zt \in Int /\ y[i].zb \in Int /\ x[i].zt \in Int /\ x[i].zb \in Int
      BY <2>5, <2>7, StackFacts DEF SameShape
    <3>a. y[i].zt - y[i].zb \in Int /\ x[i].zt - x[i].zb \in Int
      BY ONLY <3>2
    <3>b. PICK n \in Int : n = y[i].zt - y[i].zb
      BY ONLY <3>a
    <3>c. PICK h \in Int : h = x[i].zt - x[i].zb
      BY ONLY <3>a
    <3>3. n = y[i].zt - y[i].zb /\ h = x[i].zt - x[i].zb
      BY <3>b, <3>c
    <3>4. Portion(m, n, h) \in Int
      <4>1. CASE SameBounds(a, x)
        <5>1. x[i].zb < x[i].zt
          BY <2>1, <2>4, <4>1, LoadingFacts DEF SameBounds
        <5>2. h > 0
          BY <3>2, <3>3, <5>1
        <5> QED
          BY <5>2, PortionIsInt
      <4>2. CASE TracksTops(x, tops)
        <5>1. \A k \in 1..Len(x) : y[k].zt = x[k].zt
          BY <2>7, <4>2 DEF TracksTops
        <5>2. i # 1 => i - 1 \in 1..Len(x)
          BY <2>5
        <5>3. y[i].zb = x[i].zb
          BY <2>7, <4>2, <5>1, <5>2 DEF TracksTops, StartOf
        <5>4. n = h
          BY <3>3, <5>1, <5>3
        <5> QED
          BY <5>4 DEF Portion
      <4> QED
        BY <2>1, <4>1, <4>2 DEF Unexpanded
    <3>5. y[i].solids[s].mass = m \/ y[i].solids[s].mass = Portion(m, n, h)
      <4>1. Height(x[i]) = h
        BY <3>3 DEF Height
      <4> QED
        BY <2>8, <3>1, <3>3, <4>1
    <3> QED
      BY <3>4, <3>5
  <2>13. WholeMasses(y)
    BY <2>7, <2>12 DEF WholeMasses, SameShape
  <2> QED
    BY <2>1, <2>3, <2>9, <2>10, <2>11, <2>13 DEF Unexpanded
<1> QED
  BY <1>1, <1>2

-----------------------------------------------------------------------------
(* The blocks of the original assembly of a place, in the core or put      *)
(* aside.                                                                  *)
Originals(p) ==
  IF use = "inPlace" /\ p \in case.nonUniform
  THEN {s.blocks : s \in {t \in storage : t.name = <<p, Suffix>>}} ELSE {core[p].blocks}

UnexpandedOn(tops) ==
  /\ IsMesh(tops) /\ Len(tops) = Len(Loading[Reference])
  /\ Reference \notin expanded => tops = TopsOf(Loading[Reference])
  /\ \A x \in Originals(Reference) : TopsOf(x) = tops
  /\ \A p \in Places \ expanded : \A x \in Originals(p) :
       Unexpanded(p, x, Reference \in expanded, tops)

(* What holds of the assemblies that are still to be expanded.             *)
StillWhole == \E tops : UnexpandedOn(tops)

LEMMA BuiltIsWhole ==
  ASSUME NEW p \in Places, case \in Cases, NEW moved, NEW tops
  PROVE  /\ Unexpanded(p, Built(p), moved, tops) /\ TopsOf(Built(p)) = TopsOf(Loading[p])
         /\ \A i \in 1..Len(Loading[p]) : DOMAIN Built(p)[i].solids = DOMAIN Loading[p][i].solids
<1>1. PICK a : a = Loading[p]
  OBVIOUS
<1>2. PICK b : b = Built(p)
  OBVIOUS
<1>3. IsStack(a) /\ IsStack(b) /\ Len(b) = Len(a) /\ Len(a) \in Nat
  BY <1>1, <1>2, LoadingFacts, BuiltFacts, StackFacts
<1>4. \A i \in 1..Len(a) : \A s \in DOMAIN a[i].solids : a[i].solids[s].mass \in Int
  <2>1. IsBuilt(a)
    BY <1>1, LoadingAssumption
  <2>2. \A i \in 1..Len(a) : \A s \in DOMAIN a[i].solids : a[i].solids[s].mass \in Nat
    BY <2>1, Zenon DEF IsBuilt
  <2> QED
    BY <2>2
<1>5. \A i \in 1..Len(a) : /\ b[i].zb = a[i].zb /\ b[i].zt = a[i].zt /\ b[i].flags = a[i].flags
                           /\ b[i].solids = a[i].solids
  <2>1. CASE case.detailed \/ p \in case.nonUniform
    BY <1>1, <1>2, <2>1 DEF Built
  <2>2. CASE ~case.detailed /\ p \notin case.nonUniform
    BY <1>1, <1>2, <2>2, SnappingFacts DEF SameBounds
  <2> QED
    BY <2>1, <2>2
<1>6. Unexpanded(p, b, moved, tops)
  <2>1. SameKind(a, b)
    BY <1>5 DEF SameKind
  <2>2. WholeMasses(b)
    BY <1>3, <1>4, <1>5 DEF WholeMasses
  <2>3. SameBounds(a, b)
    BY <1>3, <1>5 DEF SameBounds
  <2> QED
    BY <1>1, <2>1, <2>2, <2>3 DEF Unexpanded
<1>7. TopsOf(b) = TopsOf(a)
  <2>1. DOMAIN a = 1..Len(a) /\ DOMAIN b = 1..Len(a)
    BY <1>3, StackFacts
  <2> QED
    BY <1>5, <2>1 DEF TopsOf
<1> QED
  BY <1>1, <1>2, <1>5, <1>6, <1>7

LEMMA InitIsWhole == Init => StillWhole
<1> SUFFICES ASSUME Init PROVE StillWhole
  OBVIOUS
<1>1. case \in Cases /\ core = [p \in Places |-> NewAssembly(p, Built(p))] /\ use = "none"
  BY DEF Init, Built
<1>2. \A p \in Places : Originals(p) = {Built(p)}
  BY <1>1 DEF Originals, NewAssembly
<1>3. PICK tops : tops = TopsOf(Loading[Reference])
  OBVIOUS
<1>4. IsMesh(tops) /\ Len(tops) = Len(Loading[Reference])
  BY <1>3, TopsFacts, LoadingFacts, LoadingAssumption
<1>5. \A x \in Originals(Reference) : TopsOf(x) = tops
  BY <1>1, <1>2, <1>3, BuiltIsWhole, LoadingAssumption
<1>6. \A p \in Places : \A x \in Originals(p) : Unexpanded(p, x, Reference \in expanded, tops)
  BY <1>1, <1>2, BuiltIsWhole
<1> QED
  BY <1>3, <1>4, <1>5, <1>6 DEF StillWhole, UnexpandedOn

LEMMA OriginalsFacts ==
  ASSUME Shaped, NEW p \in Places, NEW x \in Originals(p)
  PROVE  /\ IsStack(x) /\ SameShape(Built(p), x) /\ Len(x) = Len(Loading[p]) /\ Len(x) >= 2
         /\ HaveTargets(x) /\ x[1].zb = 0
         /\ \A i \in 1..Len(x) : DOMAIN x[i].solids = DOMAIN Loading[p][i].solids
<1>1. PICK a : IsOriginal(p, a) /\ x = a.blocks
  <2>1. CASE use = "inPlace" /\ p \in case.nonUniform
    <3>1. PICK s \in storage : s.name = <<p, Suffix>> /\ x = s.blocks
      BY <2>1 DEF Originals
    <3>2. PICK q \in case.nonUniform : s.name = <<q, Suffix>> /\ IsOriginal(q, s)
      BY <2>1 DEF Shaped, InStorage
    <3>3. p = q
      BY <3>1, <3>2
    <3> QED
      BY <3>1, <3>2, <3>3
  <2>2. CASE ~(use = "inPlace" /\ p \in case.nonUniform)
    BY <2>2 DEF Originals, Shaped, InCore
  <2> QED
    BY <2>1, <2>2
<1>2. case \in Cases
  BY DEF Shaped
<1>3. SameShape(Built(p), x) /\ IsStack(x) /\ Len(x) = Len(Loading[p]) /\ Len(x) >= 2 /\ HaveTargets(x)
      /\ x[1].zb = 0
  BY <1>1, <1>2, OriginalFacts DEF IsOriginal
<1>4. \A i \in 1..Len(x) : DOMAIN x[i].solids = DOMAIN Loading[p][i].solids
  <2>1. Len(Built(p)) = Len(x)
    BY <1>3 DEF SameShape
  <2>2. \A i \in 1..Len(Loading[p]) : DOMAIN Built(p)[i].solids = DOMAIN Loading[p][i].solids
    BY <1>2, BuiltIsWhole
  <2> QED
    BY <1>3, <2>1, <2>2 DEF SameShape
<1> QED
  BY <1>3, <1>4

(* Whether results are put in an assembly, it is put aside or comes back,  *)
(* its blocks keep all else.                                               *)
LEMMA AllRedone ==
  ASSUME Shaped, StillWhole, UNCHANGED <<case, expanded>>,
         \A p \in Places : \A y \in Originals(p)' : \E x \in Originals(p) : Redone(x, y)
  PROVE  StillWhole'
<1>1. PICK tops : UnexpandedOn(tops)
  BY DEF StillWhole
<1>2. ASSUME NEW p \in Places, NEW y \in Originals(p)'
      PROVE  \E x \in Originals(p) :
               /\ \A moved, t : Unexpanded(p, x, moved, t) => Unexpanded(p, y, moved, t)
               /\ TopsOf(y) = TopsOf(x)
  <2>1. PICK x \in Originals(p) : Redone(x, y)
    BY <1>2
  <2>2. /\ IsStack(x) /\ Len(x) = Len(Loading[p])
        /\ \A i \in 1..Len(x) : DOMAIN x[i].solids = DOMAIN Loading[p][i].solids
    BY OriginalsFacts
  <2>3. /\ \A moved, t : Unexpanded(p, x, moved, t) => Unexpanded(p, y, moved, t)
        /\ TopsOf(y) = TopsOf(x)
    BY ONLY p \in Places, <2>1, <2>2, RedoneKeeps
  <2> QED
    BY <2>3
<1>3. \A y \in Originals(Reference)' : TopsOf(y) = tops
  BY <1>1, <1>2, LoadingAssumption DEF UnexpandedOn
<1>4. ASSUME NEW p \in Places \ expanded', NEW y \in Originals(p)'
      PROVE  Unexpanded(p, y, Reference \in expanded', tops)
  BY <1>1, <1>2, <1>4 DEF UnexpandedOn
<1>5. UnexpandedOn(tops)'
  BY <1>1, <1>3, <1>4 DEF UnexpandedOn
<1> QED
  BY <1>5 DEF StillWhole

LEMMA SameIsRedone ==
  ASSUME Shaped, NEW p \in Places, NEW x \in Originals(p)
  PROVE  Redone(x, x)
<1>1. IsList(x)
  BY OriginalsFacts DEF IsStack
<1> QED
  BY <1>1 DEF Redone

LEMMA WholeWhenCoreIs ==
  ASSUME Shaped, StillWhole, UNCHANGED <<case, core, storage, expanded>>,
         use' = "inPlace" <=> use = "inPlace"
  PROVE  StillWhole'
<1>1. \A p \in Places : Originals(p)' = Originals(p)
  BY DEF Originals
<1>2. \A p \in Places : \A y \in Originals(p)' : \E x \in Originals(p) : Redone(x, y)
  BY <1>1, SameIsRedone
<1> QED
  BY <1>2, AllRedone

LEMMA WholeWhenManaged ==
  ASSUME Shaped, StillWhole, ManageCoreMesh
  PROVE  StillWhole'
<1>1. PICK t : t = TopsOf(core[Reference].blocks)
  OBVIOUS
<1>2. /\ use = "none" /\ use' = "none" /\ case' = case /\ expanded' = expanded /\ case \in Cases
      /\ core' = [p \in Places |-> [core[p] EXCEPT !.blocks = OnMesh(core[p].blocks, t)]]
  BY <1>1 DEF ManageCoreMesh, Shaped
<1>3. ASSUME NEW p \in Places
      PROVE  Originals(p) = {core[p].blocks} /\ Originals(p)' = {OnMesh(core[p].blocks, t)}
  <2>1. DOMAIN core[p] = AssemblyFields
    BY <1>2 DEF Shaped, InCore, IsOriginal
  <2>2. PICK y : y = OnMesh(core[p].blocks, t)
    OBVIOUS
  <2>3. core'[p] = [core[p] EXCEPT !.blocks = y]
    BY <1>2, <2>2
  <2>4. core'[p].blocks = y
    BY <2>1, <2>3 DEF AssemblyFields
  <2> QED
    BY <1>2, <2>2, <2>4 DEF Originals
<1>4. PICK tops : UnexpandedOn(tops)
  BY DEF StillWhole
<1>5. t = tops /\ Reference \in Places
  BY <1>1, <1>3, <1>4, LoadingAssumption DEF UnexpandedOn
<1>6. \A y \in Originals(Reference)' : TopsOf(y) = tops
  <2>1. PICK x : x = core[Reference].blocks
    OBVIOUS
  <2>2. SameShape(Built(Reference), x)
    BY <1>3, <1>5, <2>1, OriginalsFacts
  <2>3. TopsOf(OnMesh(x, tops)) = tops
    BY <1>1, <1>2, <1>5, <2>1, <2>2, ReferenceStays
  <2> QED
    BY <1>3, <1>5, <2>1, <2>3
<1>7. ASSUME NEW p \in Places \ expanded', NEW y \in Originals(p)'
      PROVE  Unexpanded(p, y, Reference \in expanded', tops)
  <2>1. PICK x : x = core[p].blocks
    OBVIOUS
  <2>2. p \in Places /\ p \notin expanded /\ x \in Originals(p) /\ y = OnMesh(x, tops)
    BY <1>2, <1>3, <1>5, <1>7, <2>1
  <2>3. PICK moved \in BOOLEAN : moved <=> Reference \in expanded
    <3>1. (Reference \in expanded) \in BOOLEAN
      OBVIOUS
    <3> QED
      BY <3>1
  <2>4. Unexpanded(p, x, moved, tops) /\ (~moved => tops = TopsOf(Loading[Reference]))
        /\ IsMesh(tops) /\ Len(tops) = Len(Loading[Reference])
    BY <1>4, <2>2, <2>3 DEF UnexpandedOn, Unexpanded
  <2>5. SameShape(Built(p), x)
    BY <2>2, OriginalsFacts
  <2>6. \A i \in 1..Len(Loading[p]) : DOMAIN Built(p)[i].solids = DOMAIN Loading[p][i].solids
    BY <1>2, <2>2, BuiltIsWhole
  <2>7. Unexpanded(p, OnMesh(x, tops), moved, tops)
    BY <1>2, <2>2, <2>4, <2>5, <2>6, OnMeshKeeps
  <2> QED
    BY <1>2, <2>2, <2>3, <2>7 DEF Unexpanded
<1>8. UnexpandedOn(tops)'
  BY <1>2, <1>4, <1>6, <1>7 DEF UnexpandedOn
<1> QED
  BY <1>8 DEF StillWhole

LEMMA WholeWhenExpanded ==
  ASSUME Shaped, Shaped', StillWhole, NEW p \in Places, NEW change \in Changes[p], Expand(p, change)
  PROVE  StillWhole'
<1>1. PICK new : new = AtRest(AxiallyExpanded(core[p].blocks, change).blocks)
  OBVIOUS
<1>2. /\ use = "none" /\ use' = "none" /\ case' = case /\ expanded' = expanded \cup {p}
      /\ p \notin expanded /\ DOMAIN core = Places /\ core' = [core EXCEPT ![p].blocks = new]
  BY <1>1 DEF Expand, MayExpand, Shaped
<1>3. \A q \in Places : q # p => Originals(q)' = Originals(q)
  BY <1>2 DEF Originals
<1>4. PICK tops : UnexpandedOn(tops)
  BY DEF StillWhole
<1>5. CASE p # Reference
  <2>1. /\ Reference \in expanded' <=> Reference \in expanded
        /\ \A x \in Originals(Reference)' : TopsOf(x) = tops
    BY <1>2, <1>3, <1>4, <1>5, LoadingAssumption DEF UnexpandedOn
  <2>2. ASSUME NEW q \in Places \ expanded', NEW x \in Originals(q)'
        PROVE  Unexpanded(q, x, Reference \in expanded', tops)
    <3>1. q \in Places \ expanded /\ x \in Originals(q)
      BY <1>2, <1>3, <2>2
    <3>2. Unexpanded(q, x, Reference \in expanded, tops)
      BY <1>4, <3>1 DEF UnexpandedOn
    <3> QED
      BY <2>1, <3>2 DEF Unexpanded
  <2>3. UnexpandedOn(tops)'
    BY <1>2, <1>4, <2>1, <2>2 DEF UnexpandedOn
  <2> QED
    BY <2>3 DEF StillWhole
<1>6. CASE p = Reference
  <2>1. PICK x : x = core'[Reference].blocks
    OBVIOUS
  <2>2. PICK t : t = TopsOf(x)
    OBVIOUS
  <2>3. Originals(Reference)' = {x} /\ Reference \in Places
    BY <1>2, <2>1, LoadingAssumption DEF Originals
  <2>4. IsStack(x) /\ Len(x) = Len(Loading[Reference])
    <3>1. IsOriginal(Reference, core[Reference])' /\ (case \in Cases)'
      BY <1>2, <2>3 DEF Shaped, InCore
    <3>2. IsOriginal(Reference, core'[Reference])
      BY <1>2, <3>1 DEF IsOriginal, Built
    <3> QED
      BY <1>2, <2>1, <2>3, <3>1, <3>2, OriginalFacts
  <2>5. IsMesh(t) /\ Len(t) = Len(Loading[Reference])
    BY <2>2, <2>4, TopsFacts
  <2>6. ASSUME NEW q \in Places \ expanded', NEW y \in Originals(q)'
        PROVE  Unexpanded(q, y, Reference \in expanded', t)
    <3>1. q \in Places \ expanded /\ y \in Originals(q) /\ Reference \notin expanded
      BY <1>2, <1>3, <1>6, <2>6
    <3>2. Unexpanded(q, y, Reference \in expanded, tops)
      BY <1>4, <3>1 DEF UnexpandedOn
    <3> QED
      BY <3>1, <3>2 DEF Unexpanded
  <2>7. UnexpandedOn(t)'
    BY <1>2, <1>6, <2>2, <2>3, <2>5, <2>6 DEF UnexpandedOn
  <2> QED
    BY <2>7 DEF StillWhole
<1> QED
  BY <1>5, <1>6

LEMMA WholeWhenConverted ==
  ASSUME Shaped, StillWhole, ConvertInPlace
  PROVE  StillWhole'
<1> DEFINE S == case.nonUniform
<1>1. PICK new : new = [p \in S |-> Uniform(core[p], TopsOf(core[Reference].blocks))] /\ core' = Over(new, core)
  BY DEF ConvertInPlace
<1>2. /\ use = "none" /\ use' = "inPlace" /\ case' = case /\ expanded' = expanded /\ DOMAIN core = Places
      /\ storage' = {[core[p] EXCEPT !.name[2] = Suffix] : p \in S}
      /\ NamedByPlace(core, Places) /\ S \subseteq Places
  BY LoadingAssumption DEF ConvertInPlace, Shaped
<1>3. ASSUME NEW p \in Places, NEW y \in Originals(p)' PROVE y \in Originals(p)
  <2>1. Originals(p) = {core[p].blocks}
    BY <1>2 DEF Originals
  <2>2. CASE p \in S
    <3>1. PICK s \in storage' : s.name = <<p, Suffix>> /\ y = s.blocks
      BY <1>2, <1>3, <2>2 DEF Originals
    <3>2. PICK q \in S : s = [core[q] EXCEPT !.name[2] = Suffix]
      BY <1>2, <3>1
    <3>3. PICK a : a = core[q]
      OBVIOUS
    <3>4. q \in Places /\ IsOriginal(q, a) /\ a.name = <<q, "">>
      BY <1>2, <3>2, <3>3 DEF Shaped, InCore, NamedByPlace
    <3>5. s = [a EXCEPT !.name[2] = Suffix]
      BY <3>2, <3>3
    <3>6. s.name = <<q, Suffix>> /\ s.blocks = a.blocks
      BY <3>4, <3>5, PutAside
    <3>7. p = q
      BY <3>1, <3>6
    <3> QED
      BY <2>1, <3>1, <3>3, <3>6, <3>7
  <2>3. CASE p \notin S
    <3>1. core'[p] = core[p]
      BY <1>1, <1>2, <2>3 DEF Over
    <3>2. Originals(p)' = {core'[p].blocks}
      BY <1>2, <2>3 DEF Originals
    <3> QED
      BY <1>3, <2>1, <3>1, <3>2
  <2> QED
    BY <2>2, <2>3
<1>4. \A p \in Places : \A y \in Originals(p)' : \E x \in Originals(p) : Redone(x, y)
  BY <1>3, SameIsRedone
<1> QED
  BY <1>2, <1>4, AllRedone

LEMMA WholeWhenSolved ==
  ASSUME Shaped, StillWhole, NEW r \in Rates, Solve(r)
  PROVE  StillWhole'
<1>1. /\ use \in {"inPlace", "copy"} /\ use' = use /\ case' = case /\ expanded' = expanded /\ storage' = storage
      /\ core' = IF use = "inPlace" THEN [p \in Places |-> SolvedWith(core[p], r)] ELSE core
      /\ case \in Cases
  BY DEF Solve, Shaped
<1>2. ASSUME NEW p \in Places, NEW y \in Originals(p)' PROVE \E x \in Originals(p) : Redone(x, y)
  <2>1. CASE use = "inPlace" /\ p \in case.nonUniform
    <3>1. Originals(p)' = Originals(p)
      BY <1>1, <2>1 DEF Originals
    <3> QED
      BY <1>2, <3>1, SameIsRedone
  <2>2. CASE use # "inPlace"
    <3>1. Originals(p)' = Originals(p)
      BY <1>1, <2>2 DEF Originals
    <3> QED
      BY <1>2, <3>1, SameIsRedone
  <2>3. CASE use = "inPlace" /\ p \notin case.nonUniform
    <3>1. PICK a : a = core[p]
      OBVIOUS
    <3>2. Originals(p) = {a.blocks} /\ y = SolvedWith(a, r).blocks
      BY <1>1, <1>2, <2>3, <3>1 DEF Originals
    <3>3. DOMAIN a = AssemblyFields
      BY <2>3, <3>1 DEF Shaped, InCore, IsOriginal
    <3>4. IsList(a.blocks)
      BY <3>2, OriginalsFacts DEF IsStack
    <3>5. Redone(a.blocks, SolvedWith(a, r).blocks)
      BY <3>3, <3>4, SolvedFacts
    <3> QED
      BY <3>2, <3>5
  <2> QED
    BY <2>1, <2>2, <2>3
<1> QED
  BY <1>1, <1>2, AllRedone

LEMMA WholeWhenBack ==
  ASSUME Shaped, StillWhole, ApplyInPlace
  PROVE  StillWhole'
<1> DEFINE S == case.nonUniform
           stored(p) == CHOOSE s \in StoredFor(core[p]) : TRUE
           returned(p) == [stored(p) EXCEPT !.name = core[p].name, !.moves = stored(p).moves + 1,
                                            !.blocks = Mapped(core[p].blocks, stored(p).blocks)]
<1>1. PICK back : back = [p \in S |-> returned(p)] /\ core' = Over(back, core)
  BY DEF ApplyInPlace
<1>2. /\ use = "inPlace" /\ use' = "none" /\ case' = case /\ expanded' = expanded /\ DOMAIN core = Places
      /\ NamedByPlace(core, Places) /\ S \subseteq Places
      /\ \A p \in S : \E s \in storage : s.name = <<p, Suffix>>
      /\ \A s \in storage : \E p \in S : s.name = <<p, Suffix>> /\ IsOriginal(p, s)
  BY LoadingAssumption DEF ApplyInPlace, Shaped, InStorage
<1>3. ASSUME NEW p \in Places, NEW y \in Originals(p)' PROVE \E x \in Originals(p) : Redone(x, y)
  <2>1. y = core'[p].blocks
    BY <1>2, <1>3 DEF Originals
  <2>2. CASE p \in S
    <3>1. PICK s : s = stored(p)
      OBVIOUS
    <3>2. StoredFor(core[p]) = {t \in storage : t.name = <<p, Suffix>>}
      <4>1. core[p].name = <<p, "">> /\ <<p, "">>[1] = p
        BY <1>2 DEF NamedByPlace
      <4>2. core[p].name[1] = p
        BY <4>1
      <4> QED
        BY <4>2 DEF StoredFor
    <3>3. s \in storage /\ s.name = <<p, Suffix>>
      BY <1>2, <2>2, <3>1, <3>2
    <3>4. s.blocks \in Originals(p)
      BY <1>2, <2>2, <3>3 DEF Originals
    <3>5. DOMAIN s = AssemblyFields
      BY <1>2, <3>3 DEF IsOriginal
    <3>6. PICK name : name = core[p].name
      OBVIOUS
    <3>7. PICK source : source = core[p].blocks
      OBVIOUS
    <3>8. PICK x : x = Mapped(source, s.blocks)
      OBVIOUS
    <3>9. PICK b : b = [s EXCEPT !.name = name, !.moves = s.moves + 1, !.blocks = x]
      OBVIOUS
    <3>10. core'[p] = b
      <4>1. back[p] = returned(p)
        BY <1>1, <2>2
      <4>2. core'[p] = back[p]
        BY <1>1, <2>2 DEF Over
      <4> QED
        BY <3>1, <3>6, <3>7, <3>8, <3>9, <4>1, <4>2
    <3>11. b.blocks = x
      BY <3>5, <3>9 DEF AssemblyFields
    <3>12. IsList(s.blocks)
      BY <3>4, OriginalsFacts DEF IsStack
    <3>13. Redone(s.blocks, x)
      BY <3>8, <3>12, MappedFacts
    <3> QED
      BY <2>1, <3>4, <3>10, <3>11, <3>13
  <2>3. CASE p \notin S
    <3>1. core'[p] = core[p]
      BY <1>1, <1>2, <2>3 DEF Over
    <3>2. y \in Originals(p)
      BY <1>2, <2>1, <2>3, <3>1 DEF Originals
    <3> QED
      BY <3>2, SameIsRedone
  <2> QED
    BY <2>2, <2>3
<1> QED
  BY <1>2, <1>3, AllRedone

LEMMA WholeWhenApplied ==
  ASSUME Shaped, StillWhole, ApplyCopy
  PROVE  StillWhole'
<1>1. CASE use' = "unmapped"
  <2>1. UNCHANGED <<case, core, storage, expanded>> /\ use = "copy" /\ (use' = "inPlace" <=> use = "inPlace")
    BY <1>1 DEF ApplyCopy
  <2> QED
    BY <2>1, WholeWhenCoreIs
<1>2. CASE use' # "unmapped"
  <2>1. /\ use = "copy" /\ use' = "none" /\ UNCHANGED <<case, storage, expanded>>
        /\ core' = [p \in Places |-> [core[p] EXCEPT !.blocks = Mapped(copy[p].blocks, core[p].blocks)]]
    BY <1>2 DEF ApplyCopy
  <2>2. ASSUME NEW p \in Places, NEW y \in Originals(p)' PROVE \E x \in Originals(p) : Redone(x, y)
    <3>1. PICK a : a = core[p]
      OBVIOUS
    <3>2. DOMAIN a = AssemblyFields /\ Originals(p) = {a.blocks}
      BY <2>1, <3>1 DEF Originals, Shaped, InCore, IsOriginal
    <3>3. PICK x : x = Mapped(copy[p].blocks, a.blocks)
      OBVIOUS
    <3>4. core'[p] = [a EXCEPT !.blocks = x]
      BY <2>1, <3>1, <3>3
    <3>5. y = x
      BY <2>1, <2>2, <3>2, <3>4 DEF Originals, AssemblyFields
    <3>6. IsList(a.blocks)
      BY <3>2, OriginalsFacts DEF IsStack
    <3>7. Redone(a.blocks, x)
      BY <3>3, <3>6, MappedFacts
    <3> QED
      BY <3>2, <3>5, <3>7
  <2> QED
    BY <2>1, <2>2, AllRedone
<1> QED
  BY <1>1, <1>2

LEMMA WholeStep ==
  Shaped /\ Shaped' /\ StillWhole /\ [Next]_vars => StillWhole'
<1> SUFFICES ASSUME Shaped, Shaped', StillWhole, [Next]_vars PROVE StillWhole'
  OBVIOUS
<1>1. ASSUME NEW p \in Places, NEW change \in Changes[p], Expand(p, change) PROVE StillWhole'
  BY <1>1, WholeWhenExpanded
<1>2. ASSUME NEW p \in Places, NEW change \in Changes[p], ExpandFails(p, change) PROVE StillWhole'
  <2>1. UNCHANGED <<case, core, storage, expanded>> /\ (use' = "inPlace" <=> use = "inPlace")
    BY <1>2 DEF ExpandFails, MayExpand
  <2> QED
    BY <2>1, WholeWhenCoreIs
<1>3. CASE ManageCoreMesh
  BY <1>3, WholeWhenManaged
<1>4. CASE ConvertInPlace
  BY <1>4, WholeWhenConverted
<1>5. ASSUME NEW size \in MinimumSizes, ConvertToCopy(size) \/ ConvertFails(size) PROVE StillWhole'
  <2>1. UNCHANGED <<case, core, storage, expanded>> /\ (use' = "inPlace" <=> use = "inPlace")
    BY <1>5 DEF ConvertToCopy, ConvertFails
  <2> QED
    BY <2>1, WholeWhenCoreIs
<1>6. ASSUME NEW r \in Rates, Solve(r) PROVE StillWhole'
  BY <1>6, WholeWhenSolved
<1>7. CASE ApplyInPlace
  BY <1>7, WholeWhenBack
<1>8. CASE ApplyCopy
  BY <1>8, WholeWhenApplied
<1>9. CASE LeaveCopy
  <2>1. UNCHANGED <<case, core, storage, expanded>> /\ (use' = "inPlace" <=> use = "inPlace")
    BY <1>9 DEF LeaveCopy
  <2> QED
    BY <2>1, WholeWhenCoreIs
<1>10. CASE UNCHANGED vars
  <2>1. UNCHANGED <<case, core, storage, expanded>> /\ (use' = "inPlace" <=> use = "inPlace")
    BY <1>10 DEF vars, names
  <2> QED
    BY <2>1, WholeWhenCoreIs
<1> QED
  BY <1>1, <1>2, <1>3, <1>4, <1>5, <1>6, <1>7, <1>8, <1>9, <1>10 DEF Next

-----------------------------------------------------------------------------
(* Where only the target component of a block ends, linked components are  *)
(* of one material and the dummy block on top holds fluid alone            *)
(* (radial_and_axial_expansion.rst: "comprised of just fluid").            *)
PlainChains ==
  \A p \in Places : OneEndPerBlock(Loading[p]) => OneMaterial(Loading[p]) /\ FluidOnTop(Loading[p])

(* What an expansion of an assembly keeps.                                 *)
Expands(p) ==
  LET a == core[p].blocks  b == core'[p].blocks
  IN  OneEndPerBlock(a) =>
        /\ \A s \in Shapes(a) : MassOf(b, s) = MassOf(a, s)
        /\ \A i \in DOMAIN a : TargetAlone(a, i) =>
             b[i].solids[b[i].target].mass = a[i].solids[a[i].target].mass
        /\ \A i \in DOMAIN b : \A s \in DOMAIN b[i].solids :
             b[i].solids[s].zb = b[i].zb /\ b[i].solids[s].zt = b[i].zt

(* The kinds of blocks tell which assemblies expansion is meant for.       *)
LEMMA MeantAsBuilt ==
  ASSUME NEW p \in Places, NEW x, IsStack(x), SameShape(Built(p), x), Len(x) = Len(Loading[p]), Len(x) >= 2,
         \A i \in 1..Len(x) : DOMAIN x[i].solids = DOMAIN Loading[p][i].solids,
         case \in Cases, SameKind(Loading[p], x), OneEndPerBlock(x), PlainChains
  PROVE  OneMaterial(x) /\ FluidOnTop(x)
<1>1. PICK a : a = Loading[p]
  OBVIOUS
<1>2. PICK n : n = Len(a)
  OBVIOUS
<1>3. /\ n \in Nat /\ n >= 2 /\ n \in 1..n /\ Len(x) = n
      /\ \A i \in 1..n - 1 : i \in 1..n /\ i + 1 \in 1..n
      /\ \A i \in 1..n - 1 : i < n
  BY <1>1, <1>2, StackFacts
<1>4. \A i \in 1..n : x[i].target = a[i].target
  <2>1. Len(Built(p)) = n
    BY <1>3 DEF SameShape
  <2>2. \A i \in 1..n : Built(p)[i].target = a[i].target
    <3>1. CASE case.detailed \/ p \in case.nonUniform
      BY <1>1, <3>1 DEF Built
    <3>2. CASE ~case.detailed /\ p \notin case.nonUniform
      BY <1>1, <1>2, <3>2, SnappingFacts
    <3> QED
      BY <3>1, <3>2
  <2> QED
    BY <2>1, <2>2 DEF SameShape
<1>5. \A i \in 1..n : DOMAIN x[i].solids = DOMAIN a[i].solids
  BY <1>1, <1>3
<1>6. \A i \in 1..n : x[i].flags = a[i].flags
  BY <1>1, <1>2 DEF SameKind
<1>7. OneEndPerBlock(a)
  <2>1. "dummy" \in a[n].flags
    BY <1>3, <1>6 DEF OneEndPerBlock
  <2>2. ASSUME NEW i \in 1..n - 1, NEW s \in Others(a, i) PROVE LinkedAbove(a, i, s)
    <3>1. s \in Others(x, i)
      BY <1>3, <1>4, <1>5 DEF Others
    <3>2. LinkedAbove(x, i, s)
      BY <1>3, <3>1 DEF OneEndPerBlock
    <3>3. s \in DOMAIN x[i + 1].solids
      BY <3>2 DEF LinkedAbove
    <3> QED
      BY <1>2, <1>3, <1>5, <3>3 DEF LinkedAbove
  <2> QED
    BY <1>2, <2>1, <2>2 DEF OneEndPerBlock
<1>8. OneMaterial(a) /\ FluidOnTop(a)
  BY <1>1, <1>7 DEF PlainChains
<1>9. FluidOnTop(x)
  BY <1>2, <1>3, <1>4, <1>5, <1>8 DEF FluidOnTop
<1>10. OneMaterial(x)
  <2> SUFFICES ASSUME NEW i \in 1..n - 1, NEW s \in DOMAIN x[i].solids \cap DOMAIN x[i + 1].solids
               PROVE  x[i].solids[s].material = x[i + 1].solids[s].material
    BY <1>3 DEF OneMaterial
  <2>1. s \in DOMAIN a[i].solids \cap DOMAIN a[i + 1].solids
    BY <1>3, <1>5
  <2>2. a[i].solids[s].material = a[i + 1].solids[s].material
    BY <1>2, <1>8, <2>1 DEF OneMaterial
  <2>3. /\ x[i].solids[s].material = a[i].solids[s].material
        /\ x[i + 1].solids[s].material = a[i + 1].solids[s].material
    BY <1>1, <1>2, <1>3, <2>1 DEF SameKind
  <2> QED
    BY <2>2, <2>3
<1> QED
  BY <1>9, <1>10

LEMMA ExpandKeepsMass ==
  ASSUME Shaped, StillWhole, PlainChains, NEW p \in Places, NEW change \in Changes[p], Expand(p, change)
  PROVE  Expands(p)
<1>1. PICK a : a = core[p].blocks
  OBVIOUS
<1>2. PICK b : b = AtRest(AxiallyExpanded(a, change).blocks)
  OBVIOUS
<1>3. /\ use = "none" /\ p \notin expanded /\ case \in Cases /\ core' = [core EXCEPT ![p].blocks = b]
      /\ DOMAIN core = Places /\ ~AxiallyExpanded(a, change).raised
  BY <1>1, <1>2 DEF Expand, MayExpand, Shaped
<1>4. core'[p].blocks = b
  <2>1. PICK c : c = core[p]
    OBVIOUS
  <2>2. DOMAIN c = AssemblyFields
    BY <1>3, <2>1 DEF Shaped, InCore, IsOriginal
  <2>3. core'[p] = [c EXCEPT !.blocks = b]
    BY <1>3, <2>1
  <2> QED
    BY <2>2, <2>3 DEF AssemblyFields
<1>5. a \in Originals(p)
  BY <1>1, <1>3 DEF Originals
<1>6. SameKind(Loading[p], a) /\ WholeMasses(a)
  BY <1>3, <1>5 DEF StillWhole, UnexpandedOn, Unexpanded
<1>7. /\ IsStack(a) /\ SameShape(Built(p), a) /\ Len(a) = Len(Loading[p]) /\ Len(a) >= 2
      /\ HaveTargets(a) /\ a[1].zb = 0
      /\ \A i \in 1..Len(a) : DOMAIN a[i].solids = DOMAIN Loading[p][i].solids
  BY <1>5, OriginalsFacts
<1>8. \A y \in DOMAIN change : change[y] \in Int
  BY LoadingAssumption
<1>9. ASSUME OneEndPerBlock(a)
      PROVE  /\ \A s \in Shapes(a) : MassOf(b, s) = MassOf(a, s)
             /\ \A i \in DOMAIN a : TargetAlone(a, i) =>
                  b[i].solids[b[i].target].mass = a[i].solids[a[i].target].mass
             /\ \A i \in DOMAIN b : \A s \in DOMAIN b[i].solids :
                  b[i].solids[s].zb = b[i].zb /\ b[i].solids[s].zt = b[i].zt
  <2>1. OneMaterial(a) /\ FluidOnTop(a)
    BY ONLY p \in Places, PlainChains, <1>3, <1>6, <1>7, <1>9, MeantAsBuilt
  <2>2. SameShape(a, b) /\ KeepsMass(a, b)
    <3>1. /\ IsStack(a) /\ Len(a) >= 2 /\ HaveTargets(a) /\ a[1].zb = 0 /\ OneEndPerBlock(a)
          /\ OneMaterial(a) /\ FluidOnTop(a) /\ WholeMasses(a) /\ ~AxiallyExpanded(a, change).raised
      BY <1>3, <1>6, <1>7, <1>9, <2>1
    <3> QED
      BY ONLY <1>2, <1>8, <3>1, ExpandedKeeps
  <2>3. DOMAIN a = 1..Len(a) /\ DOMAIN b = 1..Len(b)
    BY <1>7, <2>2, StackFacts DEF SameShape
  <2> QED
    BY <2>2, <2>3 DEF KeepsMass
<1> QED
  BY <1>1, <1>4, <1>9 DEF Expands

(* Where linked components are of one material and dummy blocks hold fluid *)
(* alone: an expansion that is not refused keeps the mass of every chain   *)
(* of linked components and of every target that no other component runs   *)
(* into, whatever the loading, the changes asked for and what was snapped, *)
(* solved and mapped before (axiallyExpandAssembly).                       *)
THEOREM MassStays ==
  ASSUME PlainChains
  PROVE  Spec => ExpansionKeepsMass
<1> DEFINE Kept ==
      \A p \in expanded' \ expanded :
        LET a == core[p].blocks  b == core'[p].blocks
        IN  OneEndPerBlock(a) =>
              /\ \A s \in Shapes(a) : MassOf(b, s) = MassOf(a, s)
              /\ \A i \in DOMAIN a : TargetAlone(a, i) =>
                   b[i].solids[b[i].target].mass = a[i].solids[a[i].target].mass
              /\ \A i \in DOMAIN b : \A s \in DOMAIN b[i].solids :
                   b[i].solids[s].zb = b[i].zb /\ b[i].solids[s].zt = b[i].zt
<1>1. Init => Shaped /\ NamesHold /\ StillWhole
  BY InitHolds, InitIsWhole
<1>2. Shaped /\ NamesHold /\ StillWhole /\ [Next]_vars => (Shaped /\ NamesHold /\ StillWhole)'
  BY StepHolds, WholeStep
<1>3. Shaped /\ StillWhole /\ [Next]_vars => [Kept]_vars
  <2> SUFFICES ASSUME Shaped, StillWhole, Next PROVE Kept
    OBVIOUS
  <2>1. ASSUME NEW p \in Places, NEW change \in Changes[p], Expand(p, change) PROVE Kept
    <3>1. expanded' \ expanded \subseteq {p}
      BY <2>1 DEF Expand
    <3>2. Expands(p)
      BY <2>1, ExpandKeepsMass
    <3> QED
      BY <3>1, <3>2 DEF Expands
  <2>2. ASSUME expanded' = expanded PROVE Kept
    BY <2>2
  <2>3. (\E p \in Places : \E change \in Changes[p] : Expand(p, change)) \/ expanded' = expanded
    BY DEF Next, ExpandFails, ManageCoreMesh, ConvertInPlace, ConvertToCopy, ConvertFails, Solve,
           ApplyInPlace, ApplyCopy, LeaveCopy
  <2> QED
    BY <2>1, <2>2, <2>3
<1>4. ExpansionKeepsMass <=> [][Kept]_vars
  BY PTL DEF ExpansionKeepsMass
<1> HIDE DEF Kept
<1> QED
  BY <1>1, <1>2, <1>3, <1>4, PTL DEF Spec
=============================================================================
