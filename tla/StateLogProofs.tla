--------------------------- MODULE StateLogProofs ---------------------------
(***************************************************************************)
(* What git keeps of the state log, and what is left of it when several    *)
(* processes write at once, for every number of processes, patches and     *)
(* parents per commit.                                                     *)
(*                                                                         *)
(* The first part is about lists of commit ids and the three recursive     *)
(* functions of StateLog: the bundling of parents, the objects that git    *)
(* reaches, and the walk along the log.                                    *)
(***************************************************************************)
EXTENDS StateLog, Iteration, FiniteSetTheorems, SequenceTheorems, TLAPS

\* The members of a list are its entries.
LEMMA ToSetIff ==
  ASSUME NEW U, NEW s \in Seq(U)
  PROVE  /\ \A x : x \in ToSet(s) <=> \E i \in 1..Len(s) : s[i] = x
         /\ ToSet(s) \subseteq U
BY DEF ToSet

\* The entries of two lists in a row.
LEMMA ConcatIndex ==
  ASSUME NEW U, NEW s \in Seq(U), NEW r \in Seq(U), NEW c, c = s \o r
  PROVE  /\ c \in Seq(U) /\ Len(c) = Len(s) + Len(r) /\ Len(s) \in Nat /\ Len(r) \in Nat
         /\ \A i \in 1..Len(s) : c[i] = s[i]
         /\ \A i \in 1..Len(r) : c[Len(s) + i] = r[i]
BY ConcatProperties

\* The members of two lists in a row.
LEMMA ConcatSet ==
  ASSUME NEW U, NEW s \in Seq(U), NEW r \in Seq(U)
  PROVE  s \o r \in Seq(U) /\ ToSet(s \o r) = ToSet(s) \cup ToSet(r)
<1>1. PICK c : c = s \o r
  OBVIOUS
<1>2. /\ c \in Seq(U) /\ Len(c) = Len(s) + Len(r) /\ Len(s) \in Nat /\ Len(r) \in Nat
      /\ \A i \in 1..Len(s) : c[i] = s[i]
      /\ \A i \in 1..Len(r) : c[Len(s) + i] = r[i]
  BY <1>1, ConcatIndex
<1>3. ASSUME NEW x \in ToSet(c) PROVE x \in ToSet(s) \/ x \in ToSet(r)
  <2>1. PICK i \in 1..Len(c) : c[i] = x
    BY <1>2, ToSetIff
  <2>2. CASE i <= Len(s)
    BY <1>2, <2>1, <2>2, ToSetIff
  <2>3. CASE i > Len(s)
    <3>1. PICK j : j = i - Len(s)
      OBVIOUS
    <3>2. j \in 1..Len(r) /\ i = Len(s) + j
      BY <1>2, <2>1, <2>3, <3>1
    <3>3. r[j] = x
      BY <1>2, <2>1, <3>2
    <3> QED BY <3>2, <3>3, ToSetIff
  <2> QED BY <1>2, <2>2, <2>3
<1>4. ASSUME NEW x \in ToSet(s) PROVE x \in ToSet(c)
  <2>1. PICK i \in 1..Len(s) : s[i] = x
    BY ToSetIff
  <2> QED BY <1>2, <2>1, ToSetIff
<1>5. ASSUME NEW x \in ToSet(r) PROVE x \in ToSet(c)
  <2>1. PICK i \in 1..Len(r) : r[i] = x
    BY ToSetIff
  <2>2. Len(s) + i \in 1..Len(c) /\ c[Len(s) + i] = x
    BY <1>2, <2>1
  <2> QED BY <1>2, <2>2, ToSetIff
<1> QED BY <1>1, <1>2, <1>3, <1>4, <1>5

\* The empty list.
LEMMA NoneSet == ToSet(<<>>) = {} /\ \A U : <<>> \in Seq(U)
BY DEF ToSet

\* A list with one entry.
LEMMA OneSet ==
  ASSUME NEW U, NEW x \in U
  PROVE  <<x>> \in Seq(U) /\ ToSet(<<x>>) = {x}
<1>1. <<x>> \in Seq(U) /\ Len(<<x>>) = 1 /\ <<x>>[1] = x
  OBVIOUS
<1>2. \A y : y \in ToSet(<<x>>) <=> \E i \in 1..1 : <<x>>[i] = y
  BY <1>1, ToSetIff
<1>3. \A i \in 1..1 : i = 1
  OBVIOUS
<1> QED BY <1>1, <1>2, <1>3

\* A list with one more entry.
LEMMA AppendSet ==
  ASSUME NEW U, NEW s \in Seq(U), NEW x \in U
  PROVE  Append(s, x) \in Seq(U) /\ ToSet(Append(s, x)) = ToSet(s) \cup {x}
<1>1. PICK t : t = <<x>>
  OBVIOUS
<1>2. t \in Seq(U) /\ ToSet(t) = {x} /\ Append(s, x) = s \o t
  BY <1>1, OneSet, AppendIsConcat, Zenon
<1>3. s \o t \in Seq(U) /\ ToSet(s \o t) = ToSet(s) \cup ToSet(t)
  BY <1>2, ConcatSet
<1> QED BY <1>2, <1>3, Zenon

\* The IndexSet of parents has what was inserted, less what was removed.
LEMMA IndexSetFacts ==
  ASSUME NEW U, NEW ids \in Seq(U), NEW removed
  PROVE  /\ IndexSet(ids, removed) \in Seq(U)
         /\ ToSet(IndexSet(ids, removed)) = ToSet(ids) \ removed
<1> DEFINE at      == {i \in 1..Len(ids) : ids[i] \notin removed /\ \A j \in 1..(i - 1) : ids[j] # ids[i]}
           upTo(i) == {j \in at : j <= i}
           r       == [i \in at |-> Cardinality(upTo(i))]
           n       == Cardinality(at)
           nth(k)  == CHOOSE i \in at : Cardinality(upTo(i)) = k
<1>0. at \in SUBSET (1..Len(ids)) /\ at \subseteq Int
  OBVIOUS
<1>1. IsFiniteSet(at) /\ n \in Nat
  <2>1. IsFiniteSet(1..Len(ids))
    BY FS_Interval
  <2>2. IsFiniteSet(at)
    BY <1>0, <2>1, FS_Subset
  <2> QED BY <2>2, FS_CardinalityType
<1>2. IndexSet(ids, removed) = [k \in 1..n |-> ids[nth(k)]]
  BY DEF IndexSet
<1>3. ASSUME NEW x \in ToSet(ids), x \notin removed PROVE \E i \in at : ids[i] = x
  <2>1. PICK P : P = {i \in 1..Len(ids) : ids[i] = x}
    OBVIOUS
  <2>2. P \in SUBSET (1..Len(ids)) /\ P # {}
    BY <2>1, ToSetIff
  <2>3. PICK m \in P : \A i \in P : m <= i
    <3>1. Len(ids) \in Nat
      OBVIOUS
    <3> QED BY <2>2, <3>1, FirstPosition
  <2>4. m \in 1..Len(ids) /\ ids[m] = x /\ \A j \in 1..(m - 1) : ids[j] # ids[m]
    BY <2>1, <2>3
  <2> QED BY <1>3, <2>4
<1>4. \A i \in at : ids[i] \in ToSet(ids) /\ ids[i] \notin removed
  BY ToSetIff
<1> HIDE DEF at
<1>5. ASSUME NEW i \in at
      PROVE  IsFiniteSet(upTo(i)) /\ Cardinality(upTo(i)) \in Nat /\ Cardinality(upTo(i)) \in 1..n
  <2>1. upTo(i) \in SUBSET at /\ i \in upTo(i)
    BY <1>0
  <2>2. IsFiniteSet(upTo(i)) /\ Cardinality(upTo(i)) <= n
    BY <1>1, <2>1, FS_Subset
  <2>3. Cardinality(upTo(i)) \in Nat
    BY <2>2, FS_CardinalityType
  <2>4. Cardinality(upTo(i)) # 0
    BY <2>1, <2>2, FS_EmptySet
  <2> HIDE DEF upTo
  <2> QED BY <1>1, <2>2, <2>3, <2>4
<1>6. ASSUME NEW i \in at, NEW k \in at, i < k PROVE Cardinality(upTo(i)) < Cardinality(upTo(k))
  <2>0. \A j \in at : j <= i => j <= k
    BY <1>0, <1>6
  <2>1. upTo(i) \in SUBSET upTo(k)
    BY <2>0
  <2>2. k \in upTo(k) /\ k \notin upTo(i)
    BY <1>0, <1>6
  <2>3. IsFiniteSet(upTo(k)) /\ Cardinality(upTo(k)) \in Nat /\ Cardinality(upTo(i)) \in Nat
    BY <1>5
  <2> HIDE DEF upTo
  <2>4. Cardinality(upTo(i)) <= Cardinality(upTo(k)) /\ Cardinality(upTo(i)) # Cardinality(upTo(k))
    BY <2>1, <2>2, <2>3, FS_Subset
  <2> QED BY <2>3, <2>4
<1> HIDE DEF upTo
<1>7. ASSUME NEW i \in at, NEW k \in at, Cardinality(upTo(i)) = Cardinality(upTo(k)) PROVE i = k
  <2>1. i < k \/ k < i \/ i = k
    BY <1>0
  <2>2. Cardinality(upTo(i)) \in Nat
    BY <1>5
  <2> QED BY <1>6, <1>7, <2>1, <2>2
<1>8. r \in Injection(at, 1..n)
  <2>1. \A i \in at : r[i] = Cardinality(upTo(i)) /\ r[i] \in 1..n
    BY <1>5
  <2>2. r \in [at -> 1..n]
    BY <2>1
  <2> HIDE DEF r, n
  <2>3. \A i, k \in at : r[i] = r[k] => i = k
    BY <1>7, <2>1
  <2> QED BY <2>2, <2>3 DEF Injection, IsInjective
<1>9. r \in Surjection(at, 1..n)
  <2>1. IsFiniteSet(1..n) /\ Cardinality(1..n) = n
    BY <1>1, FS_Interval
  <2> QED BY <1>8, <2>1, FS_Injection
<1>10. \A k \in 1..n : nth(k) \in at /\ Cardinality(upTo(nth(k))) = k
  <2>1. \A k \in 1..n : \E i \in at : r[i] = k
    BY <1>9 DEF Surjection
  <2>2. \A k \in 1..n : \E i \in at : Cardinality(upTo(i)) = k
    BY <2>1
  <2> QED BY <2>2
<1>11. \A i \in at : \E k \in 1..n : nth(k) = i
  BY <1>5, <1>7, <1>10
<1> HIDE DEF nth, n
<1>12. PICK l : l = IndexSet(ids, removed)
  OBVIOUS
<1>13. l \in Seq(U) /\ Len(l) = n /\ \A k \in 1..n : l[k] = ids[nth(k)]
  <2>1. \A k \in 1..n : ids[nth(k)] \in U
    BY <1>4, <1>10, ToSetIff
  <2> QED BY <1>1, <1>2, <1>12, <2>1
<1>14. ASSUME NEW x \in ToSet(l) PROVE x \in ToSet(ids) \ removed
  <2>1. PICK k \in 1..n : l[k] = x
    BY <1>13, ToSetIff
  <2> QED BY <1>4, <1>10, <1>13, <2>1
<1>15. ASSUME NEW x \in ToSet(ids) \ removed PROVE x \in ToSet(l)
  <2>1. PICK i \in at : ids[i] = x
    BY <1>3
  <2>2. PICK k \in 1..n : nth(k) = i
    BY <1>11
  <2> QED BY <1>13, <2>1, <2>2, ToSetIff
<1> QED BY <1>12, <1>13, <1>14, <1>15
-----------------------------------------------------------------------------
(* The bundling of parents. *)

Bundles == [list : Seq(Nat), groups : Seq(Seq(Nat))]

\* b is a bundling of the parents ps in groups from id `first' on: groups point to
\* parents and earlier groups, and who has the list and what its groups point to
\* has all of the parents.
Bundled(ps, first, b) ==
  /\ b \in Bundles
  /\ ToSet(b.list) \subseteq ToSet(ps) \cup first..(first + Len(b.groups) - 1)
  /\ \A k \in 1..Len(b.groups) : ToSet(b.groups[k]) \subseteq ToSet(ps) \cup first..(first + k - 2)
  /\ \A S \in SUBSET Nat :
       ( /\ ToSet(b.list) \subseteq S
         /\ \A k \in 1..Len(b.groups) : first + k - 1 \in S => ToSet(b.groups[k]) \subseteq S )
       => ToSet(ps) \subseteq S

\* A part of a list has its members.
LEMMA PartSet ==
  ASSUME NEW U, NEW s \in Seq(U), NEW n \in Nat, n <= Len(s)
  PROVE  /\ SubSeq(s, 1, n) \in Seq(U) /\ SubSeq(s, n + 1, Len(s)) \in Seq(U)
         /\ ToSet(s) = ToSet(SubSeq(s, 1, n)) \cup ToSet(SubSeq(s, n + 1, Len(s)))
<1>1. PICK a, b, l : a = SubSeq(s, 1, n) /\ b = SubSeq(s, n + 1, Len(s)) /\ l = Len(s)
  OBVIOUS
<1>2. l \in Nat /\ n <= l
  BY <1>1
<1>3. a \in Seq(U) /\ Len(a) = n /\ \A i \in 1..n : a[i] = s[i]
  BY <1>1, <1>2
<1>4. b \in Seq(U) /\ Len(b) = l - n /\ \A i \in 1..(l - n) : b[i] = s[n + i]
  BY <1>1, <1>2
<1>5. ASSUME NEW x \in ToSet(s) PROVE x \in ToSet(a) \cup ToSet(b)
  <2>1. PICK i \in 1..l : s[i] = x
    BY <1>1, ToSetIff
  <2>2. CASE i <= n
    BY <1>2, <1>3, <2>1, <2>2, ToSetIff
  <2>3. CASE i > n
    <3>1. PICK j : j = i - n
      OBVIOUS
    <3>2. j \in 1..(l - n) /\ i = n + j
      BY <1>2, <2>1, <2>3, <3>1
    <3>3. b[j] = x
      BY <1>4, <2>1, <3>2
    <3> QED BY <1>4, <3>2, <3>3, ToSetIff
  <2> QED BY <1>2, <2>2, <2>3
<1>6. ASSUME NEW x \in ToSet(a) PROVE x \in ToSet(s)
  <2>1. PICK i \in 1..n : a[i] = x
    BY <1>3, ToSetIff
  <2> QED BY <1>1, <1>2, <1>3, <2>1, ToSetIff
<1>7. ASSUME NEW x \in ToSet(b) PROVE x \in ToSet(s)
  <2>1. PICK i \in 1..(l - n) : b[i] = x
    BY <1>4, ToSetIff
  <2>2. n + i \in 1..l /\ s[n + i] = x
    BY <1>2, <1>4, <2>1
  <2> QED BY <1>1, <2>2, ToSetIff
<1> QED BY <1>1, <1>3, <1>4, <1>5, <1>6, <1>7

\* One turn of the loop keeps a bundling.
LEMMA GroupBundled ==
  ASSUME NEW ps \in Seq(Nat), NEW first \in Nat, NEW b, Bundled(ps, first, b)
  PROVE  Bundled(ps, first, Group(b, first))
<1>1. PICK n, l, gs, c : n = Len(b.list) - MaxParents /\ l = b.list /\ gs = b.groups /\ c = Group(b, first)
  OBVIOUS
<1>2. CASE n <= 0
  BY <1>1, <1>2 DEF Group
<1>3. CASE ~(n <= 0)
  <2>1. l \in Seq(Nat) /\ gs \in Seq(Seq(Nat)) /\ Len(gs) \in Nat
    BY <1>1 DEF Bundled, Bundles
  <2>2. n \in Nat /\ n <= Len(l)
    BY <1>1, <1>3, <2>1, ParentsAssumption
  <2>3. PICK u, v, g : u = SubSeq(l, 1, n) /\ v = SubSeq(l, n + 1, Len(l)) /\ g = first + Len(gs)
    OBVIOUS
  <2>4. c = [list |-> Append(u, g), groups |-> Append(gs, v)]
    BY <1>1, <1>3, <2>3 DEF Group
  <2>5. u \in Seq(Nat) /\ v \in Seq(Nat) /\ ToSet(l) = ToSet(u) \cup ToSet(v) /\ g \in Nat
    BY <2>1, <2>2, <2>3, PartSet
  <2>6. PICK l2, gs2 : l2 = Append(u, g) /\ gs2 = Append(gs, v)
    OBVIOUS
  <2>7. l2 \in Seq(Nat) /\ ToSet(l2) = ToSet(u) \cup {g}
    <3>1. PICK U : U = Nat
      OBVIOUS
    <3>2. u \in Seq(U) /\ g \in U
      BY <2>5, <3>1
    <3>3. Append(u, g) \in Seq(U)
      BY <3>2
    <3>4. ToSet(Append(u, g)) = ToSet(u) \cup {g}
      BY <3>2, AppendSet
    <3> QED BY <2>6, <3>1, <3>3, <3>4
  <2>8. /\ gs2 \in Seq(Seq(Nat)) /\ Len(gs2) = Len(gs) + 1 /\ gs2[Len(gs) + 1] = v
        /\ \A k \in 1..Len(gs) : gs2[k] = gs[k]
    BY <2>1, <2>5, <2>6, AppendProperties
  <2>9. c \in Bundles /\ c.list = l2 /\ c.groups = gs2
    BY <2>4, <2>6, <2>7, <2>8 DEF Bundles
  <2>10. /\ ToSet(l) \subseteq ToSet(ps) \cup first..(first + Len(gs) - 1)
         /\ \A k \in 1..Len(gs) : ToSet(gs[k]) \subseteq ToSet(ps) \cup first..(first + k - 2)
    BY <1>1 DEF Bundled
  <2>11. ToSet(l2) \subseteq ToSet(ps) \cup first..(first + Len(gs2) - 1)
    <3>1. first + Len(gs2) - 1 = g /\ g \in first..g /\ first..(first + Len(gs) - 1) \subseteq first..g
      BY <2>1, <2>3, <2>8
    <3> QED BY <2>5, <2>7, <2>10, <3>1
  <2>12. ASSUME NEW k \in 1..Len(gs2)
         PROVE  ToSet(gs2[k]) \subseteq ToSet(ps) \cup first..(first + k - 2)
    <3>1. CASE k \in 1..Len(gs)
      BY <2>8, <2>10, <3>1
    <3>2. CASE k = Len(gs) + 1
      <4>1. first + k - 2 = first + Len(gs) - 1
        BY <2>1, <3>2
      <4> QED BY <2>5, <2>8, <2>10, <3>2, <4>1
    <3> QED BY <2>1, <2>8, <3>1, <3>2
  <2>13. ASSUME NEW S \in SUBSET Nat, ToSet(l2) \subseteq S,
                \A k \in 1..Len(gs2) : first + k - 1 \in S => ToSet(gs2[k]) \subseteq S
         PROVE  ToSet(ps) \subseteq S
    <3>1. Len(gs) + 1 \in 1..Len(gs2) /\ first + (Len(gs) + 1) - 1 = g /\ g \in S
      BY <2>1, <2>3, <2>7, <2>8, <2>13
    <3>2. ToSet(v) \subseteq S
      BY <2>8, <2>13, <3>1
    <3>3. ToSet(l) \subseteq S
      BY <2>5, <2>7, <2>13, <3>2
    <3>4. \A k \in 1..Len(gs) : first + k - 1 \in S => ToSet(gs[k]) \subseteq S
      BY <2>1, <2>8, <2>13
    <3> QED BY <1>1, <3>3, <3>4 DEF Bundled
  <2> QED BY <1>1, <2>9, <2>11, <2>12, <2>13 DEF Bundled
<1> QED BY <1>2, <1>3

\* commit() bundles the parents it has.
LEMMA BundleFacts ==
  ASSUME NEW ps \in Seq(Nat), NEW first \in Nat
  PROVE  Bundled(ps, first, Bundle(ps, first))
<1>1. PICK n, a : n = Len(ps) /\ a = [list |-> ps, groups |-> <<>>]
  OBVIOUS
<1>2. n \in Nat /\ a \in Bundles
  BY <1>1, NoneSet DEF Bundles
<1>3. ASSUME NEW b \in Bundles PROVE Group(b, first) \in Bundles
  <2>1. CASE Len(b.list) - MaxParents <= 0
    BY <2>1 DEF Group
  <2>2. CASE ~(Len(b.list) - MaxParents <= 0)
    <3>1. PICK k : k = Len(b.list) - MaxParents
      OBVIOUS
    <3>2. b.list \in Seq(Nat) /\ b.groups \in Seq(Seq(Nat)) /\ k \in Nat /\ k <= Len(b.list)
      BY <2>2, <3>1, ParentsAssumption DEF Bundles
    <3>3. SubSeq(b.list, 1, k) \in Seq(Nat) /\ SubSeq(b.list, k + 1, Len(b.list)) \in Seq(Nat)
      BY <3>2, PartSet
    <3>4. /\ Append(SubSeq(b.list, 1, k), first + Len(b.groups)) \in Seq(Nat)
          /\ Append(b.groups, SubSeq(b.list, k + 1, Len(b.list))) \in Seq(Seq(Nat))
      BY <3>2, <3>3
    <3> QED BY <2>2, <3>1, <3>4 DEF Group, Bundles
  <2> QED BY <2>1, <2>2
<1>4. PICK f \in [0..n -> Bundles] : f[0] = a /\ \A k \in 1..n : f[k] = Group(f[k - 1], first)
  <2>1. PICK step : step = [k \in 1..n |-> [b \in Bundles |-> Group(b, first)]]
    OBVIOUS
  <2>2. step \in StepMaps(n, Bundles)
    BY <1>3, <2>1 DEF StepMaps
  <2>3. PICK f \in [0..n -> Bundles] : f[0] = a /\ \A k \in 1..n : f[k] = step[k][f[k - 1]]
    BY <1>2, <2>2, Iterates
  <2>4. \A k \in 1..n : f[k - 1] \in Bundles /\ step[k][f[k - 1]] = Group(f[k - 1], first)
    BY <1>2, <2>1, <2>3
  <2> QED BY <2>3, <2>4
<1> DEFINE IsRound(g) == g = [k \in 0..n |-> IF k = 0 THEN a ELSE Group(g[k - 1], first)]
<1>5. IsRound(f)
  <2>1. \A k \in 0..n : k = 0 \/ k \in 1..n
    BY <1>2
  <2> QED BY <1>4, <2>1
<1>6. PICK g : g = CHOOSE h : IsRound(h)
  OBVIOUS
<1>7. IsRound(g)
  BY <1>5, <1>6
<1>8. Bundle(ps, first) = g[n]
  BY <1>1, <1>6, Zenon DEF Bundle
<1>9. g[0] = a /\ \A k \in 0..(n - 1) : g[k + 1] = Group(g[k], first)
  BY <1>2, <1>7
<1>10. Bundled(ps, first, g[0])
  <2>1. a.list = ps /\ a.groups = <<>> /\ Len(a.groups) = 0
    BY <1>1
  <2> QED BY <1>2, <1>9, <2>1 DEF Bundled
<1>11. PICK D : D = {k \in 0..n : Bundled(ps, first, g[k])}
  OBVIOUS
<1>12. 0 \in D
  BY <1>2, <1>10, <1>11
<1>13. \A k \in 0..(n - 1) : k \in D => k + 1 \in D
  BY <1>2, <1>9, <1>11, GroupBundled
<1>14. \A k \in 0..n : k \in D
  BY <1>2, <1>12, <1>13, UpTo, Zenon
<1>15. n \in D
  BY <1>2, <1>14
<1> QED BY <1>8, <1>11, <1>15
-----------------------------------------------------------------------------
(* What git reaches, and what the log reaches. *)

Trees == [prev : Nat, head : Nat, applied : Seq(Names), unapplied : Seq(Names),
          hidden : Seq(Names), patches : [Names -> Nat]]

Commits == [parents : Seq(Nat), tree : Trees]

\* Ids are given out in ascending order, the parents of what is there are there,
\* and those of a commit that is no state are none either.
Sound(objs, last) ==
  /\ last \in Nat /\ DOMAIN objs \subseteq 1..last
  /\ \A i \in DOMAIN objs :
       /\ objs[i] \in Commits /\ objs[i].tree.prev < i
       /\ \A j \in ToSet(objs[i].parents) :
            j \in DOMAIN objs /\ j < i /\ (objs[i].tree = NoTree => objs[j].tree = NoTree)

\* S has the parents, or the state before, of each of its members.
Closed(objs, S) == \A j \in S : j \in DOMAIN objs => ToSet(objs[j].parents) \subseteq S

PrevClosed(objs, S) ==
  \A j \in S : j \in DOMAIN objs => (objs[j].tree.prev = None \/ objs[j].tree.prev \in S)

\* What git reaches has the roots and all parents.
LEMMA ReachableClosed ==
  ASSUME NEW objs, NEW last, Sound(objs, last), NEW roots \in SUBSET Nat
  PROVE  /\ Reachable(objs, last, roots) \in SUBSET Nat
         /\ roots \subseteq Reachable(objs, last, roots)
         /\ Closed(objs, Reachable(objs, last, roots))
<1>1. last \in Nat
  BY DEF Sound
<1>2. \A i \in DOMAIN objs : ToSet(objs[i].parents) \in SUBSET Nat
  <2>1. \A i \in DOMAIN objs : objs[i].parents \in Seq(Nat)
    BY DEF Sound, Commits
  <2> QED BY <2>1, ToSetIff
<1>3. PICK U : U = SUBSET Nat
  OBVIOUS
<1>4. \A X \in U : \A i : WithParents(objs, X, i) \in U
  BY <1>2, <1>3 DEF WithParents
<1>5. PICK f \in [0..last -> U] :
        f[0] = roots /\ \A k \in 1..last : f[k] = WithParents(objs, f[k - 1], last - k + 1)
  <2>1. PICK step : step = [k \in 1..last |-> [X \in U |-> WithParents(objs, X, last - k + 1)]]
    OBVIOUS
  <2>2. step \in StepMaps(last, U)
    BY <1>4, <2>1 DEF StepMaps
  <2>3. roots \in U
    BY <1>3
  <2>4. PICK f \in [0..last -> U] : f[0] = roots /\ \A k \in 1..last : f[k] = step[k][f[k - 1]]
    BY <1>1, <2>2, <2>3, Iterates
  <2>5. \A k \in 1..last :
          f[k - 1] \in U /\ step[k][f[k - 1]] = WithParents(objs, f[k - 1], last - k + 1)
    BY <1>1, <2>1, <2>4
  <2> QED BY <2>4, <2>5
<1> DEFINE IsBelow(g) ==
             g = [k \in 0..last |-> IF k = 0 THEN roots ELSE WithParents(objs, g[k - 1], last - k + 1)]
<1>6. IsBelow(f)
  <2>1. \A k \in 0..last : k = 0 \/ k \in 1..last
    BY <1>1
  <2> QED BY <1>5, <2>1
<1>7. PICK g : g = CHOOSE h : IsBelow(h)
  OBVIOUS
<1>8. IsBelow(g)
  BY <1>6, <1>7
<1>9. Reachable(objs, last, roots) = g[last]
  BY <1>7, Zenon DEF Reachable
<1>10. g[0] = roots /\ \A k \in 0..(last - 1) : g[k + 1] = WithParents(objs, g[k], last - k)
  <2>1. g[0] = roots
    BY <1>1, <1>8
  <2>2. ASSUME NEW k \in 0..(last - 1) PROVE g[k + 1] = WithParents(objs, g[k], last - k)
    <3>1. k + 1 \in 0..last /\ k + 1 # 0 /\ (k + 1) - 1 = k /\ last - (k + 1) + 1 = last - k
      BY <1>1
    <3> HIDE DEF IsBelow
    <3>2. g[k + 1] = WithParents(objs, g[(k + 1) - 1], last - (k + 1) + 1)
      BY <1>8, <3>1 DEF IsBelow
    <3> QED BY <3>1, <3>2
  <2> QED BY <2>1, <2>2
<1> HIDE DEF IsBelow
<1> DEFINE Done(k) ==
             /\ g[k] \in U /\ roots \subseteq g[k]
             /\ \A i \in g[k] : i \in DOMAIN objs /\ i > last - k => ToSet(objs[i].parents) \subseteq g[k]
<1>11. Done(0)
  <2>1. \A i \in DOMAIN objs : ~(i > last - 0)
    BY <1>1 DEF Sound
  <2> QED BY <1>3, <1>10, <2>1
<1>12. ASSUME NEW k \in 0..(last - 1), Done(k) PROVE Done(k + 1)
  <2>1. PICK X, Y, i0 : X = g[k] /\ Y = g[k + 1] /\ i0 = last - k
    OBVIOUS
  <2>2. Y = WithParents(objs, X, i0) /\ i0 \in Nat /\ last - (k + 1) = i0 - 1
    BY <1>1, <1>10, <2>1
  <2>3. X \subseteq Y /\ Y \in U /\ roots \subseteq Y
    BY <1>4, <1>12, <2>1, <2>2 DEF WithParents
  <2>4. ASSUME NEW i \in Y, i \in DOMAIN objs, i > i0 - 1 PROVE ToSet(objs[i].parents) \subseteq Y
    <3>1. i \in Nat /\ i >= i0
      BY <1>1, <2>2, <2>4 DEF Sound
    <3>2. i \in X
      <4>1. SUFFICES ASSUME i \notin X PROVE FALSE
        OBVIOUS
      <4>2. i0 \in DOMAIN objs /\ i \in ToSet(objs[i0].parents)
        BY <2>2, <2>4, <4>1 DEF WithParents
      <4>3. i < i0
        BY <4>2 DEF Sound
      <4> QED BY <2>2, <3>1, <4>3
    <3>3. CASE i = i0
      BY <2>2, <2>4, <3>2, <3>3 DEF WithParents
    <3>4. CASE i > i0
      BY <1>12, <2>1, <2>3, <2>4, <3>2, <3>4
    <3> QED BY <2>2, <3>1, <3>3, <3>4
  <2> QED BY <2>1, <2>2, <2>3, <2>4
<1> HIDE DEF Done
<1>13. PICK D : D = {k \in 0..last : Done(k)}
  OBVIOUS
<1>14. 0 \in D /\ \A k \in 0..(last - 1) : k \in D => k + 1 \in D
  BY <1>1, <1>11, <1>12, <1>13
<1>15. \A k \in 0..last : k \in D
  BY <1>1, <1>14, UpTo, Zenon
<1>16. Done(last)
  BY <1>1, <1>13, <1>15
<1>17. \A i \in DOMAIN objs : i > last - last
  BY <1>1 DEF Sound
<1> QED BY <1>3, <1>9, <1>16, <1>17 DEF Done, Closed
\* The state i is not the first one of the log.
HasPrev(objs, i) == i \in DOMAIN objs /\ objs[i].tree.prev # None

\* h goes from id to the state before, again and again.
Walk(objs, id, h) ==
  /\ h \in Seq(Nat) /\ Len(h) >= 1 /\ h[1] = id
  /\ \A k \in 1..(Len(h) - 1) : HasPrev(objs, h[k]) /\ h[k + 1] = objs[h[k]].tree.prev

\* One step along the log.
LEMMA WithPrevWalks ==
  ASSUME NEW objs, NEW last, Sound(objs, last), NEW id, NEW h, Walk(objs, id, h)
  PROVE  /\ ~HasPrev(objs, Last(h)) => WithPrev(objs, h) = h
         /\ HasPrev(objs, Last(h)) =>
              /\ Walk(objs, id, WithPrev(objs, h))
              /\ Last(WithPrev(objs, h)) = objs[Last(h)].tree.prev
              /\ objs[Last(h)].tree.prev \in Nat \ {0} /\ objs[Last(h)].tree.prev < Last(h)
<1>1. CASE ~HasPrev(objs, Last(h))
  BY <1>1 DEF HasPrev, WithPrev
<1>2. CASE HasPrev(objs, Last(h))
  <2>1. PICK x, y, n, g : x = Last(h) /\ y = objs[x].tree.prev /\ n = Len(h) /\ g = WithPrev(objs, h)
    OBVIOUS
  <2>2. g = Append(h, y)
    BY <1>2, <2>1 DEF HasPrev, WithPrev
  <2>3. y \in Nat \ {0} /\ y < x
    BY <1>2, <2>1 DEF HasPrev, Sound, Commits, Trees, None
  <2>4. n \in Nat /\ n >= 1 /\ x = h[n]
    BY <2>1 DEF Walk, Last
  <2>5. /\ g \in Seq(Nat) /\ Len(g) = n + 1 /\ g[n + 1] = y
        /\ \A k \in 1..n : g[k] = h[k]
    BY <2>1, <2>2, <2>3 DEF Walk
  <2>6. ASSUME NEW k \in 1..n PROVE HasPrev(objs, g[k]) /\ g[k + 1] = objs[g[k]].tree.prev
    <3>1. CASE k = n
      BY <1>2, <2>1, <2>4, <2>5, <3>1
    <3>2. CASE k \in 1..(n - 1)
      <4>1. k + 1 \in 1..n
        BY <2>4, <3>2
      <4> QED BY <2>1, <2>5, <3>2, <4>1 DEF Walk
    <3> QED BY <2>4, <3>1, <3>2
  <2>7. Walk(objs, id, g)
    BY <2>4, <2>5, <2>6 DEF Walk
  <2>8. Last(g) = y
    BY <2>5 DEF Last
  <2> QED BY <1>2, <2>1, <2>3, <2>7, <2>8
<1> QED BY <1>1, <1>2

\* History walks the log to its end.
LEMMA HistoryWalks ==
  ASSUME Sound(objects, lastId), NEW id \in 1..lastId
  PROVE  Walk(objects, id, History(objects, id)) /\ ~HasPrev(objects, Last(History(objects, id)))
<1>1. lastId \in Nat
  BY DEF Sound
<1>2. PICK n, objs, U : n = lastId /\ objs = objects /\ U = Seq(Nat)
  OBVIOUS
<1>3. n \in Nat /\ id \in 1..n /\ Sound(objs, n)
  BY <1>1, <1>2
<1>4. \A c \in U : WithPrev(objs, c) \in U
  <2>1. ASSUME NEW c \in U, Last(c) \in DOMAIN objs PROVE Append(c, objs[Last(c)].tree.prev) \in U
    BY <1>2, <1>3, <2>1 DEF Sound, Commits, Trees
  <2> QED BY <2>1 DEF WithPrev
<1>5. PICK f \in [0..n -> U] : f[0] = <<id>> /\ \A k \in 1..n : f[k] = WithPrev(objs, f[k - 1])
  <2>1. PICK step : step = [k \in 1..n |-> [c \in U |-> WithPrev(objs, c)]]
    OBVIOUS
  <2>2. step \in StepMaps(n, U)
    BY <1>4, <2>1 DEF StepMaps
  <2>3. PICK a : a = <<id>>
    OBVIOUS
  <2>4. a \in U
    BY <1>2, <1>3, <2>3
  <2>5. PICK f \in [0..n -> U] : f[0] = a /\ \A k \in 1..n : f[k] = step[k][f[k - 1]]
    BY <1>3, <2>2, <2>4, Iterates
  <2>6. \A k \in 1..n : f[k - 1] \in U /\ step[k][f[k - 1]] = WithPrev(objs, f[k - 1])
    BY <1>3, <2>1, <2>5
  <2> QED BY <2>3, <2>5, <2>6
<1> DEFINE IsChain(g) == g = [k \in 0..n |-> IF k = 0 THEN <<id>> ELSE WithPrev(objs, g[k - 1])]
<1>6. IsChain(f)
  <2>1. \A k \in 0..n : k = 0 \/ k \in 1..n
    BY <1>3
  <2> QED BY <1>5, <2>1
<1>7. PICK g : g = CHOOSE h : IsChain(h)
  OBVIOUS
<1>8. IsChain(g)
  BY <1>6, <1>7
<1>9. History(objects, id) = g[n]
  BY <1>2, <1>7, Zenon DEF History
<1>10. g[0] = <<id>> /\ \A k \in 0..(n - 1) : g[k + 1] = WithPrev(objs, g[k])
  <2>1. g[0] = <<id>>
    BY <1>3, <1>8
  <2>2. ASSUME NEW k \in 0..(n - 1) PROVE g[k + 1] = WithPrev(objs, g[k])
    <3>1. k + 1 \in 0..n /\ k + 1 # 0 /\ (k + 1) - 1 = k
      BY <1>3
    <3> HIDE DEF IsChain
    <3>2. g[k + 1] = WithPrev(objs, g[(k + 1) - 1])
      BY <1>8, <3>1 DEF IsChain
    <3> QED BY <3>1, <3>2
  <2> QED BY <2>1, <2>2
<1> HIDE DEF IsChain
<1> DEFINE Done(k) ==
             /\ Walk(objs, id, g[k]) /\ Last(g[k]) \in Nat \ {0}
             /\ HasPrev(objs, Last(g[k])) => Last(g[k]) <= id - k
<1>11. Done(0)
  <2>1. Walk(objs, id, g[0])
    BY <1>3, <1>10 DEF Walk
  <2>2. Last(g[0]) = id
    BY <1>10 DEF Last
  <2> QED BY <1>3, <2>1, <2>2
<1>12. ASSUME NEW k \in 0..(n - 1), Done(k) PROVE Done(k + 1)
  <2>1. PICK c, d : c = g[k] /\ d = g[k + 1]
    OBVIOUS
  <2>2. d = WithPrev(objs, c) /\ Walk(objs, id, c)
    BY <1>10, <1>12, <2>1
  <2>3. CASE ~HasPrev(objs, Last(c))
    <3>1. d = c
      BY <1>3, <2>2, <2>3, WithPrevWalks
    <3> QED BY <1>12, <2>1, <2>3, <3>1
  <2>4. CASE HasPrev(objs, Last(c))
    <3>1. PICK y : y = objs[Last(c)].tree.prev
      OBVIOUS
    <3>2. Walk(objs, id, d) /\ Last(d) = y /\ y \in Nat \ {0} /\ y < Last(c)
      BY <1>3, <2>2, <2>4, <3>1, WithPrevWalks
    <3>3. Last(c) \in Nat /\ Last(c) <= id - k
      BY <1>12, <2>1, <2>4
    <3>4. y <= id - (k + 1)
      BY <1>3, <3>2, <3>3
    <3> QED BY <2>1, <3>2, <3>4
  <2> QED BY <2>3, <2>4
<1> HIDE DEF Done
<1>13. PICK D : D = {k \in 0..n : Done(k)}
  OBVIOUS
<1>14. 0 \in D /\ \A k \in 0..(n - 1) : k \in D => k + 1 \in D
  BY <1>3, <1>11, <1>12, <1>13
<1>15. \A k \in 0..n : k \in D
  BY <1>3, <1>14, UpTo, Zenon
<1>16. Done(n)
  BY <1>3, <1>13, <1>15
<1>17. Walk(objs, id, g[n]) /\ ~HasPrev(objs, Last(g[n]))
  BY <1>3, <1>16 DEF Done
<1> QED BY <1>2, <1>9, <1>17

\* The walk stays in every set that has its start and with each state the one
\* before.
LEMMA WalkIn ==
  ASSUME NEW objs, NEW id, NEW h, Walk(objs, id, h), NEW S, id \in S, PrevClosed(objs, S)
  PROVE  ToSet(h) \subseteq S
<1>1. PICK n : n = Len(h)
  OBVIOUS
<1>2. n \in Nat /\ n >= 1 /\ h \in Seq(Nat)
  BY <1>1 DEF Walk
<1>3. PICK D : D = {k \in 0..(n - 1) : h[k + 1] \in S}
  OBVIOUS
<1>4. 0 \in D
  BY <1>2, <1>3 DEF Walk
<1>5. ASSUME NEW k \in 0..((n - 1) - 1), k \in D PROVE k + 1 \in D
  <2>1. k + 1 \in 1..(n - 1) /\ h[k + 1] \in S
    BY <1>2, <1>3, <1>5
  <2>2. HasPrev(objs, h[k + 1]) /\ h[(k + 1) + 1] = objs[h[k + 1]].tree.prev
    BY <1>1, <2>1 DEF Walk
  <2>3. h[(k + 1) + 1] \in S
    BY <2>1, <2>2 DEF HasPrev, PrevClosed
  <2> QED BY <1>2, <1>3, <2>1, <2>3
<1>6. \A k \in 0..(n - 1) : k \in D
  <2>1. n - 1 \in Nat
    BY <1>2
  <2> QED BY <1>4, <1>5, <2>1, UpTo
<1>7. ASSUME NEW i \in 1..n PROVE h[i] \in S
  <2>1. i - 1 \in 0..(n - 1) /\ (i - 1) + 1 = i
    BY <1>2
  <2> QED BY <1>3, <1>6, <2>1
<1> QED BY <1>1, <1>2, <1>7, ToSetIff

\* A walk to the end of the log has with each state the one before.
LEMMA WalkClosed ==
  ASSUME NEW objs, NEW id, NEW h, Walk(objs, id, h), ~HasPrev(objs, Last(h))
  PROVE  id \in ToSet(h) /\ ToSet(h) \in SUBSET Nat /\ PrevClosed(objs, ToSet(h))
<1>1. PICK n : n = Len(h)
  OBVIOUS
<1>2. n \in Nat /\ n >= 1 /\ h \in Seq(Nat) /\ h[1] = id /\ Last(h) = h[n]
  BY <1>1 DEF Walk, Last
<1>3. id \in ToSet(h) /\ ToSet(h) \in SUBSET Nat
  <2>1. 1 \in 1..n
    BY <1>2
  <2> QED BY <1>1, <1>2, <2>1, ToSetIff
<1>4. ASSUME NEW j \in ToSet(h), j \in DOMAIN objs, objs[j].tree.prev # None
      PROVE  objs[j].tree.prev \in ToSet(h)
  <2>1. PICK k \in 1..n : h[k] = j
    BY <1>1, <1>2, ToSetIff
  <2>2. k # n
    BY <1>2, <1>4, <2>1 DEF HasPrev
  <2>3. k \in 1..(n - 1) /\ k + 1 \in 1..n
    BY <1>2, <2>2
  <2>4. h[k + 1] = objs[j].tree.prev
    BY <1>1, <2>1, <2>3 DEF Walk
  <2> QED BY <1>1, <1>2, <2>3, <2>4, ToSetIff
<1> QED BY <1>3, <1>4 DEF PrevClosed
-----------------------------------------------------------------------------
(* States that can be worked with. *)

Plain(objs, i) == i \in DOMAIN objs /\ objs[i].tree = NoTree

\* A commit for a patch.
IsPatch(objs, i) == Plain(objs, i) /\ Len(objs[i].parents) = 1

\* No patch is in a list twice, or in two lists.
Split(s) ==
  /\ IsInjective(s.applied) /\ IsInjective(s.unapplied) /\ IsInjective(s.hidden)
  /\ ToSet(s.applied) \cap ToSet(s.unapplied) = {}
  /\ ToSet(s.applied) \cap ToSet(s.hidden) = {}
  /\ ToSet(s.unapplied) \cap ToSet(s.hidden) = {}

Listed(s) == ToSet(s.applied) \cup ToSet(s.unapplied) \cup ToSet(s.hidden)

\* Every applied patch is the child of the one below it.
Stacked(objs, s) ==
  \A k \in 1..(Len(s.applied) - 1) :
    objs[s.patches[s.applied[k + 1]]].parents = <<s.patches[s.applied[k]]>>

Good(objs, s) ==
  /\ s \in Trees /\ Plain(objs, s.head) /\ Split(s) /\ Stacked(objs, s)
  /\ \A n \in Listed(s) : IsPatch(objs, s.patches[n])

\* The trees of commits that are no states have no head.
LEMMA NoTreeType == NoTree \in Trees /\ NoTree.head = 0 /\ NoTree.prev = 0
<1>1. [n \in Names |-> None] \in [Names -> Nat]
  BY DEF None
<1> QED BY <1>1, NoneSet DEF NoTree, Trees, None

\* Objects have their types.
LEMMA SoundTypes ==
  ASSUME NEW objs, NEW last, Sound(objs, last), NEW i \in DOMAIN objs
  PROVE  /\ i \in Nat /\ i \in 1..last /\ objs[i].tree \in Trees /\ objs[i].parents \in Seq(Nat)
         /\ objs[i].tree.prev \in Nat /\ objs[i].tree.prev < i
BY DEF Sound, Commits, Trees

\* The last entry of a list of different names.
LEMMA FrontLast ==
  ASSUME NEW U, NEW s \in Seq(U), s # <<>>, IsInjective(s)
  PROVE  /\ Front(s) \in Seq(U) /\ Last(s) \in U /\ Last(s) \in ToSet(s) /\ IsInjective(Front(s))
         /\ ToSet(Front(s)) = ToSet(s) \ {Last(s)}
         /\ Len(Front(s)) = Len(s) - 1 /\ \A i \in 1..(Len(s) - 1) : Front(s)[i] = s[i]
<1>1. PICK n, f, x : n = Len(s) /\ f = Front(s) /\ x = Last(s)
  OBVIOUS
<1>2. n \in Nat /\ n >= 1 /\ x = s[n] /\ x \in U /\ x \in ToSet(s)
  BY <1>1, ToSetIff DEF Last
<1>3. f \in Seq(U) /\ Len(f) = n - 1 /\ \A i \in 1..(n - 1) : f[i] = s[i]
  BY <1>1, <1>2 DEF Front
<1>4. \A i, j \in 1..n : s[i] = s[j] => i = j
  BY <1>1 DEF IsInjective
<1>5. IsInjective(f)
  BY <1>2, <1>3, <1>4 DEF IsInjective
<1>6. ASSUME NEW y \in ToSet(f) PROVE y \in ToSet(s) \ {x}
  <2>1. PICK i \in 1..(n - 1) : f[i] = y
    BY <1>3, ToSetIff
  <2>2. i \in 1..n /\ s[i] = y /\ i # n /\ n \in 1..n
    BY <1>2, <1>3, <2>1
  <2> QED BY <1>1, <1>2, <1>4, <2>2, ToSetIff
<1>7. ASSUME NEW y \in ToSet(s) \ {x} PROVE y \in ToSet(f)
  <2>1. PICK i \in 1..n : s[i] = y
    BY <1>1, ToSetIff
  <2>2. i \in 1..(n - 1) /\ f[i] = y
    BY <1>2, <1>3, <1>7, <2>1
  <2> QED BY <1>3, <2>2, ToSetIff
<1> QED BY <1>1, <1>2, <1>3, <1>5, <1>6, <1>7

\* The first entry of a list of different names.
LEMMA HeadTail ==
  ASSUME NEW U, NEW s \in Seq(U), s # <<>>, IsInjective(s)
  PROVE  /\ Tail(s) \in Seq(U) /\ Head(s) \in U /\ Head(s) \in ToSet(s) /\ IsInjective(Tail(s))
         /\ ToSet(Tail(s)) = ToSet(s) \ {Head(s)}
<1>1. PICK n, t, x : n = Len(s) /\ t = Tail(s) /\ x = Head(s)
  OBVIOUS
<1>2. n \in Nat /\ n >= 1 /\ x = s[1] /\ x \in U /\ x \in ToSet(s)
  BY <1>1, ToSetIff
<1>3. t \in Seq(U) /\ Len(t) = n - 1 /\ \A i \in 1..(n - 1) : t[i] = s[i + 1]
  BY <1>1, <1>2
<1>4. \A i, j \in 1..n : s[i] = s[j] => i = j
  BY <1>1 DEF IsInjective
<1>5. IsInjective(t)
  <2>1. SUFFICES ASSUME NEW i \in 1..(n - 1), NEW j \in 1..(n - 1), t[i] = t[j] PROVE i = j
    BY <1>2, <1>3 DEF IsInjective
  <2>2. i + 1 \in 1..n /\ j + 1 \in 1..n /\ s[i + 1] = s[j + 1]
    BY <1>2, <1>3, <2>1
  <2>3. i + 1 = j + 1
    BY <1>4, <2>2
  <2> QED BY <2>3
<1>6. ASSUME NEW y \in ToSet(t) PROVE y \in ToSet(s) \ {x}
  <2>1. PICK i \in 1..(n - 1) : t[i] = y
    BY <1>3, ToSetIff
  <2>2. i + 1 \in 1..n /\ s[i + 1] = y /\ i + 1 # 1 /\ 1 \in 1..n
    BY <1>2, <1>3, <2>1
  <2> QED BY <1>1, <1>2, <1>4, <2>2, ToSetIff
<1>7. ASSUME NEW y \in ToSet(s) \ {x} PROVE y \in ToSet(t)
  <2>1. PICK i \in 1..n : s[i] = y
    BY <1>1, ToSetIff
  <2>2. PICK j : j = i - 1
    OBVIOUS
  <2>3. j \in 1..(n - 1) /\ i = j + 1
    BY <1>2, <1>7, <2>1, <2>2
  <2>4. t[j] = y
    BY <1>3, <2>1, <2>3
  <2> QED BY <1>3, <2>3, <2>4, ToSetIff
<1> QED BY <1>1, <1>2, <1>3, <1>5, <1>6, <1>7

\* A list of different names with another one at its end.
LEMMA AppendName ==
  ASSUME NEW U, NEW s \in Seq(U), IsInjective(s), NEW x \in U, x \notin ToSet(s)
  PROVE  /\ Append(s, x) \in Seq(U) /\ ToSet(Append(s, x)) = ToSet(s) \cup {x}
         /\ IsInjective(Append(s, x)) /\ Len(Append(s, x)) = Len(s) + 1
         /\ Append(s, x)[Len(s) + 1] = x /\ \A i \in 1..Len(s) : Append(s, x)[i] = s[i]
<1>1. PICK t, n : t = Append(s, x) /\ n = Len(s)
  OBVIOUS
<1>2. /\ t \in Seq(U) /\ Len(t) = n + 1 /\ n \in Nat /\ t[n + 1] = x
      /\ \A i \in 1..n : t[i] = s[i]
  BY <1>1
<1>3. ToSet(Append(s, x)) = ToSet(s) \cup {x}
  BY AppendSet
<1>4. \A i \in 1..n : s[i] # x
  BY <1>1, ToSetIff
<1>5. \A i, j \in 1..n : s[i] = s[j] => i = j
  BY <1>1 DEF IsInjective
<1>6. ASSUME NEW i \in 1..(n + 1), NEW j \in 1..(n + 1), t[i] = t[j] PROVE i = j
  <2>1. (i \in 1..n \/ i = n + 1) /\ (j \in 1..n \/ j = n + 1)
    BY <1>2
  <2> QED BY <1>2, <1>4, <1>5, <1>6, <2>1
<1>7. IsInjective(t)
  BY <1>2, <1>6 DEF IsInjective
<1> QED BY <1>1, <1>2, <1>3, <1>7

\* A list of different names with another one at its beginning.
LEMMA ConsName ==
  ASSUME NEW U, NEW s \in Seq(U), IsInjective(s), NEW x \in U, x \notin ToSet(s)
  PROVE  /\ <<x>> \o s \in Seq(U) /\ ToSet(<<x>> \o s) = ToSet(s) \cup {x}
         /\ IsInjective(<<x>> \o s)
<1>1. PICK o : o = <<x>>
  OBVIOUS
<1>2. o \in Seq(U) /\ ToSet(o) = {x} /\ Len(o) = 1 /\ o[1] = x
  BY <1>1, OneSet
<1>3. PICK t, n : t = o \o s /\ n = Len(s)
  OBVIOUS
<1>4. t \in Seq(U) /\ ToSet(t) = ToSet(s) \cup {x}
  BY <1>2, <1>3, ConcatSet
<1>5. n \in Nat /\ Len(t) = n + 1 /\ t[1] = x /\ \A i \in 2..(n + 1) : t[i] = s[i - 1]
  <2>1. PICK c : c = o \o s
    OBVIOUS
  <2>2. /\ Len(c) = Len(o) + Len(s) /\ Len(s) \in Nat
        /\ \A i \in 1..Len(o) : c[i] = o[i]
        /\ \A i \in 1..Len(s) : c[Len(o) + i] = s[i]
    <3>1. o \in Seq(U)
      BY <1>2
    <3> QED BY <2>1, <3>1, ConcatIndex
  <2>3. c = t /\ Len(o) = 1 /\ Len(s) = n
    BY <1>2, <1>3, <2>1, Zenon
  <2>4. /\ n \in Nat /\ Len(t) = 1 + n
        /\ \A i \in 1..1 : t[i] = o[i]
        /\ \A i \in 1..n : t[1 + i] = s[i]
    BY <2>2, <2>3
  <2>5. ASSUME NEW i \in 2..(n + 1) PROVE t[i] = s[i - 1]
    <3>1. PICK j : j = i - 1
      OBVIOUS
    <3>2. j \in 1..n /\ i = 1 + j
      BY <2>4, <3>1
    <3>3. t[1 + j] = s[j]
      BY <2>4, <3>2
    <3> QED BY <3>1, <3>2, <3>3
  <2> QED BY <1>2, <2>4, <2>5
<1>6. \A i \in 1..n : s[i] # x
  BY <1>3, ToSetIff
<1>7. \A i, j \in 1..n : s[i] = s[j] => i = j
  <2>1. n = Len(s)
    BY <1>3
  <2> QED BY <2>1 DEF IsInjective
<1>8. ASSUME NEW i \in 1..(n + 1), NEW j \in 1..(n + 1), t[i] = t[j] PROVE i = j
  <2>1. (i = 1 \/ i \in 2..(n + 1)) /\ (j = 1 \/ j \in 2..(n + 1))
    BY <1>5
  <2>2. i \in 2..(n + 1) => i - 1 \in 1..n
    BY <1>5
  <2>3. j \in 2..(n + 1) => j - 1 \in 1..n
    BY <1>5
  <2>4. CASE i = 1 \/ j = 1
    BY <1>5, <1>6, <1>8, <2>1, <2>2, <2>3, <2>4
  <2>5. CASE i \in 2..(n + 1) /\ j \in 2..(n + 1)
    <3>1. s[i - 1] = s[j - 1]
      BY <1>5, <1>8, <2>5
    <3>2. i - 1 = j - 1
      BY <1>7, <2>2, <2>3, <2>5, <3>1
    <3> QED BY <3>2
  <2> QED BY <2>1, <2>4, <2>5
<1>9. IsInjective(t)
  BY <1>4, <1>5, <1>8 DEF IsInjective
<1> QED BY <1>1, <1>3, <1>4, <1>9
-----------------------------------------------------------------------------
(* Objects are written and stay what they are. *)

Extends(old, new) == \A i \in DOMAIN old : i \in DOMAIN new /\ new[i] = old[i]

\* In all sets that have i and all parents there is x: git does not collect x
\* while it reaches i.
Keeps(objs, i, x) == \A S \in SUBSET Nat : i \in S /\ Closed(objs, S) => x \in S

\* The state x is in the log that starts at the state commit i.
InLog(objs, i, x) == \A S \in SUBSET Nat : i \in S /\ PrevClosed(objs, S) => x \in S

\* More objects keep all that was kept.
LEMMA ExtendsKeeps ==
  ASSUME NEW old, NEW new, Extends(old, new), NEW i, NEW x
  PROVE  /\ Keeps(old, i, x) => Keeps(new, i, x)
         /\ InLog(old, i, x) => InLog(new, i, x)
<1>1. ASSUME NEW S, Closed(new, S) PROVE Closed(old, S)
  BY <1>1 DEF Closed, Extends
<1>2. ASSUME NEW S, PrevClosed(new, S) PROVE PrevClosed(old, S)
  BY <1>2 DEF PrevClosed, Extends
<1>3. ASSUME Keeps(old, i, x) PROVE Keeps(new, i, x)
  BY <1>1, <1>3 DEF Keeps
<1>4. ASSUME InLog(old, i, x) PROVE InLog(new, i, x)
  BY <1>2, <1>4 DEF InLog
<1> QED BY <1>3, <1>4

\* What is kept alive keeps alive.
LEMMA KeepsTrans ==
  ASSUME NEW objs, NEW i, NEW j, NEW x, Keeps(objs, i, j), Keeps(objs, j, x)
  PROVE  Keeps(objs, i, x)
BY DEF Keeps

\* A commit keeps its parents.
LEMMA KeepsParents ==
  ASSUME NEW objs, NEW i \in DOMAIN objs, NEW x \in ToSet(objs[i].parents)
  PROVE  Keeps(objs, i, x)
BY DEF Keeps, Closed

\* A state stays good when objects are added.
LEMMA ExtendsGood ==
  ASSUME NEW old, NEW new, Extends(old, new), NEW s, Good(old, s)
  PROVE  Good(new, s)
<1>1. s \in Trees /\ Split(s) /\ Plain(new, s.head)
  BY DEF Good, Plain, Extends
<1>2. \A n \in Listed(s) : s.patches[n] \in DOMAIN old /\ IsPatch(new, s.patches[n])
  BY DEF Good, IsPatch, Plain, Extends
<1>3. ASSUME NEW k \in 1..(Len(s.applied) - 1)
      PROVE  new[s.patches[s.applied[k + 1]]].parents = <<s.patches[s.applied[k]]>>
  <2>1. s.applied \in Seq(Names) /\ k + 1 \in 1..Len(s.applied)
    BY <1>1 DEF Trees
  <2>2. s.applied[k + 1] \in Listed(s)
    BY <2>1, ToSetIff DEF Listed
  <2>3. new[s.patches[s.applied[k + 1]]] = old[s.patches[s.applied[k + 1]]]
    BY <1>2, <2>2 DEF Extends
  <2>4. old[s.patches[s.applied[k + 1]]].parents = <<s.patches[s.applied[k]]>>
    BY DEF Good, Stacked
  <2> QED BY <2>3, <2>4
<1> QED BY <1>1, <1>2, <1>3 DEF Good, Stacked

\* The topmost patch, or the head, of a good state.
LEMMA TopGood ==
  ASSUME NEW objs, NEW s, Good(objs, s)
  PROVE  /\ Plain(objs, Top(s))
         /\ s.applied # <<>> => /\ Last(s.applied) \in ToSet(s.applied)
                                /\ Last(s.applied) = s.applied[Len(s.applied)]
                                /\ Len(s.applied) \in Nat /\ Len(s.applied) >= 1
                                /\ Top(s) = s.patches[Last(s.applied)]
<1>1. CASE s.applied = <<>>
  BY <1>1 DEF Good, Top
<1>2. CASE s.applied # <<>>
  <2>1. s.applied \in Seq(Names) /\ IsInjective(s.applied)
    BY DEF Good, Trees, Split
  <2>2. Last(s.applied) \in ToSet(s.applied) /\ Len(s.applied) \in Nat /\ Len(s.applied) >= 1
    <3>1. PICK a : a = s.applied
      OBVIOUS
    <3>2. a \in Seq(Names) /\ a # <<>> /\ IsInjective(a)
      BY <1>2, <2>1, <3>1
    <3>3. Len(a) \in Nat /\ Len(a) >= 1
      BY <3>2
    <3> QED BY <3>1, <3>2, <3>3, FrontLast
  <2>3. IsPatch(objs, s.patches[Last(s.applied)])
    BY <2>2 DEF Good, Listed
  <2> QED BY <1>2, <2>2, <2>3 DEF Top, IsPatch, Last
<1> QED BY <1>1, <1>2

\* What the parents of a patch commit are.
LEMMA PatchParent ==
  ASSUME NEW objs, NEW last, Sound(objs, last), NEW i, IsPatch(objs, i)
  PROVE  /\ i \in Nat \ {0} /\ i \in DOMAIN objs
         /\ objs[i].parents \in Seq(Nat) /\ objs[i].parents = <<objs[i].parents[1]>>
         /\ objs[i].parents[1] \in ToSet(objs[i].parents)
         /\ Plain(objs, objs[i].parents[1])
<1>1. i \in DOMAIN objs /\ objs[i].parents \in Seq(Nat) /\ Len(objs[i].parents) = 1
  BY SoundTypes DEF IsPatch, Plain
<1>2. objs[i].parents = <<objs[i].parents[1]>>
  BY <1>1
<1>3. objs[i].parents[1] \in ToSet(objs[i].parents)
  BY <1>1, ToSetIff
<1>4. Plain(objs, objs[i].parents[1])
  BY <1>1, <1>3 DEF Sound, IsPatch, Plain
<1>5. i \in Nat \ {0}
  BY <1>1 DEF Sound
<1> QED BY <1>1, <1>2, <1>3, <1>4, <1>5

\* Another patch on top of the applied ones.
LEMMA OnTop ==
  ASSUME NEW objs, NEW s, Good(objs, s), NEW n \in Names, n \notin ToSet(s.applied),
         NEW c \in Nat, IsPatch(objs, c), s.applied # <<>> => objs[c].parents = <<Top(s)>>,
         NEW t \in Trees, t.applied = Append(s.applied, n), t.patches = [s.patches EXCEPT ![n] = c],
         IsInjective(t.unapplied), ToSet(t.unapplied) = ToSet(s.unapplied) \ {n},
         t.hidden = s.hidden, n \notin ToSet(s.hidden), Plain(objs, t.head)
  PROVE  Good(objs, t)
<1>1. PICK a, b, l : a = s.applied /\ b = t.applied /\ l = Len(a)
  OBVIOUS
<1>2. a \in Seq(Names) /\ IsInjective(a) /\ l \in Nat /\ n \notin ToSet(a)
  BY <1>1 DEF Good, Trees, Split
<1>3. /\ b \in Seq(Names) /\ ToSet(b) = ToSet(a) \cup {n} /\ IsInjective(b)
      /\ Len(b) = l + 1 /\ b[l + 1] = n /\ \A i \in 1..l : b[i] = a[i]
  BY <1>1, <1>2, AppendName
<1>4. Split(t)
  BY <1>1, <1>3 DEF Good, Split
<1>5. /\ s.patches \in [Names -> Nat]
      /\ t.patches[n] = c /\ \A m \in Names : m # n => t.patches[m] = s.patches[m]
  BY DEF Good, Trees
<1>6. ASSUME NEW m \in Listed(t) PROVE IsPatch(objs, t.patches[m])
  <2>1. m = n \/ (m \in Listed(s) /\ m # n)
    BY <1>1, <1>3, <1>6 DEF Listed
  <2>2. m \in Names
    BY <1>6, ToSetIff DEF Listed, Trees
  <2> QED BY <1>5, <2>1, <2>2 DEF Good
<1>7. ASSUME NEW k \in 1..(Len(b) - 1)
      PROVE  objs[t.patches[b[k + 1]]].parents = <<t.patches[b[k]]>>
  <2>1. k \in 1..l /\ b[k] = a[k] /\ a[k] \in ToSet(a) /\ a[k] \in Names
    BY <1>1, <1>2, <1>3, ToSetIff
  <2>2. a[k] # n /\ t.patches[b[k]] = s.patches[a[k]]
    BY <1>2, <1>5, <2>1
  <2>3. CASE k = l
    <3>1. a # <<>> /\ t.patches[b[k + 1]] = c
      BY <1>1, <1>2, <1>3, <1>5, <2>1, <2>3
    <3>2. Top(s) = s.patches[a[k]]
      BY <1>1, <2>3, <3>1, TopGood
    <3> QED BY <1>1, <2>2, <3>1, <3>2
  <2>4. CASE k # l
    <3>1. k \in 1..(l - 1) /\ k + 1 \in 1..l /\ b[k + 1] = a[k + 1]
      BY <1>2, <1>3, <2>1, <2>4
    <3>2. a[k + 1] \in ToSet(a) /\ a[k + 1] \in Names /\ a[k + 1] # n
      BY <1>1, <1>2, <3>1, ToSetIff
    <3>3. t.patches[b[k + 1]] = s.patches[a[k + 1]]
      BY <1>5, <3>1, <3>2
    <3>4. objs[s.patches[a[k + 1]]].parents = <<s.patches[a[k]]>>
      BY <1>1, <3>1 DEF Good, Stacked
    <3> QED BY <2>2, <3>3, <3>4
  <2> QED BY <2>3, <2>4
<1> QED BY <1>1, <1>4, <1>6, <1>7 DEF Good, Stacked
\* trans: the state s that the closure arrives at, with the head on its top.
LEMMA TransGood ==
  ASSUME NEW objs, NEW last, Sound(objs, last), NEW s, Good(objs, s)
  PROVE  Good(objs, [s EXCEPT !.head = Top(s)])
<1>1. PICK t : t = [s EXCEPT !.head = Top(s)]
  OBVIOUS
<1>2. s \in Trees /\ Plain(objs, Top(s))
  BY TopGood DEF Good
<1>3. Top(s) \in Nat
  BY <1>2, SoundTypes DEF Plain
<1>4. /\ t \in Trees /\ t.head = Top(s) /\ t.applied = s.applied /\ t.unapplied = s.unapplied
      /\ t.hidden = s.hidden /\ t.patches = s.patches
  BY <1>1, <1>2, <1>3 DEF Trees
<1>5. Good(objs, t)
  BY <1>2, <1>4 DEF Good, Split, Stacked, Listed
<1> QED BY <1>1, <1>5

\* A good state with another head, or another predecessor, or both.
LEMMA HeadGood ==
  ASSUME NEW objs, NEW s, Good(objs, s), NEW t \in Trees, Plain(objs, t.head),
         t.applied = s.applied, t.unapplied = s.unapplied, t.hidden = s.hidden,
         t.patches = s.patches
  PROVE  Good(objs, t)
BY DEF Good, Split, Stacked, Listed

\* The topmost patch gets another commit with the same parents.
LEMMA RefreshGood ==
  ASSUME NEW objs, NEW s, Good(objs, s), s.applied # <<>>,
         NEW c \in Nat, IsPatch(objs, c), objs[c].parents = objs[Top(s)].parents
  PROVE  Good(objs, [s EXCEPT !.patches[Last(s.applied)] = c])
<1>1. PICK n, t, a, l : /\ n = Last(s.applied) /\ a = s.applied /\ l = Len(a)
                        /\ t = [s EXCEPT !.patches[n] = c]
  OBVIOUS
<1>2. s \in Trees /\ s.patches \in [Names -> Nat] /\ a \in Seq(Names) /\ IsInjective(a)
  BY <1>1 DEF Good, Trees, Split
<1>3. /\ n \in ToSet(a) /\ n \in Names /\ n = a[l] /\ l \in Nat /\ l >= 1
      /\ Top(s) = s.patches[n]
  <2>1. n \in ToSet(a)
    BY <1>1, TopGood
  <2> QED BY <1>1, <1>2, <2>1, TopGood, ToSetIff
<1>4. PICK pt : pt = [s.patches EXCEPT ![n] = c]
  OBVIOUS
<1>5. pt \in [Names -> Nat] /\ pt[n] = c /\ \A m \in Names : m # n => pt[m] = s.patches[m]
  BY <1>2, <1>3, <1>4
<1>6. t = [s EXCEPT !.patches = pt]
  BY <1>1, <1>2, <1>4 DEF Trees
<1>7. /\ t \in Trees /\ t.head = s.head /\ t.applied = a /\ t.unapplied = s.unapplied
      /\ t.hidden = s.hidden /\ t.patches = pt
  BY <1>1, <1>2, <1>5, <1>6 DEF Trees
<1>8. Split(t) /\ Plain(objs, t.head)
  BY <1>1, <1>7 DEF Good, Split
<1>9. ASSUME NEW m \in Listed(t) PROVE IsPatch(objs, t.patches[m])
  <2>1. m \in Listed(s)
    BY <1>1, <1>7, <1>9 DEF Listed
  <2>2. m \in Names
    BY <1>2, <2>1, ToSetIff DEF Listed, Trees
  <2> QED BY <1>5, <1>7, <2>1, <2>2 DEF Good
<1>10. ASSUME NEW k \in 1..(l - 1) PROVE objs[pt[a[k + 1]]].parents = <<pt[a[k]]>>
  <2>1. k \in 1..l /\ k + 1 \in 1..l /\ k # l
    BY <1>3
  <2>2. a[k] \in Names /\ a[k + 1] \in Names /\ a[k] # n
    BY <1>1, <1>2, <1>3, <2>1 DEF IsInjective
  <2>3. objs[s.patches[a[k + 1]]].parents = <<s.patches[a[k]]>>
    BY <1>1 DEF Good, Stacked
  <2>4. CASE a[k + 1] = n
    BY <1>3, <1>5, <2>2, <2>3, <2>4
  <2>5. CASE a[k + 1] # n
    BY <1>5, <2>2, <2>3, <2>5
  <2> QED BY <2>4, <2>5
<1>11. Good(objs, t)
  BY <1>1, <1>7, <1>8, <1>9, <1>10 DEF Good, Stacked
<1> QED BY <1>1, <1>11

\* The topmost patch comes off.
LEMMA PopGood ==
  ASSUME NEW objs, NEW s, Good(objs, s), s.applied # <<>>, NEW base \in Nat, Plain(objs, base)
  PROVE  Good(objs, [Pops(s) EXCEPT !.head = base])
<1>1. PICK a, x, f, t, u : /\ a = s.applied /\ x = Last(a) /\ f = Front(a)
                           /\ u = <<x>> \o s.unapplied /\ t = [Pops(s) EXCEPT !.head = base]
  OBVIOUS
<1>2. s \in Trees /\ a \in Seq(Names) /\ IsInjective(a) /\ s.unapplied \in Seq(Names)
      /\ IsInjective(s.unapplied) /\ ToSet(a) \cap ToSet(s.unapplied) = {}
  BY <1>1 DEF Good, Trees, Split
<1>3. /\ f \in Seq(Names) /\ x \in Names /\ x \in ToSet(a) /\ IsInjective(f)
      /\ ToSet(f) = ToSet(a) \ {x}
      /\ Len(f) = Len(a) - 1 /\ \A i \in 1..(Len(a) - 1) : f[i] = a[i]
  BY <1>1, <1>2, FrontLast
<1>4. u \in Seq(Names) /\ ToSet(u) = ToSet(s.unapplied) \cup {x} /\ IsInjective(u)
  <2>1. x \notin ToSet(s.unapplied)
    BY <1>2, <1>3
  <2>2. PICK w : w = s.unapplied
    OBVIOUS
  <2>3. w \in Seq(Names) /\ IsInjective(w) /\ x \notin ToSet(w) /\ u = <<x>> \o w
    BY <1>1, <1>2, <2>1, <2>2
  <2>4. <<x>> \o w \in Seq(Names) /\ ToSet(<<x>> \o w) = ToSet(w) \cup {x} /\ IsInjective(<<x>> \o w)
    BY <1>3, <2>3, ConsName
  <2> QED BY <2>2, <2>3, <2>4, Zenon
<1>5. t = [s EXCEPT !.applied = f, !.unapplied = u, !.head = base]
  BY <1>1, <1>2 DEF Pops, Trees
<1>6. /\ t \in Trees /\ t.head = base /\ t.applied = f /\ t.unapplied = u
      /\ t.hidden = s.hidden /\ t.patches = s.patches
  BY <1>2, <1>3, <1>4, <1>5 DEF Trees
<1>7. Split(t)
  BY <1>1, <1>3, <1>4, <1>6 DEF Good, Split
<1>8. Listed(t) \subseteq Listed(s)
  BY <1>1, <1>3, <1>4, <1>6 DEF Listed
<1>9. ASSUME NEW k \in 1..(Len(f) - 1) PROVE objs[s.patches[f[k + 1]]].parents = <<s.patches[f[k]]>>
  <2>1. Len(a) \in Nat /\ k \in 1..(Len(a) - 1) /\ k + 1 \in 1..(Len(a) - 1)
    BY <1>2, <1>3
  <2> QED BY <1>1, <1>3, <2>1 DEF Good, Stacked
<1>10. Good(objs, t)
  BY <1>6, <1>7, <1>8, <1>9 DEF Good, Stacked
<1> QED BY <1>1, <1>10

\* The first unapplied patch is hidden.
LEMMA HideGood ==
  ASSUME NEW objs, NEW s, Good(objs, s), s.unapplied # <<>>
  PROVE  Good(objs, Hides(s, Head(s.unapplied)))
<1>1. PICK u, n, w, h, t : /\ u = s.unapplied /\ n = Head(u) /\ w = Tail(u) /\ h = <<n>> \o s.hidden
                           /\ t = Hides(s, n)
  OBVIOUS
<1>2. s \in Trees /\ u \in Seq(Names) /\ IsInjective(u) /\ s.hidden \in Seq(Names)
      /\ IsInjective(s.hidden) /\ ToSet(u) \cap ToSet(s.hidden) = {}
  BY <1>1 DEF Good, Trees, Split
<1>3. /\ w \in Seq(Names) /\ n \in Names /\ n \in ToSet(u) /\ IsInjective(w)
      /\ ToSet(w) = ToSet(u) \ {n}
  BY <1>1, <1>2, HeadTail
<1>4. h \in Seq(Names) /\ ToSet(h) = ToSet(s.hidden) \cup {n} /\ IsInjective(h)
  <2>1. PICK r : r = s.hidden
    OBVIOUS
  <2>2. r \in Seq(Names) /\ IsInjective(r) /\ n \notin ToSet(r) /\ h = <<n>> \o r
    BY <1>1, <1>2, <1>3, <2>1
  <2>3. <<n>> \o r \in Seq(Names) /\ ToSet(<<n>> \o r) = ToSet(r) \cup {n} /\ IsInjective(<<n>> \o r)
    BY <1>3, <2>2, ConsName
  <2> QED BY <2>1, <2>2, <2>3, Zenon
<1>5. t = [s EXCEPT !.unapplied = w, !.hidden = h]
  BY <1>1, <1>2 DEF Hides, Trees
<1>6. /\ t \in Trees /\ t.head = s.head /\ t.applied = s.applied /\ t.unapplied = w
      /\ t.hidden = h /\ t.patches = s.patches
  <2>1. s \in Trees /\ w \in Seq(Names) /\ h \in Seq(Names)
    BY <1>2, <1>3, <1>4
  <2> QED BY <1>5, <2>1 DEF Trees
<1>7. Split(t)
  <2>1. /\ IsInjective(s.applied) /\ ToSet(s.applied) \cap ToSet(u) = {}
        /\ ToSet(s.applied) \cap ToSet(s.hidden) = {}
    BY <1>1 DEF Good, Split
  <2>2. IsInjective(t.applied) /\ IsInjective(t.unapplied) /\ IsInjective(t.hidden)
    BY <1>3, <1>4, <1>6, <2>1
  <2>3. ToSet(t.applied) = ToSet(s.applied) /\ ToSet(t.unapplied) = ToSet(u) \ {n}
        /\ ToSet(t.hidden) = ToSet(s.hidden) \cup {n}
    BY <1>3, <1>4, <1>6
  <2> QED BY <1>2, <1>3, <2>1, <2>2, <2>3 DEF Split
<1>8. Listed(t) \subseteq Listed(s)
  BY <1>1, <1>3, <1>4, <1>6 DEF Listed
<1>9. Good(objs, t)
  BY <1>6, <1>7, <1>8 DEF Good, Stacked
<1> QED BY <1>1, <1>9

\* The first unapplied patch is deleted.
LEMMA DeleteGood ==
  ASSUME NEW objs, NEW s, Good(objs, s), s.unapplied # <<>>
  PROVE  Good(objs, Deletes(s, Head(s.unapplied)))
<1>1. PICK u, n, w, t : u = s.unapplied /\ n = Head(u) /\ w = Tail(u) /\ t = Deletes(s, n)
  OBVIOUS
<1>2. /\ s \in Trees /\ u \in Seq(Names) /\ IsInjective(u) /\ s.patches \in [Names -> Nat]
      /\ s.applied \in Seq(Names) /\ s.hidden \in Seq(Names)
  BY <1>1 DEF Good, Trees, Split
<1>3. /\ w \in Seq(Names) /\ n \in Names /\ n \in ToSet(u) /\ IsInjective(w)
      /\ ToSet(w) = ToSet(u) \ {n}
  BY <1>1, <1>2, HeadTail
<1>4. PICK pt : pt = [s.patches EXCEPT ![n] = None]
  OBVIOUS
<1>5. pt \in [Names -> Nat] /\ \A m \in Names : m # n => pt[m] = s.patches[m]
  BY <1>2, <1>3, <1>4 DEF None
<1>6. t = [s EXCEPT !.unapplied = w, !.patches = pt]
  BY <1>1, <1>2, <1>4 DEF Deletes, Trees
<1>7. /\ t \in Trees /\ t.head = s.head /\ t.applied = s.applied /\ t.unapplied = w
      /\ t.hidden = s.hidden /\ t.patches = pt
  BY <1>2, <1>3, <1>5, <1>6 DEF Trees
<1>8. Split(t)
  BY <1>1, <1>3, <1>7 DEF Good, Split
<1>9. ASSUME NEW m \in Listed(t) PROVE m \in Listed(s) /\ m \in Names /\ m # n
  <2>1. n \notin ToSet(s.applied) /\ n \notin ToSet(s.hidden)
    BY <1>1, <1>3 DEF Good, Split
  <2>2. m \in Names
    BY <1>2, <1>3, <1>7, <1>9, ToSetIff DEF Listed
  <2> QED BY <1>1, <1>3, <1>7, <1>9, <2>1, <2>2 DEF Listed
<1>10. \A m \in Listed(t) : IsPatch(objs, pt[m])
  BY <1>5, <1>9 DEF Good
<1>11. ASSUME NEW k \in 1..(Len(s.applied) - 1)
       PROVE  objs[pt[s.applied[k + 1]]].parents = <<pt[s.applied[k]]>>
  <2>1. k \in 1..Len(s.applied) /\ k + 1 \in 1..Len(s.applied)
    BY <1>2
  <2>2. s.applied[k] \in Listed(t) /\ s.applied[k + 1] \in Listed(t)
    <3>1. s.applied[k] \in ToSet(s.applied) /\ s.applied[k + 1] \in ToSet(s.applied)
      BY <1>2, <2>1, ToSetIff
    <3> QED BY <1>7, <3>1 DEF Listed
  <2>3. pt[s.applied[k]] = s.patches[s.applied[k]] /\ pt[s.applied[k + 1]] = s.patches[s.applied[k + 1]]
    BY <1>5, <1>9, <2>2
  <2>4. objs[s.patches[s.applied[k + 1]]].parents = <<s.patches[s.applied[k]]>>
    BY DEF Good, Stacked
  <2> QED BY <2>3, <2>4
<1>12. Plain(objs, t.head)
  BY <1>7 DEF Good
<1>13. Good(objs, t)
  BY <1>7, <1>8, <1>10, <1>11, <1>12 DEF Good, Stacked
<1> QED BY <1>1, <1>13
-----------------------------------------------------------------------------
(* The log. *)

\* The state commit i and what it keeps: its head, the commits of its patches, the
\* state commit before it, and as its first parent the simplified entry, which
\* follows the simplified entry of that one.
Full(objs, F, i) ==
  LET s == objs[i].tree
      e == objs[i].parents[1]
  IN  /\ i \in DOMAIN objs /\ Good(objs, s)
      /\ Keeps(objs, i, s.head)
      /\ \A n \in Listed(s) : Keeps(objs, i, s.patches[n])
      /\ s.prev = None \/ (s.prev \in F /\ Keeps(objs, i, s.prev))
      /\ e \in ToSet(objs[i].parents) /\ e \in DOMAIN objs /\ objs[e].tree = s
      /\ objs[e].parents = IF s.prev = None THEN <<>> ELSE <<objs[s.prev].parents[1]>>

LogOK(objs, F) == \A i \in F : Full(objs, F, i)

\* A log stays what it is when objects are added.
LEMMA ExtendsLog ==
  ASSUME NEW old, NEW new, Extends(old, new), NEW F, LogOK(old, F), NEW G, F \subseteq G
  PROVE  \A i \in F : Full(new, G, i)
<1>1. SUFFICES ASSUME NEW i \in F PROVE Full(new, G, i)
  OBVIOUS
<1>2. Full(old, F, i) /\ i \in DOMAIN old
  BY DEF LogOK, Full
<1>3. PICK s, e : s = old[i].tree /\ e = old[i].parents[1]
  OBVIOUS
<1>4. i \in DOMAIN new /\ new[i] = old[i]
  BY <1>2 DEF Extends
<1>5. Good(new, s)
  <2>1. Good(old, s)
    BY <1>2, <1>3 DEF Full
  <2> QED BY <2>1, ExtendsGood
<1>6. Keeps(new, i, s.head) /\ \A n \in Listed(s) : Keeps(new, i, s.patches[n])
  <2>1. Keeps(old, i, s.head) /\ \A n \in Listed(s) : Keeps(old, i, s.patches[n])
    BY <1>2, <1>3 DEF Full
  <2> QED BY <2>1, ExtendsKeeps
<1>7. s.prev = None \/ (s.prev \in G /\ Keeps(new, i, s.prev))
  <2>1. s.prev = None \/ (s.prev \in F /\ Keeps(old, i, s.prev))
    BY <1>2, <1>3 DEF Full
  <2> QED BY <2>1, ExtendsKeeps
<1>8. e \in ToSet(old[i].parents) /\ e \in DOMAIN new /\ new[e] = old[e]
  BY <1>2, <1>3 DEF Full, Extends
<1>9. s.prev # None => s.prev \in DOMAIN old /\ new[s.prev] = old[s.prev]
  BY <1>2, <1>3 DEF Full, LogOK, Extends
<1>10. new[e].tree = s /\ new[e].parents = IF s.prev = None THEN <<>> ELSE <<new[s.prev].parents[1]>>
  BY <1>2, <1>3, <1>8, <1>9 DEF Full
<1> QED BY <1>3, <1>4, <1>5, <1>6, <1>7, <1>8, <1>10 DEF Full

\* new is objs with the commits cs under the ids that follow `last'.
Adds(objs, last, cs, new) ==
  /\ Extends(objs, new)
  /\ DOMAIN new = DOMAIN objs \cup (last + 1)..(last + Len(cs))
  /\ \A k \in 1..Len(cs) : last + k \in DOMAIN new /\ new[last + k] = cs[k]

\* What Written writes.
LEMMA WrittenFacts ==
  ASSUME NEW objs, NEW last, Sound(objs, last), NEW cs \in Seq(Commits)
  PROVE  Adds(objs, last, cs, Written(objs, last, cs))
<1>0. PICK new : new = Written(objs, last, cs)
  OBVIOUS
<1>1. last \in Nat /\ \A i \in DOMAIN objs : i \in Nat /\ ~(i > last)
  BY DEF Sound
<1>2. new = [i \in DOMAIN objs \cup (last + 1)..(last + Len(cs)) |->
              IF i > last THEN cs[i - last] ELSE objs[i]]
  BY <1>0 DEF Written
<1>3. DOMAIN new = DOMAIN objs \cup (last + 1)..(last + Len(cs))
  BY <1>2
<1>4. Extends(objs, new)
  BY <1>1, <1>2 DEF Extends
<1>5. ASSUME NEW k \in 1..Len(cs) PROVE last + k \in DOMAIN new /\ new[last + k] = cs[k]
  <2>1. last + k \in (last + 1)..(last + Len(cs)) /\ last + k > last /\ (last + k) - last = k
    BY <1>1
  <2> QED BY <1>2, <2>1
<1> QED BY <1>0, <1>3, <1>4, <1>5 DEF Adds

\* Objects stay sound when commits are added whose parents are there.
LEMMA WrittenSound ==
  ASSUME NEW objs, NEW last, Sound(objs, last), NEW cs \in Seq(Commits), NEW new,
         Adds(objs, last, cs, new),
         \A k \in 1..Len(cs) :
           /\ cs[k].tree.prev < last + k
           /\ \A j \in ToSet(cs[k].parents) :
                /\ j \in DOMAIN new /\ j < last + k
                /\ cs[k].tree = NoTree => new[j].tree = NoTree
  PROVE  Sound(new, last + Len(cs))
<1>1. last \in Nat /\ DOMAIN objs \subseteq 1..last /\ Len(cs) \in Nat
  BY DEF Sound
<1>2. /\ Extends(objs, new)
      /\ DOMAIN new = DOMAIN objs \cup (last + 1)..(last + Len(cs))
      /\ \A k \in 1..Len(cs) : new[last + k] = cs[k]
  BY DEF Adds
<1>3. DOMAIN new \subseteq 1..(last + Len(cs))
  BY <1>1, <1>2
<1>4. ASSUME NEW i \in DOMAIN new
      PROVE  /\ new[i] \in Commits /\ new[i].tree.prev < i
             /\ \A j \in ToSet(new[i].parents) :
                  j \in DOMAIN new /\ j < i /\ (new[i].tree = NoTree => new[j].tree = NoTree)
  <2>1. CASE i \in DOMAIN objs
    BY <1>2, <2>1 DEF Sound, Extends
  <2>2. CASE i \in (last + 1)..(last + Len(cs))
    <3>1. PICK l : l = Len(cs) /\ l \in Nat /\ i \in (last + 1)..(last + l)
      BY <1>1, <2>2
    <3>2. PICK k \in 1..l : i = last + k
      <4>1. i - last \in 1..l /\ i = last + (i - last)
        BY <1>1, <3>1
      <4> QED BY <4>1
    <3>3. new[i] = cs[k] /\ cs[k] \in Commits
      BY <1>2, <3>1, <3>2
    <3>4. /\ cs[k].tree.prev < last + k
          /\ \A j \in ToSet(cs[k].parents) :
               /\ j \in DOMAIN new /\ j < last + k
               /\ cs[k].tree = NoTree => new[j].tree = NoTree
      BY <3>1, <3>2
    <3> QED BY <3>2, <3>3, <3>4
  <2> QED BY <1>2, <2>1, <2>2
<1> QED BY <1>1, <1>3, <1>4 DEF Sound

PlainList(objs, ps) == ps \in Seq(Nat) /\ \A j \in ToSet(ps) : Plain(objs, j)

\* new is objs with a commit of a patch, or of plain git, that has the parents ps.
AddsPlain(objs, last, ps, new) ==
  /\ Sound(new, last + 1) /\ Extends(objs, new)
  /\ last + 1 \in Nat /\ Plain(new, last + 1) /\ new[last + 1].parents = ps

\* A commit of a patch, or of plain git, is added.
LEMMA WritePlain ==
  ASSUME NEW objs, NEW last, Sound(objs, last), NEW ps, PlainList(objs, ps), NEW cs,
         cs = <<Commit(ps, NoTree)>>
  PROVE  AddsPlain(objs, last, ps, Written(objs, last, cs))
<1> USE DEF PlainList
<1>0. PICK new : new = Written(objs, last, cs)
  OBVIOUS
<1>1. PICK c : cs = <<c>> /\ c = Commit(ps, NoTree)
  OBVIOUS
<1>2. c \in Commits /\ c.parents = ps /\ c.tree = NoTree
  BY <1>1, NoTreeType DEF Commit, Commits
<1>3. cs \in Seq(Commits) /\ Len(cs) = 1 /\ cs[1] = c
  BY <1>1, <1>2
<1>4. Adds(objs, last, cs, new) /\ last \in Nat
  BY <1>0, <1>3, WrittenFacts DEF Sound
<1>5. Extends(objs, new) /\ last + 1 \in DOMAIN new /\ new[last + 1] = c
  BY <1>3, <1>4 DEF Adds
<1>6. ASSUME NEW k \in 1..Len(cs)
      PROVE  /\ cs[k].tree.prev < last + k
             /\ \A j \in ToSet(cs[k].parents) :
                  /\ j \in DOMAIN new /\ j < last + k
                  /\ cs[k].tree = NoTree => new[j].tree = NoTree
  <2>1. k = 1 /\ cs[k] = c /\ c.tree.prev = 0
    BY <1>2, <1>3, NoTreeType
  <2>2. ASSUME NEW j \in ToSet(ps) PROVE j \in DOMAIN new /\ j < last + 1 /\ new[j].tree = NoTree
    <3>1. j \in DOMAIN objs /\ objs[j].tree = NoTree
      BY DEF Plain
    <3>2. j \in 1..last
      BY <3>1 DEF Sound
    <3> QED BY <1>4, <1>5, <3>1, <3>2 DEF Extends
  <2>3. cs[k].tree.prev < last + k
    BY <1>4, <2>1
  <2>4. cs[k].parents = ps
    BY <1>2, <2>1
  <2> QED BY <2>1, <2>2, <2>3, <2>4
<1>7. Sound(new, last + Len(cs))
  BY <1>3, <1>4, <1>6, WrittenSound
<1> QED BY <1>0, <1>2, <1>3, <1>4, <1>5, <1>7 DEF Plain, AddsPlain
-----------------------------------------------------------------------------
(* StackState::commit. *)

\* A state that can be written: it is good, and the state before it is in the log.
Writable(objs, F, s) == Good(objs, s) /\ (s.prev = None \/ s.prev \in F)

\* A state commit is no commit of a patch.
LEMMA StatesAreNoPatches ==
  ASSUME NEW objs, NEW last, Sound(objs, last), NEW s, Good(objs, s)
  PROVE  s # NoTree /\ s.head \in Nat \ {0}
<1>1. s.head \in DOMAIN objs
  BY DEF Good, Plain
<1>2. s.head \in Nat \ {0}
  BY <1>1 DEF Sound
<1> QED BY <1>2, NoTreeType

\* The commits of the patches in a list.
LEMMA ListedCommits ==
  ASSUME NEW objs, NEW last, Sound(objs, last), NEW s, Good(objs, s),
         NEW l \in Seq(Names)
  PROVE  /\ CommitsOf(s, l) \in Seq(Nat)
         /\ ToSet(CommitsOf(s, l)) = {s.patches[n] : n \in ToSet(l)}
<1>0. PICK r : r = CommitsOf(s, l)
  OBVIOUS
<1>1. \A i \in 1..Len(l) : l[i] \in ToSet(l) /\ l[i] \in Names
  BY ToSetIff
<1>2. s.patches \in [Names -> Nat]
  BY DEF Good, Trees
<1>3. r \in Seq(Nat) /\ Len(r) = Len(l) /\ \A i \in 1..Len(l) : r[i] = s.patches[l[i]]
  BY <1>0, <1>1, <1>2 DEF CommitsOf
<1>4. ASSUME NEW x \in ToSet(r) PROVE x \in {s.patches[n] : n \in ToSet(l)}
  <2>1. PICK i \in 1..Len(l) : r[i] = x
    BY <1>3, ToSetIff
  <2> QED BY <1>1, <1>3, <2>1
<1>5. ASSUME NEW n \in ToSet(l) PROVE s.patches[n] \in ToSet(r)
  <2>1. PICK i \in 1..Len(l) : l[i] = n
    BY ToSetIff
  <2> QED BY <1>3, <2>1, ToSetIff
<1> QED BY <1>0, <1>3, <1>4, <1>5

\* What the removed parents are: the commits of the state before.
LEMMA AllPatchesSet ==
  ASSUME NEW s \in Trees
  PROVE  ToSet(AllPatches(s)) = Listed(s)
<1>1. PICK a, b, c : a = s.applied /\ b = s.unapplied /\ c = s.hidden
  OBVIOUS
<1>2. a \in Seq(Names) /\ b \in Seq(Names) /\ c \in Seq(Names)
  BY <1>1 DEF Trees
<1>3. PICK d : d = a \o b
  OBVIOUS
<1>4. d \in Seq(Names) /\ ToSet(d) = ToSet(a) \cup ToSet(b)
  BY <1>2, <1>3, ConcatSet
<1>5. ToSet(d \o c) = ToSet(d) \cup ToSet(c)
  BY <1>2, <1>4, ConcatSet
<1> QED BY <1>1, <1>3, <1>4, <1>5 DEF AllPatches, Listed

\* The parents of a state commit are there; the state before is among them, and
\* what is named but is not a patch commit of that one.
LEMMA ParentListFacts ==
  ASSUME NEW objs, NEW last, Sound(objs, last), NEW F, LogOK(objs, F), NEW s, Writable(objs, F, s),
         NEW ps, ps = ParentList(objs, s)
  PROVE  /\ ps \in Seq(Nat) /\ ToSet(ps) \subseteq DOMAIN objs
         /\ s.prev # None => s.prev \in ToSet(ps)
         /\ \A x : ( \/ x = s.head \/ x = Top(s)
                     \/ \E n \in ToSet(s.unapplied) \cup ToSet(s.hidden) : x = s.patches[n] )
                   => \/ x \in ToSet(ps)
                      \/ /\ s.prev # None
                         /\ \E n \in Listed(objs[s.prev].tree) : x = objs[s.prev].tree.patches[n]
<1>1. Good(objs, s) /\ s \in Trees /\ s.unapplied \in Seq(Names) /\ s.hidden \in Seq(Names)
  BY DEF Writable, Good, Trees
<1>2. PICK u, h, v, ht, top :
        /\ u = CommitsOf(s, s.unapplied) /\ h = CommitsOf(s, s.hidden)
        /\ v = PrevList(s) /\ top = Top(s) /\ ht = <<s.head, top>>
  OBVIOUS
<1>3. u \in Seq(Nat) /\ ToSet(u) = {s.patches[n] : n \in ToSet(s.unapplied)}
  BY <1>1, <1>2, ListedCommits
<1>4. h \in Seq(Nat) /\ ToSet(h) = {s.patches[n] : n \in ToSet(s.hidden)}
  BY <1>1, <1>2, ListedCommits
<1>5. top \in DOMAIN objs /\ s.head \in DOMAIN objs /\ top \in Nat /\ s.head \in Nat
  <2>1. top \in DOMAIN objs /\ s.head \in DOMAIN objs
    BY <1>1, <1>2, TopGood DEF Good, Plain
  <2> QED BY <2>1, SoundTypes
<1>6. ht \in Seq(Nat) /\ ToSet(ht) = {s.head, top}
  <2>1. ht \in Seq(Nat) /\ Len(ht) = 2 /\ ht[1] = s.head /\ ht[2] = top
    BY <1>2, <1>5
  <2>2. \A x : x \in ToSet(ht) <=> \E i \in 1..2 : ht[i] = x
    BY <2>1, ToSetIff
  <2>3. \A i \in 1..2 : i = 1 \/ i = 2
    OBVIOUS
  <2> QED BY <2>1, <2>2, <2>3
<1>7. s.prev \in Nat /\ s.prev # None => s.prev \in F /\ s.prev \in DOMAIN objs /\ Good(objs, objs[s.prev].tree)
  BY <1>1 DEF Writable, LogOK, Full, Trees
<1>8. v \in Seq(Nat) /\ ToSet(v) = IF s.prev = None THEN {} ELSE {s.prev}
  <2>1. s.prev \in Nat
    BY <1>1 DEF Trees
  <2> QED BY <1>2, <2>1, NoneSet, OneSet DEF PrevList
<1>9. PICK l, out :
        /\ l = ht \o u \o h \o v
        /\ out = IF s.prev = None THEN {}
                 ELSE {objs[s.prev].tree.patches[n] : n \in ToSet(AllPatches(objs[s.prev].tree))}
  OBVIOUS
<1>10. l \in Seq(Nat) /\ ToSet(l) = ToSet(ht) \cup ToSet(u) \cup ToSet(h) \cup ToSet(v)
  <2>1. PICK l1 : l1 = ht \o u
    OBVIOUS
  <2>2. l1 \in Seq(Nat) /\ ToSet(l1) = ToSet(ht) \cup ToSet(u)
    BY <1>3, <1>6, <2>1, ConcatSet
  <2>3. PICK l2 : l2 = l1 \o h
    OBVIOUS
  <2>4. l2 \in Seq(Nat) /\ ToSet(l2) = ToSet(l1) \cup ToSet(h)
    BY <1>4, <2>2, <2>3, ConcatSet
  <2>5. l2 \o v \in Seq(Nat) /\ ToSet(l2 \o v) = ToSet(l2) \cup ToSet(v)
    BY <1>8, <2>4, ConcatSet
  <2>6. l = l2 \o v
    BY <1>9, <2>1, <2>3
  <2> QED BY <2>2, <2>4, <2>5, <2>6
<1>11. ps = IndexSet(l, out)
  BY <1>2, <1>9 DEF ParentList
<1>12. ps \in Seq(Nat) /\ ToSet(ps) = ToSet(l) \ out
  BY <1>10, <1>11, IndexSetFacts
<1>13. ToSet(l) \subseteq DOMAIN objs
  <2>1. \A n \in ToSet(s.unapplied) \cup ToSet(s.hidden) : s.patches[n] \in DOMAIN objs
    BY <1>1 DEF Good, Listed, IsPatch, Plain
  <2>2. s.prev # None => s.prev \in DOMAIN objs
    BY <1>7, <1>1 DEF Trees
  <2> QED BY <1>3, <1>4, <1>5, <1>6, <1>8, <1>10, <2>1, <2>2
<1>14. s.prev # None => /\ out = {objs[s.prev].tree.patches[n] : n \in Listed(objs[s.prev].tree)}
                        /\ s.prev \notin out
  <2>1. SUFFICES ASSUME s.prev # None
                 PROVE  /\ out = {objs[s.prev].tree.patches[n] : n \in Listed(objs[s.prev].tree)}
                        /\ s.prev \notin out
    OBVIOUS
  <2>2. PICK b : b = objs[s.prev].tree
    OBVIOUS
  <2>3. Good(objs, b) /\ b \in Trees
    BY <1>1, <1>7, <2>1, <2>2 DEF Good, Trees
  <2>4. out = {b.patches[n] : n \in Listed(b)}
    BY <1>9, <2>1, <2>2, <2>3, AllPatchesSet
  <2>5. \A x \in out : objs[x].tree = NoTree
    BY <2>3, <2>4 DEF Good, IsPatch, Plain
  <2>6. b # NoTree
    BY <2>3, StatesAreNoPatches
  <2> QED BY <2>2, <2>4, <2>5, <2>6
<1>15. s.prev # None => s.prev \in ToSet(ps)
  BY <1>8, <1>10, <1>12, <1>14
<1>16. ASSUME NEW x, \/ x = s.head \/ x = Top(s)
                     \/ \E n \in ToSet(s.unapplied) \cup ToSet(s.hidden) : x = s.patches[n]
       PROVE  \/ x \in ToSet(ps)
              \/ /\ s.prev # None
                 /\ \E n \in Listed(objs[s.prev].tree) : x = objs[s.prev].tree.patches[n]
  <2>1. x \in ToSet(l)
    BY <1>2, <1>3, <1>4, <1>6, <1>10, <1>16
  <2>2. CASE s.prev = None
    BY <1>9, <1>12, <2>1, <2>2
  <2>3. CASE s.prev # None
    BY <1>12, <1>14, <2>1, <2>3
  <2> QED BY <2>2, <2>3
<1> QED BY <1>12, <1>13, <1>15, <1>16

\* The commits cs are the simplified entry with the parents e, g groups of the
\* bundling b, and the state commit with the parents l.
Layout(objs, last, s, cs, b, g, e, l) ==
  /\ Bundled(ParentList(objs, s), last + 2, b) /\ g = Len(b.groups)
  /\ cs \in Seq(Commits) /\ Len(cs) = g + 2
  /\ cs[1] = Commit(e, s)
  /\ e = IF s.prev = None THEN <<>> ELSE <<objs[s.prev].parents[1]>>
  /\ \A k \in 1..g : b.groups[k] \in Seq(Nat) /\ cs[k + 1] = Commit(b.groups[k], s)
  /\ cs[g + 2] = Commit(l, s) /\ l[1] = last + 1 /\ Len(l) >= 1
  /\ ToSet(l) = {last + 1} \cup ToSet(b.list)

\* What commit() writes: the simplified entry, the groups, the state commit.
LEMMA StateCommitsAre ==
  ASSUME NEW objs, NEW last, Sound(objs, last), NEW F, LogOK(objs, F), NEW s, Writable(objs, F, s)
  PROVE  \E b \in Bundles, g \in Nat, e \in Seq(Nat), l \in Seq(Nat) :
           Layout(objs, last, s, StateCommits(objs, last + 1, s), b, g, e, l)
<1>1. last \in Nat /\ s \in Trees
  BY DEF Sound, Writable, Good
<1>2. PICK ps, b, g : ps = ParentList(objs, s) /\ b = Bundle(ps, last + 2) /\ g = Len(b.groups)
  OBVIOUS
<1>3. ps \in Seq(Nat)
  BY <1>2, ParentListFacts
<1>4. Bundled(ps, last + 2, b)
  BY <1>1, <1>2, <1>3, BundleFacts
<1>5. b \in Bundles /\ b.groups \in Seq(Seq(Nat)) /\ b.list \in Seq(Nat) /\ g \in Nat
  BY <1>2, <1>4 DEF Bundled, Bundles
<1>6. PICK e, l, one, gs, tail :
        /\ e = IF s.prev = None THEN <<>> ELSE <<objs[s.prev].parents[1]>>
        /\ l = <<last + 1>> \o b.list
        /\ one = <<Commit(e, s)>> /\ gs = [k \in 1..g |-> Commit(b.groups[k], s)]
        /\ tail = <<Commit(l, s)>>
  OBVIOUS
<1>7. e \in Seq(Nat)
  <2>1. ASSUME s.prev # None PROVE objs[s.prev].parents[1] \in Nat
    <3>1. s.prev \in F /\ objs[s.prev].parents[1] \in DOMAIN objs
      BY <2>1 DEF Writable, LogOK, Full
    <3> QED BY <3>1, SoundTypes
  <2> QED BY <1>6, <2>1, NoneSet, OneSet
<1>8. l \in Seq(Nat) /\ l[1] = last + 1 /\ Len(l) >= 1 /\ ToSet(l) = {last + 1} \cup ToSet(b.list)
  <2>1. PICK o : o = <<last + 1>>
    OBVIOUS
  <2>2. o \in Seq(Nat) /\ Len(o) = 1 /\ o[1] = last + 1
    BY <1>1, <2>1
  <2>3. ToSet(o) = {last + 1}
    BY <1>1, <2>1, OneSet
  <2>4. l = o \o b.list
    BY <1>6, <2>1
  <2>5. l \in Seq(Nat) /\ ToSet(l) = ToSet(o) \cup ToSet(b.list)
    <3>1. o \in Seq(Nat)
      BY <2>2
    <3> QED BY <1>5, <2>4, <3>1, ConcatSet
  <2>6. Len(l) = Len(o) + Len(b.list) /\ Len(b.list) \in Nat /\ \A i \in 1..Len(o) : l[i] = o[i]
    <3>1. o \in Seq(Nat)
      BY <2>2
    <3> QED BY <1>5, <2>4, <3>1, ConcatIndex
  <2> QED BY <2>2, <2>3, <2>5, <2>6
<1>9. Commit(e, s) \in Commits /\ Commit(l, s) \in Commits /\ \A k \in 1..g : Commit(b.groups[k], s) \in Commits
  <2>1. \A k \in 1..g : b.groups[k] \in Seq(Nat)
    BY <1>2, <1>5
  <2> QED BY <1>1, <1>7, <1>8, <2>1 DEF Commit, Commits
<1>10. one \in Seq(Commits) /\ Len(one) = 1 /\ one[1] = Commit(e, s)
  BY <1>6, <1>9
<1>11. tail \in Seq(Commits) /\ Len(tail) = 1 /\ tail[1] = Commit(l, s)
  BY <1>6, <1>9
<1>12. gs \in Seq(Commits) /\ Len(gs) = g /\ \A k \in 1..g : gs[k] = Commit(b.groups[k], s)
  BY <1>5, <1>6, <1>9
<1>13. PICK c1, cs : c1 = one \o gs /\ cs = c1 \o tail
  OBVIOUS
<1>14. cs = StateCommits(objs, last + 1, s)
  <2>1. (last + 1) + 1 = last + 2
    BY <1>1
  <2> QED BY <1>2, <1>6, <1>13, <2>1 DEF StateCommits
<1>15. /\ c1 \in Seq(Commits) /\ Len(c1) = Len(one) + Len(gs)
       /\ \A i \in 1..Len(one) : c1[i] = one[i]
       /\ \A i \in 1..Len(gs) : c1[Len(one) + i] = gs[i]
  <2>1. one \in Seq(Commits) /\ gs \in Seq(Commits) /\ c1 = one \o gs
    BY <1>10, <1>12, <1>13
  <2> QED BY <2>1, ConcatIndex
<1>16. /\ cs \in Seq(Commits) /\ Len(cs) = Len(c1) + Len(tail)
       /\ \A i \in 1..Len(c1) : cs[i] = c1[i]
       /\ \A i \in 1..Len(tail) : cs[Len(c1) + i] = tail[i]
  <2>1. c1 \in Seq(Commits) /\ tail \in Seq(Commits) /\ cs = c1 \o tail
    BY <1>11, <1>13, <1>15
  <2> QED BY <2>1, ConcatIndex
<1>17. Len(c1) = g + 1 /\ Len(cs) = g + 2
  BY <1>5, <1>10, <1>11, <1>12, <1>15, <1>16
<1>18. cs[1] = Commit(e, s)
  <2>1. 1 \in 1..Len(one) /\ 1 \in 1..Len(c1)
    BY <1>5, <1>10, <1>17
  <2> QED BY <1>10, <1>15, <1>16, <2>1
<1>19. ASSUME NEW k \in 1..g PROVE b.groups[k] \in Seq(Nat) /\ cs[k + 1] = Commit(b.groups[k], s)
  <2>1. k \in 1..Len(gs) /\ Len(one) + k = k + 1 /\ k + 1 \in 1..Len(c1)
    BY <1>5, <1>10, <1>12, <1>17
  <2>2. cs[k + 1] = c1[k + 1] /\ c1[k + 1] = gs[k]
    BY <1>15, <1>16, <2>1
  <2> QED BY <1>2, <1>5, <1>12, <2>2
<1>20. cs[g + 2] = Commit(l, s)
  <2>1. 1 \in 1..Len(tail) /\ Len(c1) + 1 = g + 2
    BY <1>5, <1>11, <1>17
  <2>2. cs[Len(c1) + 1] = tail[1]
    BY <1>16, <2>1
  <2> QED BY <1>11, <2>1, <2>2
<1>21. Layout(objs, last, s, cs, b, g, e, l)
  BY <1>2, <1>4, <1>6, <1>8, <1>16, <1>17, <1>18, <1>19, <1>20 DEF Layout
<1> QED BY <1>5, <1>7, <1>8, <1>14, <1>21

\* Below a kept topmost patch all applied patches are kept.
LEMMA AppliedKept ==
  ASSUME NEW objs, NEW last, Sound(objs, last), NEW s, Good(objs, s), NEW i, Keeps(objs, i, Top(s)),
         NEW n \in ToSet(s.applied)
  PROVE  Keeps(objs, i, s.patches[n])
<1>1. PICK a, l : a = s.applied /\ l = Len(a)
  OBVIOUS
<1>2. a \in Seq(Names) /\ l \in Nat
  BY <1>1 DEF Good, Trees
<1>3. PICK k \in 1..l : a[k] = n
  BY <1>1, <1>2, ToSetIff
<1>4. PICK D : D = {j \in 0..(l - 1) : Keeps(objs, i, s.patches[a[l - j]])}
  OBVIOUS
<1>5. 0 \in D
  <2>1. a # <<>> /\ l >= 1 /\ l - 0 = l
    BY <1>1, <1>2, <1>3
  <2>2. Top(s) = s.patches[a[l]]
    BY <1>1, <2>1, TopGood
  <2>3. 0 \in 0..(l - 1)
    BY <1>2, <2>1
  <2>4. Keeps(objs, i, s.patches[a[l - 0]])
    BY <2>1, <2>2
  <2> QED BY <1>4, <2>3, <2>4
<1>6. ASSUME NEW j \in 0..((l - 1) - 1), j \in D PROVE j + 1 \in D
  <2>1. PICK m : m = l - (j + 1)
    OBVIOUS
  <2>2. m \in 1..(l - 1) /\ m + 1 = l - j /\ m + 1 \in 1..l /\ m \in 1..l /\ j + 1 \in 0..(l - 1)
    BY <1>2, <2>1
  <2>3. PICK x, y : x = s.patches[a[m + 1]] /\ y = s.patches[a[m]]
    OBVIOUS
  <2>4. Keeps(objs, i, x)
    BY <1>4, <1>6, <2>2, <2>3
  <2>5. objs[x].parents = <<y>>
    BY <1>1, <2>2, <2>3 DEF Good, Stacked
  <2>6. x \in DOMAIN objs /\ objs[x].parents \in Seq(Nat)
    <3>1. a[m + 1] \in Listed(s)
      BY <1>1, <1>2, <2>2, ToSetIff DEF Listed
    <3>2. x \in DOMAIN objs
      BY <2>3, <3>1 DEF Good, IsPatch, Plain
    <3> QED BY <3>2, SoundTypes
  <2>7. y \in ToSet(objs[x].parents)
    BY <2>5 DEF ToSet
  <2>8. Keeps(objs, i, y)
    BY <2>4, <2>6, <2>7, KeepsParents, KeepsTrans
  <2> QED BY <1>4, <2>1, <2>2, <2>3, <2>8
<1>7. \A j \in 0..(l - 1) : j \in D
  <2>1. l - 1 \in Nat
    BY <1>2, <1>3
  <2> QED BY <1>5, <1>6, <2>1, UpTo
<1>8. l - k \in 0..(l - 1) /\ l - (l - k) = k
  BY <1>2, <1>3
<1> QED BY <1>3, <1>4, <1>7, <1>8
\* What writing the state s does: there is a new state commit, with the highest
\* id, that belongs to the log.
Wrote(objs, last, F, s, new, id) ==
  /\ Sound(new, id) /\ Extends(objs, new)
  /\ id \in Nat /\ id > last /\ id \in DOMAIN new /\ new[id].tree = s
  /\ LogOK(new, F \cup {id})

\* commit() adds a state to the log.
LEMMA StateWritten ==
  ASSUME NEW objs, NEW last, Sound(objs, last), NEW F, LogOK(objs, F), NEW s, Writable(objs, F, s)
  PROVE  LET cs == StateCommits(objs, last + 1, s)
         IN  Wrote(objs, last, F, s, Written(objs, last, cs), last + Len(cs))
<1>1. PICK ps, cs : ps = ParentList(objs, s) /\ cs = StateCommits(objs, last + 1, s)
  OBVIOUS
<1>0. PICK b \in Bundles, g \in Nat, e \in Seq(Nat), l \in Seq(Nat) :
        Layout(objs, last, s, cs, b, g, e, l)
  BY <1>1, StateCommitsAre
<1>2. /\ Bundled(ps, last + 2, b) /\ g = Len(b.groups)
      /\ cs \in Seq(Commits) /\ Len(cs) = g + 2
      /\ cs[1] = Commit(e, s)
      /\ e = IF s.prev = None THEN <<>> ELSE <<objs[s.prev].parents[1]>>
      /\ \A k \in 1..g : b.groups[k] \in Seq(Nat) /\ cs[k + 1] = Commit(b.groups[k], s)
      /\ cs[g + 2] = Commit(l, s) /\ l[1] = last + 1 /\ Len(l) >= 1
      /\ ToSet(l) = {last + 1} \cup ToSet(b.list)
  BY <1>0, <1>1 DEF Layout
<1>3. PICK new, id : new = Written(objs, last, cs) /\ id = last + g + 2
  OBVIOUS
<1>a. /\ cs \in Seq(Commits) /\ Len(cs) = g + 2 /\ g \in Nat /\ g = Len(b.groups)
      /\ \A m \in 1..g : cs[m + 1] = Commit(b.groups[m], s)
  BY <1>2
<1>4. Adds(objs, last, cs, new) /\ last \in Nat
  BY <1>a, <1>3, WrittenFacts DEF Sound
<1>5. /\ Extends(objs, new)
      /\ \A k \in 1..(g + 2) : last + k \in DOMAIN new /\ new[last + k] = cs[k]
  BY <1>2, <1>4 DEF Adds
<1>6. /\ last + 1 \in DOMAIN new /\ new[last + 1] = Commit(e, s)
      /\ id \in DOMAIN new /\ new[id] = Commit(l, s) /\ id \in Nat /\ id > last
      /\ \A k \in 1..g : last + 1 + k \in DOMAIN new /\ new[last + 1 + k] = Commit(b.groups[k], s)
  <2>1. 1 \in 1..(g + 2) /\ g + 2 \in 1..(g + 2) /\ last + (g + 2) = id /\ id \in Nat /\ id > last
    BY <1>2, <1>3, <1>4
  <2>2. ASSUME NEW k \in 1..g
        PROVE  last + 1 + k \in DOMAIN new /\ new[last + 1 + k] = Commit(b.groups[k], s)
    <3>1. k + 1 \in 1..(g + 2) /\ last + (k + 1) = last + 1 + k
      BY <1>2, <1>4
    <3> QED BY <1>2, <1>5, <3>1
  <2> QED BY <1>2, <1>5, <2>1, <2>2
<1>7. /\ ps \in Seq(Nat) /\ ToSet(ps) \subseteq DOMAIN objs
      /\ s.prev # None => s.prev \in ToSet(ps)
  BY <1>1, ParentListFacts
<1>8. Good(objs, s) /\ s \in Trees /\ s # NoTree /\ s.prev \in Nat
  BY StatesAreNoPatches DEF Writable, Good, Trees
<1>9. \A j \in ToSet(ps) : j \in DOMAIN new /\ j \in Nat /\ j <= last
  BY <1>5, <1>7, SoundTypes DEF Extends
<1>10. \A k \in 1..(g + 2) : cs[k].tree = s /\ s.prev < last + k
  <2>1. s.prev <= last
    BY <1>4, <1>7, <1>8, <1>9 DEF None
  <2>2. ASSUME NEW k \in 1..(g + 2) PROVE cs[k].tree = s
    <3>1. k = 1 \/ k = g + 2 \/ k - 1 \in 1..g
      BY <1>2
    <3>2. CASE k = 1
      BY <1>2, <3>2 DEF Commit
    <3>3. CASE k = g + 2
      BY <1>2, <3>3 DEF Commit
    <3>4. CASE k - 1 \in 1..g
      <4>1. PICK m \in 1..g : k = m + 1
        BY <3>4
      <4>2. cs[k] = Commit(b.groups[m], s)
        BY <1>a, <4>1
      <4> QED BY <4>2 DEF Commit
    <3> QED BY <3>1, <3>2, <3>3, <3>4
  <2> QED BY <1>4, <1>8, <2>1, <2>2
<1>11. ASSUME NEW k \in 1..(g + 2), NEW j \in ToSet(cs[k].parents)
       PROVE  j \in DOMAIN new /\ j < last + k
  <2>1. CASE k = 1
    <3>1. cs[k].parents = e /\ s.prev # None
      BY <1>2, <1>11, <2>1, NoneSet DEF Commit
    <3>2. objs[s.prev].parents[1] \in DOMAIN objs
      BY <3>1 DEF Writable, LogOK, Full
    <3>3. j = objs[s.prev].parents[1]
      BY <1>2, <1>11, <3>1, <3>2, OneSet
    <3>4. j \in 1..last
      BY <3>2, <3>3, SoundTypes
    <3> QED BY <1>4, <1>5, <2>1, <3>2, <3>3, <3>4 DEF Extends
  <2>2. CASE k = g + 2
    <3>1. j = last + 1 \/ j \in ToSet(b.list)
      BY <1>2, <1>11, <2>2 DEF Commit
    <3>2. ASSUME j \in ToSet(b.list) PROVE j \in ToSet(ps) \/ j \in (last + 2)..(last + 2 + g - 1)
      BY <1>2, <3>2 DEF Bundled
    <3>3. ASSUME j \in (last + 2)..(last + 2 + g - 1) PROVE j \in DOMAIN new /\ j < last + k
      <4>1. PICK m \in 1..g : j = last + 1 + m
        <5>1. PICK m : m = j - (last + 1)
          OBVIOUS
        <5>2. g \in Nat /\ last \in Nat
          BY <1>4
        <5>3. m \in 1..g /\ j = last + 1 + m
          BY <3>3, <5>1, <5>2
        <5> QED BY <5>3
      <4> QED BY <1>4, <1>6, <2>2, <4>1
    <3> QED BY <1>4, <1>6, <1>9, <2>2, <3>1, <3>2, <3>3
  <2>3. CASE k - 1 \in 1..g
    <3>1. PICK m \in 1..g : k = m + 1
      <4>1. (k - 1) + 1 = k
        OBVIOUS
      <4> QED BY <2>3, <4>1
    <3>2. cs[k].parents = b.groups[m]
      <4>1. cs[k] = Commit(b.groups[m], s)
        BY <1>a, <3>1
      <4> QED BY <4>1 DEF Commit
    <3>3. j \in ToSet(ps) \/ j \in (last + 2)..(last + 2 + m - 2)
      BY <1>2, <1>11, <3>1, <3>2 DEF Bundled
    <3>4. ASSUME j \in (last + 2)..(last + 2 + m - 2) PROVE j \in DOMAIN new /\ j < last + k
      <4>1. PICK q \in 1..g : j = last + 1 + q /\ q < m
        <5>1. PICK q : q = j - (last + 1)
          OBVIOUS
        <5>2. g \in Nat /\ last \in Nat /\ m \in 1..g
          BY <1>4, <3>1
        <5>3. q \in 1..g /\ j = last + 1 + q /\ q < m
          BY <3>4, <5>1, <5>2
        <5> QED BY <5>3
      <4>2. j \in DOMAIN new
        BY <1>6, <4>1
      <4>3. j < last + k
        BY <1>4, <3>1, <4>1
      <4> QED BY <4>2, <4>3
    <3> QED BY <1>4, <1>9, <3>1, <3>3, <3>4
  <2>4. k = 1 \/ k = g + 2 \/ k - 1 \in 1..g
    BY <1>2
  <2> QED BY <2>1, <2>2, <2>3, <2>4
<1>12. Sound(new, id)
  <2>1. \A k \in 1..Len(cs) :
          /\ cs[k].tree.prev < last + k
          /\ \A j \in ToSet(cs[k].parents) :
               /\ j \in DOMAIN new /\ j < last + k
               /\ cs[k].tree = NoTree => new[j].tree = NoTree
    BY <1>2, <1>8, <1>10, <1>11
  <2>2. Sound(new, last + Len(cs))
    BY <1>2, <1>4, <2>1, WrittenSound
  <2>3. last + Len(cs) = id
    BY <1>2, <1>3, <1>4
  <2> QED BY <2>2, <2>3
<1>13. ASSUME NEW x \in ToSet(ps) PROVE Keeps(new, id, x)
  <2>1. SUFFICES ASSUME NEW S \in SUBSET Nat, id \in S, Closed(new, S) PROVE x \in S
    BY DEF Keeps
  <2>2. ToSet(b.list) \subseteq S
    <3>1. new[id].parents = l /\ id \in DOMAIN new
      BY <1>6 DEF Commit
    <3>2. ToSet(l) \subseteq S
      BY <2>1, <3>1 DEF Closed
    <3> QED BY <1>2, <3>2
  <2>3. ASSUME NEW k \in 1..g, (last + 2) + k - 1 \in S PROVE ToSet(b.groups[k]) \subseteq S
    <3>1. (last + 2) + k - 1 = last + 1 + k
      BY <1>4
    <3>a. new[last + 1 + k] = Commit(b.groups[k], s)
      BY <1>6
    <3>b. new[last + 1 + k].parents = b.groups[k]
      BY <3>a DEF Commit
    <3>2. last + 1 + k \in S /\ last + 1 + k \in DOMAIN new /\ new[last + 1 + k].parents = b.groups[k]
      BY <1>6, <2>3, <3>1, <3>b
    <3> QED BY <2>1, <3>2 DEF Closed
  <2> QED BY <1>2, <2>2, <2>3 DEF Bundled
<1>14. s.prev # None => s.prev \in F /\ Keeps(new, id, s.prev)
  BY <1>7, <1>13 DEF Writable
<1>15. ASSUME NEW x, \/ x = s.head \/ x = Top(s)
                     \/ \E n \in ToSet(s.unapplied) \cup ToSet(s.hidden) : x = s.patches[n]
       PROVE  Keeps(new, id, x)
  <2>1. \/ x \in ToSet(ps)
        \/ s.prev # None /\ \E n \in Listed(objs[s.prev].tree) : x = objs[s.prev].tree.patches[n]
    BY <1>1, <1>15, ParentListFacts
  <2>2. ASSUME s.prev # None, NEW n \in Listed(objs[s.prev].tree), x = objs[s.prev].tree.patches[n]
        PROVE  Keeps(new, id, x)
    <3>1. Keeps(objs, s.prev, x)
      BY <1>14, <2>2 DEF LogOK, Full
    <3>2. Keeps(new, s.prev, x)
      BY <1>5, <3>1, ExtendsKeeps
    <3> QED BY <1>14, <2>2, <3>2, KeepsTrans
  <2> QED BY <1>13, <2>1, <2>2
<1>16. Good(new, s)
  BY <1>5, <1>8, ExtendsGood
<1>17. ASSUME NEW n \in Listed(s) PROVE Keeps(new, id, s.patches[n])
  <2>1. CASE n \in ToSet(s.applied)
    BY <1>12, <1>15, <1>16, <2>1, AppliedKept
  <2>2. CASE n \in ToSet(s.unapplied) \cup ToSet(s.hidden)
    BY <1>15, <2>2
  <2> QED BY <1>17, <2>1, <2>2 DEF Listed
<1>18. Full(new, F \cup {id}, id)
  <2>1. new[id].tree = s /\ new[id].parents = l /\ l[1] = last + 1 /\ l[1] \in ToSet(l)
    BY <1>2, <1>6 DEF Commit
  <2>2. new[last + 1].tree = s /\ new[last + 1].parents = e
    BY <1>6 DEF Commit
  <2>3. s.prev # None => s.prev \in DOMAIN objs /\ new[s.prev] = objs[s.prev]
    BY <1>5, <1>7 DEF Extends
  <2>4. e = IF s.prev = None THEN <<>> ELSE <<new[s.prev].parents[1]>>
    BY <1>2, <2>3
  <2>5. Keeps(new, id, s.head)
    BY <1>15
  <2>6. s.prev = None \/ (s.prev \in F \cup {id} /\ Keeps(new, id, s.prev))
    BY <1>14
  <2> QED BY <1>6, <1>16, <1>17, <2>1, <2>2, <2>4, <2>5, <2>6 DEF Full
<1>19. LogOK(new, F \cup {id})
  <2>1. \A i \in F : Full(new, F \cup {id}, i)
    BY <1>5, ExtendsLog
  <2> QED BY <1>18, <2>1 DEF LogOK
<1>20. last + Len(cs) = id /\ new[id].tree = s
  BY <1>2, <1>3, <1>4, <1>6 DEF Commit
<1> QED BY <1>1, <1>3, <1>5, <1>6, <1>12, <1>19, <1>20 DEF Wrote
-----------------------------------------------------------------------------
(* git gc. *)

\* The objects that are left when only those in K are kept.
Kept(objs, K) == [i \in K \cap DOMAIN objs |-> objs[i]]

\* What is kept alive by a kept object is kept alive by it afterwards.
LEMMA KeptKeeps ==
  ASSUME NEW objs, NEW K \in SUBSET Nat, Closed(objs, K), NEW i \in K, NEW x, Keeps(objs, i, x)
  PROVE  x \in K /\ Keeps(Kept(objs, K), i, x)
<1>1. x \in K
  BY DEF Keeps
<1>2. ASSUME NEW S \in SUBSET Nat, i \in S, Closed(Kept(objs, K), S) PROVE x \in S
  <2>1. PICK T : T = S \cap K
    OBVIOUS
  <2>2. T \in SUBSET Nat /\ i \in T
    BY <1>2, <2>1
  <2>3. Closed(objs, T)
    BY <1>2, <2>1 DEF Closed, Kept
  <2> QED BY <2>1, <2>2, <2>3 DEF Keeps
<1> QED BY <1>1, <1>2 DEF Keeps

\* A good state whose commits are kept stays good.
LEMMA KeptGood ==
  ASSUME NEW objs, NEW K \in SUBSET Nat, NEW s, Good(objs, s), s.head \in K,
         \A n \in Listed(s) : s.patches[n] \in K
  PROVE  Good(Kept(objs, K), s)
<1>1. s \in Trees /\ Split(s) /\ Plain(Kept(objs, K), s.head)
  BY DEF Good, Plain, Kept
<1>2. \A n \in Listed(s) : IsPatch(Kept(objs, K), s.patches[n])
                           /\ Kept(objs, K)[s.patches[n]] = objs[s.patches[n]]
  BY DEF Good, IsPatch, Plain, Kept
<1>3. ASSUME NEW k \in 1..(Len(s.applied) - 1)
      PROVE  Kept(objs, K)[s.patches[s.applied[k + 1]]].parents = <<s.patches[s.applied[k]]>>
  <2>1. s.applied \in Seq(Names) /\ k + 1 \in 1..Len(s.applied)
    BY <1>1 DEF Trees
  <2>2. s.applied[k + 1] \in Listed(s)
    BY <2>1, ToSetIff DEF Listed
  <2>3. Kept(objs, K)[s.patches[s.applied[k + 1]]] = objs[s.patches[s.applied[k + 1]]]
    BY <1>2, <2>2
  <2>4. objs[s.patches[s.applied[k + 1]]].parents = <<s.patches[s.applied[k]]>>
    BY DEF Good, Stacked
  <2> QED BY <2>3, <2>4
<1> QED BY <1>1, <1>2, <1>3 DEF Good, Stacked

\* A collection that keeps the parents of what it keeps leaves sound objects and
\* the part of the log that it keeps.
LEMMA Collects ==
  ASSUME NEW objs, NEW last, Sound(objs, last), NEW K \in SUBSET Nat, Closed(objs, K),
         NEW F \in SUBSET DOMAIN objs, LogOK(objs, F), NEW new, new = Kept(objs, K)
  PROVE  /\ Sound(new, last) /\ F \cap K \in SUBSET DOMAIN new /\ LogOK(new, F \cap K)
         /\ \A i \in K : Plain(objs, i) => Plain(new, i)
         /\ \A i \in F \cap K : \A x : InLog(objs, i, x) => InLog(new, i, x)
<1>1. DOMAIN new = K \cap DOMAIN objs /\ \A i \in K \cap DOMAIN objs : new[i] = objs[i]
  BY DEF Kept
<1>2. F \cap K \in SUBSET DOMAIN new
  BY <1>1
<1>3. Sound(new, last)
  <2>1. last \in Nat /\ DOMAIN new \subseteq 1..last
    BY <1>1 DEF Sound
  <2>2. ASSUME NEW i \in DOMAIN new
        PROVE  /\ new[i] \in Commits /\ new[i].tree.prev < i
               /\ \A j \in ToSet(new[i].parents) :
                    j \in DOMAIN new /\ j < i /\ (new[i].tree = NoTree => new[j].tree = NoTree)
    <3>1. i \in K /\ i \in DOMAIN objs /\ new[i] = objs[i]
      BY <1>1
    <3>2. new[i] \in Commits /\ new[i].tree.prev < i
      BY <3>1 DEF Sound
    <3>3. ASSUME NEW j \in ToSet(objs[i].parents)
          PROVE  j \in DOMAIN new /\ new[j] = objs[j] /\ j < i /\ (objs[i].tree = NoTree => objs[j].tree = NoTree)
      <4>1. j \in DOMAIN objs /\ j < i /\ (objs[i].tree = NoTree => objs[j].tree = NoTree)
        BY <3>1 DEF Sound
      <4>2. j \in K
        BY <3>1 DEF Closed
      <4> QED BY <1>1, <4>1, <4>2
    <3> QED BY <3>1, <3>2, <3>3
  <2> QED BY <2>1, <2>2 DEF Sound
<1>4. ASSUME NEW i \in F \cap K PROVE Full(new, F \cap K, i)
  <2>1. PICK s, e : s = objs[i].tree /\ e = objs[i].parents[1]
    OBVIOUS
  <2>2. Full(objs, F, i) /\ i \in DOMAIN objs
    BY DEF LogOK
  <2>3. i \in DOMAIN new /\ new[i] = objs[i]
    BY <1>1, <2>2
  <2>4. s.head \in K /\ Keeps(new, i, s.head)
    <3>1. Keeps(objs, i, s.head)
      BY <2>1, <2>2 DEF Full
    <3> QED BY <3>1, KeptKeeps
  <2>5. \A n \in Listed(s) : s.patches[n] \in K /\ Keeps(new, i, s.patches[n])
    <3>1. \A n \in Listed(s) : Keeps(objs, i, s.patches[n])
      BY <2>1, <2>2 DEF Full
    <3> QED BY <3>1, KeptKeeps
  <2>6. s.prev = None \/ (s.prev \in F \cap K /\ Keeps(new, i, s.prev))
    <3>1. s.prev = None \/ (s.prev \in F /\ Keeps(objs, i, s.prev))
      BY <2>1, <2>2 DEF Full
    <3> QED BY <3>1, KeptKeeps
  <2>7. Good(new, s)
    <3>1. Good(objs, s)
      BY <2>1, <2>2 DEF Full
    <3> QED BY <2>4, <2>5, <3>1, KeptGood
  <2>8. e \in ToSet(objs[i].parents) /\ e \in DOMAIN new /\ new[e] = objs[e]
    <3>1. e \in ToSet(objs[i].parents) /\ e \in DOMAIN objs
      BY <2>1, <2>2 DEF Full
    <3>2. e \in K
      BY <2>2, <3>1 DEF Closed
    <3> QED BY <1>1, <3>1, <3>2
  <2>9. s.prev # None => new[s.prev] = objs[s.prev]
    BY <1>1, <2>6
  <2>10. new[e].tree = s /\ new[e].parents = IF s.prev = None THEN <<>> ELSE <<new[s.prev].parents[1]>>
    BY <2>1, <2>2, <2>8, <2>9 DEF Full
  <2> QED BY <2>1, <2>3, <2>4, <2>5, <2>6, <2>7, <2>8, <2>10 DEF Full
<1>5. ASSUME NEW i \in K, Plain(objs, i) PROVE Plain(new, i)
  BY <1>1, <1>5 DEF Plain
<1>6. ASSUME NEW i \in F \cap K, NEW x, InLog(objs, i, x), NEW S \in SUBSET Nat, i \in S, PrevClosed(new, S)
      PROVE  x \in S
  <2>1. PICK T : T = S \cap (F \cap K)
    OBVIOUS
  <2>2. T \in SUBSET Nat /\ i \in T
    BY <1>6, <2>1
  <2>3. ASSUME NEW j \in T, objs[j].tree.prev # None PROVE objs[j].tree.prev \in T
    <3>1. objs[j].tree.prev \in F /\ Keeps(objs, j, objs[j].tree.prev)
      BY <2>1, <2>3 DEF LogOK, Full
    <3>2. objs[j].tree.prev \in K
      BY <2>1, <3>1 DEF Keeps
    <3>3. j \in DOMAIN new /\ new[j] = objs[j]
      BY <1>1, <2>1
    <3>4. objs[j].tree.prev \in S
      BY <1>6, <2>1, <2>3, <3>3 DEF PrevClosed
    <3> QED BY <2>1, <3>1, <3>2, <3>4
  <2>4. PrevClosed(objs, T)
    BY <2>3 DEF PrevClosed
  <2> QED BY <1>6, <2>1, <2>2, <2>4 DEF InLog
<1> QED BY <1>2, <1>3, <1>4, <1>5, <1>6 DEF LogOK, InLog
-----------------------------------------------------------------------------
(* The inductive invariant. *)

Fields == {"pc", "head", "state", "trans", "touched", "prev", "new", "todo", "seen", "alone"}

\* What a process has in memory can be worked with: a branch head, a state that
\* was read, a state that the closure arrived at, and a state commit of the log
\* whose predecessor is the one that it remembers.
ProcOK(objs, F, r) ==
  /\ r = [f \in Fields |-> r[f]]
  /\ r.pc # "idle" => Plain(objs, r.head)
  /\ r.pc \in {"ensure", "body", "clear", "log", "log edit", "execute", "edit", "writing"}
       => Good(objs, r.state)
  /\ r.pc \in {"log", "log edit", "execute", "edit", "writing"} => Good(objs, r.trans)
  /\ r.pc \in {"log edit", "edit", "writing"} => r.new \in F /\ objs[r.new].tree.prev = r.prev

\* F are the state commits that the log or a process may come back to.
OnLog(F) ==
  /\ F \in SUBSET DOMAIN objects /\ LogOK(objects, F) /\ stackRef \in F
  /\ \A p \in Procs : ProcOK(objects, F, proc[p])

\* p has still to write the stack reference, and holds its lock.
Holds(p) == proc[p].pc = "writing" /\ "stack" \in proc[p].todo

\* Only one process does.
Exclusive == \A p, q \in Procs : Holds(p) /\ Holds(q) => p = q

\* As long as a process has not written the stack reference, it is what the
\* process compared it with.
Owned == \A p \in Procs : Holds(p) => stackRef = proc[p].prev

Recorded == \A x \in logged : InLog(objects, stackRef, x)

Inv ==
  /\ Sound(objects, lastId) /\ Plain(objects, branch) /\ patchRefs \in [Names -> Nat]
  /\ proc = [p \in Procs |-> proc[p]]
  /\ \E F \in SUBSET DOMAIN objects : OnLog(F)
  /\ Exclusive /\ Owned /\ Recorded

\* b is a, except that it is not alone any more.
Same(a, b) ==
  /\ b.pc = a.pc /\ b.head = a.head /\ b.state = a.state /\ b.trans = a.trans
  /\ b.touched = a.touched /\ b.prev = a.prev /\ b.new = a.new /\ b.todo = a.todo
  /\ b.seen = a.seen /\ b.alone = FALSE

\* What another process has in memory stays what it is.
LEMMA OthersSame ==
  ASSUME NEW r, r = [f \in Fields |-> r[f]]
  PROVE  LET t == [r EXCEPT !.alone = FALSE]
         IN  Same(r, t) /\ t = [f \in Fields |-> t[f]]
BY DEF Same, Fields

\* What holds of a process while objects and logged states are added.
LEMMA ProcStays ==
  ASSUME NEW old, NEW new, Extends(old, new), NEW F, F \in SUBSET DOMAIN old, NEW G, F \subseteq G,
         NEW r, ProcOK(old, F, r), NEW t, Same(r, t), t = [f \in Fields |-> t[f]]
  PROVE  ProcOK(new, G, t)
<1>1. t.pc # "idle" => Plain(new, t.head)
  BY DEF ProcOK, Same, Plain, Extends
<1>2. t.pc \in {"ensure", "body", "clear", "log", "log edit", "execute", "edit", "writing"}
        => Good(new, t.state)
  BY ExtendsGood DEF ProcOK, Same
<1>3. t.pc \in {"log", "log edit", "execute", "edit", "writing"} => Good(new, t.trans)
  BY ExtendsGood DEF ProcOK, Same
<1>4. t.pc \in {"log edit", "edit", "writing"} => t.new \in G /\ new[t.new].tree.prev = t.prev
  BY DEF ProcOK, Same, Extends
<1> QED BY <1>1, <1>2, <1>3, <1>4 DEF ProcOK

\* The effect of Step.
LEMMA StepFacts ==
  ASSUME \A q \in Procs : proc[q] = [f \in Fields |-> proc[q][f]],
         NEW p \in Procs, NEW r, Step(p, r)
  PROVE  /\ proc' = [q \in Procs |-> proc'[q]] /\ proc'[p] = r
         /\ \A q \in Procs \ {p} : Same(proc[q], proc'[q]) /\ proc'[q] = [f \in Fields |-> proc'[q][f]]
<1>1. proc' = [q \in Procs |-> proc'[q]] /\ proc'[p] = r
  BY DEF Step
<1>2. ASSUME NEW q \in Procs \ {p}
      PROVE  Same(proc[q], proc'[q]) /\ proc'[q] = [f \in Fields |-> proc'[q][f]]
  <2>1. PICK a, t : a = proc[q] /\ t = [a EXCEPT !.alone = FALSE]
    OBVIOUS
  <2>2. proc'[q] = t
    BY <2>1 DEF Step
  <2>3. Same(a, t) /\ t = [f \in Fields |-> t[f]]
    BY <2>1, OthersSame
  <2> QED BY <2>1, <2>2, <2>3
<1> QED BY <1>1, <1>2

\* The part of the invariant about the log and the memory of the processes after
\* a step of p, when objects and state commits are only added.
LEMMA StepLog ==
  ASSUME NEW F, OnLog(F), NEW p \in Procs, NEW r, Step(p, r), Extends(objects, objects'),
         NEW G \in SUBSET DOMAIN objects', F \subseteq G, LogOK(objects', G), stackRef' \in G,
         ProcOK(objects', G, r)
  PROVE  OnLog(G)' /\ proc' = [q \in Procs |-> proc'[q]]
<1>1. \A q \in Procs : ProcOK(objects, F, proc[q]) /\ proc[q] = [f \in Fields |-> proc[q][f]]
  BY DEF OnLog, ProcOK
<1>2. /\ proc' = [q \in Procs |-> proc'[q]] /\ proc'[p] = r
      /\ \A q \in Procs \ {p} : Same(proc[q], proc'[q]) /\ proc'[q] = [f \in Fields |-> proc'[q][f]]
  BY <1>1, StepFacts
<1>3. \A q \in Procs : ProcOK(objects', G, proc'[q])
  <2>1. F \in SUBSET DOMAIN objects
    BY DEF OnLog
  <2>2. ASSUME NEW q \in Procs \ {p} PROVE ProcOK(objects', G, proc'[q])
    BY <1>1, <1>2, <2>1, ProcStays
  <2> QED BY <1>2, <2>2
<1> QED BY <1>2, <1>3 DEF OnLog
\* A process that does nothing.
LEMMA IdleOK ==
  ASSUME NEW objs, NEW F
  PROVE  ProcOK(objs, F, NoProc) /\ NoProc.pc = "idle"
<1>1. NoProc.pc = "idle" /\ NoProc = [f \in Fields |-> NoProc[f]]
  BY DEF NoProc, Fields
<1> QED BY <1>1 DEF ProcOK

\* A step that does not begin to write references, and changes the stack
\* reference only when nobody else has locked it.
LEMMA StepLocks ==
  ASSUME Exclusive, Owned, \A q \in Procs : proc[q] = [f \in Fields |-> proc[q][f]],
         NEW p \in Procs, NEW r, Step(p, r), r.pc # "writing",
         stackRef' = stackRef \/ Unlocked(p, {"stack"})
  PROVE  Exclusive' /\ Owned'
<1>1. /\ proc'[p] = r
      /\ \A q \in Procs \ {p} : Same(proc[q], proc'[q])
  BY StepFacts
<1>2. ASSUME NEW q \in Procs, Holds(q)'
      PROVE  q # p /\ Holds(q) /\ proc'[q].prev = proc[q].prev
  BY <1>1, <1>2 DEF Same, Holds
<1>3. Exclusive'
  BY <1>2 DEF Exclusive
<1>4. ASSUME NEW q \in Procs, Holds(q)' PROVE stackRef' = stackRef
  BY <1>2, <1>4 DEF Unlocked, Locked, Holds
<1>5. Owned'
  BY <1>2, <1>4 DEF Owned
<1> QED BY <1>3, <1>5

\* Such a step keeps the invariant when objects and state commits are only added
\* and what p has in memory afterwards can be worked with.
LEMMA StepInv ==
  ASSUME Inv, NEW F, OnLog(F), NEW p \in Procs, NEW r, Step(p, r), r.pc # "writing",
         Extends(objects, objects'), Sound(objects', lastId'), Plain(objects', branch'),
         patchRefs' \in [Names -> Nat],
         NEW G \in SUBSET DOMAIN objects', F \subseteq G, LogOK(objects', G), stackRef' \in G,
         ProcOK(objects', G, r),
         (stackRef' = stackRef /\ logged' = logged) \/ (Unlocked(p, {"stack"}) /\ Recorded')
  PROVE  Inv'
<1>1. OnLog(G)' /\ proc' = [q \in Procs |-> proc'[q]]
  BY StepLog
<1>2. \A q \in Procs : proc[q] = [f \in Fields |-> proc[q][f]]
  BY DEF OnLog, ProcOK
<1>3. Exclusive' /\ Owned'
  BY <1>2, StepLocks DEF Inv
<1>4. Recorded'
  <2>1. ASSUME stackRef' = stackRef, logged' = logged PROVE Recorded'
    BY <2>1, ExtendsKeeps DEF Inv, Recorded
  <2> QED BY <2>1
<1> QED BY <1>1, <1>3, <1>4 DEF Inv

\* The same for a step that leaves objects and log alone.
LEMMA QuietInv ==
  ASSUME Inv, NEW F, OnLog(F), NEW p \in Procs, NEW r, Step(p, r), r.pc # "writing",
         UNCHANGED <<objects, lastId, stackRef, branch, logged>>,
         patchRefs' \in [Names -> Nat],
         ProcOK(objects, F, r)
  PROVE  Inv'
<1>1. Extends(objects, objects')
  BY DEF Extends
<1>2. Sound(objects', lastId') /\ Plain(objects', branch')
  BY DEF Inv
<1>3. F \in SUBSET DOMAIN objects' /\ LogOK(objects', F) /\ stackRef' \in F
  BY DEF OnLog
<1>4. ProcOK(objects', F, r)
  OBVIOUS
<1> QED BY <1>1, <1>2, <1>3, <1>4, StepInv

\* What the invariant says about a process.
LEMMA ProcFacts ==
  ASSUME Inv, NEW F, OnLog(F), NEW p \in Procs
  PROVE  /\ ProcOK(objects, F, proc[p]) /\ F \in SUBSET DOMAIN objects /\ LogOK(objects, F)
         /\ Sound(objects, lastId) /\ patchRefs \in [Names -> Nat] /\ Plain(objects, branch)
         /\ stackRef \in F /\ stackRef \in DOMAIN objects /\ Good(objects, State)
         /\ proc[p] = [f \in Fields |-> proc[p][f]]
BY DEF Inv, OnLog, LogOK, Full, State, ProcOK

\* Reading the branch, the state, and putting the patch references right; a
\* command that ends or is killed.
LEMMA OpeningInv ==
  ASSUME Inv, NEW p \in Procs, Opening(p) \/ EditFails(p) \/ Kill(p)
  PROVE  Inv'
<1>1. PICK F : OnLog(F)
  BY DEF Inv
<1>2. /\ ProcOK(objects, F, proc[p]) /\ patchRefs \in [Names -> Nat] /\ Plain(objects, branch)
      /\ Good(objects, State) /\ proc[p] = [f \in Fields |-> proc[p][f]]
  BY <1>1, ProcFacts
<1>3. CASE ReadBranch(p)
  <2>1. PICK r : r = [NoProc EXCEPT !.pc = "branch read", !.head = branch,
                            !.alone = \A q \in Procs \ {p} : proc[q].pc = "idle"]
    OBVIOUS
  <2>2. r.pc = "branch read" /\ r.head = branch /\ r = [f \in Fields |-> r[f]]
    BY <2>1 DEF NoProc, Fields
  <2>3. ProcOK(objects, F, r)
    BY <1>2, <2>2 DEF ProcOK
  <2>4. Step(p, r) /\ UNCHANGED <<objects, lastId, stackRef, branch, patchRefs, logged>>
    BY <1>3, <2>1 DEF ReadBranch
  <2> QED BY <1>1, <1>2, <2>2, <2>3, <2>4, QuietInv
<1>4. CASE ReadState(p)
  <2>1. PICK r : r = [proc[p] EXCEPT !.pc = "ensure", !.state = State, !.todo = Names]
    OBVIOUS
  <2>2. r.pc = "ensure" /\ r.head = proc[p].head /\ r.state = State /\ r = [f \in Fields |-> r[f]]
    BY <1>2, <2>1 DEF Fields
  <2>3. ProcOK(objects, F, r)
    BY <1>2, <1>4, <2>2 DEF ProcOK, ReadState
  <2>4. Step(p, r) /\ UNCHANGED <<objects, lastId, stackRef, branch, patchRefs, logged>>
    BY <1>4, <2>1 DEF ReadState
  <2> QED BY <1>1, <1>2, <2>2, <2>3, <2>4, QuietInv
<1>5. CASE FindRef(p)
  <2>1. PICK n \in proc[p].todo : Finds(p, n, patchRefs[n] = proc[p].state.patches[n])
    BY <1>5 DEF FindRef
  <2>2. PICK x, y : /\ x = proc[p].todo \ {n}
                    /\ y = IF patchRefs[n] = proc[p].state.patches[n] THEN <<>> ELSE <<n, patchRefs[n]>>
    OBVIOUS
  <2>3. PICK r : r = [proc[p] EXCEPT !.todo = x, !.seen = y]
    OBVIOUS
  <2>4. r.pc = proc[p].pc /\ r.head = proc[p].head /\ r.state = proc[p].state /\ r = [f \in Fields |-> r[f]]
    BY <1>2, <2>3 DEF Fields
  <2>5. proc[p].pc = "ensure"
    BY <1>5 DEF FindRef
  <2>6. ProcOK(objects, F, r)
    BY <1>2, <2>4, <2>5 DEF ProcOK
  <2>7. Step(p, r) /\ UNCHANGED <<objects, lastId, stackRef, branch, patchRefs, logged>>
    BY <2>1, <2>2, <2>3 DEF Finds
  <2>8. patchRefs' \in [Names -> Nat] /\ r.pc # "writing"
    BY <1>2, <2>4, <2>5, <2>7
  <2> QED BY <1>1, <2>6, <2>7, <2>8, QuietInv
<1>51. CASE FixRef(p)
  <2>1. PICK r : r = [proc[p] EXCEPT !.seen = <<>>]
    OBVIOUS
  <2>2. r.pc = proc[p].pc /\ r.head = proc[p].head /\ r.state = proc[p].state /\ r = [f \in Fields |-> r[f]]
    BY <1>2, <2>1 DEF Fields
  <2>3. proc[p].pc = "ensure"
    BY <1>51 DEF FixRef
  <2>4. ProcOK(objects, F, r)
    BY <1>2, <2>2, <2>3 DEF ProcOK
  <2>5. Step(p, r) /\ UNCHANGED <<objects, lastId, stackRef, branch, logged>>
    BY <1>51, <2>1 DEF FixRef
  <2>6. PICK n : patchRefs' = [patchRefs EXCEPT ![n] = proc[p].state.patches[n]]
    BY <1>51 DEF FixRef
  <2>7. proc[p].state.patches \in [Names -> Nat]
    BY <1>2, <2>3 DEF ProcOK, Good, Trees
  <2>8. patchRefs' \in [Names -> Nat]
    BY <1>2, <2>6, <2>7
  <2> QED BY <1>1, <2>2, <2>3, <2>4, <2>5, <2>8, QuietInv
<1>52. CASE Opened(p)
  <2>1. PICK r : r = [proc[p] EXCEPT !.pc = "body"]
    OBVIOUS
  <2>2. r.pc = "body" /\ r.head = proc[p].head /\ r.state = proc[p].state /\ r = [f \in Fields |-> r[f]]
    BY <1>2, <2>1 DEF Fields
  <2>3. ProcOK(objects, F, r)
    BY <1>2, <1>52, <2>2 DEF ProcOK, Opened
  <2>4. Step(p, r) /\ UNCHANGED <<objects, lastId, stackRef, branch, patchRefs, logged>>
    BY <1>52, <2>1 DEF Opened
  <2> QED BY <1>1, <1>2, <2>2, <2>3, <2>4, QuietInv
<1>6. CASE OpenFails(p) \/ EditFails(p) \/ Kill(p)
  <2>1. /\ Step(p, NoProc)
        /\ UNCHANGED <<objects, lastId, stackRef, branch, patchRefs, logged>>
    BY <1>6 DEF OpenFails, EditFails, Kill, Ends
  <2>2. ProcOK(objects, F, NoProc) /\ NoProc.pc # "writing"
    BY IdleOK
  <2> QED BY <1>1, <1>2, <2>1, <2>2, QuietInv
<1> QED BY <1>3, <1>4, <1>5, <1>51, <1>52, <1>6 DEF Opening, EnsurePatchRefs
-----------------------------------------------------------------------------
(* The closure. *)

\* The log stays what it is when objects are added.
LEMMA LogStays ==
  ASSUME NEW F, OnLog(F), Extends(objects, objects')
  PROVE  LogOK(objects', F) /\ F \in SUBSET DOMAIN objects'
<1>1. \A i \in F : Full(objects', F, i)
  BY ExtendsLog DEF OnLog
<1> QED BY <1>1 DEF OnLog, LogOK, Extends

\* The closure arrives at a good state.
LEMMA ArrivesInv ==
  ASSUME Inv, NEW F, OnLog(F), NEW p \in Procs, proc[p].pc = "body", NEW s, NEW c, NEW x,
         Arrives(p, s, c, x), Extends(objects, objects'), Sound(objects', lastId'), Good(objects', s)
  PROVE  Inv'
<1>1. /\ ProcOK(objects, F, proc[p]) /\ patchRefs \in [Names -> Nat] /\ Plain(objects, branch)
      /\ stackRef \in F /\ proc[p] = [f \in Fields |-> proc[p][f]]
  BY ProcFacts
<1>2. PICK k : k = IF proc[p].state.head = proc[p].head THEN "execute" ELSE "log"
  OBVIOUS
<1>4. PICK r : r = [proc[p] EXCEPT !.pc = k, !.trans = s, !.touched = x]
  OBVIOUS
<1>5. /\ r.pc = k /\ r.trans = s /\ r.head = proc[p].head /\ r.state = proc[p].state
      /\ r = [f \in Fields |-> r[f]]
  BY <1>1, <1>4 DEF Fields
<1>6. Step(p, r) /\ UNCHANGED <<stackRef, branch, patchRefs, logged>>
  BY <1>2, <1>4 DEF Arrives
<1>7. k \in {"execute", "log"}
  BY <1>2
<1>8. Plain(objects', proc[p].head) /\ Plain(objects', branch')
  BY <1>1, <1>6 DEF ProcOK, Plain, Extends
<1>9. Good(objects', proc[p].state)
  <2>1. Good(objects, proc[p].state)
    BY <1>1 DEF ProcOK
  <2> QED BY <2>1, ExtendsGood
<1>10. ProcOK(objects', F, r)
  BY <1>5, <1>7, <1>8, <1>9 DEF ProcOK
<1>11. LogOK(objects', F) /\ F \in SUBSET DOMAIN objects'
  BY LogStays
<1>12. r.pc # "writing"
  BY <1>5, <1>7
<1> QED BY <1>1, <1>6, <1>8, <1>10, <1>11, <1>12, StepInv

\* The same with the head at the topmost patch.
LEMMA ChangesInv ==
  ASSUME Inv, NEW F, OnLog(F), NEW p \in Procs, proc[p].pc = "body", NEW s, NEW c,
         Changes(p, s, c), Extends(objects, objects'), Sound(objects', lastId'), Good(objects', s)
  PROVE  Inv'
<1>1. PICK t, x : /\ t = [s EXCEPT !.head = Top(s)]
                  /\ x = {n \in Names : s.patches[n] # proc[p].state.patches[n]}
  OBVIOUS
<1>2. Good(objects', t)
  BY <1>1, TransGood
<1>3. Arrives(p, t, c, x)
  BY <1>1 DEF Changes
<1> QED BY <1>2, <1>3, ArrivesInv

\* Without a new commit.
LEMMA ChangesOld ==
  ASSUME Inv, NEW F, OnLog(F), NEW p \in Procs, proc[p].pc = "body", NEW s, Changes(p, s, <<>>),
         Good(objects, s)
  PROVE  Inv'
<1>1. UNCHANGED <<objects, lastId>>
  BY DEF Changes, Arrives
<1>2. Extends(objects, objects') /\ Sound(objects', lastId') /\ Good(objects', s)
  BY <1>1 DEF Extends, Inv
<1> QED BY <1>2, ChangesInv

\* With a new commit of a patch.
LEMMA ChangesNew ==
  ASSUME Inv, NEW F, OnLog(F), NEW p \in Procs, proc[p].pc = "body", NEW s, NEW ps,
         PlainList(objects, ps), NEW c, c = <<Commit(ps, NoTree)>>, Changes(p, s, c),
         \A new : AddsPlain(objects, lastId, ps, new) => Good(new, s)
  PROVE  Inv'
<1>0. c # <<>>
  OBVIOUS
<1>1. objects' = Written(objects, lastId, c) /\ lastId' = lastId + 1
  BY <1>0 DEF Changes, Arrives
<1>2. Sound(objects, lastId)
  BY DEF Inv
<1>3. PICK w : w = Written(objects, lastId, c)
  OBVIOUS
<1>4. AddsPlain(objects, lastId, ps, w)
  BY <1>2, <1>3, WritePlain
<1>5. Good(w, s) /\ Sound(w, lastId + 1) /\ Extends(objects, w)
  BY <1>4 DEF AddsPlain
<1> QED BY <1>1, <1>3, <1>5, ChangesInv

\* The base of a stack whose branch is where the stack says.
LEMMA BasePlain ==
  ASSUME NEW F, OnLog(F), Sound(objects, lastId), NEW p \in Procs, proc[p].pc = "body"
  PROVE  Plain(objects, BaseOf(p)) /\ BaseOf(p) \in Nat
<1>1. PICK s : s = proc[p].state
  OBVIOUS
<1>2. Good(objects, s) /\ Plain(objects, proc[p].head)
  BY <1>1 DEF OnLog, ProcOK
<1>3. ASSUME s.applied # <<>> PROVE Plain(objects, objects[s.patches[s.applied[1]]].parents[1])
  <2>1. s.applied \in Seq(Names) /\ 1 \in 1..Len(s.applied)
    BY <1>2, <1>3 DEF Good, Trees
  <2>2. s.applied[1] \in Listed(s)
    BY <2>1, ToSetIff DEF Listed
  <2>3. IsPatch(objects, s.patches[s.applied[1]])
    BY <1>2, <2>2 DEF Good
  <2> QED BY <2>3, PatchParent
<1>4. Plain(objects, BaseOf(p))
  BY <1>1, <1>2, <1>3 DEF BaseOf
<1>5. BaseOf(p) \in Nat
  BY <1>4, SoundTypes DEF Plain
<1> QED BY <1>4, <1>5
\* A list with one plain commit.
LEMMA OnePlain ==
  ASSUME NEW objs, NEW last, Sound(objs, last), NEW i, Plain(objs, i), NEW ps, ps = <<i>>
  PROVE  PlainList(objs, ps)
<1>1. i \in Nat
  BY SoundTypes DEF Plain
<1>2. ps \in Seq(Nat) /\ ToSet(ps) = {i}
  BY <1>1, OneSet
<1> QED BY <1>2 DEF PlainList

\* A name without a commit is in no list.
LEMMA FreeName ==
  ASSUME NEW objs, NEW last, Sound(objs, last), NEW s, Good(objs, s), NEW n \in Names,
         s.patches[n] = None
  PROVE  n \notin ToSet(s.applied) /\ n \notin ToSet(s.unapplied) /\ n \notin ToSet(s.hidden)
<1>1. ~IsPatch(objs, 0)
  BY PatchParent
<1>2. n \notin Listed(s)
  BY <1>1 DEF Good, None
<1> QED BY <1>2 DEF Listed

\* new, and the topmost patch is another one.
LEMMA NewPatchInv ==
  ASSUME Inv, NEW p \in Procs, NewPatch(p)
  PROVE  Inv'
<1>1. PICK F : OnLog(F)
  BY DEF Inv
<1>2. /\ ProcOK(objects, F, proc[p]) /\ Sound(objects, lastId)
  BY <1>1, ProcFacts
<1>3. proc[p].pc = "body" /\ (proc[p].state.applied = <<>> \/ proc[p].head = Top(proc[p].state))
  BY DEF NewPatch, InBody
<1>4. PICK s, h : s = proc[p].state /\ h = proc[p].head
  OBVIOUS
<1>5. Good(objects, s) /\ Plain(objects, h) /\ s \in Trees
  BY <1>2, <1>3, <1>4 DEF ProcOK, Good
<1>6. PICK n \in Names :
        /\ s.patches[n] = None
        /\ Changes(p, [s EXCEPT !.applied = Append(@, n), !.patches[n] = lastId + 1],
                   <<Commit(<<h>>, NoTree)>>)
  BY <1>4 DEF NewPatch
<1>7. PICK ps, c, a, m, t : /\ ps = <<h>> /\ c = <<Commit(ps, NoTree)>> /\ a = Append(s.applied, n)
                            /\ m = [s.patches EXCEPT ![n] = lastId + 1]
                            /\ t = [s EXCEPT !.applied = a, !.patches = m]
  OBVIOUS
<1>8. Changes(p, t, c)
  <2>1. [s EXCEPT !.applied = Append(@, n), !.patches[n] = lastId + 1] = t
    BY <1>5, <1>7 DEF Trees
  <2> QED BY <1>6, <1>7, <2>1
<1>9. PlainList(objects, ps)
  BY <1>2, <1>5, <1>7, OnePlain
<1>10. n \notin ToSet(s.applied) /\ n \notin ToSet(s.unapplied) /\ n \notin ToSet(s.hidden)
  BY <1>2, <1>5, <1>6, FreeName
<1>11. lastId + 1 \in Nat
  BY <1>2 DEF Sound
<1>12. /\ t \in Trees /\ t.applied = Append(s.applied, n) /\ t.patches = [s.patches EXCEPT ![n] = lastId + 1]
       /\ t.unapplied = s.unapplied /\ t.hidden = s.hidden /\ t.head = s.head
  <2>1. a \in Seq(Names) /\ m \in [Names -> Nat]
    BY <1>5, <1>7, <1>11 DEF Trees
  <2> QED BY <1>5, <1>7, <2>1 DEF Trees
<1>13. ASSUME NEW new, AddsPlain(objects, lastId, ps, new) PROVE Good(new, t)
  <2>1. /\ Extends(objects, new) /\ Plain(new, lastId + 1) /\ new[lastId + 1].parents = ps
    BY <1>13 DEF AddsPlain
  <2>2. Good(new, s)
    BY <1>5, <2>1, ExtendsGood
  <2>3. IsPatch(new, lastId + 1)
    BY <1>7, <2>1 DEF IsPatch
  <2>4. s.applied # <<>> => new[lastId + 1].parents = <<Top(s)>>
    BY <1>3, <1>4, <1>7, <2>1
  <2>5. /\ IsInjective(t.unapplied) /\ ToSet(t.unapplied) = ToSet(s.unapplied) \ {n}
        /\ Plain(new, t.head)
    BY <1>10, <1>12, <2>2 DEF Good, Split
  <2> QED BY <1>10, <1>11, <1>12, <2>2, <2>3, <2>4, <2>5, OnTop
<1> QED BY <1>1, <1>3, <1>7, <1>8, <1>9, <1>13, ChangesNew

\* refresh.
LEMMA RefreshInv ==
  ASSUME Inv, NEW p \in Procs, Refresh(p)
  PROVE  Inv'
<1>1. PICK F : OnLog(F)
  BY DEF Inv
<1>2. /\ ProcOK(objects, F, proc[p]) /\ Sound(objects, lastId)
  BY <1>1, ProcFacts
<1>3. PICK s, n, x : s = proc[p].state /\ n = Last(s.applied) /\ x = s.patches[n]
  OBVIOUS
<1>4. proc[p].pc = "body" /\ s.applied # <<>>
  BY <1>3 DEF Refresh, InBody
<1>5. Good(objects, s)
  BY <1>2, <1>3, <1>4 DEF ProcOK
<1>6. n \in ToSet(s.applied) /\ Top(s) = x
  BY <1>3, <1>4, <1>5, TopGood
<1>7. PICK ps, c, t : /\ ps = objects[x].parents /\ c = <<Commit(ps, NoTree)>>
                      /\ t = [s EXCEPT !.patches[Last(s.applied)] = lastId + 1]
  OBVIOUS
<1>8. Changes(p, t, c)
  BY <1>3, <1>7 DEF Refresh
<1>9. IsPatch(objects, x)
  BY <1>3, <1>5, <1>6 DEF Good, Listed
<1>10. x \in DOMAIN objects /\ Len(ps) = 1 /\ PlainList(objects, ps)
  BY <1>2, <1>7, <1>9, PatchParent, OnePlain DEF IsPatch
<1>11. lastId + 1 \in Nat
  BY <1>2 DEF Sound
<1>12. ASSUME NEW new, AddsPlain(objects, lastId, ps, new) PROVE Good(new, t)
  <2>1. /\ Extends(objects, new) /\ Plain(new, lastId + 1) /\ new[lastId + 1].parents = ps
    BY <1>12 DEF AddsPlain
  <2>2. Good(new, s)
    BY <1>5, <2>1, ExtendsGood
  <2>3. IsPatch(new, lastId + 1)
    BY <1>10, <2>1 DEF IsPatch
  <2>4. new[lastId + 1].parents = new[Top(s)].parents
    BY <1>6, <1>7, <1>10, <2>1 DEF Extends
  <2> QED BY <1>4, <1>7, <1>11, <2>2, <2>3, <2>4, RefreshGood
<1> QED BY <1>1, <1>4, <1>7, <1>8, <1>10, <1>12, ChangesNew

\* pop.
LEMMA PopInv ==
  ASSUME Inv, NEW p \in Procs, Pop(p)
  PROVE  Inv'
<1>1. PICK F : OnLog(F)
  BY DEF Inv
<1>2. /\ ProcOK(objects, F, proc[p]) /\ Sound(objects, lastId)
  BY <1>1, ProcFacts
<1>3. PICK s, base : s = proc[p].state /\ base = BaseOf(p)
  OBVIOUS
<1>4. proc[p].pc = "body" /\ s.applied # <<>> /\ Changes(p, [Pops(s) EXCEPT !.head = base], <<>>)
  BY <1>3 DEF Pop, InBody
<1>5. Good(objects, s) /\ Plain(objects, base) /\ base \in Nat
  BY <1>1, <1>2, <1>3, <1>4, BasePlain DEF ProcOK
<1>6. Good(objects, [Pops(s) EXCEPT !.head = base])
  BY <1>4, <1>5, PopGood
<1> QED BY <1>1, <1>4, <1>6, ChangesOld
\* The first unapplied patch on top of the applied ones, with the commit c.
LEMMA PushGood ==
  ASSUME NEW objs, NEW s, Good(objs, s), s.unapplied # <<>>, NEW n, n = Head(s.unapplied),
         NEW c \in Nat, IsPatch(objs, c), s.applied # <<>> => objs[c].parents = <<Top(s)>>,
         NEW t, t = [s EXCEPT !.applied = Append(s.applied, n), !.unapplied = Tail(s.unapplied),
                              !.patches = [s.patches EXCEPT ![n] = c]]
  PROVE  Good(objs, t)
<1>1. PICK u, w, a, m : /\ u = s.unapplied /\ w = Tail(u) /\ a = Append(s.applied, n)
                        /\ m = [s.patches EXCEPT ![n] = c]
  OBVIOUS
<1>2. s \in Trees /\ u \in Seq(Names) /\ u # <<>> /\ IsInjective(u)
  BY <1>1 DEF Good, Trees, Split
<1>3. /\ w \in Seq(Names) /\ n \in Names /\ n \in ToSet(u) /\ IsInjective(w)
      /\ ToSet(w) = ToSet(u) \ {n}
  BY <1>1, <1>2, HeadTail
<1>4. n \notin ToSet(s.applied) /\ n \notin ToSet(s.hidden) /\ Plain(objs, s.head)
  BY <1>1, <1>3 DEF Good, Split
<1>5. a \in Seq(Names) /\ m \in [Names -> Nat]
  BY <1>1, <1>2, <1>3 DEF Trees
<1>6. /\ t \in Trees /\ t.applied = a /\ t.unapplied = w /\ t.patches = m
      /\ t.hidden = s.hidden /\ t.head = s.head
  BY <1>1, <1>2, <1>3, <1>5 DEF Trees
<1>7. /\ t.applied = Append(s.applied, n) /\ t.patches = [s.patches EXCEPT ![n] = c]
      /\ IsInjective(t.unapplied) /\ ToSet(t.unapplied) = ToSet(s.unapplied) \ {n}
      /\ Plain(objs, t.head)
  BY <1>1, <1>3, <1>4, <1>6
<1> QED BY <1>3, <1>4, <1>6, <1>7, OnTop

\* push.
LEMMA PushInv ==
  ASSUME Inv, NEW p \in Procs, Push(p)
  PROVE  Inv'
<1>1. PICK F : OnLog(F)
  BY DEF Inv
<1>2. /\ ProcOK(objects, F, proc[p]) /\ Sound(objects, lastId)
  BY <1>1, ProcFacts
<1>3. PICK s, n, x, top, up :
        /\ s = proc[p].state /\ n = Head(s.unapplied) /\ x = s.patches[n]
        /\ top = IF s.applied = <<>> THEN proc[p].head ELSE Top(s)
        /\ up = [s EXCEPT !.applied = Append(@, n), !.unapplied = Tail(@)]
  OBVIOUS
<1>4. proc[p].pc = "body" /\ s.unapplied # <<>>
  BY <1>3 DEF Push, InBody
<1>5. Good(objects, s) /\ s \in Trees /\ Plain(objects, proc[p].head)
  BY <1>2, <1>3, <1>4 DEF ProcOK, Good
<1>6. Plain(objects, top)
  BY <1>3, <1>5, TopGood
<1>7. s.unapplied \in Seq(Names) /\ n \in Names /\ n \in ToSet(s.unapplied)
  <2>1. PICK u : u = s.unapplied
    OBVIOUS
  <2>2. u \in Seq(Names) /\ u # <<>> /\ IsInjective(u)
    BY <1>4, <1>5, <2>1 DEF Good, Trees, Split
  <2> QED BY <1>3, <2>1, <2>2, HeadTail
<1>8. IsPatch(objects, x) /\ x \in Nat
  BY <1>3, <1>5, <1>7 DEF Good, Listed, Trees
<1>9. PICK a, w : a = Append(s.applied, n) /\ w = Tail(s.unapplied)
  OBVIOUS
<1>10. CASE objects[x].parents = <<top>>
  <2>1. Changes(p, up, <<>>)
    BY <1>3, <1>10 DEF Push
  <2>2. PICK t : t = [s EXCEPT !.applied = a, !.unapplied = w, !.patches = [s.patches EXCEPT ![n] = x]]
    OBVIOUS
  <2>3. [s.patches EXCEPT ![n] = x] = s.patches
    BY <1>3, <1>5, <1>7 DEF Trees
  <2>4. t = up
    BY <1>3, <1>5, <1>9, <2>2, <2>3 DEF Trees
  <2>5. s.applied # <<>> => objects[x].parents = <<Top(s)>>
    BY <1>3, <1>10
  <2>6. Good(objects, t)
    BY <1>3, <1>4, <1>5, <1>8, <1>9, <2>2, <2>5, PushGood
  <2> QED BY <1>1, <1>4, <2>1, <2>4, <2>6, ChangesOld
<1>11. CASE objects[x].parents # <<top>>
  <2>1. PICK ps, c, t, i : /\ ps = <<top>> /\ c = <<Commit(ps, NoTree)>> /\ i = lastId + 1
                           /\ t = [up EXCEPT !.patches[n] = i]
    OBVIOUS
  <2>2. Changes(p, t, c)
    BY <1>3, <1>11, <2>1 DEF Push
  <2>3. t = [s EXCEPT !.applied = a, !.unapplied = w, !.patches = [s.patches EXCEPT ![n] = i]]
    BY <1>3, <1>5, <1>9, <2>1 DEF Trees
  <2>4. PlainList(objects, ps)
    BY <1>2, <1>6, <2>1, OnePlain
  <2>5. i \in Nat
    BY <1>2, <2>1 DEF Sound
  <2>6. ASSUME NEW new, AddsPlain(objects, lastId, ps, new) PROVE Good(new, t)
    <3>1. Extends(objects, new) /\ Plain(new, i) /\ new[i].parents = ps
      BY <2>1, <2>6 DEF AddsPlain
    <3>2. Good(new, s)
      BY <1>5, <3>1, ExtendsGood
    <3>3. IsPatch(new, i)
      BY <2>1, <3>1 DEF IsPatch
    <3>4. s.applied # <<>> => new[i].parents = <<Top(s)>>
      BY <1>3, <2>1, <3>1
    <3> QED BY <1>3, <1>4, <1>9, <2>3, <2>5, <3>2, <3>3, <3>4, PushGood
  <2> QED BY <1>1, <1>4, <2>1, <2>2, <2>4, <2>6, ChangesNew
<1> QED BY <1>10, <1>11

\* hide and delete.
LEMMA HideOrDeleteInv ==
  ASSUME Inv, NEW p \in Procs, HideOrDelete(p)
  PROVE  Inv'
<1>1. PICK F : OnLog(F)
  BY DEF Inv
<1>2. /\ ProcOK(objects, F, proc[p]) /\ Sound(objects, lastId)
  BY <1>1, ProcFacts
<1>3. PICK o, h, s, n : /\ o = proc[p].state /\ n = Head(o.unapplied)
                        /\ h = IF o.applied = <<>> THEN proc[p].head ELSE o.head
                        /\ s = [o EXCEPT !.head = h]
  OBVIOUS
<1>4. proc[p].pc = "body" /\ o.unapplied # <<>>
  BY <1>3 DEF HideOrDelete, InBody
<1>5. Good(objects, o) /\ o \in Trees /\ Plain(objects, h)
  BY <1>2, <1>3, <1>4 DEF ProcOK, Good
<1>6. h \in Nat
  BY <1>2, <1>5, SoundTypes DEF Plain
<1>7. s \in Trees /\ s.head = h /\ s.applied = o.applied /\ s.unapplied = o.unapplied
      /\ s.hidden = o.hidden /\ s.patches = o.patches
  BY <1>3, <1>5, <1>6 DEF Trees
<1>8. Good(objects, s)
  BY <1>5, <1>7, HeadGood
<1>9. Changes(p, Hides(s, n), <<>>) \/ Changes(p, Deletes(s, n), <<>>)
  BY <1>3 DEF HideOrDelete
<1>10. Good(objects, Hides(s, n)) /\ Good(objects, Deletes(s, n))
  BY <1>3, <1>4, <1>7, <1>8, HideGood, DeleteGood
<1> QED BY <1>1, <1>4, <1>9, <1>10, ChangesOld

\* Every state that the walk along the log meets is in the log.
LEMMA HistoryIn ==
  ASSUME Sound(objects, lastId), NEW F, OnLog(F)
  PROVE  /\ Walk(objects, stackRef, History(objects, stackRef))
         /\ ~HasPrev(objects, Last(History(objects, stackRef)))
         /\ ToSet(History(objects, stackRef)) \subseteq F
<1>1. stackRef \in F /\ stackRef \in DOMAIN objects
  BY DEF OnLog
<1>2. stackRef \in 1..lastId
  BY <1>1, SoundTypes
<1>3. /\ Walk(objects, stackRef, History(objects, stackRef))
      /\ ~HasPrev(objects, Last(History(objects, stackRef)))
  BY <1>2, HistoryWalks
<1>4. PrevClosed(objects, F)
  BY DEF OnLog, LogOK, Full, PrevClosed
<1> QED BY <1>1, <1>3, <1>4, WalkIn

\* undo and reset.
LEMMA ResetInv ==
  ASSUME Inv, NEW p \in Procs, Reset(p)
  PROVE  Inv'
<1>1. PICK F : OnLog(F)
  BY DEF Inv
<1>2. Sound(objects, lastId) /\ LogOK(objects, F)
  BY <1>1, ProcFacts
<1>3. PICK h : h = History(objects, stackRef)
  OBVIOUS
<1>4. h \in Seq(Nat) /\ Len(h) >= 1 /\ ToSet(h) \subseteq F
  BY <1>1, <1>2, <1>3, HistoryIn DEF Walk
<1>5. PICK i \in ToSet(Tail(h)) : \E x : Arrives(p, objects[i].tree, <<>>, x)
  BY <1>3 DEF Reset
<1>a. PICK x : Arrives(p, objects[i].tree, <<>>, x)
  BY <1>5
<1>6. i \in ToSet(h)
  <2>1. Tail(h) \in Seq(Nat) /\ Len(Tail(h)) = Len(h) - 1 /\ \A k \in 1..(Len(h) - 1) : Tail(h)[k] = h[k + 1]
    BY <1>4
  <2>2. PICK k \in 1..Len(Tail(h)) : Tail(h)[k] = i
    BY <1>5, <2>1, ToSetIff
  <2>3. Len(h) \in Nat
    BY <1>4
  <2>4. k \in 1..(Len(h) - 1) /\ k + 1 \in 1..Len(h)
    BY <2>1, <2>2, <2>3
  <2>5. h[k + 1] = i
    BY <2>1, <2>2, <2>4
  <2> QED BY <1>4, <2>4, <2>5, ToSetIff
<1>7. Good(objects, objects[i].tree)
  BY <1>2, <1>4, <1>6 DEF LogOK, Full
<1>8. proc[p].pc = "body"
  BY DEF Reset
<1>9. UNCHANGED <<objects, lastId>>
  BY <1>a DEF Arrives
<1>10. Extends(objects, objects') /\ Sound(objects', lastId') /\ Good(objects', objects[i].tree)
  BY <1>7, <1>9 DEF Extends, Inv
<1> QED BY <1>1, <1>a, <1>8, <1>10, ArrivesInv

\* log --clear begins.
LEMMA StartClearInv ==
  ASSUME Inv, NEW p \in Procs, StartClear(p)
  PROVE  Inv'
<1>1. PICK F : OnLog(F)
  BY DEF Inv
<1>2. /\ ProcOK(objects, F, proc[p]) /\ patchRefs \in [Names -> Nat]
      /\ proc[p] = [f \in Fields |-> proc[p][f]]
  BY <1>1, ProcFacts
<1>3. PICK r : r = [proc[p] EXCEPT !.pc = "clear"]
  OBVIOUS
<1>4. r.pc = "clear" /\ r.head = proc[p].head /\ r.state = proc[p].state /\ r = [f \in Fields |-> r[f]]
  BY <1>2, <1>3 DEF Fields
<1>5. ProcOK(objects, F, r)
  BY <1>2, <1>4 DEF ProcOK, StartClear
<1>6. Step(p, r) /\ UNCHANGED <<objects, lastId, stackRef, branch, patchRefs, logged>>
  BY <1>3 DEF StartClear
<1> QED BY <1>1, <1>2, <1>4, <1>5, <1>6, QuietInv
-----------------------------------------------------------------------------
(* execute(). *)

\* A state is written, and the process knows its commit and what it is on top of.
LEMMA WriteStateInv ==
  ASSUME Inv, NEW F, OnLog(F), NEW p \in Procs, proc[p].pc \in {"log", "execute"},
         NEW s, Writable(objects, F, s), NEW next \in {"log edit", "edit"}, WriteState(p, s, next),
         UNCHANGED <<stackRef, branch, patchRefs, logged>>
  PROVE  Inv'
<1>1. /\ ProcOK(objects, F, proc[p]) /\ Sound(objects, lastId) /\ LogOK(objects, F)
      /\ patchRefs \in [Names -> Nat] /\ Plain(objects, branch) /\ stackRef \in F
      /\ F \in SUBSET DOMAIN objects /\ proc[p] = [f \in Fields |-> proc[p][f]]
  BY ProcFacts
<1>2. PICK cs, w, i : /\ cs = StateCommits(objects, lastId + 1, s) /\ i = lastId + Len(cs)
                      /\ w = Written(objects, lastId, cs)
  OBVIOUS
<1>3. Wrote(objects, lastId, F, s, w, i)
  BY <1>1, <1>2, StateWritten
<1>4. PICK r : r = [proc[p] EXCEPT !.pc = next, !.prev = s.prev, !.new = i]
  OBVIOUS
<1>5. objects' = w /\ lastId' = i /\ Step(p, r)
  BY <1>2, <1>4 DEF WriteState
<1>6. /\ r.pc = next /\ r.prev = s.prev /\ r.new = i /\ r.head = proc[p].head
      /\ r.state = proc[p].state /\ r.trans = proc[p].trans /\ r = [f \in Fields |-> r[f]]
  BY <1>1, <1>4 DEF Fields
<1>7. /\ Sound(w, i) /\ Extends(objects, w) /\ i \in DOMAIN w /\ w[i].tree = s
      /\ LogOK(w, F \cup {i})
  BY <1>3 DEF Wrote
<1>8. PICK G : G = F \cup {i}
  OBVIOUS
<1>9. G \in SUBSET DOMAIN w /\ F \subseteq G /\ LogOK(w, G) /\ stackRef' \in G
  BY <1>1, <1>7, <1>8 DEF Extends
<1>10. Good(objects, proc[p].state) /\ Good(objects, proc[p].trans) /\ Plain(objects, proc[p].head)
  BY <1>1 DEF ProcOK
<1>11. Good(w, r.state) /\ Good(w, r.trans)
  BY <1>6, <1>7, <1>10, ExtendsGood
<1>12. Plain(w, r.head) /\ Plain(w, branch')
  BY <1>1, <1>6, <1>7, <1>10 DEF Plain, Extends
<1>13. ProcOK(w, G, r)
  BY <1>6, <1>7, <1>8, <1>11, <1>12 DEF ProcOK
<1>14. r.pc # "writing"
  BY <1>6
<1> QED BY <1>1, <1>5, <1>7, <1>9, <1>12, <1>13, <1>14, StepInv

\* A good state with another head, on top of a state of the log or of none.
LEMMA WritableWith ==
  ASSUME NEW objs, NEW last, Sound(objs, last), NEW F \in SUBSET DOMAIN objs, NEW s, Good(objs, s),
         NEW h, Plain(objs, h), NEW i, i = None \/ i \in F
  PROVE  /\ Writable(objs, F, [s EXCEPT !.head = h, !.prev = i])
         /\ [s EXCEPT !.head = h, !.prev = i].prev = i
         /\ [s EXCEPT !.head = h, !.prev = i].patches = s.patches
<1>1. PICK t : t = [s EXCEPT !.head = h, !.prev = i]
  OBVIOUS
<1>2. h \in Nat /\ i \in Nat
  BY SoundTypes DEF Plain, None
<1>3. /\ t \in Trees /\ t.head = h /\ t.prev = i /\ t.applied = s.applied
      /\ t.unapplied = s.unapplied /\ t.hidden = s.hidden /\ t.patches = s.patches
  BY <1>1, <1>2 DEF Good, Trees
<1>4. Good(objs, t)
  BY <1>3, HeadGood
<1> QED BY <1>1, <1>3, <1>4 DEF Writable

\* The same with its own head.
LEMMA WritableOn ==
  ASSUME NEW objs, NEW last, Sound(objs, last), NEW F \in SUBSET DOMAIN objs, NEW s, Good(objs, s),
         NEW i, i = None \/ i \in F
  PROVE  /\ Writable(objs, F, [s EXCEPT !.prev = i])
         /\ [s EXCEPT !.prev = i].prev = i /\ [s EXCEPT !.prev = i].head = s.head
         /\ [s EXCEPT !.prev = i].patches = s.patches
<1>1. PICK t : t = [s EXCEPT !.prev = i]
  OBVIOUS
<1>2. i \in Nat
  BY SoundTypes DEF None
<1>3. /\ t \in Trees /\ t.head = s.head /\ t.prev = i /\ t.applied = s.applied
      /\ t.unapplied = s.unapplied /\ t.hidden = s.hidden /\ t.patches = s.patches
  BY <1>1, <1>2 DEF Good, Trees
<1>4. Good(objs, t)
  BY <1>3, HeadGood DEF Good
<1> QED BY <1>1, <1>3, <1>4 DEF Writable

\* log_external_mods, up to its edit of the stack reference.
LEMMA LogExternalModsInv ==
  ASSUME Inv, NEW p \in Procs, LogExternalMods(p)
  PROVE  Inv'
<1>1. PICK F : OnLog(F)
  BY DEF Inv
<1>2. /\ ProcOK(objects, F, proc[p]) /\ Sound(objects, lastId) /\ stackRef \in F
      /\ F \in SUBSET DOMAIN objects
  BY <1>1, ProcFacts
<1>3. proc[p].pc = "log"
  BY DEF LogExternalMods
<1>4. Good(objects, proc[p].state) /\ Plain(objects, proc[p].head)
  BY <1>2, <1>3 DEF ProcOK
<1>5. PICK s : s = [proc[p].state EXCEPT !.head = proc[p].head, !.prev = stackRef]
  OBVIOUS
<1>6. Writable(objects, F, s)
  BY <1>2, <1>4, <1>5, WritableWith
<1>7. WriteState(p, s, "log edit") /\ UNCHANGED <<stackRef, branch, patchRefs, logged>>
  BY <1>5 DEF LogExternalMods
<1> QED BY <1>1, <1>3, <1>6, <1>7, WriteStateInv

\* The new state is written.
LEMMA ExecuteInv ==
  ASSUME Inv, NEW p \in Procs, Execute(p)
  PROVE  Inv'
<1>1. PICK F : OnLog(F)
  BY DEF Inv
<1>2. /\ ProcOK(objects, F, proc[p]) /\ Sound(objects, lastId) /\ stackRef \in F
      /\ F \in SUBSET DOMAIN objects
  BY <1>1, ProcFacts
<1>3. proc[p].pc = "execute"
  BY DEF Execute
<1>4. Good(objects, proc[p].trans)
  BY <1>2, <1>3 DEF ProcOK
<1>5. PICK s : s = [proc[p].trans EXCEPT !.prev = stackRef]
  OBVIOUS
<1>6. Writable(objects, F, s)
  BY <1>2, <1>4, <1>5, WritableOn
<1>7. WriteState(p, s, "edit") /\ UNCHANGED <<stackRef, branch, patchRefs, logged>>
  BY <1>5 DEF Execute
<1> QED BY <1>1, <1>3, <1>6, <1>7, WriteStateInv

\* The stack reference moves on by one state: what was in the log still is.
LEMMA LogGrows ==
  ASSUME Inv, NEW F, OnLog(F), NEW i \in F, objects[i].tree.prev = stackRef
  PROVE  \A x \in logged \cup {i} : InLog(objects, i, x)
<1>1. stackRef \in Nat \ {0} /\ i \in DOMAIN objects
  <2>1. stackRef \in DOMAIN objects /\ i \in DOMAIN objects /\ Sound(objects, lastId)
    BY DEF OnLog, Inv
  <2> QED BY <2>1 DEF Sound
<1>2. ASSUME NEW S \in SUBSET Nat, i \in S, PrevClosed(objects, S) PROVE stackRef \in S
  BY <1>1, <1>2 DEF PrevClosed, None
<1>3. ASSUME NEW x \in logged PROVE InLog(objects, i, x)
  BY <1>2 DEF Inv, Recorded, InLog
<1>4. InLog(objects, i, i)
  BY DEF InLog
<1> QED BY <1>3, <1>4

\* The edit of log_external_mods.
LEMMA LogEditInv ==
  ASSUME Inv, NEW p \in Procs, LogEdit(p)
  PROVE  Inv'
<1>1. PICK F : OnLog(F)
  BY DEF Inv
<1>2. /\ ProcOK(objects, F, proc[p]) /\ Sound(objects, lastId) /\ LogOK(objects, F)
      /\ patchRefs \in [Names -> Nat] /\ Plain(objects, branch)
      /\ F \in SUBSET DOMAIN objects /\ proc[p] = [f \in Fields |-> proc[p][f]]
  BY <1>1, ProcFacts
<1>3. proc[p].pc = "log edit" /\ stackRef = proc[p].prev /\ Unlocked(p, {"stack"})
  BY DEF LogEdit
<1>4. PICK o, h, i, t : o = proc[p].state /\ h = proc[p].head /\ i = proc[p].new /\ t = [o EXCEPT !.head = h]
  OBVIOUS
<1>5. /\ Good(objects, o) /\ Plain(objects, h) /\ Good(objects, proc[p].trans) /\ i \in F
      /\ objects[i].tree.prev = stackRef
  BY <1>2, <1>3, <1>4 DEF ProcOK
<1>6. Good(objects, t)
  <2>1. h \in Nat
    BY <1>2, <1>5, SoundTypes DEF Plain
  <2>2. /\ t \in Trees /\ t.head = h /\ t.applied = o.applied
        /\ t.unapplied = o.unapplied /\ t.hidden = o.hidden /\ t.patches = o.patches
    BY <1>4, <1>5, <2>1 DEF Good, Trees
  <2> QED BY <1>5, <2>2, HeadGood
<1>7. PICK r : r = [proc[p] EXCEPT !.pc = "execute", !.state = t]
  OBVIOUS
<1>8. /\ r.pc = "execute" /\ r.state = t /\ r.head = h /\ r.trans = proc[p].trans
      /\ r = [f \in Fields |-> r[f]]
  BY <1>2, <1>4, <1>7 DEF Fields
<1>9. [proc[p] EXCEPT !.pc = "execute", !.state.head = proc[p].head] = r
  BY <1>2, <1>4, <1>7 DEF Fields
<1>10. /\ Step(p, r) /\ stackRef' = i /\ logged' = logged \cup {i}
       /\ UNCHANGED <<objects, lastId, branch, patchRefs>>
  BY <1>4, <1>9 DEF LogEdit
<1>11. ProcOK(objects, F, r)
  BY <1>5, <1>6, <1>8 DEF ProcOK
<1>12. Recorded'
  <2>1. \A x \in logged \cup {i} : InLog(objects, i, x)
    BY <1>1, <1>5, LogGrows
  <2> QED BY <1>10, <2>1 DEF Recorded
<1>13. /\ Extends(objects, objects') /\ Sound(objects', lastId') /\ Plain(objects', branch')
       /\ patchRefs' \in [Names -> Nat] /\ F \in SUBSET DOMAIN objects' /\ LogOK(objects', F)
       /\ stackRef' \in F /\ ProcOK(objects', F, r) /\ r.pc # "writing"
  BY <1>2, <1>5, <1>8, <1>10, <1>11 DEF Extends
<1> QED BY <1>1, <1>3, <1>10, <1>12, <1>13, StepInv
\* The references are locked and the stack reference is compared.
LEMMA PrepareEditsInv ==
  ASSUME Inv, NEW p \in Procs, PrepareEdits(p)
  PROVE  Inv'
<1>1. PICK F : OnLog(F)
  BY DEF Inv
<1>2. /\ ProcOK(objects, F, proc[p]) /\ Sound(objects, lastId) /\ LogOK(objects, F)
      /\ patchRefs \in [Names -> Nat] /\ Plain(objects, branch) /\ stackRef \in F
      /\ F \in SUBSET DOMAIN objects /\ proc[p] = [f \in Fields |-> proc[p][f]]
  BY <1>1, ProcFacts
<1>3. PICK x : x = Edits(p)
  OBVIOUS
<1>4. PICK r : r = [proc[p] EXCEPT !.pc = "writing", !.todo = x]
  OBVIOUS
<1>5. /\ proc[p].pc = "edit" /\ Unlocked(p, Edits(p)) /\ stackRef = proc[p].prev /\ Step(p, r)
      /\ UNCHANGED <<objects, lastId, stackRef, branch, patchRefs, logged>>
  BY <1>3, <1>4 DEF PrepareEdits
<1>6. /\ r.pc = "writing" /\ r.head = proc[p].head /\ r.state = proc[p].state /\ r.trans = proc[p].trans
      /\ r.new = proc[p].new /\ r.prev = proc[p].prev /\ r = [f \in Fields |-> r[f]]
  BY <1>2, <1>4 DEF Fields
<1>7. ProcOK(objects, F, r)
  BY <1>2, <1>5, <1>6 DEF ProcOK
<1>8. OnLog(F)' /\ proc' = [q \in Procs |-> proc'[q]]
  <2>1. /\ Extends(objects, objects') /\ F \in SUBSET DOMAIN objects' /\ LogOK(objects', F)
        /\ stackRef' \in F /\ ProcOK(objects', F, r)
    BY <1>2, <1>5, <1>7 DEF Extends
  <2> QED BY <1>1, <1>5, <2>1, StepLog
<1>9. \A q \in Procs : proc[q] = [f \in Fields |-> proc[q][f]]
  BY <1>1 DEF OnLog, ProcOK
<1>10. proc'[p] = r /\ \A q \in Procs \ {p} : Same(proc[q], proc'[q])
  BY <1>5, <1>9, StepFacts
<1>11. ASSUME NEW q \in Procs, Holds(q)' PROVE q = p
  <2>1. "stack" \in Edits(p)
    BY DEF Edits
  <2>2. ASSUME q # p PROVE Locked(Procs \ {p}, "stack")
    BY <1>10, <1>11, <2>2 DEF Same, Holds, Locked
  <2> QED BY <1>5, <2>1, <2>2 DEF Unlocked
<1>12. Exclusive' /\ Owned'
  BY <1>5, <1>6, <1>10, <1>11 DEF Exclusive, Owned
<1>13. Recorded'
  BY <1>5 DEF Inv, Recorded
<1> QED BY <1>2, <1>5, <1>8, <1>12, <1>13 DEF Inv

\* One reference is written.
LEMMA WriteReferenceInv ==
  ASSUME Inv, NEW p \in Procs, WriteReference(p)
  PROVE  Inv'
<1>1. PICK F : OnLog(F)
  BY DEF Inv
<1>2. /\ ProcOK(objects, F, proc[p]) /\ Sound(objects, lastId) /\ LogOK(objects, F)
      /\ patchRefs \in [Names -> Nat] /\ Plain(objects, branch) /\ stackRef \in F
      /\ F \in SUBSET DOMAIN objects /\ proc[p] = [f \in Fields |-> proc[p][f]]
  BY <1>1, ProcFacts
<1>3. proc[p].pc = "writing" /\ UNCHANGED <<objects, lastId>>
  BY DEF WriteReference
<1>4. PICK n \in proc[p].todo :
        /\ stackRef'  = IF n = "stack" THEN proc[p].new ELSE stackRef
        /\ logged'    = IF n = "stack" THEN logged \cup {proc[p].new} ELSE logged
        /\ branch'    = IF n = "branch" THEN proc[p].trans.head ELSE branch
        /\ patchRefs' = IF n \in Names THEN [patchRefs EXCEPT ![n] = proc[p].trans.patches[n]]
                                       ELSE patchRefs
        /\ Step(p, [proc[p] EXCEPT !.todo = @ \ {n}])
  BY DEF WriteReference
<1>5. PICK x : x = proc[p].todo \ {n}
  OBVIOUS
<1>6. PICK r : r = [proc[p] EXCEPT !.todo = x]
  OBVIOUS
<1>7. Step(p, r)
  BY <1>4, <1>5, <1>6
<1>8. /\ r.pc = "writing" /\ r.head = proc[p].head /\ r.state = proc[p].state /\ r.trans = proc[p].trans
      /\ r.new = proc[p].new /\ r.prev = proc[p].prev /\ r.todo = x /\ r = [f \in Fields |-> r[f]]
  BY <1>2, <1>3, <1>6 DEF Fields
<1>9. ProcOK(objects, F, r)
  BY <1>2, <1>3, <1>8 DEF ProcOK
<1>10. /\ Good(objects, proc[p].trans) /\ proc[p].new \in F
       /\ objects[proc[p].new].tree.prev = proc[p].prev
  BY <1>2, <1>3 DEF ProcOK
<1>11. stackRef' \in F /\ Plain(objects, branch') /\ patchRefs' \in [Names -> Nat]
  BY <1>2, <1>4, <1>10 DEF Good, Trees
<1>12. OnLog(F)' /\ proc' = [q \in Procs |-> proc'[q]]
  <2>1. /\ Extends(objects, objects') /\ F \in SUBSET DOMAIN objects' /\ LogOK(objects', F)
        /\ ProcOK(objects', F, r)
    BY <1>2, <1>3, <1>9 DEF Extends
  <2> QED BY <1>1, <1>7, <1>11, <2>1, StepLog
<1>13. \A q \in Procs : proc[q] = [f \in Fields |-> proc[q][f]]
  BY <1>1 DEF OnLog, ProcOK
<1>14. proc'[p] = r /\ \A q \in Procs \ {p} : Same(proc[q], proc'[q])
  BY <1>7, <1>13, StepFacts
<1>15. ASSUME NEW q \in Procs, Holds(q)' PROVE Holds(q) /\ proc'[q].prev = proc[q].prev
  BY <1>3, <1>5, <1>8, <1>14, <1>15 DEF Same, Holds
<1>16. Exclusive'
  BY <1>15 DEF Exclusive, Inv
<1>17. Owned'
  <2>1. ASSUME NEW q \in Procs, Holds(q)', n = "stack" PROVE FALSE
    <3>1. Holds(p) /\ Holds(q)
      BY <1>3, <1>4, <1>15, <2>1 DEF Holds
    <3>2. q = p
      BY <3>1 DEF Inv, Exclusive
    <3> QED BY <1>5, <1>8, <1>14, <2>1, <3>2 DEF Holds
  <2>2. ASSUME NEW q \in Procs, Holds(q)' PROVE stackRef' = proc'[q].prev
    BY <1>4, <1>15, <2>1, <2>2 DEF Inv, Owned
  <2> QED BY <2>2 DEF Owned
<1>18. Recorded'
  <2>1. CASE n = "stack"
    <3>1. proc[p].prev = stackRef
      BY <1>3, <1>4, <2>1 DEF Inv, Owned, Holds
    <3>2. \A y \in logged \cup {proc[p].new} : InLog(objects, proc[p].new, y)
      BY <1>1, <1>10, <3>1, LogGrows
    <3> QED BY <1>3, <1>4, <2>1, <3>2 DEF Recorded
  <2>2. CASE n # "stack"
    BY <1>3, <1>4, <2>2 DEF Inv, Recorded
  <2> QED BY <2>1, <2>2
<1> QED BY <1>2, <1>3, <1>11, <1>12, <1>16, <1>17, <1>18 DEF Inv

\* All references are written.
LEMMA FinishInv ==
  ASSUME Inv, NEW p \in Procs, Finish(p)
  PROVE  Inv'
<1>1. PICK F : OnLog(F)
  BY DEF Inv
<1>2. /\ ProcOK(objects, F, proc[p]) /\ patchRefs \in [Names -> Nat]
  BY <1>1, ProcFacts
<1>3. PICK r : r = [NoProc EXCEPT !.alone = proc[p].alone]
  OBVIOUS
<1>4. r.pc = "idle" /\ r = [f \in Fields |-> r[f]]
  BY <1>3 DEF NoProc, Fields
<1>5. ProcOK(objects, F, r)
  BY <1>4 DEF ProcOK
<1>6. /\ Step(p, r)
      /\ UNCHANGED <<objects, lastId, stackRef, branch, patchRefs, logged>>
  BY <1>3 DEF Finish
<1> QED BY <1>1, <1>2, <1>4, <1>5, <1>6, QuietInv

\* log --clear.
LEMMA ClearStateLogInv ==
  ASSUME Inv, NEW p \in Procs, ClearStateLog(p)
  PROVE  Inv'
<1>1. PICK F : OnLog(F)
  BY DEF Inv
<1>2. /\ ProcOK(objects, F, proc[p]) /\ Sound(objects, lastId) /\ LogOK(objects, F)
      /\ patchRefs \in [Names -> Nat] /\ Plain(objects, branch)
      /\ F \in SUBSET DOMAIN objects
  BY <1>1, ProcFacts
<1>3. proc[p].pc = "clear" /\ Unlocked(p, {"stack"}) /\ Step(p, NoProc) /\ UNCHANGED <<branch, patchRefs>>
  BY DEF ClearStateLog
<1>4. PICK s : s = [proc[p].state EXCEPT !.prev = None]
  OBVIOUS
<1>5. Writable(objects, F, s)
  <2>1. Good(objects, proc[p].state)
    BY <1>2, <1>3 DEF ProcOK
  <2> QED BY <1>2, <1>4, <2>1, WritableOn
<1>6. PICK cs, w, i : /\ cs = StateCommits(objects, lastId + 1, s) /\ i = lastId + Len(cs)
                      /\ w = Written(objects, lastId, cs)
  OBVIOUS
<1>7. Wrote(objects, lastId, F, s, w, i)
  BY <1>2, <1>5, <1>6, StateWritten
<1>8. objects' = w /\ lastId' = i /\ stackRef' = i /\ logged' = {i}
  BY <1>4, <1>6 DEF ClearStateLog
<1>9. /\ Sound(w, i) /\ Extends(objects, w) /\ i \in DOMAIN w /\ w[i].tree = s
      /\ LogOK(w, F \cup {i})
  BY <1>7 DEF Wrote
<1>10. PICK G : G = F \cup {i}
  OBVIOUS
<1>11. G \in SUBSET DOMAIN w /\ F \subseteq G /\ LogOK(w, G) /\ i \in G
  BY <1>2, <1>9, <1>10 DEF Extends
<1>12. Recorded'
  BY <1>8 DEF Recorded, InLog
<1>13. Plain(w, branch')
  BY <1>2, <1>3, <1>9 DEF Plain, Extends
<1>14. ProcOK(w, G, NoProc) /\ NoProc.pc # "writing"
  BY IdleOK
<1>15. patchRefs' \in [Names -> Nat]
  BY <1>2, <1>3
<1> QED BY <1>1, <1>3, <1>8, <1>9, <1>11, <1>12, <1>13, <1>14, <1>15, StepInv
-----------------------------------------------------------------------------
(* Plain git, and the whole. *)

\* git commit.
LEMMA GitCommitInv ==
  ASSUME Inv, GitCommit
  PROVE  Inv'
<1>1. PICK F : OnLog(F)
  BY DEF Inv
<1>2. /\ Sound(objects, lastId) /\ patchRefs \in [Names -> Nat] /\ Plain(objects, branch)
      /\ LogOK(objects, F) /\ F \in SUBSET DOMAIN objects /\ stackRef \in F
  BY <1>1 DEF Inv, OnLog
<1>3. PICK ps, c, w : ps = <<branch>> /\ c = <<Commit(ps, NoTree)>> /\ w = Written(objects, lastId, c)
  OBVIOUS
<1>4. /\ objects' = w /\ lastId' = lastId + 1 /\ branch' = lastId + 1
      /\ proc' = [p \in Procs |-> [proc[p] EXCEPT !.alone = FALSE]]
      /\ UNCHANGED <<stackRef, patchRefs, logged>>
  BY <1>3 DEF GitCommit
<1>5. PlainList(objects, ps)
  BY <1>2, <1>3, OnePlain
<1>6. AddsPlain(objects, lastId, ps, w)
  BY <1>2, <1>3, <1>5, WritePlain
<1>7. Sound(w, lastId + 1) /\ Extends(objects, w) /\ Plain(w, lastId + 1)
  BY <1>6 DEF AddsPlain
<1>8. ASSUME NEW q \in Procs
      PROVE  ProcOK(w, F, proc'[q]) /\ Same(proc[q], proc'[q])
  <2>1. PICK a, t : a = proc[q] /\ t = [a EXCEPT !.alone = FALSE]
    OBVIOUS
  <2>2. proc'[q] = t
    BY <1>4, <2>1
  <2>3. ProcOK(objects, F, a) /\ a = [f \in Fields |-> a[f]]
    BY <1>1, <2>1 DEF OnLog, ProcOK
  <2>4. Same(a, t) /\ t = [f \in Fields |-> t[f]]
    BY <2>1, <2>3, OthersSame
  <2>5. ProcOK(w, F, t)
    BY <1>2, <1>7, <2>3, <2>4, ProcStays
  <2> QED BY <2>1, <2>2, <2>4, <2>5
<1>9. LogOK(objects', F) /\ F \in SUBSET DOMAIN objects'
  BY <1>1, <1>4, <1>7, LogStays
<1>10. OnLog(F)' /\ proc' = [q \in Procs |-> proc'[q]]
  BY <1>2, <1>4, <1>8, <1>9 DEF OnLog
<1>11. Exclusive' /\ Owned'
  <2>1. ASSUME NEW q \in Procs, Holds(q)' PROVE Holds(q) /\ proc'[q].prev = proc[q].prev
    BY <1>8, <2>1 DEF Holds, Same
  <2> QED BY <1>4, <2>1 DEF Exclusive, Owned, Inv
<1>12. Recorded'
  BY <1>4, <1>7, ExtendsKeeps DEF Inv, Recorded
<1>13. Sound(objects', lastId') /\ Plain(objects', branch') /\ patchRefs' \in [Names -> Nat]
  BY <1>2, <1>4, <1>7
<1> QED BY <1>9, <1>10, <1>11, <1>12, <1>13 DEF Inv

\* git gc.
LEMMA GcInv ==
  ASSUME Inv, Gc
  PROVE  Inv'
<1>1. PICK F : OnLog(F)
  BY DEF Inv
<1>2. /\ Sound(objects, lastId) /\ patchRefs \in [Names -> Nat] /\ Plain(objects, branch)
      /\ LogOK(objects, F) /\ F \in SUBSET DOMAIN objects /\ stackRef \in F
  BY <1>1 DEF Inv, OnLog
<1>3. PICK roots, K : /\ roots = {stackRef, branch} \cup {patchRefs[n] : n \in Names}
                      /\ K = Reachable(objects, lastId, roots)
  OBVIOUS
<1>4. roots \in SUBSET Nat
  BY <1>2, <1>3, SoundTypes DEF Plain
<1>5. K \in SUBSET Nat /\ roots \subseteq K /\ Closed(objects, K)
  BY <1>2, <1>3, <1>4, ReachableClosed
<1>6. /\ \A p \in Procs : proc[p].pc = "idle"
      /\ objects' = Kept(objects, K)
      /\ UNCHANGED <<lastId, stackRef, branch, patchRefs, proc, logged>>
  BY <1>3 DEF Gc, Kept
<1>7. PICK w, G : w = Kept(objects, K) /\ G = F \cap K
  OBVIOUS
<1>8. /\ Sound(w, lastId) /\ G \in SUBSET DOMAIN w /\ LogOK(w, G)
      /\ \A i \in K : Plain(objects, i) => Plain(w, i)
      /\ \A i \in G : \A x : InLog(objects, i, x) => InLog(w, i, x)
  BY <1>2, <1>5, <1>7, Collects
<1>9. stackRef \in G /\ branch \in K
  BY <1>2, <1>3, <1>5, <1>7
<1>10. \A p \in Procs : ProcOK(w, G, proc[p])
  BY <1>1, <1>6 DEF OnLog, ProcOK
<1>11. OnLog(G)'
  BY <1>6, <1>7, <1>8, <1>9, <1>10 DEF OnLog
<1>12. Exclusive' /\ Owned'
  BY <1>6 DEF Inv, Exclusive, Owned, Holds
<1>13. Recorded'
  BY <1>6, <1>7, <1>8, <1>9 DEF Inv, Recorded
<1>14. Sound(objects', lastId') /\ Plain(objects', branch') /\ patchRefs' \in [Names -> Nat]
  BY <1>2, <1>6, <1>7, <1>8, <1>9
<1>15. proc' = [p \in Procs |-> proc'[p]]
  BY <1>6 DEF Inv
<1>16. G \in SUBSET DOMAIN objects'
  BY <1>6, <1>7, <1>8
<1> QED BY <1>11, <1>12, <1>13, <1>14, <1>15, <1>16 DEF Inv

\* The first state.
LEMMA InitInv ==
  ASSUME Init
  PROVE  Inv
<1>1. PICK c, o, s : c = Commit(<<>>, NoTree) /\ o = <<c>> /\ s = [NoTree EXCEPT !.head = 1]
  OBVIOUS
<1>2. PICK cs, w, i : cs = StateCommits(o, 1 + 1, s) /\ w = Written(o, 1, cs) /\ i = 1 + Len(cs)
  OBVIOUS
<1>3. /\ objects = w /\ lastId = i /\ stackRef = i /\ branch = 1 /\ logged = {i}
      /\ patchRefs = [n \in Names |-> None] /\ proc = [p \in Procs |-> NoProc]
  <2>1. 1 + 1 = 2
    OBVIOUS
  <2> QED BY <1>1, <1>2, <2>1 DEF Init
<1>4. c \in Commits /\ c.parents = <<>> /\ c.tree = NoTree
  BY <1>1, NoTreeType, NoneSet DEF Commit, Commits
<1>5. DOMAIN o = {1} /\ o[1] = c
  BY <1>1
<1>6. Sound(o, 1)
  BY <1>4, <1>5, NoTreeType, NoneSet DEF Sound
<1>7. /\ s \in Trees /\ s.head = 1 /\ s.prev = None /\ s.applied = <<>> /\ s.unapplied = <<>>
      /\ s.hidden = <<>>
  BY <1>1, NoTreeType DEF Trees, NoTree, None
<1>8. Good(o, s)
  <2>1. Plain(o, 1)
    BY <1>4, <1>5 DEF Plain
  <2>2. Listed(s) = {} /\ ToSet(s.applied) = {} /\ ToSet(s.unapplied) = {} /\ ToSet(s.hidden) = {}
    BY <1>7, NoneSet DEF Listed
  <2>3. IsInjective(<<>>)
    BY DEF IsInjective
  <2>4. Split(s) /\ Stacked(o, s)
    BY <1>7, <2>2, <2>3 DEF Split, Stacked
  <2> QED BY <1>7, <2>1, <2>2, <2>4 DEF Good
<1>9. PICK F : F = {}
  OBVIOUS
<1>10. LogOK(o, F) /\ Writable(o, F, s)
  BY <1>7, <1>8, <1>9 DEF LogOK, Writable
<1>11. Wrote(o, 1, F, s, w, i)
  BY <1>2, <1>6, <1>10, StateWritten
<1>12. /\ Sound(w, i) /\ Extends(o, w) /\ i \in DOMAIN w /\ LogOK(w, {i})
  BY <1>9, <1>11 DEF Wrote
<1>13. Plain(w, 1)
  BY <1>4, <1>5, <1>12 DEF Plain, Extends
<1>14. OnLog({i})
  BY <1>3, <1>12, IdleOK DEF OnLog
<1>15. Exclusive /\ Owned
  BY <1>3, IdleOK DEF Exclusive, Owned, Holds
<1>16. Recorded
  BY <1>3 DEF Recorded, InLog
<1>17. patchRefs \in [Names -> Nat] /\ proc = [p \in Procs |-> proc[p]]
  BY <1>3 DEF None
<1>18. {i} \in SUBSET DOMAIN objects
  BY <1>3, <1>12
<1> QED BY <1>3, <1>12, <1>13, <1>14, <1>15, <1>16, <1>17, <1>18 DEF Inv

\* Every step keeps the invariant.
LEMMA NextInv ==
  ASSUME Inv, [Next]_vars
  PROVE  Inv'
<1>1. CASE UNCHANGED vars
  BY <1>1 DEF vars, Inv, OnLog, Exclusive, Owned, Holds, Recorded
<1>2. ASSUME NEW p \in Procs, Opening(p) \/ Closure(p) \/ Executing(p) \/ Kill(p) PROVE Inv'
  <2>1. CASE Opening(p) \/ Kill(p)
    BY <2>1, OpeningInv
  <2>2. CASE Closure(p)
    BY <2>2, NewPatchInv, RefreshInv, PopInv, PushInv, HideOrDeleteInv, ResetInv, StartClearInv
       DEF Closure
  <2>3. CASE Executing(p)
    BY <2>3, LogExternalModsInv, LogEditInv, ExecuteInv, PrepareEditsInv, OpeningInv,
       WriteReferenceInv, FinishInv, ClearStateLogInv DEF Executing
  <2> QED BY <1>2, <2>1, <2>2, <2>3
<1>3. CASE GitCommit \/ Gc
  BY <1>3, GitCommitInv, GcInv
<1> QED BY <1>1, <1>2, <1>3 DEF Next
\* The invariant holds.
LEMMA Invariant == Spec => []Inv
<1>1. Init => Inv
  BY InitInv
<1>2. Inv /\ [Next]_vars => Inv'
  BY NextInv
<1> QED BY <1>1, <1>2, PTL DEF Spec
-----------------------------------------------------------------------------
(* The theorems. *)

\* However the parents of state commits are pruned and bundled, whatever is
\* collected, and whichever processes write in whatever order: the head, the
\* patches and the predecessor of every state that undo can come to are there.
THEOREM LogReadable == Spec => []LoggedStatesReadable
<1>1. Inv => LoggedStatesReadable
  <2>1. SUFFICES ASSUME Inv PROVE LoggedStatesReadable
    OBVIOUS
  <2>2. PICK F : OnLog(F)
    BY <2>1 DEF Inv
  <2>3. Sound(objects, lastId) /\ LogOK(objects, F) /\ F \in SUBSET DOMAIN objects
    BY <2>1, <2>2 DEF Inv, OnLog
  <2>4. ToSet(History(objects, stackRef)) \subseteq F
    BY <2>2, <2>3, HistoryIn
  <2>5. ASSUME NEW i \in F PROVE i \in DOMAIN objects /\ Readable(objects, objects[i].tree)
    <3>1. PICK s : s = objects[i].tree
      OBVIOUS
    <3>2. Good(objects, s) /\ (s.prev = None \/ s.prev \in F) /\ i \in DOMAIN objects
      BY <2>3, <3>1 DEF LogOK, Full
    <3>3. s \in Trees /\ s.head \in DOMAIN objects /\ \A n \in Listed(s) : s.patches[n] \in DOMAIN objects
      BY <3>2 DEF Good, Plain, IsPatch
    <3>4. ToSet(AllPatches(s)) = Listed(s)
      BY <3>3, AllPatchesSet
    <3> QED BY <2>3, <3>1, <3>2, <3>3, <3>4 DEF Readable
  <2> QED BY <2>4, <2>5 DEF LoggedStatesReadable
<1> QED BY <1>1, Invariant, PTL

\* A state that was installed stays in the log until `log --clear', although the
\* stack reference is compared and written by several processes in several steps.
THEOREM InstalledStatesStay == Spec => []InstalledStatesStayLogged
<1>1. Inv => InstalledStatesStayLogged
  <2>1. SUFFICES ASSUME Inv PROVE InstalledStatesStayLogged
    OBVIOUS
  <2>2. PICK F : OnLog(F)
    BY <2>1 DEF Inv
  <2>3. Sound(objects, lastId)
    BY <2>1 DEF Inv
  <2>4. PICK h : h = History(objects, stackRef)
    OBVIOUS
  <2>5. Walk(objects, stackRef, h) /\ ~HasPrev(objects, Last(h))
    BY <2>2, <2>3, <2>4, HistoryIn
  <2>6. stackRef \in ToSet(h) /\ ToSet(h) \in SUBSET Nat /\ PrevClosed(objects, ToSet(h))
    BY <2>5, WalkClosed
  <2>7. ASSUME NEW x \in logged PROVE x \in ToSet(h)
    BY <2>1, <2>6 DEF Inv, Recorded, InLog
  <2> QED BY <2>4, <2>7 DEF InstalledStatesStayLogged
<1> QED BY <1>1, Invariant, PTL
\* What `stg log' walks, the simplified entries, are the entries of the states that
\* undo walks, one by one, and both walks end together.
THEOREM SimplifiedLog == Spec => []SimplifiedLogAgrees
<1>1. Inv => SimplifiedLogAgrees
  <2>1. SUFFICES ASSUME Inv PROVE SimplifiedLogAgrees
    OBVIOUS
  <2>2. PICK F : OnLog(F)
    BY <2>1 DEF Inv
  <2>3. Sound(objects, lastId) /\ LogOK(objects, F) /\ F \in SUBSET DOMAIN objects
    BY <2>1, <2>2 DEF Inv, OnLog
  <2>4. PICK h, n, o, i : h = History(objects, stackRef) /\ n = Len(h) /\ o = objects /\ i = stackRef
    OBVIOUS
  <2>5. Walk(o, i, h) /\ ~HasPrev(o, Last(h)) /\ ToSet(h) \subseteq F
    BY <2>2, <2>3, <2>4, HistoryIn
  <2>6. h \in Seq(Nat) /\ n \in Nat /\ n >= 1 /\ h[1] = i /\ Last(h) = h[n]
    BY <2>4, <2>5 DEF Walk, Last
  <2>7. ASSUME NEW k \in 1..n
        PROVE  /\ h[k] \in DOMAIN o
               /\ o[o[h[k]].parents[1]].tree = o[h[k]].tree
               /\ o[o[h[k]].parents[1]].parents
                    = IF o[h[k]].tree.prev = None THEN <<>> ELSE <<o[o[h[k]].tree.prev].parents[1]>>
    <3>1. h[k] \in F
      BY <2>4, <2>5, <2>6, ToSetIff
    <3>2. Full(o, F, h[k])
      BY <2>3, <2>4, <3>1 DEF LogOK
    <3> QED BY <3>2 DEF Full
  <2>8. PICK f : f = [k \in 1..n |-> o[h[k]].parents[1]]
    OBVIOUS
  <2>9. ASSUME NEW k \in 1..(n - 1) PROVE o[f[k]].parents[1] = f[k + 1]
    <3>1. HasPrev(o, h[k]) /\ h[k + 1] = o[h[k]].tree.prev
      BY <2>4, <2>5 DEF Walk
    <3>2. k \in 1..n /\ k + 1 \in 1..n
      BY <2>6
    <3>3. f[k] = o[h[k]].parents[1] /\ f[k + 1] = o[h[k + 1]].parents[1]
      BY <2>8, <3>2
    <3>4. o[f[k]].parents = <<f[k + 1]>>
      BY <2>7, <3>1, <3>2, <3>3 DEF HasPrev
    <3> QED BY <3>4
  <2> DEFINE IsSimple(g) == g = [k \in 1..n |-> IF k = 1 THEN o[i].parents[1] ELSE o[g[k - 1]].parents[1]]
             IsSimpleOf(g) == g = [k \in 1..Len(h) |-> IF k = 1 THEN objects[stackRef].parents[1]
                                                                ELSE objects[g[k - 1]].parents[1]]
  <2>10. IsSimple(f)
    <3>1. \A k \in 1..n : f[k] = o[h[k]].parents[1]
      BY <2>8
    <3>2. ASSUME NEW k \in 1..n PROVE f[k] = IF k = 1 THEN o[i].parents[1] ELSE o[f[k - 1]].parents[1]
      <4>1. CASE k = 1
        BY <2>6, <3>1, <4>1
      <4>2. CASE k # 1
        <5>1. PICK m \in 1..(n - 1) : k = m + 1 /\ k - 1 = m
          BY <2>6, <4>2
        <5> QED BY <2>9, <4>2, <5>1
      <4> QED BY <4>1, <4>2
    <3> QED BY <2>8, <3>2
  <2>11. PICK g : g = CHOOSE x : IsSimpleOf(x)
    OBVIOUS
  <2>12. IsSimple(g)
    <3>1. \A x : IsSimple(x) <=> IsSimpleOf(x)
      BY <2>4
    <3> HIDE DEF IsSimple, IsSimpleOf
    <3> QED BY <2>10, <2>11, <3>1
  <2>13. \A k \in 1..n : g[k] = f[k]
    <3>1. PICK D : D = {k \in 0..(n - 1) : g[k + 1] = f[k + 1]}
      OBVIOUS
    <3>2. 1 \in 1..n
      BY <2>6
    <3>3. g[1] = o[i].parents[1] /\ f[1] = o[i].parents[1]
      BY <2>10, <2>12, <3>2
    <3>4. 0 \in D
      BY <2>6, <3>1, <3>3
    <3>5. ASSUME NEW k \in 0..((n - 1) - 1), k \in D PROVE k + 1 \in D
      <4>1. PICK m : m = k + 1
        OBVIOUS
      <4>2. m \in 1..(n - 1) /\ m + 1 \in 1..n /\ m + 1 # 1 /\ (m + 1) - 1 = m
        BY <2>6, <4>1
      <4>3. g[m] = f[m]
        BY <3>1, <3>5, <4>1
      <4> HIDE DEF IsSimple
      <4>4. g[m + 1] = o[g[(m + 1) - 1]].parents[1]
        BY <2>12, <4>2 DEF IsSimple
      <4>5. g[m + 1] = f[m + 1]
        BY <2>9, <4>2, <4>3, <4>4
      <4> QED BY <2>6, <3>1, <4>1, <4>2, <4>5
    <3>6. n - 1 \in Nat
      BY <2>6
    <3>7. \A k \in 0..(n - 1) : k \in D
      BY <3>4, <3>5, <3>6, UpTo
    <3>8. ASSUME NEW k \in 1..n PROVE g[k] = f[k]
      <4>1. k - 1 \in 0..(n - 1) /\ (k - 1) + 1 = k
        BY <2>6
      <4> QED BY <3>1, <3>7, <4>1
    <3> QED BY <3>8
  <2>14. \A k \in 1..n : o[g[k]].tree = o[h[k]].tree
    BY <2>7, <2>8, <2>13
  <2>15. o[g[n]].parents = <<>>
    <3>1. n \in 1..n
      BY <2>6
    <3>2. h[n] \in DOMAIN o /\ o[h[n]].tree.prev = None
      BY <2>5, <2>6, <2>7, <3>1 DEF HasPrev
    <3> QED BY <2>7, <2>8, <2>13, <3>1, <3>2
  <2>16. /\ \A k \in 1..Len(h) : objects[g[k]].tree = objects[h[k]].tree
         /\ objects[g[Len(h)]].parents = <<>>
    BY <2>4, <2>14, <2>15
  <2>17. g = CHOOSE x : x = [k \in 1..Len(h) |->
               IF k = 1 THEN objects[stackRef].parents[1] ELSE objects[x[k - 1]].parents[1]]
    BY <2>11
  <2> QED BY <2>4, <2>16, <2>17, Zenon DEF SimplifiedLogAgrees
<1> QED BY <1>1, Invariant, PTL
-----------------------------------------------------------------------------
(* One command heals. *)

\* How far a command with the memory r is that nobody has interfered with, where
\* the references are sr, br and pr: the patch references that it has looked at are
\* those of the state that it read, it knows which ones the new state changes, and what it need not
\* write any more is what the new state says.
Heals(objs, sr, br, pr, r) ==
  r.alone # FALSE =>
    /\ r.pc = "ensure" =>
         \A n \in Names : n \notin r.todo /\ (r.seen = <<>> \/ n # r.seen[1]) => pr[n] = r.state.patches[n]
    /\ r.pc \in {"body", "log", "log edit", "execute", "edit"} => pr = r.state.patches
    /\ r.pc \in {"log", "log edit", "execute", "edit"} =>
         \A n \in Names : r.trans.patches[n] # r.state.patches[n] => n \in r.touched
    /\ r.pc \in {"edit", "writing"} =>
         objs[r.new].tree.patches = r.trans.patches /\ objs[r.new].tree.head = r.trans.head
    /\ r.pc = "writing" =>
         /\ \A n \in Names : n \notin r.todo => pr[n] = r.trans.patches[n]
         /\ "stack" \notin r.todo => sr = r.new
         /\ "branch" \notin r.todo => br = r.trans.head

Healing == \A p \in Procs : Heals(objects, stackRef, branch, patchRefs, proc[p])

\* Nothing is said of a command that has not read the state, or has ended.
LEMMA NothingHealed ==
  ASSUME NEW objs, NEW sr, NEW br, NEW pr, NEW r,
         r.pc \in {"idle", "branch read", "clear"} \/ r.alone = FALSE
  PROVE  Heals(objs, sr, br, pr, r)
BY DEF Heals

\* Only the process that makes the step can be alone afterwards.
LEMMA StepHeals ==
  ASSUME Inv, NEW p \in Procs, NEW r, Step(p, r), Heals(objects', stackRef', branch', patchRefs', r)
  PROVE  Healing'
<1>1. \A q \in Procs : proc[q] = [f \in Fields |-> proc[q][f]]
  BY DEF Inv, OnLog, ProcOK
<1>2. proc'[p] = r /\ \A q \in Procs \ {p} : Same(proc[q], proc'[q])
  BY <1>1, StepFacts
<1>3. ASSUME NEW q \in Procs \ {p} PROVE Heals(objects', stackRef', branch', patchRefs', proc'[q])
  BY <1>2, NothingHealed DEF Same
<1>4. \A q \in Procs : Heals(objects', stackRef', branch', patchRefs', proc'[q])
  BY <1>2, <1>3
<1> QED BY <1>4 DEF Healing

\* Opening, ending, killing, plain git.
LEMMA OpeningHeals ==
  ASSUME Inv, Healing, NEW p \in Procs,
         Opening(p) \/ EditFails(p) \/ Kill(p) \/ StartClear(p) \/ ClearStateLog(p) \/ Finish(p)
  PROVE  Healing'
<1>1. proc[p] = [f \in Fields |-> proc[p][f]]
  BY DEF Inv, OnLog, ProcOK
<1>8. Heals(objects, stackRef, branch, patchRefs, proc[p])
  BY DEF Healing
<1>9. patchRefs \in [Names -> Nat]
  BY DEF Inv
<1>2. CASE ReadBranch(p)
  <2>1. PICK r : r = [NoProc EXCEPT !.pc = "branch read", !.head = branch,
                            !.alone = \A q \in Procs \ {p} : proc[q].pc = "idle"]
    OBVIOUS
  <2>2. r.pc = "branch read" /\ Step(p, r)
    BY <1>2, <2>1 DEF NoProc, ReadBranch
  <2> QED BY <2>2, NothingHealed, StepHeals
<1>3. CASE ReadState(p)
  <2>1. PICK r : r = [proc[p] EXCEPT !.pc = "ensure", !.state = State, !.todo = Names]
    OBVIOUS
  <2>2. r.pc = "ensure" /\ r.todo = Names /\ Step(p, r)
    BY <1>1, <1>3, <2>1 DEF Fields, ReadState
  <2>3. Heals(objects', stackRef', branch', patchRefs', r)
    BY <2>2 DEF Heals
  <2> QED BY <2>2, <2>3, StepHeals
<1>4. CASE FindRef(p)
  <2>1. PICK n \in proc[p].todo : Finds(p, n, patchRefs[n] = proc[p].state.patches[n])
    BY <1>4 DEF FindRef
  <2>2. PICK x, y : /\ x = proc[p].todo \ {n}
                    /\ y = IF patchRefs[n] = proc[p].state.patches[n] THEN <<>> ELSE <<n, patchRefs[n]>>
    OBVIOUS
  <2>3. PICK r : r = [proc[p] EXCEPT !.todo = x, !.seen = y]
    OBVIOUS
  <2>4. /\ r.pc = proc[p].pc /\ r.state = proc[p].state /\ r.todo = x /\ r.seen = y /\ r.alone = proc[p].alone
        /\ proc[p].pc = "ensure" /\ proc[p].seen = <<>>
    BY <1>1, <1>4, <2>3 DEF Fields, FindRef
  <2>5. Step(p, r) /\ patchRefs' = patchRefs
    BY <2>1, <2>2, <2>3 DEF Finds
  <2>6. ASSUME proc[p].alone # FALSE, NEW m \in Names, m \notin x, y = <<>> \/ m # y[1]
        PROVE  patchRefs[m] = proc[p].state.patches[m]
    <3>1. ASSUME m = n PROVE y = <<>>
      BY <2>2, <2>6, <3>1
    <3>2. CASE m = n
      <4>1. <<n, patchRefs[n]>> # <<>>
        OBVIOUS
      <4> QED BY <2>2, <3>1, <3>2, <4>1
    <3>3. CASE m # n
      BY <1>8, <2>2, <2>4, <2>6, <3>3 DEF Heals
    <3> QED BY <3>2, <3>3
  <2>7. Heals(objects', stackRef', branch', patchRefs', r)
    BY <2>4, <2>5, <2>6 DEF Heals
  <2> QED BY <2>5, <2>7, StepHeals
<1>41. CASE FixRef(p)
  <2>1. PICK r : r = [proc[p] EXCEPT !.seen = <<>>]
    OBVIOUS
  <2>2. PICK n : n = proc[p].seen[1]
    OBVIOUS
  <2>3. /\ r.pc = proc[p].pc /\ r.state = proc[p].state /\ r.todo = proc[p].todo /\ r.alone = proc[p].alone
        /\ proc[p].pc = "ensure"
    BY <1>1, <1>41, <2>1 DEF Fields, FixRef
  <2>4. Step(p, r) /\ patchRefs' = [patchRefs EXCEPT ![n] = proc[p].state.patches[n]]
    BY <1>41, <2>1, <2>2 DEF FixRef
  <2>5. ASSUME proc[p].alone # FALSE, NEW m \in Names, m \notin proc[p].todo
        PROVE  patchRefs'[m] = proc[p].state.patches[m]
    <3>1. m # n => patchRefs[m] = proc[p].state.patches[m]
      BY <1>8, <2>2, <2>3, <2>5 DEF Heals
    <3> QED BY <1>9, <2>4, <3>1
  <2>6. Heals(objects', stackRef', branch', patchRefs', r)
    BY <2>3, <2>5 DEF Heals
  <2> QED BY <2>4, <2>6, StepHeals
<1>42. CASE Opened(p)
  <2>1. PICK r : r = [proc[p] EXCEPT !.pc = "body"]
    OBVIOUS
  <2>2. /\ r.pc = "body" /\ Step(p, r) /\ r.state = proc[p].state /\ r.alone = proc[p].alone
        /\ patchRefs' = patchRefs /\ proc[p].pc = "ensure" /\ proc[p].todo = {} /\ proc[p].seen = <<>>
    BY <1>1, <1>42, <2>1 DEF Fields, Opened
  <2>3. proc[p].state.patches \in [Names -> Nat]
    BY <2>2 DEF Inv, OnLog, ProcOK, Good, Trees
  <2>4. proc[p].alone # FALSE => \A n \in Names : patchRefs[n] = proc[p].state.patches[n]
    BY <1>8, <2>2 DEF Heals
  <2>5. proc[p].alone # FALSE => patchRefs = proc[p].state.patches
    BY <1>9, <2>3, <2>4
  <2>6. Heals(objects', stackRef', branch', patchRefs', r)
    BY <2>2, <2>5 DEF Heals
  <2> QED BY <2>2, <2>6, StepHeals
<1>5. CASE OpenFails(p) \/ EditFails(p) \/ Kill(p) \/ ClearStateLog(p)
  <2>1. Step(p, NoProc) /\ NoProc.pc = "idle"
    BY <1>5, IdleOK DEF OpenFails, EditFails, Kill, Ends, ClearStateLog
  <2> QED BY <2>1, NothingHealed, StepHeals
<1>6. CASE StartClear(p)
  <2>1. PICK r : r = [proc[p] EXCEPT !.pc = "clear"]
    OBVIOUS
  <2>2. r.pc = "clear" /\ Step(p, r)
    BY <1>1, <1>6, <2>1 DEF Fields, StartClear
  <2> QED BY <2>2, NothingHealed, StepHeals
<1>7. CASE Finish(p)
  <2>1. PICK r : r = [NoProc EXCEPT !.alone = proc[p].alone]
    OBVIOUS
  <2>2. r.pc = "idle" /\ Step(p, r)
    BY <1>7, <2>1 DEF NoProc, Finish
  <2> QED BY <2>2, NothingHealed, StepHeals
<1> QED BY <1>2, <1>3, <1>4, <1>41, <1>42, <1>5, <1>6, <1>7 DEF Opening, EnsurePatchRefs

\* The closure arrives somewhere.
LEMMA ArrivesHeals ==
  ASSUME Inv, Healing, NEW p \in Procs, proc[p].pc = "body", NEW s, NEW c, NEW x, Arrives(p, s, c, x),
         \A n \in Names : s.patches[n] # proc[p].state.patches[n] => n \in x
  PROVE  Healing'
<1>1. proc[p] = [f \in Fields |-> proc[p][f]]
  BY DEF Inv, OnLog, ProcOK
<1>2. PICK k : k = IF proc[p].state.head = proc[p].head THEN "execute" ELSE "log"
  OBVIOUS
<1>3. PICK r : r = [proc[p] EXCEPT !.pc = k, !.trans = s, !.touched = x]
  OBVIOUS
<1>4. /\ r.pc = k /\ r.trans = s /\ r.state = proc[p].state /\ r.touched = x
      /\ r.alone = proc[p].alone /\ k \in {"execute", "log"}
  BY <1>1, <1>2, <1>3 DEF Fields
<1>5. Step(p, r) /\ patchRefs' = patchRefs
  BY <1>2, <1>3 DEF Arrives
<1>6. r.alone # FALSE => patchRefs = proc[p].state.patches
  BY <1>4 DEF Healing, Heals
<1>7. Heals(objects', stackRef', branch', patchRefs', r)
  BY <1>4, <1>5, <1>6 DEF Heals
<1> QED BY <1>5, <1>7, StepHeals

\* The same with the head at the topmost patch.
LEMMA ChangesHeals ==
  ASSUME Inv, Inv', Healing, NEW p \in Procs, proc[p].pc = "body", NEW s, NEW c, Changes(p, s, c)
  PROVE  Healing'
<1>1. proc[p] = [f \in Fields |-> proc[p][f]] /\ \A q \in Procs : proc[q] = [f \in Fields |-> proc[q][f]]
  BY DEF Inv, OnLog, ProcOK
<1>2. PICK t, k, x : /\ t = [s EXCEPT !.head = Top(s)]
                     /\ k = IF proc[p].state.head = proc[p].head THEN "execute" ELSE "log"
                     /\ x = {n \in Names : s.patches[n] # proc[p].state.patches[n]}
  OBVIOUS
<1>3. PICK r : r = [proc[p] EXCEPT !.pc = k, !.trans = t, !.touched = x]
  OBVIOUS
<1>4. r.pc = k /\ r.trans = t /\ k \in {"execute", "log"}
  BY <1>1, <1>2, <1>3 DEF Fields
<1>5. Step(p, r) /\ Arrives(p, t, c, x)
  BY <1>2, <1>3 DEF Changes, Arrives
<1>6. t.patches = s.patches
  <2>1. proc'[p] = r
    BY <1>1, <1>5, StepFacts
  <2>2. PICK F : OnLog(F)'
    BY DEF Inv
  <2>3. ProcOK(objects', F, r)
    BY <2>1, <2>2 DEF OnLog
  <2>4. t \in Trees
    BY <1>4, <2>3 DEF ProcOK, Good
  <2>5. "patches" \in DOMAIN t
    BY <2>4 DEF Trees
  <2>6. DOMAIN t = DOMAIN s
    BY <1>2
  <2> QED BY <1>2, <2>5, <2>6
<1>7. \A n \in Names : t.patches[n] # proc[p].state.patches[n] => n \in x
  BY <1>2, <1>6
<1> QED BY <1>5, <1>7, ArrivesHeals

\* log_external_mods.
LEMMA LogHeals ==
  ASSUME Inv, Healing, NEW p \in Procs, LogExternalMods(p) \/ LogEdit(p)
  PROVE  Healing'
<1>1. proc[p] = [f \in Fields |-> proc[p][f]]
  BY DEF Inv, OnLog, ProcOK
<1>2. Heals(objects, stackRef, branch, patchRefs, proc[p])
  BY DEF Healing
<1>3. CASE LogExternalMods(p)
  <2>1. PICK s : s = [proc[p].state EXCEPT !.head = proc[p].head, !.prev = stackRef]
    OBVIOUS
  <2>2. PICK v, i : v = s.prev /\ i = lastId + Len(StateCommits(objects, lastId + 1, s))
    OBVIOUS
  <2>3. PICK r : r = [proc[p] EXCEPT !.pc = "log edit", !.prev = v, !.new = i]
    OBVIOUS
  <2>4. Step(p, r) /\ patchRefs' = patchRefs /\ proc[p].pc = "log"
    BY <1>3, <2>1, <2>2, <2>3 DEF LogExternalMods, WriteState
  <2>5. /\ r.pc = "log edit" /\ r.alone = proc[p].alone /\ r.touched = proc[p].touched
        /\ r.trans = proc[p].trans /\ r.state = proc[p].state
    BY <1>1, <2>3 DEF Fields
  <2>6. Heals(objects', stackRef', branch', patchRefs', r)
    BY <1>2, <2>4, <2>5 DEF Heals
  <2> QED BY <2>4, <2>6, StepHeals
<1>4. CASE LogEdit(p)
  <2>1. PICK t : t = [proc[p].state EXCEPT !.head = proc[p].head]
    OBVIOUS
  <2>2. PICK r : r = [proc[p] EXCEPT !.pc = "execute", !.state = t]
    OBVIOUS
  <2>3. [proc[p] EXCEPT !.pc = "execute", !.state.head = proc[p].head] = r
    BY <1>1, <2>1, <2>2 DEF Fields
  <2>4. Step(p, r) /\ patchRefs' = patchRefs /\ proc[p].pc = "log edit"
    BY <1>4, <2>3 DEF LogEdit
  <2>5. /\ r.pc = "execute" /\ r.alone = proc[p].alone /\ r.touched = proc[p].touched
        /\ r.trans = proc[p].trans /\ r.state = t
    BY <1>1, <2>2 DEF Fields
  <2>6. t.patches = proc[p].state.patches
    <3>1. proc[p].state \in Trees
      BY <2>4 DEF Inv, OnLog, ProcOK, Good
    <3> QED BY <2>1, <3>1 DEF Trees
  <2>7. Heals(objects', stackRef', branch', patchRefs', r)
    BY <1>2, <2>4, <2>5, <2>6 DEF Heals
  <2> QED BY <2>4, <2>7, StepHeals
<1> QED BY <1>3, <1>4

\* The new state is written.
LEMMA ExecuteHeals ==
  ASSUME Inv, Healing, NEW p \in Procs, Execute(p)
  PROVE  Healing'
<1>1. PICK F : OnLog(F)
  BY DEF Inv
<1>2. /\ ProcOK(objects, F, proc[p]) /\ Sound(objects, lastId) /\ LogOK(objects, F) /\ stackRef \in F
      /\ F \in SUBSET DOMAIN objects /\ proc[p] = [f \in Fields |-> proc[p][f]]
  BY <1>1, ProcFacts
<1>3. Heals(objects, stackRef, branch, patchRefs, proc[p])
  BY DEF Healing
<1>4. proc[p].pc = "execute" /\ patchRefs' = patchRefs
  BY DEF Execute
<1>5. Good(objects, proc[p].trans)
  BY <1>2, <1>4 DEF ProcOK
<1>6. PICK s : s = [proc[p].trans EXCEPT !.prev = stackRef]
  OBVIOUS
<1>7. Writable(objects, F, s) /\ s.head = proc[p].trans.head /\ s.patches = proc[p].trans.patches
  BY <1>2, <1>5, <1>6, WritableOn
<1>8. PICK cs, w, i, v : /\ cs = StateCommits(objects, lastId + 1, s) /\ i = lastId + Len(cs)
                         /\ w = Written(objects, lastId, cs) /\ v = s.prev
  OBVIOUS
<1>9. Wrote(objects, lastId, F, s, w, i)
  BY <1>2, <1>7, <1>8, StateWritten
<1>10. w[i].tree = s
  BY <1>9 DEF Wrote
<1>11. PICK r : r = [proc[p] EXCEPT !.pc = "edit", !.prev = v, !.new = i]
  OBVIOUS
<1>12. Step(p, r) /\ objects' = w
  BY <1>6, <1>8, <1>11 DEF Execute, WriteState
<1>13. /\ r.pc = "edit" /\ r.alone = proc[p].alone /\ r.touched = proc[p].touched
       /\ r.trans = proc[p].trans /\ r.state = proc[p].state /\ r.new = i
  BY <1>2, <1>11 DEF Fields
<1>14. Heals(objects', stackRef', branch', patchRefs', r)
  BY <1>3, <1>4, <1>7, <1>10, <1>12, <1>13 DEF Heals
<1> QED BY <1>12, <1>14, StepHeals

\* The references are locked: the ones that need not be written are right.
LEMMA PrepareHeals ==
  ASSUME Inv, Healing, NEW p \in Procs, PrepareEdits(p)
  PROVE  Healing'
<1>1. proc[p] = [f \in Fields |-> proc[p][f]]
  BY DEF Inv, OnLog, ProcOK
<1>2. Heals(objects, stackRef, branch, patchRefs, proc[p])
  BY DEF Healing
<1>3. PICK x : x = Edits(p)
  OBVIOUS
<1>4. PICK r : r = [proc[p] EXCEPT !.pc = "writing", !.todo = x]
  OBVIOUS
<1>5. /\ proc[p].pc = "edit" /\ Step(p, r) /\ patchRefs' = patchRefs /\ objects' = objects
  BY <1>3, <1>4 DEF PrepareEdits
<1>6. /\ r.pc = "writing" /\ r.alone = proc[p].alone /\ r.trans = proc[p].trans
      /\ r.new = proc[p].new /\ r.todo = x
  BY <1>1, <1>4 DEF Fields
<1>7. ASSUME proc[p].alone # FALSE, NEW n \in Names, n \notin x
      PROVE  patchRefs[n] = proc[p].trans.patches[n]
  <2>1. /\ n \notin proc[p].touched /\ patchRefs = proc[p].state.patches
        /\ \A m \in Names : proc[p].trans.patches[m] # proc[p].state.patches[m] => m \in proc[p].touched
    BY <1>2, <1>3, <1>5, <1>7 DEF Heals, Edits
  <2> QED BY <2>1
<1>8. "stack" \in x /\ "branch" \in x
  BY <1>3, <1>5 DEF Edits
<1>9. Heals(objects', stackRef', branch', patchRefs', r)
  BY <1>2, <1>5, <1>6, <1>7, <1>8 DEF Heals
<1> QED BY <1>5, <1>9, StepHeals

\* A reference is written: it need not be written any more, and it is right.
LEMMA WriteReferenceHeals ==
  ASSUME Inv, Healing, NEW p \in Procs, WriteReference(p)
  PROVE  Healing'
<1>1. proc[p] = [f \in Fields |-> proc[p][f]] /\ patchRefs \in [Names -> Nat]
  BY DEF Inv, OnLog, ProcOK
<1>2. Heals(objects, stackRef, branch, patchRefs, proc[p])
  BY DEF Healing
<1>3. proc[p].pc = "writing" /\ objects' = objects
  BY DEF WriteReference
<1>4. PICK n \in proc[p].todo :
        /\ stackRef'  = IF n = "stack" THEN proc[p].new ELSE stackRef
        /\ branch'    = IF n = "branch" THEN proc[p].trans.head ELSE branch
        /\ patchRefs' = IF n \in Names THEN [patchRefs EXCEPT ![n] = proc[p].trans.patches[n]]
                                       ELSE patchRefs
        /\ Step(p, [proc[p] EXCEPT !.todo = @ \ {n}])
  BY DEF WriteReference
<1>5. PICK x : x = proc[p].todo \ {n}
  OBVIOUS
<1>6. PICK r : r = [proc[p] EXCEPT !.todo = x]
  OBVIOUS
<1>7. Step(p, r)
  BY <1>4, <1>5, <1>6
<1>8. /\ r.pc = "writing" /\ r.alone = proc[p].alone /\ r.trans = proc[p].trans
      /\ r.new = proc[p].new /\ r.todo = x
  BY <1>1, <1>3, <1>6 DEF Fields
<1>9. ASSUME proc[p].alone # FALSE
      PROVE  /\ \A m \in Names : m \notin proc[p].todo => patchRefs[m] = proc[p].trans.patches[m]
             /\ "stack" \notin proc[p].todo => stackRef = proc[p].new
             /\ "branch" \notin proc[p].todo => branch = proc[p].trans.head
             /\ objects[proc[p].new].tree.patches = proc[p].trans.patches
             /\ objects[proc[p].new].tree.head = proc[p].trans.head
  BY <1>2, <1>3, <1>9 DEF Heals
<1>10. ASSUME proc[p].alone # FALSE, NEW m \in Names, m \notin x
       PROVE  patchRefs'[m] = proc[p].trans.patches[m]
  BY <1>1, <1>4, <1>5, <1>9, <1>10
<1>11. ASSUME proc[p].alone # FALSE
       PROVE  /\ "stack" \notin x => stackRef' = proc[p].new
              /\ "branch" \notin x => branch' = proc[p].trans.head
  BY <1>4, <1>5, <1>9, <1>11
<1>12. Heals(objects', stackRef', branch', patchRefs', r)
  BY <1>3, <1>8, <1>9, <1>10, <1>11 DEF Heals
<1> QED BY <1>7, <1>12, StepHeals

\* Every step keeps Healing.
LEMMA NextHeals ==
  ASSUME Inv, Inv', Healing, [Next]_vars
  PROVE  Healing'
<1>1. CASE UNCHANGED vars
  BY <1>1 DEF vars, Healing
<1>2. ASSUME NEW p \in Procs, Opening(p) \/ Closure(p) \/ Executing(p) \/ Kill(p) PROVE Healing'
  <2>1. CASE Opening(p) \/ Kill(p)
    BY <2>1, OpeningHeals
  <2>2. CASE Closure(p)
    <3>1. ASSUME NEW s, NEW c, Changes(p, s, c), proc[p].pc = "body" PROVE Healing'
      BY <3>1, ChangesHeals
    <3>2. CASE StartClear(p)
      BY <3>2, OpeningHeals
    <3>3. CASE NewPatch(p)
      BY <3>1, <3>3 DEF NewPatch, InBody
    <3>4. CASE Refresh(p) \/ Pop(p)
      BY <3>1, <3>4 DEF Refresh, Pop, InBody
    <3>5. CASE Push(p)
      BY <3>1, <3>5 DEF Push, InBody
    <3>6. CASE HideOrDelete(p)
      BY <3>1, <3>6 DEF HideOrDelete, InBody
    <3>7. CASE Reset(p)
      <4>1. PICK s, x : /\ Arrives(p, s, <<>>, x)
                        /\ x = {n \in Names : s.patches[n] # None \/ proc[p].state.patches[n] # None}
        BY <3>7 DEF Reset
      <4>2. \A n \in Names : s.patches[n] # proc[p].state.patches[n] => n \in x
        BY <4>1
      <4>3. proc[p].pc = "body"
        BY <3>7 DEF Reset
      <4> QED BY <4>1, <4>2, <4>3, ArrivesHeals
    <3> QED BY <2>2, <3>2, <3>3, <3>4, <3>5, <3>6, <3>7 DEF Closure
  <2>3. CASE Executing(p)
    BY <2>3, LogHeals, ExecuteHeals, PrepareHeals, WriteReferenceHeals, OpeningHeals DEF Executing
  <2> QED BY <1>2, <2>1, <2>2, <2>3
<1>3. CASE GitCommit
  <2>1. \A q \in Procs : proc[q] = [f \in Fields |-> proc[q][f]]
    BY DEF Inv, OnLog, ProcOK
  <2>2. ASSUME NEW q \in Procs PROVE proc'[q].alone = FALSE
    <3>1. PICK a, t : a = proc[q] /\ t = [a EXCEPT !.alone = FALSE]
      OBVIOUS
    <3>2. proc'[q] = t
      BY <1>3, <3>1 DEF GitCommit
    <3>3. Same(a, t)
      BY <2>1, <3>1, OthersSame
    <3> QED BY <3>2, <3>3 DEF Same
  <2> QED BY <2>2, NothingHealed DEF Healing
<1>4. CASE Gc
  <2>1. \A q \in Procs : proc'[q].pc = "idle"
    BY <1>4 DEF Gc
  <2> QED BY <2>1, NothingHealed DEF Healing
<1> QED BY <1>1, <1>2, <1>3, <1>4 DEF Next

\* A command that runs to its end with nobody interfering leaves the branch, the
\* stack state and all patch references in agreement, also where an earlier command
\* was killed between two of its references or was overtaken by another one.
THEOREM CommandHeals == Spec => OneCommandHeals
<1>1. Init => Healing
  <2>1. SUFFICES ASSUME Init PROVE Healing
    OBVIOUS
  <2>2. \A p \in Procs : proc[p].pc = "idle"
    BY <2>1, IdleOK DEF Init
  <2> QED BY <2>2, NothingHealed DEF Healing
<1>2. Inv /\ Inv' /\ Healing /\ [Next]_vars => Healing'
  BY NextHeals
<1>3. Inv /\ Healing => [\A p \in Procs : Finish(p) /\ proc[p].alone =>
                           patchRefs = State.patches /\ branch = State.head]_vars
  <2>1. SUFFICES ASSUME Inv, Healing, NEW p \in Procs, Finish(p), proc[p].alone
                 PROVE  patchRefs = State.patches /\ branch = State.head
    OBVIOUS
  <2>2. proc[p].alone # FALSE
    BY <2>1
  <2>3. proc[p].pc = "writing" /\ proc[p].todo = {}
    BY <2>1 DEF Finish
  <2>4. /\ \A n \in Names : patchRefs[n] = proc[p].trans.patches[n]
        /\ stackRef = proc[p].new /\ branch = proc[p].trans.head
        /\ objects[proc[p].new].tree.patches = proc[p].trans.patches
        /\ objects[proc[p].new].tree.head = proc[p].trans.head
    BY <2>1, <2>2, <2>3 DEF Healing, Heals
  <2>5. patchRefs \in [Names -> Nat] /\ proc[p].trans.patches \in [Names -> Nat]
    BY <2>1, <2>3 DEF Inv, OnLog, ProcOK, Good, Trees
  <2>6. patchRefs = proc[p].trans.patches
    BY <2>4, <2>5
  <2> QED BY <2>4, <2>6 DEF State
<1> QED BY <1>1, <1>2, <1>3, Invariant, PTL DEF Spec, OneCommandHeals
=============================================================================
