--------------------------- MODULE StackOpsProofs ---------------------------
(***************************************************************************)
(* The methods of StackTransaction keep a transaction well formed: each    *)
(* patch is once in one of its lists, exactly the listed patches have a    *)
(* commit, those sit on a parent, and updated_patches (`touched') covers   *)
(* every difference from the patch map p of the opened stack.              *)
(*                                                                         *)
(* The first part is about the lists alone.  Behind the methods come what  *)
(* they do to the chain of commits that the applied patches are, and what  *)
(* checkout and merge do to the index and the worktree.                    *)
(***************************************************************************)
EXTENDS StackOps, FiniteSetTheorems, SequenceTheorems, TLAPS

\* A set of numbers that with i has everything from 1 to i is an initial
\* segment.  It makes FirstIn and NumCommon, which count, positions.
LEMMA DownClosed ==
  ASSUME NEW n \in Nat, NEW D \in SUBSET (1..n),
         \A i \in D : \A j \in 1..i : j \in D
  PROVE  /\ Cardinality(D) \in 0..n
         /\ D = 1..Cardinality(D)
<1>1. IsFiniteSet(1..n) /\ Cardinality(1..n) = n
  BY FS_Interval
<1>2. IsFiniteSet(D) /\ Cardinality(D) <= n
  BY <1>1, FS_Subset
<1>3. Cardinality(D) \in Nat
  BY <1>2, FS_CardinalityType
<1>4. ASSUME NEW i \in D PROVE i <= Cardinality(D)
  <2>1. (1..i) \in SUBSET D
    OBVIOUS
  <2>2. i \in Nat /\ Cardinality(1..i) = i
    BY FS_Interval
  <2> QED
    BY <1>2, <1>3, <2>1, <2>2, FS_Subset
<1>5. ASSUME NEW i \in 1..n, i \notin D PROVE Cardinality(D) < i
  <2>1. D \in SUBSET (1..(i - 1))
    BY <1>5
  <2>2. IsFiniteSet(1..(i - 1)) /\ Cardinality(1..(i - 1)) = i - 1
    BY FS_Interval
  <2>3. Cardinality(D) <= i - 1
    BY <2>1, <2>2, FS_Subset
  <2> QED
    BY <1>3, <2>3
<1>6. D \subseteq 1..Cardinality(D)
  BY <1>3, <1>4
<1>7. ASSUME NEW i \in 1..Cardinality(D) PROVE i \in D
  <2>1. i \in 1..n
    BY <1>2, <1>3
  <2> QED
    BY <1>3, <1>5, <2>1
<1>8. D = 1..Cardinality(D)
  BY <1>6, <1>7, Zenon
<1> QED
  BY <1>2, <1>3, <1>8

\* The members of a list of patch names are its entries.
LEMMA ElemsIff ==
  ASSUME NEW s \in Seq(Names)
  PROVE  /\ \A x : x \in Elems(s) <=> \E i \in 1..Len(s) : s[i] = x
         /\ Elems(s) \subseteq Names
BY DEF Elems

\* NoDuplicates, over the positions 1..Len.
LEMMA NoDupIff ==
  ASSUME NEW s \in Seq(Names)
  PROVE  NoDuplicates(s) <=> \A i, j \in 1..Len(s) : s[i] = s[j] => i = j
BY DEF NoDuplicates

\* The entries of a concatenation.
LEMMA ConcatIndex ==
  ASSUME NEW a \in Seq(Names), NEW b \in Seq(Names), NEW c, c = a \o b
  PROVE  /\ c \in Seq(Names) /\ Len(c) = Len(a) + Len(b)
         /\ Len(a) \in Nat /\ Len(b) \in Nat /\ Len(c) \in Nat
         /\ \A i \in 1..Len(a) : i \in 1..Len(c) /\ c[i] = a[i]
         /\ \A i \in 1..Len(b) : Len(a) + i \in 1..Len(c) /\ c[Len(a) + i] = b[i]
         /\ \A i \in 1..Len(c) : \/ i \in 1..Len(a) /\ c[i] = a[i]
                                 \/ i - Len(a) \in 1..Len(b) /\ c[i] = b[i - Len(a)]
OBVIOUS

\* The members of a concatenation.
LEMMA ConcatElems ==
  ASSUME NEW a \in Seq(Names), NEW b \in Seq(Names)
  PROVE  Elems(a \o b) = Elems(a) \cup Elems(b)
<1>1. PICK c : c = a \o b
  OBVIOUS
<1>2. /\ c \in Seq(Names)
      /\ \A i \in 1..Len(a) : i \in 1..Len(c) /\ c[i] = a[i]
      /\ \A i \in 1..Len(b) : Len(a) + i \in 1..Len(c) /\ c[Len(a) + i] = b[i]
      /\ \A i \in 1..Len(c) : \/ i \in 1..Len(a) /\ c[i] = a[i]
                              \/ i - Len(a) \in 1..Len(b) /\ c[i] = b[i - Len(a)]
  BY <1>1, ConcatIndex
<1>3. ASSUME NEW x \in Elems(c) PROVE x \in Elems(a) \cup Elems(b)
  <2>1. PICK i \in 1..Len(c) : c[i] = x
    BY <1>2, ElemsIff
  <2> QED BY <2>1, <1>2, ElemsIff
<1>4. ASSUME NEW x \in Elems(a) PROVE x \in Elems(c)
  <2>1. PICK i \in 1..Len(a) : a[i] = x
    BY ElemsIff
  <2> QED BY <2>1, <1>2, ElemsIff
<1>5. ASSUME NEW x \in Elems(b) PROVE x \in Elems(c)
  <2>1. PICK i \in 1..Len(b) : b[i] = x
    BY ElemsIff
  <2> QED BY <2>1, <1>2, ElemsIff
<1> QED BY <1>1, <1>3, <1>4, <1>5

\* A concatenation has no duplicates when its parts have none and are disjoint.
LEMMA ConcatNoDup ==
  ASSUME NEW a \in Seq(Names), NEW b \in Seq(Names)
  PROVE  NoDuplicates(a \o b) <=> 
            NoDuplicates(a) /\ NoDuplicates(b) /\ Elems(a) \cap Elems(b) = {}
<1>1. PICK c : c = a \o b
  OBVIOUS
<1>2. /\ c \in Seq(Names)
      /\ Len(a) \in Nat /\ Len(b) \in Nat /\ Len(c) \in Nat
      /\ \A i \in 1..Len(a) : i \in 1..Len(c) /\ c[i] = a[i]
      /\ \A i \in 1..Len(b) : Len(a) + i \in 1..Len(c) /\ c[Len(a) + i] = b[i]
      /\ \A i \in 1..Len(c) : \/ i \in 1..Len(a) /\ c[i] = a[i]
                              \/ i - Len(a) \in 1..Len(b) /\ c[i] = b[i - Len(a)]
  BY <1>1, ConcatIndex
<1>3. ASSUME NoDuplicates(c) PROVE NoDuplicates(a)
  <2>1. SUFFICES ASSUME NEW i \in 1..Len(a), NEW j \in 1..Len(a), a[i] = a[j] PROVE i = j
    BY NoDupIff
  <2> QED BY <1>2, <1>3, <2>1, NoDupIff
<1>4. ASSUME NoDuplicates(c) PROVE NoDuplicates(b)
  <2>1. SUFFICES ASSUME NEW i \in 1..Len(b), NEW j \in 1..Len(b), b[i] = b[j] PROVE i = j
    BY NoDupIff
  <2>2. /\ Len(a) + i \in 1..Len(c) /\ c[Len(a) + i] = b[i]
        /\ Len(a) + j \in 1..Len(c) /\ c[Len(a) + j] = b[j]
    BY <1>2
  <2>3. Len(a) + i = Len(a) + j
    BY <1>2, <1>4, <2>1, <2>2, NoDupIff
  <2> QED BY <1>2, <2>3
<1>5. ASSUME NoDuplicates(c), NEW x \in Elems(a), x \in Elems(b) PROVE FALSE
  <2>1. PICK i \in 1..Len(a) : a[i] = x
    BY ElemsIff
  <2>2. PICK j \in 1..Len(b) : b[j] = x
    BY ElemsIff, <1>5
  <2>3. i \in 1..Len(c) /\ c[i] = x
    BY <1>2, <2>1
  <2>4. Len(a) + j \in 1..Len(c) /\ c[Len(a) + j] = x
    BY <1>2, <2>2
  <2>5. i # Len(a) + j
    BY <1>2
  <2> QED BY <1>2, <1>5, <2>3, <2>4, <2>5, NoDupIff
<1>6. ASSUME NoDuplicates(a), NoDuplicates(b), Elems(a) \cap Elems(b) = {}
      PROVE  NoDuplicates(c)
  <2>1. SUFFICES ASSUME NEW i \in 1..Len(c), NEW j \in 1..Len(c), c[i] = c[j] PROVE i = j
    BY <1>2, NoDupIff
  <2>2. CASE i \in 1..Len(a) /\ c[i] = a[i] /\ j \in 1..Len(a) /\ c[j] = a[j]
     BY <1>6, <2>1, <2>2, NoDupIff
  <2>3. CASE /\ i - Len(a) \in 1..Len(b) /\ c[i] = b[i - Len(a)]
             /\ j - Len(a) \in 1..Len(b) /\ c[j] = b[j - Len(a)]
    <3>1. i - Len(a) = j - Len(a)
      BY <1>6, <2>1, <2>3, NoDupIff
    <3> QED BY <3>1, <1>2
  <2>4. CASE i \in 1..Len(a) /\ c[i] = a[i] /\ j - Len(a) \in 1..Len(b) /\ c[j] = b[j - Len(a)]
    BY <1>6, <2>1, <2>4, ElemsIff
  <2>5. CASE j \in 1..Len(a) /\ c[j] = a[j] /\ i - Len(a) \in 1..Len(b) /\ c[i] = b[i - Len(a)]
    BY <1>6, <2>1, <2>5, ElemsIff
  <2> QED BY <2>2, <2>3, <2>4, <2>5, <1>2
<1> QED BY <1>1, <1>3, <1>4, <1>5, <1>6

\* Keep, the filter that pop_patches, delete_patches and commit_patches run over
\* the patch lists, is a selection g of positions of the list: one-to-one, onto
\* the positions that hold a member of S, and the identity on a prefix of
\* members of S.
LEMMA KeepIndex ==
  ASSUME NEW s \in Seq(Names), NEW S
  PROVE  /\ Keep(s, S) \in Seq(Names)
         /\ \E g \in [1..Len(Keep(s, S)) -> 1..Len(s)] :
              /\ \A k \in 1..Len(Keep(s, S)) : Keep(s, S)[k] = s[g[k]] /\ s[g[k]] \in S
              /\ \A k, l \in 1..Len(Keep(s, S)) : g[k] = g[l] => k = l
              /\ \A i \in 1..Len(s) : s[i] \in S => \E k \in 1..Len(Keep(s, S)) : g[k] = i
              /\ \A m \in 1..Len(s) :
                   (\A i \in 1..m : s[i] \in S) => m <= Len(Keep(s, S)) /\ g[m] = m
<1> DEFINE at      == {i \in 1..Len(s) : s[i] \in S}
           upTo(i) == {j \in at : j <= i}
           r       == [i \in at |-> Cardinality(upTo(i))]
           n       == Cardinality(at)
           nth(k)  == CHOOSE i \in at : Cardinality(upTo(i)) = k
           g       == [k \in 1..n |-> nth(k)]
<1>0. at \in SUBSET (1..Len(s)) /\ at \subseteq Int
  OBVIOUS
<1>1. IsFiniteSet(at) /\ n \in Nat
  <2>1. IsFiniteSet(1..Len(s))
    BY FS_Interval
  <2>2. IsFiniteSet(at)
    BY <1>0, <2>1, FS_Subset
  <2> QED BY <2>2, FS_CardinalityType
<1> HIDE DEF at
<1>2. ASSUME NEW i \in at
      PROVE  IsFiniteSet(upTo(i)) /\ Cardinality(upTo(i)) \in Nat /\ Cardinality(upTo(i)) \in 1..n
  <2>1. upTo(i) \in SUBSET at
    OBVIOUS
  <2>2. IsFiniteSet(upTo(i)) /\ Cardinality(upTo(i)) <= n
    BY <1>1, <2>1, FS_Subset
  <2>3. Cardinality(upTo(i)) \in Nat
    BY <2>2, FS_CardinalityType
  <2>4. i \in upTo(i)
    BY <1>0
  <2>5. Cardinality(upTo(i)) # 0
    BY <2>2, <2>4, FS_EmptySet
  <2> HIDE DEF upTo
  <2> QED BY <1>1, <2>2, <2>3, <2>5
<1>3. ASSUME NEW i \in at, NEW k \in at, i < k PROVE Cardinality(upTo(i)) < Cardinality(upTo(k))
  <2>0. \A j \in at : j <= i => j <= k
    BY <1>0, <1>3
  <2>1. upTo(i) \in SUBSET upTo(k)
    BY <2>0
  <2>2. k \in upTo(k) /\ k \notin upTo(i)
    BY <1>0, <1>3
  <2>3. IsFiniteSet(upTo(k)) /\ Cardinality(upTo(k)) \in Nat /\ Cardinality(upTo(i)) \in Nat
    BY <1>2
  <2> HIDE DEF upTo
  <2>4. Cardinality(upTo(i)) <= Cardinality(upTo(k)) /\ Cardinality(upTo(i)) # Cardinality(upTo(k))
    BY <2>1, <2>2, <2>3, FS_Subset
  <2> QED BY <2>3, <2>4
<1>4. ASSUME NEW i \in at, NEW k \in at, Cardinality(upTo(i)) = Cardinality(upTo(k)) PROVE i = k
  <2> HIDE DEF upTo
  <2>1. i < k \/ k < i \/ i = k
    BY <1>0
  <2>2. Cardinality(upTo(i)) \in Nat
    BY <1>2
  <2> QED BY <1>3, <1>4, <2>1, <2>2
<1>5. r \in Injection(at, 1..n)
  <2>1. \A i \in at : r[i] = Cardinality(upTo(i)) /\ r[i] \in 1..n
    BY <1>2
  <2>2. r \in [at -> 1..n]
    BY <2>1
  <2> HIDE DEF upTo, r, n
  <2>3. \A i, k \in at : r[i] = r[k] => i = k
    BY <1>4, <2>1
  <2> QED BY <2>2, <2>3 DEF Injection, IsInjective
<1>6. r \in Surjection(at, 1..n)
  <2>1. IsFiniteSet(1..n) /\ Cardinality(1..n) = n
    BY <1>1, FS_Interval
  <2> QED BY <1>5, <2>1, FS_Injection
<1>7. \A k \in 1..n : nth(k) \in at /\ Cardinality(upTo(nth(k))) = k
  <2>1. \A k \in 1..n : \E i \in at : r[i] = k
    BY <1>6 DEF Surjection
  <2>2. \A k \in 1..n : \E i \in at : Cardinality(upTo(i)) = k
    BY <2>1
  <2> QED BY <2>2
<1>8. Keep(s, S) = [k \in 1..n |-> s[nth(k)]]
  BY DEF Keep, at
<1> HIDE DEF upTo, nth
<1>9. /\ \A k \in 1..n : s[nth(k)] \in Names
      /\ Keep(s, S) \in Seq(Names) /\ Len(Keep(s, S)) = n
  <2> HIDE DEF n
  <2>0. \A k \in 1..n : nth(k) \in 1..Len(s)
    BY <1>7, <1>0
  <2>1. \A k \in 1..n : s[nth(k)] \in Names
    BY <2>0
  <2> QED BY <2>1, <1>8, <1>1
<1>10. g \in [1..n -> 1..Len(s)]
  BY <1>7, <1>0
<1>11. \A k \in 1..n : Keep(s, S)[k] = s[g[k]] /\ s[g[k]] \in S
  BY <1>7, <1>8 DEF at
<1>12. \A k, l \in 1..n : g[k] = g[l] => k = l
  BY <1>7
<1>13. ASSUME NEW i \in 1..Len(s), s[i] \in S PROVE \E k \in 1..n : g[k] = i
  <2>1. i \in at
    BY <1>13 DEF at
  <2>2. Cardinality(upTo(i)) \in 1..n
    BY <2>1, <1>2
  <2> QED BY <2>1, <2>2, <1>4, <1>7
<1>14. ASSUME NEW m \in 1..Len(s), \A i \in 1..m : s[i] \in S PROVE m <= n /\ g[m] = m
  <2>1. upTo(m) = 1..m /\ m \in at
    BY <1>14 DEF at, upTo
  <2>2. Cardinality(upTo(m)) = m
    BY <2>1, FS_Interval
  <2>3. m \in 1..n
    BY <2>1, <2>2, <1>2
  <2>4. nth(m) = m
    BY <2>1, <2>2, <2>3, <1>4, <1>7
  <2> QED BY <2>3, <2>4, <1>1
<1> HIDE DEF g, n
<1> QED BY <1>9, <1>10, <1>11, <1>12, <1>13, <1>14

\* What a filtered list holds.
LEMMA KeepElems ==
  ASSUME NEW s \in Seq(Names), NEW S
  PROVE  /\ Keep(s, S) \in Seq(Names)
         /\ Elems(Keep(s, S)) = Elems(s) \cap S
         /\ NoDuplicates(s) => NoDuplicates(Keep(s, S))
<1> DEFINE r == Keep(s, S)
<1>1. r \in Seq(Names)
  BY KeepIndex
<1>2. PICK g \in [1..Len(r) -> 1..Len(s)] :
        /\ \A k \in 1..Len(r) : r[k] = s[g[k]] /\ s[g[k]] \in S
        /\ \A k, l \in 1..Len(r) : g[k] = g[l] => k = l
        /\ \A i \in 1..Len(s) : s[i] \in S => \E k \in 1..Len(r) : g[k] = i
  BY KeepIndex
<1> HIDE DEF r
<1>3. ASSUME NEW x \in Elems(r) PROVE x \in Elems(s) \cap S
  <2>1. PICK k \in 1..Len(r) : r[k] = x
    BY <1>1, ElemsIff
  <2>2. g[k] \in 1..Len(s) /\ s[g[k]] = x /\ x \in S
    BY <1>2, <2>1
  <2> QED BY <2>2, ElemsIff
<1>4. ASSUME NEW x \in Elems(s), x \in S PROVE x \in Elems(r)
  <2>1. PICK i \in 1..Len(s) : s[i] = x
    BY ElemsIff
  <2>2. PICK k \in 1..Len(r) : g[k] = i
    BY <1>2, <1>4, <2>1
  <2> QED BY <1>1, <1>2, <2>1, <2>2, ElemsIff
<1>5. ASSUME NoDuplicates(s) PROVE NoDuplicates(r)
  <2>1. SUFFICES ASSUME NEW i \in 1..Len(r), NEW j \in 1..Len(r), r[i] = r[j] PROVE i = j
    BY <1>1, NoDupIff
  <2>2. s[g[i]] = s[g[j]] /\ g[i] \in 1..Len(s) /\ g[j] \in 1..Len(s)
    BY <1>2, <2>1
  <2>3. g[i] = g[j]
    BY <1>5, <2>2, NoDupIff
  <2> QED BY <1>2, <2>3
<1> QED BY <1>1, <1>3, <1>4, <1>5 DEF r

\* What is left of a list when the names in S are dropped (retain).
LEMMA DropElems ==
  ASSUME NEW s \in Seq(Names), NEW S
  PROVE  /\ Drop(s, S) \in Seq(Names)
         /\ Elems(Drop(s, S)) = Elems(s) \ S
         /\ NoDuplicates(s) => NoDuplicates(Drop(s, S))
BY KeepElems, ElemsIff DEF Drop

\* Filtering keeps a prefix whose members all stay.
LEMMA KeepPrefix ==
  ASSUME NEW s \in Seq(Names), NEW S, NEW m \in 1..Len(s), \A i \in 1..m : s[i] \in S
  PROVE  m <= Len(Keep(s, S)) /\ Keep(s, S)[m] = s[m]
BY KeepIndex

\* Filtering a list whose members in S are the ones from a position on gives the
\* list from there.
LEMMA KeepFrom ==
  ASSUME NEW s \in Seq(Names), NEW S, NEW m \in 0..Len(s),
         \A i \in 1..m : s[i] \notin S, \A i \in (m + 1)..Len(s) : s[i] \in S
  PROVE  Keep(s, S) = [k \in 1..(Len(s) - m) |-> s[k + m]]
<1> DEFINE at      == {i \in 1..Len(s) : s[i] \in S}
           upTo(i) == {j \in at : j <= i}
           nth(k)  == CHOOSE i \in at : Cardinality(upTo(i)) = k
<1>1. Len(s) \in Nat /\ m \in Nat /\ m <= Len(s)
  OBVIOUS
<1>2. at = (m + 1)..Len(s)
  <2>1. ASSUME NEW i \in 1..Len(s) PROVE i \in 1..m \/ i \in (m + 1)..Len(s)
    BY <1>1
  <2>2. \A i \in (m + 1)..Len(s) : i \in 1..Len(s)
    BY <1>1
  <2> QED BY <2>1, <2>2
<1>3. Cardinality(at) = Len(s) - m
  <2>1. PICK a, b : a = m + 1 /\ b = Len(s)
    OBVIOUS
  <2>2. a \in Int /\ b \in Int
    BY <1>1, <2>1
  <2>3. Cardinality(a..b) = IF a > b THEN 0 ELSE b - a + 1
    BY ONLY <2>2, FS_Interval
  <2>4. Cardinality(a..b) = Len(s) - m
    BY <1>1, <2>1, <2>3
  <2> QED BY <1>2, <2>1, <2>4
<1>4. ASSUME NEW i \in at PROVE Cardinality(upTo(i)) = i - m
  <2>1. i \in (m + 1)..Len(s)
    BY <1>2
  <2>2. upTo(i) = (m + 1)..i
    BY <1>1, <1>2, <2>1
  <2>3. PICK a : a = m + 1
    OBVIOUS
  <2>4. a \in Int /\ i \in Int
    BY <1>1, <2>1, <2>3
  <2>5. Cardinality(a..i) = IF a > i THEN 0 ELSE i - a + 1
    BY ONLY <2>4, FS_Interval
  <2>6. Cardinality(a..i) = i - m
    BY <1>1, <2>1, <2>3, <2>5
  <2> QED BY <2>2, <2>3, <2>6
<1> HIDE DEF upTo
<1>5. ASSUME NEW k \in 1..(Len(s) - m) PROVE nth(k) = k + m
  <2>1. k + m \in at /\ (k + m) - m = k
    BY <1>1, <1>2
  <2>2. Cardinality(upTo(k + m)) = k
    BY <1>4, <2>1
  <2>3. nth(k) \in at /\ Cardinality(upTo(nth(k))) = k
    BY <2>1, <2>2
  <2>4. nth(k) - m = k /\ nth(k) \in Int
    BY <1>1, <1>2, <1>4, <2>3
  <2> QED BY <1>1, <2>4
<1>6. Keep(s, S) = [k \in 1..Cardinality(at) |-> s[nth(k)]]
  BY DEF Keep, upTo
<1> HIDE DEF at, nth
<1> QED BY <1>3, <1>5, <1>6

\* So a list whose members are all in S stays as it is, and one loses its first
\* member when that is dropped.
LEMMA KeepAll ==
  ASSUME NEW s \in Seq(Names), NEW S, Elems(s) \subseteq S
  PROVE  Keep(s, S) = s
<1>1. \A i \in 1..Len(s) : s[i] \in S
  BY ElemsIff
<1>2. 0 \in 0..Len(s) /\ Len(s) - 0 = Len(s) /\ \A i \in (0 + 1)..Len(s) : i \in 1..Len(s)
  OBVIOUS
<1>3. Keep(s, S) = [k \in 1..Len(s) |-> s[k + 0]]
  BY <1>1, <1>2, KeepFrom
<1> QED BY <1>3

LEMMA DropFirst ==
  ASSUME NEW n \in Names, NEW r \in Seq(Names), NEW s, s = <<n>> \o r, NoDuplicates(s)
  PROVE  Drop(s, {n}) = r
<1>1. s \in Seq(Names) /\ Len(s) = Len(r) + 1 /\ s[1] = n /\ \A i \in 1..Len(r) : s[i + 1] = r[i]
  OBVIOUS
<1>2. Len(r) \in Nat /\ Len(s) - 1 = Len(r) /\ 1 \in 0..Len(s)
  BY <1>1
<1>3. \A i \in 1..1 : s[i] \notin Names \ {n}
  BY <1>1
<1>4. ASSUME NEW i \in (1 + 1)..Len(s) PROVE s[i] \in Names \ {n}
  <2>1. i \in 1..Len(s) /\ 1 \in 1..Len(s) /\ i # 1
    BY <1>2
  <2>2. s[i] # s[1]
    BY <1>1, <2>1, NoDupIff
  <2> QED BY <1>1, <2>1, <2>2
<1>5. Keep(s, Names \ {n}) = [k \in 1..(Len(s) - 1) |-> s[k + 1]]
  <2>1. PICK S : S = Names \ {n}
    OBVIOUS
  <2>2. \A i \in 1..1 : s[i] \notin S
    BY <1>3, <2>1
  <2>3. \A i \in (1 + 1)..Len(s) : s[i] \in S
    BY <1>4, <2>1
  <2>4. Keep(s, S) = [k \in 1..(Len(s) - 1) |-> s[k + 1]]
    BY ONLY <1>1, <1>2, <2>2, <2>3, KeepFrom
  <2> QED BY <2>1, <2>4
<1>6. Keep(s, Names \ {n}) = [k \in 1..Len(r) |-> r[k]]
  BY <1>1, <1>2, <1>5
<1> QED BY <1>6 DEF Drop

\* A list is what is before a position followed by what is after it
\* (split_off).
LEMMA SplitSeq ==
  ASSUME NEW s \in Seq(Names), NEW k \in 0..Len(s)
  PROVE  /\ SubSeq(s, 1, k) \in Seq(Names)
         /\ SubSeq(s, k + 1, Len(s)) \in Seq(Names)
         /\ s = SubSeq(s, 1, k) \o SubSeq(s, k + 1, Len(s))
         /\ Len(SubSeq(s, 1, k)) = k
         /\ Len(SubSeq(s, k + 1, Len(s))) = Len(s) - k
         /\ \A i \in 1..k : SubSeq(s, 1, k)[i] = s[i]
         /\ \A i \in 1..(Len(s) - k) : SubSeq(s, k + 1, Len(s))[i] = s[k + i]
<1>1. s = SubSeq(s, 1, Len(s))
  BY SubSeqFull
<1>2. Len(s) \in Nat /\ 1 \in 1..(Len(s) + 1) /\ k \in (1 - 1)..Len(s) /\ Len(s) \in k..Len(s)
  OBVIOUS
<1>3. SubSeq(s, 1, k) \o SubSeq(s, k + 1, Len(s)) = SubSeq(s, 1, Len(s))
  BY <1>2, ConcatAdjacentSubSeq
<1>4. SubSeq(s, 1, k) \in Seq(Names) /\ Len(SubSeq(s, 1, k)) = k
  OBVIOUS
<1>5. SubSeq(s, k + 1, Len(s)) \in Seq(Names) /\ Len(SubSeq(s, k + 1, Len(s))) = Len(s) - k
  OBVIOUS
<1>6. \A i \in 1..k : SubSeq(s, 1, k)[i] = s[i]
  OBVIOUS
<1>7. ASSUME NEW i \in 1..(Len(s) - k) PROVE SubSeq(s, k + 1, Len(s))[i] = s[k + i]
  <2>1. k + 1 + i - 1 = k + i /\ i \in 1..(Len(s) - (k + 1) + 1)
    BY <1>2
  <2>2. \A j \in (k + 1)..Len(s) : s[j] \in Names
    BY <1>2
  <2>3. SubSeq(s, k + 1, Len(s))[i] = s[k + 1 + i - 1]
    BY <1>2, <2>1, <2>2, SubSeqProperties
  <2> QED BY <2>1, <2>3
<1> QED BY <1>1, <1>3, <1>4, <1>5, <1>6, <1>7

\* The list of one name.
LEMMA OneElem ==
  ASSUME NEW n \in Names
  PROVE  <<n>> \in Seq(Names) /\ Elems(<<n>>) = {n} /\ NoDuplicates(<<n>>)
BY DEF Elems, NoDuplicates

\* The empty list.
LEMMA NoElems == <<>> \in Seq(Names) /\ Elems(<<>>) = {} /\ NoDuplicates(<<>>)
BY DEF Elems, NoDuplicates

\* What a list holds after a push of one more name.
LEMMA AppendElems ==
  ASSUME NEW s \in Seq(Names), NEW n \in Names
  PROVE  /\ Append(s, n) \in Seq(Names)
         /\ Elems(Append(s, n)) = Elems(s) \cup {n}
         /\ NoDuplicates(Append(s, n)) <=> NoDuplicates(s) /\ n \notin Elems(s)
<1>1. Append(s, n) = s \o <<n>> /\ Append(s, n) \in Seq(Names)
  BY AppendIsConcat
<1>2. <<n>> \in Seq(Names) /\ Elems(<<n>>) = {n} /\ NoDuplicates(<<n>>)
  BY OneElem
<1>3. Elems(s \o <<n>>) = Elems(s) \cup {n}
  BY <1>2, ConcatElems
<1>4. NoDuplicates(s \o <<n>>) <=> NoDuplicates(s) /\ Elems(s) \cap {n} = {}
  BY <1>2, ConcatNoDup
<1> QED BY <1>1, <1>3, <1>4

\* Pushing one name and then a list is pushing the list that starts with it.
LEMMA AppendConcat ==
  ASSUME NEW s \in Seq(Names), NEW n \in Names, NEW r \in Seq(Names)
  PROVE  Append(s, n) \o r = s \o (<<n>> \o r)
<1>1. PICK one, a, b, c, d : /\ one = <<n>> /\ a = Append(s, n) /\ b = a \o r /\ c = one \o r
                            /\ d = s \o c
  OBVIOUS
<1>2. one \in Seq(Names) /\ Len(one) = 1 /\ one[1] = n
  BY <1>1
<1>3. a \in Seq(Names) /\ Len(a) = Len(s) + 1
  BY <1>1
<1>4. Len(s) \in Nat /\ Len(r) \in Nat
  OBVIOUS
<1>5. c \in Seq(Names) /\ Len(c) = 1 + Len(r)
  BY <1>1, <1>2, ConcatIndex
<1>6. b \in Seq(Names) /\ Len(b) = Len(s) + 1 + Len(r)
  BY <1>1, <1>3, <1>4, ConcatIndex
<1>7. d \in Seq(Names) /\ Len(d) = Len(s) + 1 + Len(r)
  BY <1>1, <1>4, <1>5, ConcatIndex
<1>8. ASSUME NEW i \in 1..(Len(s) + 1 + Len(r)) PROVE b[i] = d[i]
  <2>1. CASE i \in 1..Len(s)
    BY <1>1, <1>3, <1>5, <2>1, ConcatIndex
  <2>2. CASE i = Len(s) + 1
    BY <1>1, <1>2, <1>3, <1>4, <1>5, <2>2
  <2>3. CASE i > Len(s) + 1
    BY <1>1, <1>2, <1>3, <1>4, <1>5, <2>3
  <2> QED BY <1>4, <1>8, <2>1, <2>2, <2>3
<1>9. b = d
  BY <1>6, <1>7, <1>8
<1> QED BY <1>1, <1>9

\* The first name of a list without duplicates, and the rest.
LEMMA TailElems ==
  ASSUME NEW s \in Seq(Names), s # <<>>, NoDuplicates(s)
  PROVE  /\ Head(s) \in Names /\ Head(s) \in Elems(s)
         /\ Tail(s) \in Seq(Names) /\ NoDuplicates(Tail(s))
         /\ Elems(Tail(s)) = Elems(s) \ {Head(s)}
         /\ s = <<Head(s)>> \o Tail(s)
<1>1. /\ Head(s) \in Names /\ Tail(s) \in Seq(Names)
  OBVIOUS
<1>2. s = <<Head(s)>> \o Tail(s)
  OBVIOUS
<1>3. PICK h, t : h = Head(s) /\ t = Tail(s)
  OBVIOUS
<1>4. h \in Names /\ t \in Seq(Names) /\ s = <<h>> \o t
  BY <1>1, <1>2, <1>3
<1>5. <<h>> \in Seq(Names) /\ Elems(<<h>>) = {h}
  BY <1>4, OneElem
<1>6. Elems(s) = {h} \cup Elems(t)
  BY <1>4, <1>5, ConcatElems
<1>7. NoDuplicates(t) /\ {h} \cap Elems(t) = {}
  BY <1>4, <1>5, ConcatNoDup
<1> QED BY <1>3, <1>4, <1>6, <1>7

\* FirstIn is the position pop_patches and delete_patches split the applied
\* list at: nothing before it is in S, and it is.
LEMMA FirstInFacts ==
  ASSUME NEW s \in Seq(Names), NEW S
  PROVE  /\ FirstIn(s, S) \in 1..(Len(s) + 1)
         /\ \A i \in 1..(FirstIn(s, S) - 1) : s[i] \notin S
         /\ FirstIn(s, S) <= Len(s) => s[FirstIn(s, S)] \in S
<1> DEFINE D == {i \in 1..Len(s) : \A j \in 1..i : s[j] \notin S}
           k == Cardinality(D)
<1>1. D \in SUBSET (1..Len(s)) /\ \A i \in D : \A j \in 1..i : j \in D
  <2>1. ASSUME NEW i \in D, NEW j \in 1..i PROVE j \in 1..Len(s) /\ \A l \in 1..j : l \in 1..i
    OBVIOUS
  <2> QED BY <2>1
<1>2. k \in 0..Len(s) /\ D = 1..k
  <2>1. Len(s) \in Nat
    OBVIOUS
  <2> HIDE DEF D
  <2> QED BY <1>1, <2>1, DownClosed
<1>3. FirstIn(s, S) = 1 + k
  BY DEF FirstIn
<1>4. \A i \in 1..k : s[i] \notin S
  BY <1>2
<1>5. ASSUME k + 1 <= Len(s) PROVE s[k + 1] \in S
  <2>0. k \in Nat /\ k + 1 \notin 1..k
    BY <1>2
  <2>1. k + 1 \notin D /\ k + 1 \in 1..Len(s)
    BY <1>2, <1>5, <2>0
  <2>2. PICK j \in 1..(k + 1) : s[j] \in S
    BY <2>1
  <2>3. j = k + 1
    BY <2>2, <1>4, <1>2
  <2> QED BY <2>2, <2>3
<1> HIDE DEF k
<1> QED BY <1>2, <1>3, <1>4, <1>5

\* The two parts of the applied list that a pop or a delete makes.
LEMMA BelowFrom ==
  ASSUME NEW s \in Seq(Names), NEW S
  PROVE  /\ Below(s, S) \in Seq(Names) /\ From(s, S) \in Seq(Names)
         /\ s = Below(s, S) \o From(s, S)
         /\ Elems(Below(s, S)) \cap S = {}
         /\ Elems(s) = Elems(Below(s, S)) \cup Elems(From(s, S))
         /\ NoDuplicates(s) => /\ NoDuplicates(Below(s, S)) /\ NoDuplicates(From(s, S))
                               /\ Elems(Below(s, S)) \cap Elems(From(s, S)) = {}
<1>1. PICK k \in 0..Len(s) : /\ FirstIn(s, S) = k + 1
                             /\ \A i \in 1..k : s[i] \notin S
  <2>1. FirstIn(s, S) \in 1..(Len(s) + 1)
    BY FirstInFacts
  <2>2. FirstIn(s, S) - 1 \in 0..Len(s) /\ FirstIn(s, S) = (FirstIn(s, S) - 1) + 1
    BY <2>1
  <2> QED BY <2>2, FirstInFacts
<1>2. Below(s, S) = SubSeq(s, 1, k) /\ From(s, S) = SubSeq(s, k + 1, Len(s))
  BY <1>1 DEF Below, From
<1>3. /\ Below(s, S) \in Seq(Names) /\ From(s, S) \in Seq(Names)
      /\ s = Below(s, S) \o From(s, S)
      /\ Len(Below(s, S)) = k /\ \A i \in 1..k : Below(s, S)[i] = s[i]
  BY <1>2, SplitSeq
<1>4. ASSUME NEW x \in Elems(Below(s, S)), x \in S PROVE FALSE
  <2>1. PICK i \in 1..Len(Below(s, S)) : Below(s, S)[i] = x
    BY <1>3, ElemsIff
  <2> QED BY <1>1, <1>3, <1>4, <2>1
<1>5. Elems(s) = Elems(Below(s, S)) \cup Elems(From(s, S))
  BY <1>3, ConcatElems
<1>6. NoDuplicates(s) => /\ NoDuplicates(Below(s, S)) /\ NoDuplicates(From(s, S))
                         /\ Elems(Below(s, S)) \cap Elems(From(s, S)) = {}
  BY <1>3, ConcatNoDup
<1> QED BY <1>3, <1>4, <1>5, <1>6

\* NumCommon is the length of the common prefix: the entries up to it agree,
\* the next ones do not (reorder_patches, commit_patches).
LEMMA NumCommonFacts ==
  ASSUME NEW s \in Seq(Names), NEW r \in Seq(Names)
  PROVE  /\ NumCommon(s, r) \in 0..Len(s) /\ NumCommon(s, r) \in 0..Len(r)
         /\ \A i \in 1..NumCommon(s, r) : s[i] = r[i]
         /\ NumCommon(s, r) < Len(s) /\ NumCommon(s, r) < Len(r) =>
              s[NumCommon(s, r) + 1] # r[NumCommon(s, r) + 1]
<1> DEFINE D == {i \in 1..Len(s) : i <= Len(r) /\ \A j \in 1..i : s[j] = r[j]}
           k == Cardinality(D)
<1>0. Len(s) \in Nat /\ Len(r) \in Nat
  OBVIOUS
<1>1. D \in SUBSET (1..Len(s)) /\ \A i \in D : \A j \in 1..i : j \in D
  <2>1. ASSUME NEW i \in D, NEW j \in 1..i
        PROVE j \in 1..Len(s) /\ j <= Len(r) /\ \A l \in 1..j : l \in 1..i
    OBVIOUS
  <2> QED BY <2>1
<1>2. k \in 0..Len(s) /\ D = 1..k
  <2> HIDE DEF D
  <2> QED BY <1>0, <1>1, DownClosed
<1>3. NumCommon(s, r) = k
  BY DEF NumCommon
<1>4. k \in 0..Len(r) /\ \A i \in 1..k : s[i] = r[i]
  <2>1. \A i \in 1..k : i <= Len(r) /\ s[i] = r[i]
    BY <1>2
  <2> HIDE DEF k
  <2>2. k = 0 \/ k \in 1..k
    BY <1>2
  <2> QED BY <1>0, <1>2, <2>1, <2>2
<1>5. ASSUME k < Len(s), k < Len(r) PROVE s[k + 1] # r[k + 1]
  <2>1. k \in Nat /\ k + 1 \notin 1..k /\ k + 1 \in 1..Len(s) /\ k + 1 <= Len(r)
    BY <1>2, <1>5, <1>0
  <2>2. k + 1 \notin D
    BY <1>2, <2>1
  <2>3. PICK j \in 1..(k + 1) : s[j] # r[j]
    BY <2>1, <2>2
  <2>4. j = k + 1
    BY <2>1, <2>3, <1>4
  <2> QED BY <2>3, <2>4
<1> HIDE DEF k
<1> QED BY <1>2, <1>3, <1>4, <1>5

\* rename_patch replaces one name of a list by another.
LEMMA RenamedElems ==
  ASSUME NEW s \in Seq(Names), NEW old \in Names, NEW new \in Names
  PROVE  /\ Renamed(s, old, new) \in Seq(Names)
         /\ Elems(Renamed(s, old, new)) =
              IF old \in Elems(s) THEN (Elems(s) \ {old}) \cup {new} ELSE Elems(s)
         /\ NoDuplicates(s) /\ new \notin Elems(s) => NoDuplicates(Renamed(s, old, new))
<1>1. PICK r : r = Renamed(s, old, new)
  OBVIOUS
<1>2. /\ r \in Seq(Names) /\ Len(r) = Len(s)
      /\ \A i \in 1..Len(s) : r[i] = IF s[i] = old THEN new ELSE s[i]
  BY <1>1 DEF Renamed
<1>3. ASSUME NEW x \in Elems(r)
      PROVE  x \in IF old \in Elems(s) THEN (Elems(s) \ {old}) \cup {new} ELSE Elems(s)
  <2>1. PICK i \in 1..Len(s) : r[i] = x
    BY <1>2, ElemsIff
  <2> QED BY <1>2, <2>1, ElemsIff
<1>4. ASSUME NEW x \in Elems(s), x # old PROVE x \in Elems(r)
  <2>1. PICK i \in 1..Len(s) : s[i] = x
    BY ElemsIff
  <2> QED BY <1>2, <1>4, <2>1, ElemsIff
<1>5. ASSUME old \in Elems(s) PROVE new \in Elems(r)
  <2>1. PICK i \in 1..Len(s) : s[i] = old
    BY <1>5, ElemsIff
  <2> QED BY <1>2, <2>1, ElemsIff
<1>6. ASSUME NoDuplicates(s), new \notin Elems(s) PROVE NoDuplicates(r)
  <2>1. SUFFICES ASSUME NEW i \in 1..Len(s), NEW j \in 1..Len(s), r[i] = r[j] PROVE i = j
    BY <1>2, NoDupIff
  <2>2. s[i] # new /\ s[j] # new
    BY <1>6, ElemsIff
  <2>3. s[i] = s[j]
    BY <1>2, <2>1, <2>2
  <2> QED BY <1>6, <2>3, NoDupIff
<1>7. Elems(r) = IF old \in Elems(s) THEN (Elems(s) \ {old}) \cup {new} ELSE Elems(s)
  BY <1>3, <1>4, <1>5
<1> QED BY <1>1, <1>2, <1>6, <1>7

-----------------------------------------------------------------------------
\* No name is twice in the three lists.
Distinct3(a, u, h) ==
  /\ NoDuplicates(a) /\ NoDuplicates(u) /\ NoDuplicates(h)
  /\ Elems(a) \cap Elems(u) = {} /\ Elems(a) \cap Elems(h) = {} /\ Elems(u) \cap Elems(h) = {}

\* The names in the lists of a state or of a transaction.
InLists(s) == Elems(s.applied) \cup Elems(s.unapplied) \cup Elems(s.hidden)

\* Each patch is once in one list, the listed ones have a commit, and that has
\* a parent.
Good(s) ==
  /\ Distinct3(s.applied, s.unapplied, s.hidden)
  /\ \A n \in Names : HasPatch(s, n) <=> n \in InLists(s)
  /\ \A n \in Names : HasPatch(s, n) => HasParent(s.patches[n])

\* updated_patches covers every difference from the patch map p of the opened
\* stack, and a patch it deletes was there.
Tracks(t, p) ==
  /\ \A n \in Names \ t.touched : t.patches[n] = p[n]
  /\ \A n \in t.touched : t.patches[n] = NoCommit => p[n] # NoCommit

\* A well-formed transaction on a stack with the patch map p.
WF(t, p) == t \in Transactions /\ Good(t) /\ Tracks(t, p)

\* all_patches() lists every patch once when the three lists are disjoint.
LEMMA AllPatchesElems ==
  ASSUME NEW s, s.applied \in Seq(Names), s.unapplied \in Seq(Names), s.hidden \in Seq(Names)
  PROVE  /\ AllPatches(s) \in Seq(Names)
         /\ Elems(AllPatches(s)) = InLists(s)
         /\ NoDuplicates(AllPatches(s)) <=> Distinct3(s.applied, s.unapplied, s.hidden)
<1>1. PICK a, u, h : a = s.applied /\ u = s.unapplied /\ h = s.hidden
  OBVIOUS
<1>2. a \in Seq(Names) /\ u \in Seq(Names) /\ h \in Seq(Names)
  BY <1>1
<1>3. AllPatches(s) = (a \o u) \o h
  BY <1>1 DEF AllPatches
<1>4. a \o u \in Seq(Names) /\ (a \o u) \o h \in Seq(Names)
  BY <1>2
<1>5. Elems(a \o u) = Elems(a) \cup Elems(u) /\ Elems((a \o u) \o h) = Elems(a \o u) \cup Elems(h)
  BY <1>2, <1>4, ConcatElems
<1>6. /\ NoDuplicates(a \o u) <=> NoDuplicates(a) /\ NoDuplicates(u) /\ Elems(a) \cap Elems(u) = {}
      /\ NoDuplicates((a \o u) \o h) <=>
           NoDuplicates(a \o u) /\ NoDuplicates(h) /\ Elems(a \o u) \cap Elems(h) = {}
  BY <1>2, <1>4, ConcatNoDup
<1>7. NoDuplicates((a \o u) \o h) <=> Distinct3(a, u, h)
  BY <1>5, <1>6 DEF Distinct3
<1> QED BY <1>1, <1>3, <1>4, <1>5, <1>7 DEF InLists

\* Good is stronger than the invariant that the runs check.
LEMMA GoodIsPartitioned ==
  ASSUME NEW s, s.applied \in Seq(Names), s.unapplied \in Seq(Names), s.hidden \in Seq(Names),
         Good(s)
  PROVE  Partitioned(s)
<1>1. InLists(s) \subseteq Names
  BY ElemsIff DEF InLists
<1> QED BY <1>1, AllPatchesElems DEF Good, Partitioned

\* The initial states of a run are good.
LEMMA PartitionedIsGood ==
  ASSUME NEW s, s.applied \in Seq(Names), s.unapplied \in Seq(Names), s.hidden \in Seq(Names),
         Partitioned(s), Chained(s)
  PROVE  Good(s)
BY AllPatchesElems DEF Good, Partitioned, Chained

\* Commits: the tree, the parent and the ancestors of one, and a new one on it.
LEMMA CommitTypes ==
  ASSUME NEW c \in Commits
  PROVE  /\ Tree(c) \in Trees /\ Meta(c) \in Metas /\ c \in MaybeCommits /\ c # NoCommit
         /\ Len(c) \in Nat /\ Len(c) > 0
         /\ HasParent(c) => Parent(c) \in Commits
         /\ \A k \in 1..Len(c) : SubSeq(c, 1, k) \in Commits /\ Len(SubSeq(c, 1, k)) = k
         /\ \A t \in Trees, m \in Metas :
              /\ MkCommit(c, t, m) \in Commits /\ HasParent(MkCommit(c, t, m))
<1> DEFINE R == [tree : Trees, meta : Metas]
<1>1. c \in Seq(R) /\ c # <<>> /\ Len(c) \in Nat /\ Len(c) > 0 /\ c[Len(c)] \in R
  <2>1. c \in Seq(R) /\ c # <<>>
    BY DEF Commits
  <2> HIDE DEF R
  <2> QED BY <2>1
<1>2. Tree(c) \in Trees /\ Meta(c) \in Metas
  BY <1>1 DEF Tree, Meta
<1>3. c \in MaybeCommits /\ c # NoCommit
  BY <1>1 DEF MaybeCommits, NoCommit
<1>4. ASSUME NEW k \in 1..Len(c) PROVE SubSeq(c, 1, k) \in Commits /\ Len(SubSeq(c, 1, k)) = k
  <2> HIDE DEF R
  <2>1. SubSeq(c, 1, k) \in Seq(R) /\ Len(SubSeq(c, 1, k)) = k
    BY <1>1
  <2>2. SubSeq(c, 1, k) # <<>>
    BY <2>1
  <2> QED BY <2>1, <2>2 DEF Commits, R
<1>5. HasParent(c) => Parent(c) \in Commits
  BY <1>1, <1>4 DEF HasParent, Parent
<1>6. ASSUME NEW t \in Trees, NEW m \in Metas
      PROVE  MkCommit(c, t, m) \in Commits /\ HasParent(MkCommit(c, t, m))
  <2>1. [tree |-> t, meta |-> m] \in R
    OBVIOUS
  <2>2. PICK e \in R : e = [tree |-> t, meta |-> m]
    BY <2>1
  <2> HIDE DEF R
  <2>3. Append(c, e) \in Seq(R) /\ Append(c, e) # <<>> /\ Len(Append(c, e)) = Len(c) + 1
    BY <1>1
  <2> QED BY <1>1, <2>2, <2>3 DEF MkCommit, Commits, HasParent, R
<1> QED BY <1>1, <1>2, <1>3, <1>4, <1>5, <1>6

\* An absent commit is a possible value of a patch map.
LEMMA NoCommitType == NoCommit \in MaybeCommits
BY DEF NoCommit, MaybeCommits

\* A value of a patch map is absent or a commit.
LEMMA MaybeCommitTypes ==
  ASSUME NEW c \in MaybeCommits
  PROVE  c # NoCommit <=> c \in Commits
BY DEF MaybeCommits, Commits, NoCommit

\* A listed patch has a commit, and that has a parent, as push_patch assumes.
LEMMA PatchCommit ==
  ASSUME NEW s, Good(s), s.patches \in PatchMaps, NEW n \in InLists(s), n \in Names
  PROVE  s.patches[n] \in Commits /\ HasParent(s.patches[n]) /\ Parent(s.patches[n]) \in Commits
<1>1. s.patches[n] \in MaybeCommits /\ s.patches[n] # NoCommit /\ HasParent(s.patches[n])
  BY DEF Good, HasPatch, PatchMaps
<1> QED BY <1>1, MaybeCommitTypes, CommitTypes

\* top() and head() of a transaction are commits.
LEMMA TopType ==
  ASSUME NEW t \in Transactions, Good(t)
  PROVE  Top(t) \in Commits /\ TransHead(t) \in Commits
<1>1. CASE t.applied = <<>>
  BY <1>1, MaybeCommitTypes DEF Top, TopOf, TransHead, Transactions
<1>2. CASE t.applied # <<>>
  <2>1. t.applied \in Seq(Names) /\ t.patches \in PatchMaps /\ t.head \in MaybeCommits
    BY DEF Transactions
  <2>2. PICK n \in Names : n = t.applied[Len(t.applied)] /\ n \in Elems(t.applied)
    BY <1>2, <2>1, ElemsIff
  <2>3. t.patches[n] \in Commits
    BY <2>1, <2>2, PatchCommit DEF InLists
  <2> QED BY <1>2, <2>1, <2>2, <2>3, MaybeCommitTypes DEF Top, TopOf, TransHead
<1> QED BY <1>1, <1>2

\* The base of an opened stack is a commit.
LEMMA BaseOfType ==
  ASSUME NEW s \in States, Good(s), NEW head \in Commits
  PROVE  BaseOf(s, head) \in Commits
<1>1. CASE s.applied # <<>>
  <2>1. s.applied \in Seq(Names) /\ s.patches \in PatchMaps
    BY DEF States
  <2>2. PICK n \in Names : n = s.applied[1] /\ n \in Elems(s.applied)
    BY <1>1, <2>1, ElemsIff
  <2>3. Parent(s.patches[n]) \in Commits
    BY <2>1, <2>2, PatchCommit DEF InLists
  <2> QED BY <1>1, <2>2, <2>3 DEF BaseOf
<1> QED BY <1>1 DEF BaseOf

\* The transaction that transact() hands to the closure is well formed.
LEMMA BeginOK ==
  ASSUME NEW s \in States, Good(s), NEW head \in Commits, NEW mode \in ConflictModes
  PROVE  WF(Begin(s, head, mode), s.patches)
<1>1. /\ BaseOf(s, head) \in Commits /\ Tree(head) \in Trees
      /\ s.patches \in PatchMaps /\ s.applied \in Seq(Names)
      /\ s.unapplied \in Seq(Names) /\ s.hidden \in Seq(Names) /\ NoCommit \in MaybeCommits
  BY BaseOfType, CommitTypes DEF States, NoCommit, MaybeCommits
<1>2. PICK b, tr : b = BaseOf(s, head) /\ tr = Tree(head)
  OBVIOUS
<1>3. Begin(s, head, mode) \in Transactions
  BY <1>1, <1>2 DEF Begin, Transactions
<1>4. Good(Begin(s, head, mode))
  BY DEF Begin, Good, HasPatch, InLists
<1>5. Tracks(Begin(s, head, mode), s.patches)
  BY DEF Begin, Tracks
<1> QED BY <1>3, <1>4, <1>5 DEF WF
-----------------------------------------------------------------------------
\* What has to be shown of a transaction for it to be well formed.
LEMMA WFIntro ==
  ASSUME NEW t \in Transactions, NEW p,
         Distinct3(t.applied, t.unapplied, t.hidden),
         \A n \in Names : t.patches[n] # NoCommit <=> n \in InLists(t),
         \A n \in Names : t.patches[n] # NoCommit => HasParent(t.patches[n]),
         Tracks(t, p)
  PROVE  WF(t, p)
BY DEF WF, Good, HasPatch

\* A method that only moves patches between the lists keeps the transaction
\* well formed.
LEMMA RelistOK ==
  ASSUME NEW t, NEW p, WF(t, p), NEW v, v \in Transactions,
         v.patches = t.patches, v.touched = t.touched,
         Distinct3(v.applied, v.unapplied, v.hidden), InLists(v) = InLists(t)
  PROVE  WF(v, p)
BY DEF WF, Good, HasPatch, Tracks

\* pop_patches keeps the transaction well formed: what comes off the applied
\* list is on the unapplied one.
LEMMA PopOK ==
  ASSUME NEW t, NEW p, WF(t, p), NEW S
  PROVE  /\ WF(PopPatches(t, S), p)
         /\ InLists(PopPatches(t, S)) = InLists(t)
         /\ PopPatches(t, S).patches = t.patches
         /\ PopPatches(t, S).applied = Below(t.applied, S)
         /\ Elems(PopPatches(t, S).unapplied) =
              Elems(From(t.applied, S)) \cup Elems(t.unapplied)
         /\ PopPatches(t, S).hidden = t.hidden
<1>1. PICK below, from : below = Below(t.applied, S) /\ from = From(t.applied, S)
  OBVIOUS
<1>2. t \in Transactions /\ t.applied \in Seq(Names) /\ t.unapplied \in Seq(Names) /\ t.hidden \in Seq(Names)
  BY DEF WF, Transactions
<1>3. Distinct3(t.applied, t.unapplied, t.hidden)
  BY DEF WF, Good
<1>4. /\ below \in Seq(Names) /\ from \in Seq(Names)
      /\ Elems(t.applied) = Elems(below) \cup Elems(from)
      /\ NoDuplicates(below) /\ NoDuplicates(from) /\ Elems(below) \cap Elems(from) = {}
  BY <1>1, <1>2, <1>3, BelowFrom DEF Distinct3
<1>5. PICK d, k : d = Drop(from, S) /\ k = Keep(from, S)
  OBVIOUS
<1>6. /\ d \in Seq(Names) /\ k \in Seq(Names) /\ NoDuplicates(d) /\ NoDuplicates(k)
      /\ Elems(d) = Elems(from) \ S /\ Elems(k) = Elems(from) \cap S
  BY <1>4, <1>5, DropElems, KeepElems
<1>7. PICK u : u = d \o k \o t.unapplied
  OBVIOUS
<1>8. /\ u \in Seq(Names) /\ Elems(u) = Elems(from) \cup Elems(t.unapplied) /\ NoDuplicates(u)
  <2>1. PICK dk : dk = d \o k
    OBVIOUS
  <2>2. dk \in Seq(Names) /\ Elems(dk) = Elems(from) /\ NoDuplicates(dk)
    <3>1. Elems(d) \cap Elems(k) = {} /\ Elems(d) \cup Elems(k) = Elems(from)
      BY <1>6
    <3>2. dk \in Seq(Names)
      BY <1>6, <2>1
    <3>3. Elems(dk) = Elems(d) \cup Elems(k)
      BY <1>6, <2>1, ConcatElems
    <3>4. NoDuplicates(dk)
      BY <1>6, <2>1, <3>1, ConcatNoDup
    <3> QED BY <3>1, <3>2, <3>3, <3>4
  <2>3. u = dk \o t.unapplied /\ Elems(from) \cap Elems(t.unapplied) = {} /\ NoDuplicates(t.unapplied)
    BY <1>7, <2>1, <1>3, <1>4 DEF Distinct3
  <2> QED BY <2>2, <2>3, <1>2, ConcatElems, ConcatNoDup
<1>9. PICK v : v = PopPatches(t, S)
  OBVIOUS
<1>10. v = [t EXCEPT !.applied = below, !.unapplied = u]
  BY <1>1, <1>5, <1>7, <1>9 DEF PopPatches
<1>11. /\ v \in Transactions /\ v.applied = below /\ v.unapplied = u /\ v.hidden = t.hidden
       /\ v.patches = t.patches /\ v.touched = t.touched
  BY <1>2, <1>4, <1>8, <1>10 DEF Transactions
<1>12. Distinct3(v.applied, v.unapplied, v.hidden) /\ InLists(v) = InLists(t)
  BY <1>3, <1>4, <1>8, <1>11 DEF Distinct3, InLists
<1>13. WF(v, p)
  BY <1>11, <1>12, RelistOK
<1> QED BY <1>1, <1>8, <1>9, <1>11, <1>12, <1>13

\* delete_patches keeps the transaction well formed when the patches it deletes
\* are in the stack, and the incidental patches can be pushed again.
LEMMA DeleteOK ==
  ASSUME NEW t, NEW p, WF(t, p), NEW S, \A n \in S \cap InLists(t) : p[n] # NoCommit
  PROVE  /\ WF(DeletePatches(t, S), p)
         /\ InLists(DeletePatches(t, S)) = InLists(t) \ S
         /\ NoDuplicates(Incidental(t, S))
         /\ Incidental(t, S) \in Seq(Names)
         /\ Elems(Incidental(t, S)) \subseteq Elems(DeletePatches(t, S).unapplied)
         /\ DeletePatches(t, S).touched = t.touched \cup (S \cap InLists(t))
         /\ \A n \in Names : DeletePatches(t, S).patches[n] =
                               IF n \in S \cap InLists(t) THEN NoCommit ELSE t.patches[n]
<1>1. PICK below, from : below = Below(t.applied, S) /\ from = From(t.applied, S)
  OBVIOUS
<1>2. /\ t \in Transactions /\ t.applied \in Seq(Names) /\ t.unapplied \in Seq(Names)
      /\ t.hidden \in Seq(Names) /\ t.patches \in PatchMaps /\ t.touched \in SUBSET Names
  BY DEF WF, Transactions
<1>3. Distinct3(t.applied, t.unapplied, t.hidden)
  BY DEF WF, Good
<1>4. /\ below \in Seq(Names) /\ from \in Seq(Names)
      /\ Elems(t.applied) = Elems(below) \cup Elems(from)
      /\ NoDuplicates(below) /\ NoDuplicates(from) /\ Elems(below) \cap Elems(from) = {}
      /\ Elems(below) \cap S = {}
  BY <1>1, <1>2, <1>3, BelowFrom DEF Distinct3
<1>5. PICK d, u, h : d = Incidental(t, S) /\ u = Drop(t.unapplied, S) /\ h = Drop(t.hidden, S)
  OBVIOUS
<1>6. /\ d \in Seq(Names) /\ NoDuplicates(d) /\ Elems(d) = Elems(from) \ S
      /\ u \in Seq(Names) /\ NoDuplicates(u) /\ Elems(u) = Elems(t.unapplied) \ S
      /\ h \in Seq(Names) /\ NoDuplicates(h) /\ Elems(h) = Elems(t.hidden) \ S
  BY <1>1, <1>2, <1>3, <1>4, <1>5, DropElems DEF Distinct3, Incidental
<1>7. d \o u \in Seq(Names) /\ Elems(d \o u) = Elems(d) \cup Elems(u) /\ NoDuplicates(d \o u)
  <2>1. Elems(d) \cap Elems(u) = {}
    BY <1>3, <1>4, <1>6 DEF Distinct3
  <2> QED BY <2>1, <1>6, ConcatElems, ConcatNoDup
<1>8. PICK gone, du, q : gone = S \cap InLists(t) /\ du = d \o u /\ q = Forget(t.patches, gone)
  OBVIOUS
<1>9. InLists(t) \subseteq Names /\ InLists(t) = Elems(AllPatches(t))
  <2>1. InLists(t) \subseteq Names
    BY <1>2, ElemsIff DEF InLists
  <2> QED BY <2>1, <1>2, AllPatchesElems
<1>10. /\ q \in PatchMaps
       /\ \A n \in Names : q[n] = IF n \in gone THEN NoCommit ELSE t.patches[n]
  BY <1>2, <1>8, NoCommitType DEF Forget, PatchMaps
<1>11. PICK v : v = DeletePatches(t, S)
  OBVIOUS
<1>12. v = [t EXCEPT !.applied = below, !.unapplied = du, !.hidden = h, !.patches = q,
                     !.touched = t.touched \cup gone]
  BY <1>1, <1>5, <1>8, <1>9, <1>11 DEF DeletePatches
<1>13. du \in Seq(Names) /\ t.touched \cup gone \in SUBSET Names
  BY <1>2, <1>7, <1>8, <1>9
<1>14. /\ v \in Transactions /\ v.applied = below /\ v.unapplied = du /\ v.hidden = h
       /\ v.patches = q /\ v.touched = t.touched \cup gone
  BY <1>2, <1>4, <1>6, <1>10, <1>12, <1>13 DEF Transactions
<1>15. Distinct3(v.applied, v.unapplied, v.hidden)
  BY <1>3, <1>4, <1>6, <1>7, <1>8, <1>14 DEF Distinct3
<1>16. InLists(v) = InLists(t) \ S
  BY <1>4, <1>6, <1>7, <1>8, <1>14 DEF InLists
<1>17. \A n \in Names : (t.patches[n] # NoCommit <=> n \in InLists(t))
                          /\ (t.patches[n] # NoCommit => HasParent(t.patches[n]))
  BY DEF WF, Good, HasPatch
<1>18. /\ \A n \in Names : v.patches[n] # NoCommit <=> n \in InLists(v)
       /\ \A n \in Names : v.patches[n] # NoCommit => HasParent(v.patches[n])
  BY <1>8, <1>9, <1>10, <1>14, <1>16, <1>17
<1>19. Tracks(v, p)
  BY <1>2, <1>8, <1>9, <1>10, <1>14 DEF Tracks, WF
<1>20. WF(v, p)
  BY <1>14, <1>15, <1>18, <1>19, WFIntro
<1> QED BY <1>5, <1>6, <1>7, <1>8, <1>10, <1>11, <1>14, <1>16, <1>20

\* Giving a listed patch a new commit keeps the transaction well formed.
LEMMA SetPatchOK ==
  ASSUME NEW t, NEW p, WF(t, p), NEW n \in Names, n \in InLists(t), NEW c \in Commits, HasParent(c)
  PROVE  /\ WF(SetPatch(t, n, c), p) /\ InLists(SetPatch(t, n, c)) = InLists(t)
         /\ SetPatch(t, n, c).applied = t.applied /\ SetPatch(t, n, c).unapplied = t.unapplied
         /\ SetPatch(t, n, c).hidden = t.hidden
         /\ SetPatch(t, n, c).patches[n] = c
<1>1. t \in Transactions /\ t.patches \in PatchMaps /\ t.touched \in SUBSET Names
  BY DEF WF, Transactions
<1>2. PICK q : q = [t.patches EXCEPT ![n] = c]
  OBVIOUS
<1>3. c \in MaybeCommits /\ c # NoCommit
  BY CommitTypes
<1>4. q \in PatchMaps /\ \A m \in Names : q[m] = IF m = n THEN c ELSE t.patches[m]
  BY <1>1, <1>2, <1>3 DEF PatchMaps
<1>5. PICK v : v = SetPatch(t, n, c)
  OBVIOUS
<1>6. v = [t EXCEPT !.patches = q, !.touched = t.touched \cup {n}]
  BY <1>2, <1>5 DEF SetPatch
<1>7. /\ v \in Transactions /\ v.applied = t.applied /\ v.unapplied = t.unapplied
      /\ v.hidden = t.hidden /\ v.patches = q /\ v.touched = t.touched \cup {n}
  BY <1>1, <1>4, <1>6 DEF Transactions
<1>8. InLists(v) = InLists(t) /\ Distinct3(v.applied, v.unapplied, v.hidden)
  BY <1>7 DEF InLists, WF, Good
<1>9. /\ \A m \in Names : v.patches[m] # NoCommit <=> m \in InLists(v)
      /\ \A m \in Names : v.patches[m] # NoCommit => HasParent(v.patches[m])
  BY <1>3, <1>4, <1>7, <1>8 DEF WF, Good, HasPatch
<1>10. Tracks(v, p)
  BY <1>1, <1>3, <1>4, <1>7 DEF Tracks, WF
<1> QED BY <1>4, <1>5, <1>7, <1>8, <1>9, <1>10, WFIntro

\* Moving a patch to the top of the applied list, out of the unapplied or the
\* hidden one.
LEMMA RaiseOK ==
  ASSUME NEW t, NEW p, WF(t, p), NEW n \in Elems(t.unapplied) \cup Elems(t.hidden)
  PROVE  /\ WF(Raise(t, n), p) /\ InLists(Raise(t, n)) = InLists(t)
         /\ Raise(t, n).applied = Append(t.applied, n)
         /\ Elems(Raise(t, n).unapplied) = Elems(t.unapplied) \ {n}
         /\ Elems(Raise(t, n).hidden) = Elems(t.hidden) \ {n}
         /\ Raise(t, n).patches = t.patches
<1>1. /\ t \in Transactions /\ t.applied \in Seq(Names) /\ t.unapplied \in Seq(Names)
      /\ t.hidden \in Seq(Names)
  BY DEF WF, Transactions
<1>2. Distinct3(t.applied, t.unapplied, t.hidden)
  BY DEF WF, Good
<1>3. n \in Names /\ n \notin Elems(t.applied)
  BY <1>1, <1>2, ElemsIff DEF Distinct3
<1>4. PICK a, u, h : a = Append(t.applied, n) /\ u = Drop(t.unapplied, {n}) /\ h = Drop(t.hidden, {n})
  OBVIOUS
<1>5. a \in Seq(Names) /\ Elems(a) = Elems(t.applied) \cup {n} /\ NoDuplicates(a)
  BY <1>1, <1>2, <1>3, <1>4, AppendElems DEF Distinct3
<1>6. /\ u \in Seq(Names) /\ Elems(u) = Elems(t.unapplied) \ {n} /\ NoDuplicates(u)
      /\ h \in Seq(Names) /\ Elems(h) = Elems(t.hidden) \ {n} /\ NoDuplicates(h)
  BY <1>1, <1>2, <1>4, DropElems DEF Distinct3
<1>7. PICK v : v = Raise(t, n)
  OBVIOUS
<1>8. v = [t EXCEPT !.applied = a, !.unapplied = u, !.hidden = h]
  BY <1>4, <1>7 DEF Raise
<1>9. /\ v \in Transactions /\ v.applied = a /\ v.unapplied = u /\ v.hidden = h
      /\ v.patches = t.patches /\ v.touched = t.touched
  BY <1>1, <1>5, <1>6, <1>8 DEF Transactions
<1>10. Distinct3(v.applied, v.unapplied, v.hidden) /\ InLists(v) = InLists(t)
  BY <1>2, <1>5, <1>6, <1>9 DEF Distinct3, InLists
<1>11. WF(v, p)
  BY <1>9, <1>10, RelistOK
<1> QED BY <1>4, <1>6, <1>7, <1>9, <1>10, <1>11

\* The same with a new commit: the end of push_patch and push_tree.
LEMMA ReplaceAndRaiseOK ==
  ASSUME NEW t, NEW p, WF(t, p), NEW n \in Elems(t.unapplied) \cup Elems(t.hidden),
         NEW c \in Commits, HasParent(c)
  PROVE  LET v == Raise(SetPatch(t, n, c), n)
         IN  /\ WF(v, p) /\ InLists(v) = InLists(t)
             /\ v.applied = Append(t.applied, n)
             /\ Elems(v.unapplied) = Elems(t.unapplied) \ {n}
             /\ Elems(v.hidden) = Elems(t.hidden) \ {n}
<1>1. n \in Names /\ n \in InLists(t)
  BY ElemsIff DEF WF, Transactions, InLists
<1>2. PICK s : s = SetPatch(t, n, c)
  OBVIOUS
<1>3. /\ WF(s, p) /\ InLists(s) = InLists(t) /\ s.applied = t.applied
      /\ s.unapplied = t.unapplied /\ s.hidden = t.hidden
  BY <1>1, <1>2, SetPatchOK
<1>4. n \in Elems(s.unapplied) \cup Elems(s.hidden)
  BY <1>3
<1>5. PICK v : v = Raise(s, n)
  OBVIOUS
<1>6. /\ WF(v, p) /\ InLists(v) = InLists(s) /\ v.applied = Append(s.applied, n)
      /\ Elems(v.unapplied) = Elems(s.unapplied) \ {n}
      /\ Elems(v.hidden) = Elems(s.hidden) \ {n}
  BY <1>3, <1>4, <1>5, RaiseOK
<1> QED BY <1>2, <1>3, <1>5, <1>6

\* n has been pushed: the lists and commits of v are those of t after that.
PushedAs(t, n, tree, v) == v = PushTree(t, n) \/ v = PushPatch(t, n, tree)

Raised(t, n, v) ==
  /\ InLists(v) = InLists(t) /\ v.applied = Append(t.applied, n)
  /\ Elems(v.unapplied) = Elems(t.unapplied) \ {n}
  /\ Elems(v.hidden) = Elems(t.hidden) \ {n}

\* The patches are there and not applied: push_patches can push them.
Pushable(t, names) ==
  NoDuplicates(names) /\ Elems(names) \subseteq Elems(t.unapplied) \cup Elems(t.hidden)

\* push_patch and push_tree keep the transaction well formed.
LEMMA PushPatchOK ==
  ASSUME NEW t, NEW p, WF(t, p), NEW n \in Elems(t.unapplied) \cup Elems(t.hidden),
         NEW tree \in Trees, NEW v, PushedAs(t, n, tree, v)
  PROVE  WF(v, p) /\ Raised(t, n, v)
<1>1. t \in Transactions /\ Good(t) /\ t.patches \in PatchMaps
  BY DEF WF, Transactions
<1>2. n \in Names /\ n \in InLists(t)
  BY ElemsIff DEF WF, Transactions, InLists
<1>3. t.patches[n] \in Commits /\ Tree(t.patches[n]) \in Trees /\ Meta(t.patches[n]) \in Metas
  BY <1>1, <1>2, PatchCommit, CommitTypes
<1>4. Top(t) \in Commits
  BY <1>1, TopType
<1>5. \A tr \in Trees : /\ MkCommit(Top(t), tr, Meta(t.patches[n])) \in Commits
                        /\ HasParent(MkCommit(Top(t), tr, Meta(t.patches[n])))
  BY <1>3, <1>4, CommitTypes
<1>6. PICK tr \in Trees : \/ v = Raise(t, n)
                           \/ v = Raise(SetPatch(t, n, MkCommit(Top(t), tr, Meta(t.patches[n]))), n)
  BY <1>3 DEF PushedAs, PushTree, PushPatch
<1>7. PICK c : c = MkCommit(Top(t), tr, Meta(t.patches[n]))
  OBVIOUS
<1>8. c \in Commits /\ HasParent(c)
  BY <1>5, <1>7
<1>9. CASE v = Raise(t, n)
  BY <1>9, RaiseOK DEF Raised
<1>10. CASE v = Raise(SetPatch(t, n, c), n)
  BY <1>8, <1>10, ReplaceAndRaiseOK DEF Raised
<1> QED BY <1>6, <1>7, <1>9, <1>10

\* A fresh name with its commit, put in one of the lists (new_applied,
\* new_unapplied).
LEMMA FreshOK ==
  ASSUME NEW t, NEW p, WF(t, p), NEW n \in Names \ InLists(t), NEW c \in Commits, HasParent(c),
         NEW v \in Transactions,
         v.patches = [t.patches EXCEPT ![n] = c], v.touched = t.touched \cup {n},
         Distinct3(v.applied, v.unapplied, v.hidden), InLists(v) = InLists(t) \cup {n}
  PROVE  WF(v, p)
<1>1. t.patches \in PatchMaps /\ t.touched \in SUBSET Names
  BY DEF WF, Transactions
<1>2. c # NoCommit
  BY CommitTypes
<1>3. \A m \in Names : v.patches[m] = IF m = n THEN c ELSE t.patches[m]
  BY <1>1 DEF PatchMaps
<1>4. /\ \A m \in Names : v.patches[m] # NoCommit <=> m \in InLists(v)
      /\ \A m \in Names : v.patches[m] # NoCommit => HasParent(v.patches[m])
  BY <1>2, <1>3 DEF WF, Good, HasPatch
<1>5. Tracks(v, p)
  BY <1>1, <1>2, <1>3 DEF Tracks, WF
<1> QED BY <1>4, <1>5, WFIntro

\* new_applied keeps the transaction well formed.
LEMMA NewAppliedOK ==
  ASSUME NEW t, NEW p, WF(t, p), NEW n \in Names \ InLists(t), NEW c \in Commits, HasParent(c)
  PROVE  WF(NewApplied(t, n, c), p)
<1>1. /\ t \in Transactions /\ t.applied \in Seq(Names)
      /\ t.patches \in PatchMaps /\ t.touched \in SUBSET Names
  BY DEF WF, Transactions
<1>2. PICK a, q : a = Append(t.applied, n) /\ q = [t.patches EXCEPT ![n] = c]
  OBVIOUS
<1>3. Distinct3(t.applied, t.unapplied, t.hidden)
  BY DEF WF, Good
<1>4. a \in Seq(Names) /\ Elems(a) = Elems(t.applied) \cup {n} /\ NoDuplicates(a)
  BY <1>1, <1>2, <1>3, AppendElems DEF Distinct3, InLists
<1>5. q \in PatchMaps
  BY <1>1, <1>2, CommitTypes DEF PatchMaps
<1>6. PICK v : v = NewApplied(t, n, c)
  OBVIOUS
<1>7. v = [t EXCEPT !.patches = q, !.touched = t.touched \cup {n}, !.applied = a]
  BY <1>1, <1>2, <1>6 DEF NewApplied, SetPatch, Transactions
<1>8. /\ v \in Transactions /\ v.applied = a /\ v.unapplied = t.unapplied
      /\ v.hidden = t.hidden /\ v.patches = q /\ v.touched = t.touched \cup {n}
  BY <1>1, <1>4, <1>5, <1>7 DEF Transactions
<1>9. Distinct3(v.applied, v.unapplied, v.hidden) /\ InLists(v) = InLists(t) \cup {n}
  BY <1>3, <1>4, <1>8 DEF Distinct3, InLists
<1> QED BY <1>2, <1>6, <1>8, <1>9, FreshOK

\* new_unapplied keeps the transaction well formed, at whatever position.
LEMMA NewUnappliedOK ==
  ASSUME NEW t, NEW p, WF(t, p), NEW n \in Names \ InLists(t), NEW c \in Commits, HasParent(c),
         NEW pos \in 0..Len(t.unapplied)
  PROVE  WF(NewUnapplied(t, n, c, pos), p)
<1>1. /\ t \in Transactions /\ t.unapplied \in Seq(Names)
      /\ t.patches \in PatchMaps /\ t.touched \in SUBSET Names
  BY DEF WF, Transactions
<1>2. PICK lo, hi, q : /\ lo = SubSeq(t.unapplied, 1, pos)
                       /\ hi = SubSeq(t.unapplied, pos + 1, Len(t.unapplied))
                       /\ q = [t.patches EXCEPT ![n] = c]
  OBVIOUS
<1>3. Distinct3(t.applied, t.unapplied, t.hidden)
  BY DEF WF, Good
<1>4. lo \in Seq(Names) /\ hi \in Seq(Names) /\ t.unapplied = lo \o hi
  BY <1>1, <1>2, SplitSeq
<1>5. /\ Elems(t.unapplied) = Elems(lo) \cup Elems(hi)
      /\ NoDuplicates(lo) /\ NoDuplicates(hi) /\ Elems(lo) \cap Elems(hi) = {}
  BY <1>3, <1>4, ConcatElems, ConcatNoDup DEF Distinct3
<1>6. n \notin Elems(lo) /\ n \notin Elems(hi)
  BY <1>5 DEF InLists
<1>7. PICK l1, u : l1 = lo \o <<n>> /\ u = l1 \o hi
  OBVIOUS
<1>8. l1 \in Seq(Names) /\ Elems(l1) = Elems(lo) \cup {n} /\ NoDuplicates(l1)
  <2>1. l1 = Append(lo, n)
    BY <1>4, <1>7, AppendIsConcat
  <2> QED BY <2>1, <1>4, <1>5, <1>6, AppendElems
<1>9. u \in Seq(Names) /\ Elems(u) = Elems(t.unapplied) \cup {n} /\ NoDuplicates(u)
  <2>1. Elems(l1) \cap Elems(hi) = {}
    BY <1>5, <1>6, <1>8
  <2>2. u \in Seq(Names)
    BY <1>4, <1>7, <1>8
  <2>3. Elems(u) = Elems(l1) \cup Elems(hi)
    BY <1>4, <1>7, <1>8, ConcatElems
  <2>4. NoDuplicates(u)
    BY <1>4, <1>5, <1>7, <1>8, <2>1, ConcatNoDup
  <2> QED BY <1>5, <1>8, <2>2, <2>3, <2>4
<1>10. q \in PatchMaps
  BY <1>1, <1>2, CommitTypes DEF PatchMaps
<1>11. PICK v : v = NewUnapplied(t, n, c, pos)
  OBVIOUS
<1>12. v = [t EXCEPT !.patches = q, !.touched = t.touched \cup {n}, !.unapplied = u]
  BY <1>1, <1>2, <1>7, <1>11 DEF NewUnapplied, SetPatch, Transactions
<1>13. /\ v \in Transactions /\ v.applied = t.applied /\ v.unapplied = u
       /\ v.hidden = t.hidden /\ v.patches = q /\ v.touched = t.touched \cup {n}
  BY <1>1, <1>9, <1>10, <1>12 DEF Transactions
<1>14. Distinct3(v.applied, v.unapplied, v.hidden) /\ InLists(v) = InLists(t) \cup {n}
  BY <1>3, <1>9, <1>13 DEF Distinct3, InLists
<1> QED BY <1>2, <1>11, <1>13, <1>14, FreshOK

\* Replacing the lists by others with the same patches: repair_appliedness, and
\* the assignments at the end of reorder_patches and hide_patches.
LEMMA AssignOK ==
  ASSUME NEW t, NEW p, WF(t, p), NEW a \in Seq(Names), NEW u \in Seq(Names), NEW h \in Seq(Names),
         Distinct3(a, u, h), Elems(a) \cup Elems(u) \cup Elems(h) = InLists(t), NEW v,
         v = [t EXCEPT !.applied = a, !.unapplied = u, !.hidden = h]
  PROVE  WF(v, p)
<1>1. t \in Transactions
  BY DEF WF
<1>2. /\ v \in Transactions /\ v.applied = a /\ v.unapplied = u /\ v.hidden = h
      /\ v.patches = t.patches /\ v.touched = t.touched
  BY <1>1 DEF Transactions
<1>3. InLists(v) = InLists(t) /\ Distinct3(v.applied, v.unapplied, v.hidden)
  BY <1>2 DEF InLists
<1> QED BY <1>2, <1>3, RelistOK

\* commit_patches keeps the transaction well formed when the patches are the
\* bottommost ones and in the stack.
LEMMA CommitOK ==
  ASSUME NEW t, NEW p, WF(t, p), NEW names \in Seq(Names), names # <<>>,
         IsPrefixOf(names, t.applied), \A n \in Elems(names) : p[n] # NoCommit
  PROVE  /\ WF(CommitPatches(t, names), p)
         /\ CommitPatches(t, names).unapplied = t.unapplied
         /\ CommitPatches(t, names).hidden = t.hidden
<1>1. /\ t \in Transactions /\ t.applied \in Seq(Names) /\ t.unapplied \in Seq(Names)
      /\ t.hidden \in Seq(Names) /\ t.patches \in PatchMaps /\ t.touched \in SUBSET Names
  BY DEF WF, Transactions
<1>2. Distinct3(t.applied, t.unapplied, t.hidden)
  BY DEF WF, Good
<1>3. PICK k : k = Len(names)
  OBVIOUS
<1>4. k \in Nat /\ k > 0 /\ k \in 0..Len(t.applied) /\ \A i \in 1..k : names[i] = t.applied[i]
  BY <1>1, <1>3 DEF IsPrefixOf
<1>5. PICK lo, hi : lo = SubSeq(t.applied, 1, k) /\ hi = SubSeq(t.applied, k + 1, Len(t.applied))
  OBVIOUS
<1>6. /\ lo \in Seq(Names) /\ hi \in Seq(Names) /\ t.applied = lo \o hi
      /\ Len(lo) = k /\ \A i \in 1..k : lo[i] = t.applied[i]
  BY <1>1, <1>4, <1>5, SplitSeq
<1>7. lo = names
  BY <1>3, <1>4, <1>6, SeqEqual
<1>8. /\ Elems(t.applied) = Elems(names) \cup Elems(hi)
      /\ NoDuplicates(hi) /\ Elems(names) \cap Elems(hi) = {}
  BY <1>2, <1>6, <1>7, ConcatElems, ConcatNoDup DEF Distinct3
<1>9. names[k] \in Elems(names) /\ Elems(names) \subseteq Names
  BY <1>3, <1>4, ElemsIff
<1>10. t.patches[names[k]] \in Commits
  <2>1. names[k] \in InLists(t) /\ names[k] \in Names /\ Good(t)
    BY <1>8, <1>9 DEF InLists, WF
  <2> QED BY <2>1, <1>1, PatchCommit
<1>11. PICK b, q : b = t.patches[names[k]] /\ q = Forget(t.patches, Elems(names))
  OBVIOUS
<1>12. /\ q \in PatchMaps
       /\ \A n \in Names : q[n] = IF n \in Elems(names) THEN NoCommit ELSE t.patches[n]
  BY <1>1, <1>11, NoCommitType DEF Forget, PatchMaps
<1>13. PICK v : v = CommitPatches(t, names)
  OBVIOUS
<1>14. v = [t EXCEPT !.base = b, !.patches = q, !.touched = t.touched \cup Elems(names),
                     !.applied = hi]
  BY <1>3, <1>5, <1>11, <1>13 DEF CommitPatches
<1>15. b \in Commits /\ t.touched \cup Elems(names) \in SUBSET Names
  BY <1>1, <1>9, <1>10, <1>11
<1>16. /\ v \in Transactions /\ v.applied = hi /\ v.unapplied = t.unapplied /\ v.hidden = t.hidden
       /\ v.patches = q /\ v.touched = t.touched \cup Elems(names)
  BY <1>1, <1>6, <1>12, <1>14, <1>15 DEF Transactions
<1>17. Distinct3(v.applied, v.unapplied, v.hidden) /\ InLists(v) = InLists(t) \ Elems(names)
  BY <1>2, <1>8, <1>16 DEF Distinct3, InLists
<1>18. \A n \in Names : (t.patches[n] # NoCommit <=> n \in InLists(t))
                          /\ (t.patches[n] # NoCommit => HasParent(t.patches[n]))
  BY DEF WF, Good, HasPatch
<1>19. /\ \A n \in Names : v.patches[n] # NoCommit <=> n \in InLists(v)
       /\ \A n \in Names : v.patches[n] # NoCommit => HasParent(v.patches[n])
  BY <1>12, <1>16, <1>17, <1>18
<1>20. Tracks(v, p)
  BY <1>1, <1>9, <1>12, <1>16 DEF Tracks, WF
<1> QED BY <1>13, <1>16, <1>17, <1>19, <1>20, WFIntro

\* A run of new_applied keeps the transaction well formed.
LEMMA NewOnTopOK ==
  ASSUME NEW t, NEW p, WF(t, p), NEW names \in Seq(Names), NoDuplicates(names),
         Elems(names) \cap InLists(t) = {}, NEW f, DOMAIN f = Elems(names),
         \A n \in Elems(names) : f[n] \in Commits /\ HasParent(f[n])
  PROVE  WF(NewOnTop(t, names, f), p)
<1>1. /\ t \in Transactions /\ t.applied \in Seq(Names) /\ t.unapplied \in Seq(Names)
      /\ t.hidden \in Seq(Names) /\ t.patches \in PatchMaps /\ t.touched \in SUBSET Names
  BY DEF WF, Transactions
<1>2. Distinct3(t.applied, t.unapplied, t.hidden)
  BY DEF WF, Good
<1>3. PICK a, q : a = t.applied \o names /\ q = Overlay(t.patches, f)
  OBVIOUS
<1>4. a \in Seq(Names) /\ Elems(a) = Elems(names) \cup Elems(t.applied) /\ NoDuplicates(a)
  <2>1. Elems(names) \cap Elems(t.applied) = {} /\ NoDuplicates(t.applied)
    BY <1>2 DEF InLists, Distinct3
  <2> QED BY <1>1, <1>3, <2>1, ConcatElems, ConcatNoDup
<1>5. Elems(names) \subseteq Names
  BY ElemsIff
<1>6. \A n \in Elems(names) : f[n] \in MaybeCommits /\ f[n] # NoCommit
  BY CommitTypes
<1>7. /\ q \in PatchMaps
      /\ \A n \in Names : q[n] = IF n \in Elems(names) THEN f[n] ELSE t.patches[n]
  BY <1>1, <1>3, <1>6 DEF Overlay, PatchMaps
<1>8. PICK v : v = NewOnTop(t, names, f)
  OBVIOUS
<1>9. v = [t EXCEPT !.applied = a, !.patches = q, !.touched = t.touched \cup Elems(names)]
  BY <1>3, <1>8 DEF NewOnTop
<1>10. t.touched \cup Elems(names) \in SUBSET Names
  BY <1>1, <1>5
<1>11. /\ v \in Transactions /\ v.applied = a /\ v.unapplied = t.unapplied /\ v.hidden = t.hidden
       /\ v.patches = q /\ v.touched = t.touched \cup Elems(names)
  BY <1>1, <1>4, <1>7, <1>9, <1>10 DEF Transactions
<1>12. Distinct3(v.applied, v.unapplied, v.hidden) /\ InLists(v) = InLists(t) \cup Elems(names)
  BY <1>2, <1>4, <1>11 DEF Distinct3, InLists
<1>13. \A n \in Names : (t.patches[n] # NoCommit <=> n \in InLists(t))
                          /\ (t.patches[n] # NoCommit => HasParent(t.patches[n]))
  BY DEF WF, Good, HasPatch
<1>14. /\ \A n \in Names : v.patches[n] # NoCommit <=> n \in InLists(v)
       /\ \A n \in Names : v.patches[n] # NoCommit => HasParent(v.patches[n])
  BY <1>6, <1>7, <1>11, <1>12, <1>13
<1>15. Tracks(v, p)
  BY <1>1, <1>5, <1>6, <1>7, <1>11 DEF Tracks, WF
<1> QED BY <1>8, <1>11, <1>12, <1>14, <1>15, WFIntro

\* uncommit_patches keeps the transaction well formed.
LEMMA UncommitOK ==
  ASSUME NEW t, NEW p, WF(t, p), NEW names \in Seq(Names), NoDuplicates(names),
         Elems(names) \cap InLists(t) = {}, NEW f, DOMAIN f = Elems(names),
         \A n \in Elems(names) : f[n] \in Commits /\ HasParent(f[n])
  PROVE  WF(UncommitPatches(t, names, f), p)
<1>1. /\ t \in Transactions /\ t.applied \in Seq(Names) /\ t.unapplied \in Seq(Names)
      /\ t.hidden \in Seq(Names) /\ t.patches \in PatchMaps /\ t.touched \in SUBSET Names
  BY DEF WF, Transactions
<1>2. Distinct3(t.applied, t.unapplied, t.hidden)
  BY DEF WF, Good
<1>3. PICK a, q : a = names \o t.applied /\ q = Overlay(t.patches, f)
  OBVIOUS
<1>4. a \in Seq(Names) /\ Elems(a) = Elems(names) \cup Elems(t.applied) /\ NoDuplicates(a)
  <2>1. Elems(names) \cap Elems(t.applied) = {} /\ NoDuplicates(t.applied)
    BY <1>2 DEF InLists, Distinct3
  <2> QED BY <1>1, <1>3, <2>1, ConcatElems, ConcatNoDup
<1>5. Elems(names) \subseteq Names
  BY ElemsIff
<1>6. \A n \in Elems(names) : f[n] \in MaybeCommits /\ f[n] # NoCommit
  BY CommitTypes
<1>7. /\ q \in PatchMaps
      /\ \A n \in Names : q[n] = IF n \in Elems(names) THEN f[n] ELSE t.patches[n]
  BY <1>1, <1>3, <1>6 DEF Overlay, PatchMaps
<1>8. PICK v : v = UncommitPatches(t, names, f)
  OBVIOUS
<1>9. v = [t EXCEPT !.applied = a, !.patches = q, !.touched = t.touched \cup Elems(names)]
  BY <1>3, <1>8 DEF UncommitPatches
<1>10. t.touched \cup Elems(names) \in SUBSET Names
  BY <1>1, <1>5
<1>11. /\ v \in Transactions /\ v.applied = a /\ v.unapplied = t.unapplied /\ v.hidden = t.hidden
       /\ v.patches = q /\ v.touched = t.touched \cup Elems(names)
  BY <1>1, <1>4, <1>7, <1>9, <1>10 DEF Transactions
<1>12. Distinct3(v.applied, v.unapplied, v.hidden) /\ InLists(v) = InLists(t) \cup Elems(names)
  BY <1>2, <1>4, <1>11 DEF Distinct3, InLists
<1>13. \A n \in Names : (t.patches[n] # NoCommit <=> n \in InLists(t))
                          /\ (t.patches[n] # NoCommit => HasParent(t.patches[n]))
  BY DEF WF, Good, HasPatch
<1>14. /\ \A n \in Names : v.patches[n] # NoCommit <=> n \in InLists(v)
       /\ \A n \in Names : v.patches[n] # NoCommit => HasParent(v.patches[n])
  BY <1>6, <1>7, <1>11, <1>12, <1>13
<1>15. Tracks(v, p)
  BY <1>1, <1>5, <1>6, <1>7, <1>11 DEF Tracks, WF
<1> QED BY <1>8, <1>11, <1>12, <1>14, <1>15, WFIntro

\* unhide_patches keeps the transaction well formed.
LEMMA UnhideOK ==
  ASSUME NEW t, NEW p, WF(t, p), NEW names \in Seq(Names), NoDuplicates(names),
         Elems(names) \subseteq Elems(t.hidden)
  PROVE  WF(UnhidePatches(t, names), p)
<1>1. /\ t \in Transactions /\ t.applied \in Seq(Names) /\ t.unapplied \in Seq(Names)
      /\ t.hidden \in Seq(Names)
  BY DEF WF, Transactions
<1>2. Distinct3(t.applied, t.unapplied, t.hidden)
  BY DEF WF, Good
<1>3. PICK u, h : u = t.unapplied \o names /\ h = Drop(t.hidden, Elems(names))
  OBVIOUS
<1>4. u \in Seq(Names) /\ Elems(u) = Elems(t.unapplied) \cup Elems(names) /\ NoDuplicates(u)
  <2>1. Elems(t.unapplied) \cap Elems(names) = {} /\ NoDuplicates(t.unapplied)
    BY <1>2 DEF Distinct3
  <2> QED BY <1>1, <1>3, <2>1, ConcatElems, ConcatNoDup
<1>5. h \in Seq(Names) /\ Elems(h) = Elems(t.hidden) \ Elems(names) /\ NoDuplicates(h)
  BY <1>1, <1>2, <1>3, DropElems DEF Distinct3
<1>6. PICK v : v = UnhidePatches(t, names)
  OBVIOUS
<1>7. v = [t EXCEPT !.unapplied = u, !.hidden = h]
  BY <1>3, <1>6 DEF UnhidePatches
<1>8. /\ v \in Transactions /\ v.applied = t.applied /\ v.unapplied = u /\ v.hidden = h
      /\ v.patches = t.patches /\ v.touched = t.touched
  BY <1>1, <1>4, <1>5, <1>7 DEF Transactions
<1>9. Distinct3(v.applied, v.unapplied, v.hidden) /\ InLists(v) = InLists(t)
  BY <1>2, <1>4, <1>5, <1>8 DEF Distinct3, InLists
<1> QED BY <1>6, <1>8, <1>9, RelistOK

\* rename_patch keeps the transaction well formed when the new name is free.
LEMMA RenameOK ==
  ASSUME NEW t, NEW p, WF(t, p), NEW old \in InLists(t), NEW new \in Names \ InLists(t),
         p[old] # NoCommit
  PROVE  WF(RenamePatch(t, old, new), p)
<1>1. /\ t \in Transactions /\ t.applied \in Seq(Names) /\ t.unapplied \in Seq(Names)
      /\ t.hidden \in Seq(Names) /\ t.patches \in PatchMaps /\ t.touched \in SUBSET Names
  BY DEF WF, Transactions
<1>2. Distinct3(t.applied, t.unapplied, t.hidden)
  BY DEF WF, Good
<1>3. old \in Names /\ old # new
  BY <1>1, ElemsIff DEF InLists
<1>4. t.patches[old] \in Commits /\ HasParent(t.patches[old])
  BY <1>1, <1>3, PatchCommit DEF WF
<1>5. PICK a, u, h, q : /\ a = Renamed(t.applied, old, new) /\ u = Renamed(t.unapplied, old, new)
                        /\ h = Renamed(t.hidden, old, new)
                        /\ q = [Forget(t.patches, {old}) EXCEPT ![new] = t.patches[old]]
  OBVIOUS
<1>6. /\ a \in Seq(Names) /\ u \in Seq(Names) /\ h \in Seq(Names)
      /\ NoDuplicates(a) /\ NoDuplicates(u) /\ NoDuplicates(h)
      /\ Elems(a) = IF old \in Elems(t.applied)
                      THEN (Elems(t.applied) \ {old}) \cup {new} ELSE Elems(t.applied)
      /\ Elems(u) = IF old \in Elems(t.unapplied)
                      THEN (Elems(t.unapplied) \ {old}) \cup {new} ELSE Elems(t.unapplied)
      /\ Elems(h) = IF old \in Elems(t.hidden)
                      THEN (Elems(t.hidden) \ {old}) \cup {new} ELSE Elems(t.hidden)
  <2>1. /\ new \notin Elems(t.applied) /\ new \notin Elems(t.unapplied) /\ new \notin Elems(t.hidden)
        /\ NoDuplicates(t.applied) /\ NoDuplicates(t.unapplied) /\ NoDuplicates(t.hidden)
    BY <1>2 DEF InLists, Distinct3
  <2> QED BY <1>1, <1>3, <1>5, <2>1, RenamedElems
<1>7. /\ q \in PatchMaps
      /\ \A n \in Names : q[n] = IF n = new THEN t.patches[old]
                                 ELSE IF n = old THEN NoCommit ELSE t.patches[n]
  <2>1. PICK g : g = Forget(t.patches, {old})
    OBVIOUS
  <2>2. g \in PatchMaps /\ \A n \in Names : g[n] = IF n = old THEN NoCommit ELSE t.patches[n]
    BY <1>1, <2>1, NoCommitType DEF Forget, PatchMaps
  <2>3. t.patches[old] \in MaybeCommits
    BY <1>4, CommitTypes
  <2>4. q = [g EXCEPT ![new] = t.patches[old]]
    BY <1>5, <2>1
  <2> QED BY <2>2, <2>3, <2>4 DEF PatchMaps
<1>8. PICK v : v = RenamePatch(t, old, new)
  OBVIOUS
<1>9. v = [t EXCEPT !.applied = a, !.unapplied = u, !.hidden = h, !.patches = q,
                    !.touched = t.touched \cup {old, new}]
  BY <1>5, <1>8 DEF RenamePatch
<1>10. t.touched \cup {old, new} \in SUBSET Names
  BY <1>1, <1>3
<1>11. /\ v \in Transactions /\ v.applied = a /\ v.unapplied = u /\ v.hidden = h
       /\ v.patches = q /\ v.touched = t.touched \cup {old, new}
  BY <1>1, <1>6, <1>7, <1>9, <1>10 DEF Transactions
<1>12. Distinct3(v.applied, v.unapplied, v.hidden)
  <2>1. /\ new \notin Elems(t.applied) /\ new \notin Elems(t.unapplied) /\ new \notin Elems(t.hidden)
    BY DEF InLists
  <2>2. /\ Elems(t.applied) \cap Elems(t.unapplied) = {} /\ Elems(t.applied) \cap Elems(t.hidden) = {}
        /\ Elems(t.unapplied) \cap Elems(t.hidden) = {}
    BY <1>2 DEF Distinct3
  <2>3. /\ Elems(a) \cap Elems(u) = {} /\ Elems(a) \cap Elems(h) = {} /\ Elems(u) \cap Elems(h) = {}
    BY <1>6, <2>1, <2>2
  <2> QED BY <1>6, <1>11, <2>3 DEF Distinct3
<1>13. InLists(v) = (InLists(t) \ {old}) \cup {new}
  <2>1. InLists(v) = Elems(a) \cup Elems(u) \cup Elems(h)
    BY <1>11 DEF InLists
  <2>2. old \in Elems(t.applied) \/ old \in Elems(t.unapplied) \/ old \in Elems(t.hidden)
    BY DEF InLists
  <2>3. /\ Elems(t.applied) \cap Elems(t.unapplied) = {} /\ Elems(t.applied) \cap Elems(t.hidden) = {}
        /\ Elems(t.unapplied) \cap Elems(t.hidden) = {}
    BY <1>2 DEF Distinct3
  <2> QED BY <1>6, <2>1, <2>2, <2>3 DEF InLists
<1>14. \A n \in Names : (t.patches[n] # NoCommit <=> n \in InLists(t))
                          /\ (t.patches[n] # NoCommit => HasParent(t.patches[n]))
  BY DEF WF, Good, HasPatch
<1>15. /\ \A n \in Names : v.patches[n] # NoCommit <=> n \in InLists(v)
       /\ \A n \in Names : v.patches[n] # NoCommit => HasParent(v.patches[n])
  BY <1>3, <1>4, <1>7, <1>11, <1>13, <1>14
<1>16. Tracks(v, p)
  BY <1>1, <1>3, <1>7, <1>11, <1>14 DEF Tracks, WF
<1> QED BY <1>8, <1>11, <1>12, <1>15, <1>16, WFIntro

\* reset_to_state keeps the transaction well formed when nothing was changed
\* before it.
LEMMA ResetOK ==
  ASSUME NEW t, NEW p, WF(t, p), t.patches = p, NEW s \in States, Good(s)
  PROVE  WF(ResetToState(t, s), p)
<1>1. /\ t \in Transactions /\ t.applied \in Seq(Names) /\ t.unapplied \in Seq(Names)
      /\ t.hidden \in Seq(Names) /\ t.touched \in SUBSET Names
  BY DEF WF, Transactions
<1>2. /\ s.applied \in Seq(Names) /\ s.unapplied \in Seq(Names)
      /\ s.hidden \in Seq(Names) /\ s.patches \in PatchMaps /\ s.head \in Commits
  BY DEF States
<1>3. Elems(AllPatches(t)) = InLists(t) /\ Elems(AllPatches(s)) = InLists(s)
  BY <1>1, <1>2, AllPatchesElems
<1>4. InLists(t) \subseteq Names /\ InLists(s) \subseteq Names
  BY <1>1, <1>2, ElemsIff DEF InLists
<1>5. PICK T, b : T = t.touched \cup InLists(t) \cup InLists(s) /\ b = BaseOf(s, s.head)
  OBVIOUS
<1>6. T \in SUBSET Names /\ b \in Commits /\ s.head \in MaybeCommits
  BY <1>1, <1>2, <1>4, <1>5, BaseOfType, CommitTypes
<1>7. PICK v : v = ResetToState(t, s)
  OBVIOUS
<1>8. v = [t EXCEPT !.applied = s.applied, !.unapplied = s.unapplied, !.hidden = s.hidden,
                    !.patches = s.patches, !.touched = T, !.base = b, !.head = s.head]
  BY <1>3, <1>5, <1>7 DEF ResetToState
<1>9. /\ v \in Transactions /\ v.applied = s.applied /\ v.unapplied = s.unapplied
      /\ v.hidden = s.hidden /\ v.patches = s.patches /\ v.touched = T
  BY <1>1, <1>2, <1>6, <1>8 DEF Transactions
<1>10. Good(v)
  BY <1>9 DEF Good, HasPatch, InLists
<1>11. \A n \in Names : /\ t.patches[n] # NoCommit <=> n \in InLists(t)
                        /\ s.patches[n] # NoCommit <=> n \in InLists(s)
  BY DEF WF, Good, HasPatch
<1>12. \A n \in Names \ T : s.patches[n] = p[n]
  BY <1>5, <1>11
<1>13. \A n \in T : s.patches[n] = NoCommit => p[n] # NoCommit
  BY <1>1, <1>4, <1>5, <1>11 DEF WF, Tracks
<1>14. Tracks(v, p)
  BY <1>9, <1>12, <1>13 DEF Tracks
<1> QED BY <1>7, <1>9, <1>10, <1>14 DEF WF

\* reset_to_state_partially, up to its push, keeps the transaction well formed
\* when nothing was changed before it.
LEMMA ResetPartiallyOK ==
  ASSUME NEW t, NEW p, WF(t, p), t.patches = p, NEW s \in States, Good(s), NEW only
  PROVE  WF(ResetPartially(t, s, only), p)
<1>1. /\ t \in Transactions /\ t.applied \in Seq(Names) /\ t.unapplied \in Seq(Names)
      /\ t.hidden \in Seq(Names) /\ t.touched \in SUBSET Names
  BY DEF WF, Transactions
<1>2. /\ s.applied \in Seq(Names) /\ s.unapplied \in Seq(Names)
      /\ s.hidden \in Seq(Names) /\ s.patches \in PatchMaps /\ s.head \in Commits
  BY DEF States
<1>3. /\ Elems(AllPatches(t)) = InLists(t) /\ Elems(AllPatches(s)) = InLists(s)
      /\ AllPatches(s) \in Seq(Names)
      /\ NoDuplicates(AllPatches(s))
  BY <1>1, <1>2, AllPatchesElems DEF Good
<1>4. InLists(t) \subseteq Names /\ InLists(s) \subseteq Names
  BY <1>1, <1>2, ElemsIff DEF InLists
<1>5. PICK reset, delete, t1, change, fresh :
        /\ reset = InLists(s) \cap only
        /\ delete = (InLists(t) \ reset) \cap only
        /\ t1 = DeletePatches(PopPatches(t, only), delete)
        /\ change = {n \in reset : n \notin InLists(t) \cap
                                     {m \in InLists(t) : s.patches[m] = t.patches[m]}}
        /\ fresh = Keep(AllPatches(s), reset \ InLists(t))
  OBVIOUS
<1>6. PICK v, q, u, h : /\ v = ResetPartially(t, s, only)
                        /\ q = Overlay(t1.patches, [n \in change |-> s.patches[n]])
                        /\ u = t1.unapplied \o Drop(fresh, Elems(s.hidden))
                        /\ h = t1.hidden \o Keep(fresh, Elems(s.hidden))
  OBVIOUS
<1>7. v = [t1 EXCEPT !.hidden = h, !.unapplied = u, !.patches = q, !.touched = t1.touched \cup change]
  BY <1>3, <1>5, <1>6 DEF ResetPartially
<1>8. WF(t1, p) /\ InLists(t1) = InLists(t) \ delete
  <2>1. PICK t0 : t0 = PopPatches(t, only)
    OBVIOUS
  <2>2. WF(t0, p) /\ InLists(t0) = InLists(t)
    BY <2>1, PopOK
  <2>3. \A n \in delete \cap InLists(t0) : p[n] # NoCommit
    BY <1>4, <2>2 DEF WF, Good, HasPatch
  <2> QED BY <1>5, <2>1, <2>2, <2>3, DeleteOK
<1>9. /\ t1 \in Transactions /\ t1.applied \in Seq(Names) /\ t1.unapplied \in Seq(Names)
      /\ t1.hidden \in Seq(Names) /\ t1.touched \in SUBSET Names /\ t1.patches \in PatchMaps
      /\ Distinct3(t1.applied, t1.unapplied, t1.hidden)
  BY <1>8 DEF WF, Good, Transactions
<1>10. fresh \in Seq(Names) /\ Elems(fresh) = reset \ InLists(t) /\ NoDuplicates(fresh)
  BY <1>3, <1>5, KeepElems
<1>11. PICK fu, fh : fu = Drop(fresh, Elems(s.hidden)) /\ fh = Keep(fresh, Elems(s.hidden))
  OBVIOUS
<1>12. /\ fu \in Seq(Names) /\ Elems(fu) = Elems(fresh) \ Elems(s.hidden) /\ NoDuplicates(fu)
       /\ fh \in Seq(Names) /\ Elems(fh) = Elems(fresh) \cap Elems(s.hidden) /\ NoDuplicates(fh)
  BY <1>10, <1>11, DropElems, KeepElems
<1>13. Elems(fresh) \cap InLists(t1) = {}
  BY <1>8, <1>10
<1>14. u \in Seq(Names) /\ Elems(u) = Elems(t1.unapplied) \cup Elems(fu) /\ NoDuplicates(u)
  <2>1. Elems(t1.unapplied) \cap Elems(fu) = {} /\ NoDuplicates(t1.unapplied)
    BY <1>9, <1>12, <1>13 DEF InLists, Distinct3
  <2>2. u = t1.unapplied \o fu
    BY <1>6, <1>11
  <2> QED BY <1>9, <1>12, <2>1, <2>2, ConcatElems, ConcatNoDup
<1>15. h \in Seq(Names) /\ Elems(h) = Elems(t1.hidden) \cup Elems(fh) /\ NoDuplicates(h)
  <2>1. Elems(t1.hidden) \cap Elems(fh) = {} /\ NoDuplicates(t1.hidden)
    BY <1>9, <1>12, <1>13 DEF InLists, Distinct3
  <2>2. h = t1.hidden \o fh
    BY <1>6, <1>11
  <2> QED BY <1>9, <1>12, <2>1, <2>2, ConcatElems, ConcatNoDup
<1>16. change \subseteq reset /\ reset \ InLists(t) \subseteq change /\ change \subseteq Names
  BY <1>4, <1>5
<1>17. \A n \in change : s.patches[n] # NoCommit /\ HasParent(s.patches[n]) /\ s.patches[n] \in MaybeCommits
  BY <1>2, <1>5, <1>16 DEF Good, HasPatch, PatchMaps
<1>18. /\ q \in PatchMaps
       /\ \A n \in Names : q[n] = IF n \in change THEN s.patches[n] ELSE t1.patches[n]
  BY <1>6, <1>9, <1>17 DEF Overlay, PatchMaps
<1>19. t1.touched \cup change \in SUBSET Names
  BY <1>9, <1>16
<1>20. /\ v \in Transactions /\ v.applied = t1.applied /\ v.unapplied = u /\ v.hidden = h
       /\ v.patches = q /\ v.touched = t1.touched \cup change
  BY <1>7, <1>9, <1>14, <1>15, <1>18, <1>19 DEF Transactions
<1>21. Distinct3(v.applied, v.unapplied, v.hidden)
  BY <1>9, <1>12, <1>13, <1>14, <1>15, <1>20 DEF Distinct3, InLists
<1>22. InLists(v) = (InLists(t) \ delete) \cup (reset \ InLists(t))
  BY <1>8, <1>10, <1>12, <1>14, <1>15, <1>20 DEF InLists
<1>23. \A n \in Names : (t1.patches[n] # NoCommit <=> n \in InLists(t1))
                          /\ (t1.patches[n] # NoCommit => HasParent(t1.patches[n]))
  BY <1>8 DEF WF, Good, HasPatch
<1>24. change \subseteq (InLists(t) \ delete) \cup (reset \ InLists(t))
  BY <1>5, <1>16
<1>25. /\ \A n \in Names : v.patches[n] # NoCommit <=> n \in InLists(v)
       /\ \A n \in Names : v.patches[n] # NoCommit => HasParent(v.patches[n])
  BY <1>8, <1>16, <1>17, <1>18, <1>20, <1>22, <1>23, <1>24
<1>26. Tracks(v, p)
  BY <1>8, <1>9, <1>16, <1>17, <1>18, <1>20 DEF Tracks, WF
<1> QED BY <1>6, <1>20, <1>21, <1>25, <1>26, WFIntro
-----------------------------------------------------------------------------
\* Where a list splits, given the position.
LEMMA BelowIs ==
  ASSUME NEW s \in Seq(Names), NEW S, NEW k \in 0..Len(s),
         \A i \in 1..k : s[i] \notin S, k < Len(s) => s[k + 1] \in S
  PROVE  Below(s, S) = SubSeq(s, 1, k) /\ From(s, S) = SubSeq(s, k + 1, Len(s))
<1>1. PICK f : f = FirstIn(s, S)
  OBVIOUS
<1>2. /\ f \in 1..(Len(s) + 1) /\ \A i \in 1..(f - 1) : s[i] \notin S
      /\ f <= Len(s) => s[f] \in S
  BY <1>1, FirstInFacts
<1>3. Len(s) \in Nat
  OBVIOUS
<1>4. ~(f < k + 1)
  <2>1. ASSUME f < k + 1 PROVE f \in 1..k /\ f <= Len(s)
    BY <1>2, <1>3, <2>1
  <2> QED BY <1>2, <2>1
<1>5. ~(k + 1 < f)
  <2>1. ASSUME k + 1 < f PROVE k + 1 \in 1..(f - 1) /\ k < Len(s)
    BY <1>2, <1>3, <2>1
  <2> QED BY <1>2, <2>1
<1>6. f = k + 1 /\ f - 1 = k
  BY <1>2, <1>3, <1>4, <1>5
<1> QED BY <1>1, <1>6 DEF Below, From

\* A list is the common prefix with s followed by the rest.
LEMMA CommonPrefix ==
  ASSUME NEW s \in Seq(Names), NEW a \in Seq(Names), NEW k, k = NumCommon(s, a)
  PROVE  /\ k \in 0..Len(s) /\ k \in 0..Len(a)
         /\ SubSeq(a, k + 1, Len(a)) \in Seq(Names)
         /\ a = SubSeq(s, 1, k) \o SubSeq(a, k + 1, Len(a))
<1>1. k \in 0..Len(s) /\ k \in 0..Len(a) /\ \A i \in 1..k : s[i] = a[i]
  BY NumCommonFacts
<1>2. PICK x, y : x = SubSeq(s, 1, k) /\ y = SubSeq(a, 1, k)
  OBVIOUS
<1>3. x \in Seq(Names) /\ Len(x) = k /\ \A i \in 1..k : x[i] = s[i]
  BY <1>1, <1>2, SplitSeq
<1>4. y \in Seq(Names) /\ Len(y) = k /\ \A i \in 1..k : y[i] = a[i]
  BY <1>1, <1>2, SplitSeq
<1>5. x = y
  BY <1>1, <1>3, <1>4, SeqEqual
<1>6. SubSeq(a, k + 1, Len(a)) \in Seq(Names) /\ a = y \o SubSeq(a, k + 1, Len(a))
  BY <1>1, <1>2, SplitSeq
<1> QED BY <1>1, <1>2, <1>5, <1>6

\* Popping S takes the applied list down to what it has in common with a, and
\* rest is what is then to be pushed.
PopsTo(t, p, a, k, S, v, rest) ==
  /\ WF(t, p) /\ a \in Seq(Names) /\ NoDuplicates(a)
  /\ Elems(a) \subseteq Elems(t.applied) \cup Elems(t.unapplied)
  /\ k = NumCommon(t.applied, a)
  /\ \A i \in 1..k : t.applied[i] \notin S
  /\ k < Len(t.applied) => t.applied[k + 1] \in S
  /\ v = PopPatches(t, S) /\ rest = SubSeq(a, k + 1, Len(a))

\* After popping to the common prefix, pushing the rest of the requested list
\* makes it the applied list: the argument of reorder_patches, hide_patches and
\* commit_patches.
LEMMA PopToCommon ==
  ASSUME NEW t, NEW p, NEW a, NEW k, NEW S, NEW v, NEW rest, PopsTo(t, p, a, k, S, v, rest)
  PROVE  /\ WF(v, p) /\ InLists(v) = InLists(t) /\ v.patches = t.patches
         /\ rest \in Seq(Names) /\ NoDuplicates(rest)
         /\ Elems(rest) \subseteq Elems(a)
         /\ Elems(rest) \subseteq Elems(v.unapplied)
         /\ v.applied \o rest = a
         /\ Elems(SubSeq(t.applied, k + 1, Len(t.applied))) \subseteq Elems(v.unapplied)
<1> SUFFICES ASSUME WF(t, p), a \in Seq(Names), NoDuplicates(a),
                    Elems(a) \subseteq Elems(t.applied) \cup Elems(t.unapplied),
                    k = NumCommon(t.applied, a),
                    \A i \in 1..k : t.applied[i] \notin S,
                    k < Len(t.applied) => t.applied[k + 1] \in S,
                    v = PopPatches(t, S), rest = SubSeq(a, k + 1, Len(a))
             PROVE  /\ WF(v, p) /\ InLists(v) = InLists(t) /\ v.patches = t.patches
                    /\ rest \in Seq(Names) /\ NoDuplicates(rest)
                    /\ Elems(rest) \subseteq Elems(a)
                    /\ Elems(rest) \subseteq Elems(v.unapplied)
                    /\ v.applied \o rest = a
                    /\ Elems(SubSeq(t.applied, k + 1, Len(t.applied))) \subseteq Elems(v.unapplied)
  BY DEF PopsTo
<1>1. t.applied \in Seq(Names) /\ Distinct3(t.applied, t.unapplied, t.hidden)
  BY DEF WF, Transactions, Good
<1>2. k \in 0..Len(t.applied) /\ rest \in Seq(Names) /\ a = SubSeq(t.applied, 1, k) \o rest
  BY <1>1, CommonPrefix
<1>3. PICK below, from : below = SubSeq(t.applied, 1, k) /\ from = SubSeq(t.applied, k + 1, Len(t.applied))
  OBVIOUS
<1>4. /\ below = Below(t.applied, S) /\ from = From(t.applied, S)
  BY <1>1, <1>2, <1>3, BelowIs
<1>5. /\ WF(v, p) /\ InLists(v) = InLists(t) /\ v.patches = t.patches /\ v.applied = below
      /\ Elems(v.unapplied) = Elems(from) \cup Elems(t.unapplied)
  BY <1>4, PopOK
<1>6. below \in Seq(Names) /\ a = below \o rest
  BY <1>1, <1>2, <1>3, SplitSeq
<1>7. /\ Elems(a) = Elems(below) \cup Elems(rest) /\ NoDuplicates(rest)
      /\ Elems(below) \cap Elems(rest) = {}
  <2>1. Elems(below \o rest) = Elems(below) \cup Elems(rest)
    BY <1>2, <1>6, ConcatElems
  <2>2. NoDuplicates(below \o rest)
    BY <1>6
  <2>3. NoDuplicates(rest) /\ Elems(below) \cap Elems(rest) = {}
    <3>1. below \in Seq(Names) /\ rest \in Seq(Names)
      BY <1>2, <1>6
    <3> QED BY ONLY <2>2, <3>1, ConcatNoDup
  <2> QED BY <1>6, <2>1, <2>3
<1>8. Elems(t.applied) = Elems(below) \cup Elems(from)
  BY <1>1, <1>4, BelowFrom
<1>9. Elems(rest) \subseteq Elems(v.unapplied)
  BY <1>5, <1>7, <1>8
<1> QED BY <1>2, <1>3, <1>5, <1>6, <1>7, <1>9

\* reorder_patches and hide_patches pop exactly to the common prefix.
LEMMA ReorderOK ==
  ASSUME NEW t, NEW p, WF(t, p), NEW a \in Seq(Names), NoDuplicates(a),
         Elems(a) \subseteq Elems(t.applied) \cup Elems(t.unapplied),
         NEW k, k = NumCommon(t.applied, a),
         NEW S, S = Elems(SubSeq(t.applied, k + 1, Len(t.applied)))
  PROVE  /\ \A i \in 1..k : t.applied[i] \notin S
         /\ k < Len(t.applied) => t.applied[k + 1] \in S
<1>1. t.applied \in Seq(Names) /\ NoDuplicates(t.applied)
  BY DEF WF, Transactions, Good, Distinct3
<1>2. k \in 0..Len(t.applied)
  BY <1>1, CommonPrefix
<1>3. PICK lo, hi : lo = SubSeq(t.applied, 1, k) /\ hi = SubSeq(t.applied, k + 1, Len(t.applied))
  OBVIOUS
<1>4. /\ lo \in Seq(Names) /\ hi \in Seq(Names) /\ t.applied = lo \o hi
      /\ Len(lo) = k /\ Len(hi) = Len(t.applied) - k /\ \A i \in 1..k : lo[i] = t.applied[i]
      /\ \A i \in 1..(Len(t.applied) - k) : hi[i] = t.applied[k + i]
  BY <1>1, <1>2, <1>3, SplitSeq
<1>5. Elems(lo) \cap Elems(hi) = {}
  BY <1>1, <1>4, ConcatNoDup
<1>6. \A i \in 1..k : t.applied[i] \in Elems(lo)
  BY <1>4, ElemsIff
<1>7. ASSUME k < Len(t.applied) PROVE t.applied[k + 1] \in Elems(hi)
  <2>1. 1 \in 1..Len(hi) /\ hi[1] = t.applied[k + 1]
    <3>1. Len(t.applied) \in Nat
      BY <1>1
    <3>2. 1 \in 1..(Len(t.applied) - k)
      BY <1>2, <1>7, <3>1
    <3> QED BY <1>4, <3>2
  <2> QED BY <1>4, <2>1, ElemsIff
<1> QED BY <1>3, <1>5, <1>6, <1>7

\* What commit_patches computes before it starts: the patches in stack order,
\* how many of them are in place, and the patches in their way.
CommitPlan(t, p, S, names, k, above) ==
  /\ WF(t, p) /\ S \subseteq Elems(t.applied) \cup Elems(t.unapplied)
  /\ names = Keep(t.applied \o t.unapplied, S)
  /\ k = NumCommon(t.applied, names)
  /\ above = Drop(SubSeq(t.applied, k + 1, Len(t.applied)), S)

\* commit_patches pops the patches that are in the way, and only them.
LEMMA CommitCommon ==
  ASSUME NEW t, NEW p, NEW S, NEW names, NEW k, NEW above, CommitPlan(t, p, S, names, k, above)
  PROVE  /\ names \in Seq(Names) /\ NoDuplicates(names) /\ Elems(names) = S
         /\ above \in Seq(Names) /\ NoDuplicates(above) /\ Elems(above) \cap S = {}
         /\ Elems(above) \subseteq Elems(SubSeq(t.applied, k + 1, Len(t.applied)))
         /\ k < Len(names) => /\ \A i \in 1..k : t.applied[i] \notin Elems(above)
                              /\ k < Len(t.applied) => t.applied[k + 1] \in Elems(above)
<1> SUFFICES ASSUME WF(t, p), S \subseteq Elems(t.applied) \cup Elems(t.unapplied),
                    names = Keep(t.applied \o t.unapplied, S),
                    k = NumCommon(t.applied, names),
                    above = Drop(SubSeq(t.applied, k + 1, Len(t.applied)), S)
             PROVE  /\ names \in Seq(Names) /\ NoDuplicates(names) /\ Elems(names) = S
                    /\ above \in Seq(Names) /\ NoDuplicates(above) /\ Elems(above) \cap S = {}
                    /\ Elems(above) \subseteq Elems(SubSeq(t.applied, k + 1, Len(t.applied)))
                    /\ k < Len(names) => /\ \A i \in 1..k : t.applied[i] \notin Elems(above)
                                         /\ k < Len(t.applied) => t.applied[k + 1] \in Elems(above)
  BY DEF CommitPlan
<1>1. PICK a, u : a = t.applied /\ u = t.unapplied
  OBVIOUS
<1>2. /\ a \in Seq(Names) /\ u \in Seq(Names) /\ NoDuplicates(a) /\ NoDuplicates(u)
      /\ Elems(a) \cap Elems(u) = {}
  BY <1>1 DEF WF, Transactions, Good, Distinct3
<1>3. PICK au : au = a \o u
  OBVIOUS
<1>4. au \in Seq(Names) /\ NoDuplicates(au) /\ Elems(au) = Elems(a) \cup Elems(u)
  BY <1>2, <1>3, ConcatElems, ConcatNoDup
<1>5. \A i \in 1..Len(a) : i \in 1..Len(au) /\ au[i] = a[i]
  BY <1>2, <1>3, ConcatIndex
<1>6. names = Keep(au, S)
  BY <1>1, <1>3
<1>7. names \in Seq(Names) /\ NoDuplicates(names) /\ Elems(names) = S
  BY <1>1, <1>4, <1>6, KeepElems
<1>8. /\ k \in 0..Len(a) /\ k \in 0..Len(names) /\ \A i \in 1..k : a[i] = names[i]
      /\ k < Len(a) /\ k < Len(names) => a[k + 1] # names[k + 1]
  BY <1>1, <1>2, <1>7, NumCommonFacts
<1>9. PICK lo, hi : lo = SubSeq(a, 1, k) /\ hi = SubSeq(a, k + 1, Len(a))
  OBVIOUS
<1>10. /\ lo \in Seq(Names) /\ hi \in Seq(Names) /\ a = lo \o hi /\ Len(lo) = k
       /\ Len(hi) = Len(a) - k /\ \A i \in 1..k : lo[i] = a[i]
       /\ \A i \in 1..(Len(a) - k) : hi[i] = a[k + i]
  <2>1. a \in Seq(Names) /\ k \in 0..Len(a)
    BY <1>2, <1>8
  <2> QED BY ONLY <1>9, <2>1, SplitSeq
<1>11. NoDuplicates(hi) /\ Elems(lo) \cap Elems(hi) = {}
  BY <1>2, <1>10, ConcatNoDup
<1>12. above = Drop(hi, S)
  BY <1>1, <1>9
<1>13. above \in Seq(Names) /\ NoDuplicates(above) /\ Elems(above) = Elems(hi) \ S
  BY <1>10, <1>11, <1>12, DropElems
<1>14. ASSUME NEW i \in 1..k PROVE a[i] \notin Elems(above)
  BY <1>10, <1>11, <1>13, ElemsIff
<1>15. ASSUME k < Len(names), k < Len(a) PROVE a[k + 1] \in Elems(above)
  <2>1. Len(a) \in Nat /\ k + 1 \in 1..Len(a) /\ 1 \in 1..(Len(a) - k) /\ k \in Nat
    BY <1>2, <1>8, <1>15
  <2>2. a[k + 1] \in Elems(hi)
    BY <1>10, <2>1, ElemsIff
  <2>3. ASSUME a[k + 1] \in S PROVE FALSE
    <3>1. \A i \in 1..k : a[i] \in S
      BY <1>7, <1>8, ElemsIff
    <3>2. \A i \in 1..(k + 1) : i \in 1..k \/ i = k + 1
      BY <2>1
    <3>3. \A i \in 1..(k + 1) : i \in 1..Len(a) /\ a[i] \in S
      BY <2>1, <2>3, <3>1, <3>2
    <3>4. \A i \in 1..(k + 1) : au[i] \in S
      BY <1>5, <3>3
    <3>5. names[k + 1] = au[k + 1]
      <4>1. k + 1 \in 1..Len(au) /\ au \in Seq(Names)
        BY <1>4, <1>5, <2>1
      <4> QED BY ONLY <1>6, <3>4, <4>1, KeepPrefix
    <3> QED BY <1>5, <1>8, <1>15, <2>1, <3>5
  <2> QED BY <1>13, <2>2, <2>3
<1> QED BY <1>1, <1>7, <1>9, <1>13, <1>14, <1>15
-----------------------------------------------------------------------------
(* The chain of commits that the applied patches are. *)

\* Each applied patch is the parent of the next one.
Linked(t) ==
  \A i \in 2..Len(t.applied) :
    Parent(t.patches[t.applied[i]]) = t.patches[t.applied[i - 1]]

\* The bottommost applied patch stands on the base.
Based(t) == t.applied # <<>> => Parent(t.patches[t.applied[1]]) = t.base

\* A new commit has the parent it is given.
LEMMA ParentOfNew ==
  ASSUME NEW c \in Commits, NEW t, NEW m
  PROVE  Parent(MkCommit(c, t, m)) = c
<1>1. PICK T : c \in Seq(T)
  BY DEF Commits
<1>2. PICK e, d : e = [tree |-> t, meta |-> m] /\ d = Append(c, e)
  OBVIOUS
<1>3. c \in Seq(T \cup {e})
  BY <1>1
<1>4. d \in Seq(T \cup {e}) /\ Len(d) = Len(c) + 1 /\ \A i \in 1..Len(c) : d[i] = c[i]
  BY <1>2, <1>3
<1>5. SubSeq(d, 1, Len(d) - 1) = c
  BY <1>3, <1>4
<1> QED BY <1>2, <1>5 DEF Parent, MkCommit

\* The first-parent history of a commit: the commit at each depth is the parent
\* of the next one.
LEMMA ParentOfPrefix ==
  ASSUME NEW c \in Commits, NEW k \in 2..Len(c)
  PROVE  /\ Parent(SubSeq(c, 1, k)) = SubSeq(c, 1, k - 1)
         /\ Len(SubSeq(c, 1, k)) = k /\ Len(SubSeq(c, 1, k - 1)) = k - 1
<1>1. PICK T : c \in Seq(T)
  BY DEF Commits
<1>2. PICK d, e : d = SubSeq(c, 1, k) /\ e = SubSeq(c, 1, k - 1)
  OBVIOUS
<1>3. d \in Seq(T) /\ Len(d) = k /\ \A i \in 1..k : d[i] = c[i]
  BY <1>1, <1>2
<1>4. e \in Seq(T) /\ Len(e) = k - 1 /\ \A i \in 1..(k - 1) : e[i] = c[i]
  BY <1>1, <1>2
<1>5. SubSeq(d, 1, k - 1) = e
  BY <1>3, <1>4
<1> QED BY <1>2, <1>3, <1>4, <1>5 DEF Parent

\* A stretch of a linked list of patches is linked, also under other names.
LEMMA LinkedPart ==
  ASSUME NEW t, NEW v, Linked(t), t.applied \in Seq(Names), v.applied \in Seq(Names),
         NEW d \in Nat, Len(v.applied) + d <= Len(t.applied),
         \A i \in 1..Len(v.applied) : v.patches[v.applied[i]] = t.patches[t.applied[i + d]]
  PROVE  Linked(v)
<1>1. Len(t.applied) \in Nat /\ Len(v.applied) \in Nat
  OBVIOUS
<1> SUFFICES ASSUME NEW i \in 2..Len(v.applied)
             PROVE  Parent(v.patches[v.applied[i]]) = v.patches[v.applied[i - 1]]
  BY DEF Linked
<1>2. i \in 1..Len(v.applied) /\ i - 1 \in 1..Len(v.applied) /\ i + d \in 2..Len(t.applied)
      /\ (i - 1) + d = (i + d) - 1
  BY <1>1
<1>3. v.patches[v.applied[i]] = t.patches[t.applied[i + d]]
  BY <1>2
<1>4. v.patches[v.applied[i - 1]] = t.patches[t.applied[(i + d) - 1]]
  BY <1>2
<1> QED BY <1>2, <1>3, <1>4 DEF Linked

\* So is a linked list with one more patch, if that stands on the top.
LEMMA LinkedAppend ==
  ASSUME NEW t, NEW v, Linked(t), t.applied \in Seq(Names), NEW n,
         v.applied = Append(t.applied, n),
         \A m \in Elems(t.applied) : v.patches[m] = t.patches[m],
         Parent(v.patches[n]) = Top(t)
  PROVE  Linked(v)
<1>1. PICK a, l : a = t.applied /\ l = Len(a)
  OBVIOUS
<1>2. /\ a \in Seq(Names) /\ l \in Nat /\ Len(v.applied) = l + 1 /\ v.applied[l + 1] = n
      /\ \A i \in 1..l : v.applied[i] = a[i] /\ a[i] \in Elems(a)
  BY <1>1, ElemsIff
<1> SUFFICES ASSUME NEW i \in 2..(l + 1)
             PROVE  Parent(v.patches[v.applied[i]]) = v.patches[v.applied[i - 1]]
  BY <1>2 DEF Linked
<1>3. i - 1 \in 1..l /\ v.patches[v.applied[i - 1]] = t.patches[a[i - 1]]
  BY <1>1, <1>2
<1>4. CASE i = l + 1
  <2>1. a # <<>> /\ l # 0
    BY <1>1, <1>2, <1>4
  <2>2. Top(t) = t.patches[a[l]]
    BY <1>1, <2>1 DEF Top, TopOf
  <2> QED BY <1>2, <1>3, <1>4, <2>2
<1>5. CASE i # l + 1
  <2>1. i \in 1..l /\ i \in 2..l
    BY <1>2, <1>5
  <2>2. v.patches[v.applied[i]] = t.patches[a[i]]
    BY <1>1, <1>2, <2>1
  <2>3. Parent(t.patches[a[i]]) = t.patches[a[i - 1]]
    BY <1>1, <2>1 DEF Linked
  <2> QED BY <1>3, <2>2, <2>3
<1> QED BY <1>4, <1>5

\* What a method leaves alone: the checked-out tree, the conflict mode and the
\* head of the transaction.
Kept(t, v) == v.tree = t.tree /\ v.conflicts = t.conflicts /\ v.head = t.head

\* The patches below the first one of S are still linked when nothing but the
\* commits of S has changed.
LEMMA LinkedBelow ==
  ASSUME NEW t, NEW v, Linked(t), t.applied \in Seq(Names), NEW S,
         v.applied = Below(t.applied, S),
         \A n \in Names \ S : v.patches[n] = t.patches[n]
  PROVE  Linked(v) /\ v.applied \in Seq(Names)
<1>1. PICK a, k : a = t.applied /\ k = FirstIn(a, S) - 1
  OBVIOUS
<1>2. k \in 0..Len(a) /\ a \in Seq(Names) /\ \A i \in 1..k : a[i] \notin S
  BY <1>1, FirstInFacts
<1>3. v.applied = SubSeq(a, 1, k)
  BY <1>1 DEF Below
<1>4. v.applied \in Seq(Names) /\ Len(v.applied) = k /\ \A i \in 1..k : v.applied[i] = a[i]
  BY <1>2, <1>3, SplitSeq
<1>5. \A i \in 1..Len(v.applied) : v.patches[v.applied[i]] = t.patches[t.applied[i + 0]]
  BY <1>1, <1>2, <1>4
<1>6. 0 \in Nat /\ Len(v.applied) + 0 <= Len(t.applied)
  BY <1>1, <1>2, <1>4
<1> QED BY <1>4, <1>5, <1>6, LinkedPart

\* pop_patches leaves a linked stack.
LEMMA PopLinked ==
  ASSUME NEW t \in Transactions, Linked(t), NEW S
  PROVE  Linked(PopPatches(t, S)) /\ Kept(t, PopPatches(t, S))
<1>1. PICK v : v = PopPatches(t, S)
  OBVIOUS
<1>2. v.applied = Below(t.applied, S) /\ v.patches = t.patches /\ Kept(t, v)
  BY <1>1 DEF PopPatches, Transactions, Kept
<1>3. t.applied \in Seq(Names)
  BY DEF Transactions
<1>4. Linked(v)
  BY <1>2, <1>3, LinkedBelow
<1> QED BY <1>1, <1>2, <1>4

\* delete_patches leaves a linked stack.
LEMMA DeleteLinked ==
  ASSUME NEW t \in Transactions, Linked(t), NEW S
  PROVE  /\ Linked(DeletePatches(t, S)) /\ Kept(t, DeletePatches(t, S))
         /\ DeletePatches(t, S).applied = Below(t.applied, S)
         /\ \A n \in Names \ S : DeletePatches(t, S).patches[n] = t.patches[n]
<1>1. PICK v, gone : v = DeletePatches(t, S) /\ gone = S \cap Elems(AllPatches(t))
  OBVIOUS
<1>2. v.applied = Below(t.applied, S) /\ v.patches = Forget(t.patches, gone) /\ Kept(t, v)
  BY <1>1 DEF DeletePatches, Transactions, Kept
<1>3. \A n \in Names \ S : v.patches[n] = t.patches[n]
  BY <1>1, <1>2 DEF Forget
<1>4. t.applied \in Seq(Names)
  BY DEF Transactions
<1>5. Linked(v)
  BY <1>2, <1>3, <1>4, LinkedBelow
<1> QED BY <1>1, <1>2, <1>3, <1>5

\* A pushed patch stands on what was the top, and no other commit changes.
LEMMA PushParent ==
  ASSUME NEW t, NEW p, WF(t, p), NEW n \in Elems(t.unapplied) \cup Elems(t.hidden),
         NEW tree \in Trees, NEW v, PushedAs(t, n, tree, v)
  PROVE  /\ Parent(v.patches[n]) = Top(t) /\ Kept(t, v) /\ v.base = t.base
         /\ \A m \in Names \ {n} : v.patches[m] = t.patches[m]
<1>1. t \in Transactions /\ Good(t)
  BY DEF WF
<1>2. t.patches \in PatchMaps /\ t.unapplied \in Seq(Names) /\ t.hidden \in Seq(Names)
  BY <1>1 DEF Transactions
<1>3. n \in Names
  BY <1>2, ElemsIff
<1>4. Top(t) \in Commits
  BY <1>1, TopType
<1>5. PICK c, e : /\ c = t.patches[n]
                  /\ \/ Parent(c) = Top(t) /\ v = Raise(t, n)
                     \/ e = MkCommit(Top(t), Tree(c), Meta(c)) /\ v = Raise(SetPatch(t, n, e), n)
                     \/ e = MkCommit(Top(t), tree, Meta(c)) /\ v = Raise(SetPatch(t, n, e), n)
  BY DEF PushedAs, PushTree, PushPatch
<1>6. CASE Parent(c) = Top(t) /\ v = Raise(t, n)
  <2>1. v.patches = t.patches /\ Kept(t, v) /\ v.base = t.base
    BY <1>1, <1>6 DEF Raise, Transactions, Kept
  <2> QED BY <1>5, <1>6, <2>1
<1>7. CASE v = Raise(SetPatch(t, n, e), n) /\ Parent(e) = Top(t)
  <2>1. PICK u : u = SetPatch(t, n, e)
    OBVIOUS
  <2>2. v.patches = [t.patches EXCEPT ![n] = e] /\ Kept(t, v) /\ v.base = t.base
    BY <1>1, <1>7 DEF Raise, SetPatch, Transactions, Kept
  <2> QED BY <1>2, <1>3, <1>7, <2>2 DEF PatchMaps
<1> QED BY <1>4, <1>5, <1>6, <1>7, ParentOfNew

\* push_patch and push_tree leave a linked stack.
LEMMA PushLinked ==
  ASSUME NEW t, NEW p, WF(t, p), NEW n \in Elems(t.unapplied) \cup Elems(t.hidden),
         NEW tree \in Trees, NEW v, PushedAs(t, n, tree, v), Linked(t)
  PROVE  Linked(v) /\ Top(v) = v.patches[n] /\ v.applied # <<>>
<1>1. t.applied \in Seq(Names) /\ Distinct3(t.applied, t.unapplied, t.hidden)
  BY DEF WF, Transactions, Good
<1>2. n \notin Elems(t.applied) /\ Elems(t.applied) \subseteq Names
  BY <1>1, ElemsIff DEF Distinct3
<1>3. v.applied = Append(t.applied, n)
  BY PushPatchOK DEF Raised
<1>4. Parent(v.patches[n]) = Top(t) /\ \A m \in Elems(t.applied) : v.patches[m] = t.patches[m]
  BY <1>2, PushParent
<1>5. Linked(v)
  BY <1>1, <1>3, <1>4, LinkedAppend
<1>6. v.applied # <<>> /\ v.applied[Len(v.applied)] = n
  BY <1>1, <1>3
<1> QED BY <1>5, <1>6 DEF Top, TopOf

\* new_applied leaves a linked stack when the commit is made on the top.
LEMMA NewLinked ==
  ASSUME NEW t \in Transactions, Linked(t), NEW n \in Names, n \notin Elems(t.applied),
         NEW c, Parent(c) = Top(t)
  PROVE  Linked(NewApplied(t, n, c)) /\ Kept(t, NewApplied(t, n, c))
<1>1. PICK v : v = NewApplied(t, n, c)
  OBVIOUS
<1>2. /\ v.applied = Append(t.applied, n) /\ v.patches = [t.patches EXCEPT ![n] = c] /\ Kept(t, v)
  BY <1>1 DEF NewApplied, SetPatch, Transactions, Kept
<1>3. t.applied \in Seq(Names) /\ t.patches \in PatchMaps
  BY DEF Transactions
<1>4. Elems(t.applied) \subseteq Names
  BY <1>3, ElemsIff
<1>5. v.patches[n] = c /\ \A m \in Elems(t.applied) : v.patches[m] = t.patches[m]
  BY <1>2, <1>3, <1>4 DEF PatchMaps
<1>6. Linked(v)
  BY <1>2, <1>3, <1>5, LinkedAppend
<1> QED BY <1>1, <1>2, <1>6

\* A method that does not touch the applied patches leaves them linked.
LEMMA SameLinked ==
  ASSUME NEW t, NEW v, Linked(t), t.applied \in Seq(Names), v.applied = t.applied,
         \A n \in Elems(t.applied) : v.patches[n] = t.patches[n]
  PROVE  Linked(v)
<1>1. \A i \in 1..Len(v.applied) : v.patches[v.applied[i]] = t.patches[t.applied[i + 0]]
  BY ElemsIff
<1>2. 0 \in Nat /\ Len(v.applied) + 0 <= Len(t.applied)
  OBVIOUS
<1> QED BY <1>1, <1>2, LinkedPart

\* new_unapplied leaves a linked stack.
LEMMA NewUnappliedLinked ==
  ASSUME NEW t \in Transactions, Linked(t), NEW n \in Names, n \notin Elems(t.applied), NEW c, NEW pos
  PROVE  Linked(NewUnapplied(t, n, c, pos)) /\ Kept(t, NewUnapplied(t, n, c, pos))
<1>1. PICK v : v = NewUnapplied(t, n, c, pos)
  OBVIOUS
<1>2. v.applied = t.applied /\ v.patches = [t.patches EXCEPT ![n] = c] /\ Kept(t, v)
  BY <1>1 DEF NewUnapplied, SetPatch, Transactions, Kept
<1>3. t.applied \in Seq(Names) /\ t.patches \in PatchMaps
  BY DEF Transactions
<1>4. \A m \in Elems(t.applied) : v.patches[m] = t.patches[m]
  BY <1>2, <1>3, ElemsIff DEF PatchMaps
<1> QED BY <1>1, <1>2, <1>3, <1>4, SameLinked

\* update_patch leaves a linked stack when the patch is the topmost one, or not
\* applied, and keeps its parent.
LEMMA UpdateLinked ==
  ASSUME NEW t \in Transactions, Linked(t), NoDuplicates(t.applied), NEW n \in Names,
         n \in Elems(t.applied) => n = t.applied[Len(t.applied)],
         NEW c, Parent(c) = Parent(t.patches[n])
  PROVE  Linked(UpdatePatch(t, n, c)) /\ Kept(t, UpdatePatch(t, n, c))
<1>1. PICK v, a : v = UpdatePatch(t, n, c) /\ a = t.applied
  OBVIOUS
<1>2. v.applied = a /\ v.patches = [t.patches EXCEPT ![n] = c] /\ Kept(t, v)
  BY <1>1 DEF UpdatePatch, SetPatch, Transactions, Kept
<1>3. a \in Seq(Names) /\ t.patches \in PatchMaps /\ Len(a) \in Nat
  BY <1>1 DEF Transactions
<1>4. v.patches[n] = c /\ \A m \in Names \ {n} : v.patches[m] = t.patches[m]
  BY <1>2, <1>3 DEF PatchMaps
<1>5. ASSUME NEW i \in 2..Len(a) PROVE Parent(v.patches[a[i]]) = v.patches[a[i - 1]]
  <2>1. i \in 1..Len(a) /\ i - 1 \in 1..Len(a) /\ i - 1 # Len(a) /\ a[i] \in Names /\ a[i - 1] \in Names
    BY <1>3
  <2>2. a[i - 1] # n
    <3>1. SUFFICES ASSUME a[i - 1] = n PROVE FALSE
      OBVIOUS
    <3>2. n \in Elems(a) /\ Len(a) \in 1..Len(a)
      BY <1>3, <2>1, <3>1, ElemsIff
    <3>3. a[Len(a)] = a[i - 1]
      BY <1>1, <3>1, <3>2
    <3> QED BY <1>1, <1>3, <2>1, <3>2, <3>3, NoDupIff
  <2>3. Parent(v.patches[a[i]]) = Parent(t.patches[a[i]])
    BY <1>4, <2>1
  <2>4. Parent(t.patches[a[i]]) = t.patches[a[i - 1]]
    BY <1>1 DEF Linked
  <2> QED BY <1>4, <2>1, <2>2, <2>3, <2>4
<1> QED BY <1>1, <1>2, <1>5 DEF Linked

\* unhide_patches leaves a linked stack.
LEMMA UnhideLinked ==
  ASSUME NEW t \in Transactions, Linked(t), NEW names
  PROVE  Linked(UnhidePatches(t, names)) /\ Kept(t, UnhidePatches(t, names))
<1>1. PICK v : v = UnhidePatches(t, names)
  OBVIOUS
<1>2. v.applied = t.applied /\ v.patches = t.patches /\ Kept(t, v) /\ t.applied \in Seq(Names)
  BY <1>1 DEF UnhidePatches, Transactions, Kept
<1> QED BY <1>1, <1>2, SameLinked

\* rename_patch leaves a linked stack: the commits stay where they are.
LEMMA RenameLinked ==
  ASSUME NEW t \in Transactions, Linked(t), NEW old \in Names, NEW new \in Names,
         new \notin Elems(t.applied)
  PROVE  Linked(RenamePatch(t, old, new)) /\ Kept(t, RenamePatch(t, old, new))
<1>1. PICK v, a : v = RenamePatch(t, old, new) /\ a = t.applied
  OBVIOUS
<1>2. /\ v.applied = Renamed(a, old, new) /\ Kept(t, v)
      /\ v.patches = [Forget(t.patches, {old}) EXCEPT ![new] = t.patches[old]]
  BY <1>1 DEF RenamePatch, Transactions, Kept
<1>3. a \in Seq(Names) /\ v.applied \in Seq(Names)
  BY <1>1, <1>2, RenamedElems DEF Transactions
<1>4. v.patches[new] = t.patches[old] /\ \A n \in Names \ {old, new} : v.patches[n] = t.patches[n]
  BY <1>2 DEF Forget
<1>5. Len(v.applied) = Len(a) /\ \A i \in 1..Len(a) : v.applied[i] = IF a[i] = old THEN new ELSE a[i]
  BY <1>2, <1>3 DEF Renamed
<1>6. \A i \in 1..Len(a) : a[i] # new /\ a[i] \in Names
  BY <1>1, <1>3, ElemsIff
<1>7. \A i \in 1..Len(v.applied) : v.patches[v.applied[i]] = t.patches[t.applied[i + 0]]
  BY <1>1, <1>4, <1>5, <1>6
<1>8. 0 \in Nat /\ Len(v.applied) + 0 <= Len(t.applied)
  BY <1>1, <1>3, <1>5
<1>9. Linked(v)
  BY <1>1, <1>3, <1>7, <1>8, LinkedPart
<1> QED BY <1>1, <1>2, <1>9

\* The tail of commit_patches leaves a linked stack: the committed patches are
\* the bottommost ones.
LEMMA CommitLinked ==
  ASSUME NEW t \in Transactions, Linked(t), NoDuplicates(t.applied), NEW names \in Seq(Names),
         IsPrefixOf(names, t.applied)
  PROVE  Linked(CommitPatches(t, names)) /\ Kept(t, CommitPatches(t, names))
<1>1. PICK v, a, k : v = CommitPatches(t, names) /\ a = t.applied /\ k = Len(names)
  OBVIOUS
<1>2. /\ v.applied = SubSeq(a, k + 1, Len(a)) /\ Kept(t, v)
      /\ v.patches = Forget(t.patches, Elems(names))
  BY <1>1 DEF CommitPatches, Transactions, Kept
<1>3. a \in Seq(Names) /\ k \in 0..Len(a) /\ \A i \in 1..k : names[i] = a[i]
  BY <1>1 DEF Transactions, IsPrefixOf
<1>4. /\ v.applied \in Seq(Names) /\ Len(v.applied) = Len(a) - k
      /\ \A i \in 1..(Len(a) - k) : v.applied[i] = a[k + i]
  BY <1>2, <1>3, SplitSeq
<1>5. ASSUME NEW i \in 1..Len(v.applied) PROVE v.patches[v.applied[i]] = t.patches[t.applied[i + k]]
  <2>1. i \in 1..(Len(a) - k) /\ k + i \in 1..Len(a) /\ k + i = i + k /\ k + i > k
    BY <1>3, <1>4
  <2>2. a[k + i] \notin Elems(names)
    <3>1. SUFFICES ASSUME a[k + i] \in Elems(names) PROVE FALSE
      OBVIOUS
    <3>2. PICK j \in 1..k : names[j] = a[k + i]
      BY <1>1, <3>1, ElemsIff
    <3>3. j \in 1..Len(a) /\ a[j] = a[k + i] /\ j # k + i
      BY <1>3, <2>1, <3>2
    <3> QED BY <1>1, <1>3, <2>1, <3>3, NoDupIff
  <2>3. a[k + i] \in Names
    BY <1>3, <2>1
  <2>4. v.patches[a[k + i]] = t.patches[a[k + i]]
    BY <1>2, <2>2, <2>3 DEF Forget
  <2>5. v.applied[i] = a[k + i] /\ t.applied[i + k] = a[k + i]
    BY <1>1, <1>4, <2>1
  <2> QED BY <2>4, <2>5
<1>6. k \in Nat /\ Len(v.applied) + k <= Len(t.applied)
  BY <1>1, <1>3, <1>4
<1>7. t.applied \in Seq(Names) /\ v.applied \in Seq(Names) /\ Linked(t)
  BY <1>1, <1>3, <1>4
<1>8. Linked(v)
  BY ONLY <1>5, <1>6, <1>7, LinkedPart
<1> QED BY <1>1, <1>2, <1>8

\* Two linked lists, one on the other.
LEMMA LinkedConcat ==
  ASSUME NEW v, NEW a \in Seq(Names), NEW b \in Seq(Names), v.applied = a \o b,
         \A i \in 2..Len(a) : Parent(v.patches[a[i]]) = v.patches[a[i - 1]],
         \A i \in 2..Len(b) : Parent(v.patches[b[i]]) = v.patches[b[i - 1]],
         a # <<>> /\ b # <<>> => Parent(v.patches[b[1]]) = v.patches[a[Len(a)]]
  PROVE  Linked(v)
<1>1. PICK c, k : c = a \o b /\ k = Len(a)
  OBVIOUS
<1>2. /\ c \in Seq(Names) /\ Len(c) = k + Len(b) /\ k \in Nat /\ Len(b) \in Nat
      /\ \A i \in 1..k : c[i] = a[i]
      /\ \A i \in 1..Len(b) : c[k + i] = b[i]
  BY <1>1, ConcatIndex
<1> SUFFICES ASSUME NEW i \in 2..Len(c) PROVE Parent(v.patches[c[i]]) = v.patches[c[i - 1]]
  BY <1>1 DEF Linked
<1>3. CASE i <= k
  <2>1. i \in 2..k /\ i \in 1..k /\ i - 1 \in 1..k
    BY <1>2, <1>3
  <2> QED BY <1>1, <1>2, <2>1
<1>4. CASE i = k + 1
  <2>1. k \in 1..k /\ 1 \in 1..Len(b) /\ a # <<>> /\ b # <<>> /\ i - 1 = k
    BY <1>1, <1>2, <1>4
  <2>2. c[i] = b[1] /\ c[i - 1] = a[k]
    BY <1>2, <1>4, <2>1
  <2> QED BY <1>1, <2>1, <2>2
<1>5. CASE i > k + 1
  <2>1. PICK j : j = i - k
    OBVIOUS
  <2>2. j \in 2..Len(b) /\ j \in 1..Len(b) /\ j - 1 \in 1..Len(b) /\ i = k + j /\ i - 1 = k + (j - 1)
    BY <1>2, <1>5, <2>1
  <2>3. c[i] = b[j] /\ c[i - 1] = b[j - 1]
    BY <1>2, <2>2
  <2> QED BY <2>2, <2>3
<1> QED BY <1>2, <1>3, <1>4, <1>5

\* at gives the names the last commits of the history of t's base.
TakesFromBase(t, names, at) ==
  at = [n \in Elems(names) |->
          SubSeq(t.base, 1, Len(t.base) - Len(names) + CHOOSE i \in 1..Len(names) : names[i] = n)]

\* uncommit_patches leaves a linked stack if the old one stands on the base:
\* the new patches are the last commits of the base's own history.
LEMMA UncommitLinked ==
  ASSUME NEW t \in Transactions, Linked(t), Based(t), NEW names \in Seq(Names), NoDuplicates(names),
         names # <<>>, Elems(names) \cap Elems(t.applied) = {}, Len(t.base) > Len(names),
         NEW at, TakesFromBase(t, names, at)
  PROVE  Linked(UncommitPatches(t, names, at)) /\ Kept(t, UncommitPatches(t, names, at))
<1>1. PICK v, a, b, k, l : /\ v = UncommitPatches(t, names, at) /\ a = t.applied
                           /\ b = t.base /\ k = Len(names) /\ l = Len(b) - k
  OBVIOUS
<1>2. v.applied = names \o a /\ v.patches = Overlay(t.patches, at) /\ Kept(t, v)
  BY <1>1 DEF UncommitPatches, Transactions, Kept
<1>3. a \in Seq(Names) /\ b \in Commits /\ k \in Nat /\ k > 0 /\ l \in Nat /\ l > 0 /\ Len(b) = l + k
  <2>1. a \in Seq(Names) /\ b \in Commits
    BY <1>1 DEF Transactions
  <2>2. Len(b) \in Nat /\ Len(b) > k
    BY <1>1, <2>1, CommitTypes
  <2>3. k \in Nat /\ k > 0
    BY <1>1
  <2> QED BY <1>1, <2>1, <2>2, <2>3
<1>4. ASSUME NEW i \in 1..k PROVE v.patches[names[i]] = SubSeq(b, 1, l + i)
  <2>1. names[i] \in Elems(names) /\ names[i] \in Names
    BY <1>1, ElemsIff
  <2>2. PICK j : j = CHOOSE x \in 1..k : names[x] = names[i]
    OBVIOUS
  <2>3. j \in 1..k /\ names[j] = names[i]
    BY <2>2
  <2>4. j = i
    BY <1>1, <2>3, NoDupIff
  <2>5. at[names[i]] = SubSeq(b, 1, l + j)
    BY <1>1, <2>1, <2>2 DEF TakesFromBase
  <2>6. v.patches[names[i]] = at[names[i]]
    BY <1>2, <2>1 DEF Overlay, TakesFromBase
  <2> QED BY <2>4, <2>5, <2>6
<1>5. ASSUME NEW i \in 2..Len(names) PROVE Parent(v.patches[names[i]]) = v.patches[names[i - 1]]
  <2>1. i \in 1..k /\ i - 1 \in 1..k /\ l + i \in 2..Len(b) /\ (l + i) - 1 = l + (i - 1)
    BY <1>1, <1>3
  <2>2. Parent(SubSeq(b, 1, l + i)) = SubSeq(b, 1, (l + i) - 1)
    BY <1>3, <2>1, ParentOfPrefix
  <2> QED BY <1>4, <2>1, <2>2
<1>6. \A i \in 1..Len(a) : v.patches[a[i]] = t.patches[a[i]]
  <2>1. \A i \in 1..Len(a) : a[i] \in Elems(a) /\ a[i] \in Names
    BY <1>3, ElemsIff
  <2>2. \A i \in 1..Len(a) : a[i] \notin DOMAIN at
    BY <1>1, <2>1 DEF TakesFromBase
  <2> QED BY <1>2, <2>1, <2>2 DEF Overlay
<1>7. \A i \in 2..Len(a) : Parent(v.patches[a[i]]) = v.patches[a[i - 1]]
  <2>1. \A i \in 2..Len(a) : i \in 1..Len(a) /\ i - 1 \in 1..Len(a)
    BY <1>3
  <2> QED BY <1>1, <1>6, <2>1 DEF Linked
<1>8. a # <<>> => Parent(v.patches[a[1]]) = v.patches[names[Len(names)]]
  <2> SUFFICES ASSUME a # <<>> PROVE Parent(v.patches[a[1]]) = v.patches[names[k]]
    BY <1>1
  <2>1. 1 \in 1..Len(a) /\ k \in 1..k
    BY <1>3
  <2>2. v.patches[names[k]] = b
    <3>1. v.patches[names[k]] = SubSeq(b, 1, l + k)
      BY <1>4, <2>1
    <3>2. PICK T : b \in Seq(T)
      BY <1>3 DEF Commits
    <3>3. SubSeq(b, 1, Len(b)) = b
      BY <3>2
    <3> QED BY <1>3, <3>1, <3>3
  <2>3. Parent(t.patches[a[1]]) = b
    BY <1>1 DEF Based
  <2> QED BY <1>6, <2>1, <2>2, <2>3
<1>9. Linked(v)
  BY <1>2, <1>3, <1>5, <1>7, <1>8, LinkedConcat
<1> QED BY <1>1, <1>2, <1>9

\* reset_to_state leaves the linked stack of that state.
LEMMA ResetLinked ==
  ASSUME NEW t \in Transactions, NEW s, Linked(s)
  PROVE  /\ Linked(ResetToState(t, s)) /\ ResetToState(t, s).head = s.head
         /\ ResetToState(t, s).tree = t.tree /\ ResetToState(t, s).conflicts = t.conflicts
         /\ ResetToState(t, s).applied = s.applied /\ ResetToState(t, s).patches = s.patches
<1>1. PICK v : v = ResetToState(t, s)
  OBVIOUS
<1>2. /\ v.applied = s.applied /\ v.patches = s.patches /\ v.head = s.head /\ v.tree = t.tree
      /\ v.conflicts = t.conflicts
  BY <1>1 DEF ResetToState, Transactions
<1> QED BY <1>1, <1>2 DEF Linked

\* reset_to_state_partially leaves a linked stack, before its push: it changes
\* no commit but those of the named patches, and has popped these.
LEMMA ResetPartiallyLinked ==
  ASSUME NEW t, NEW p, WF(t, p), Linked(t), NEW s, NEW only
  PROVE  Linked(ResetPartially(t, s, only)) /\ Kept(t, ResetPartially(t, s, only))
<1>1. PICK existing, reset, delete, change :
        /\ existing = Elems(AllPatches(t)) /\ reset = Elems(AllPatches(s)) \cap only
        /\ delete = (existing \ reset) \cap only
        /\ change = {n \in reset : n \notin existing \cap {m \in existing : s.patches[m] = t.patches[m]}}
  OBVIOUS
<1>1a. delete \subseteq only /\ change \subseteq only
  BY <1>1
<1>1b. PICK t0 : t0 = PopPatches(t, only)
  OBVIOUS
<1>1c. PICK t1, fresh, f, v : /\ t1 = DeletePatches(t0, delete)
                              /\ fresh = Keep(AllPatches(s), reset \ existing)
                              /\ f = [n \in change |-> s.patches[n]]
                              /\ v = ResetPartially(t, s, only)
  OBVIOUS
<1>1d. v = [t1 EXCEPT !.hidden = t1.hidden \o Keep(fresh, Elems(s.hidden)),
                      !.unapplied = t1.unapplied \o Drop(fresh, Elems(s.hidden)),
                      !.patches = Overlay(t1.patches, f),
                      !.touched = t1.touched \cup change]
  BY <1>1, <1>1b, <1>1c DEF ResetPartially
<1>2. t \in Transactions
  BY DEF WF
<1>3. t0 \in Transactions /\ Linked(t0) /\ Kept(t, t0) /\ t0.applied = Below(t.applied, only)
  BY <1>1b, <1>2, PopLinked, PopOK DEF WF
<1>4. /\ Linked(t1) /\ Kept(t0, t1) /\ t1.applied = Below(t0.applied, delete)
  BY <1>1c, <1>3, DeleteLinked
<1>5. /\ t.applied \in Seq(Names) /\ t0.applied \in Seq(Names) /\ t1.applied \in Seq(Names)
      /\ Elems(t0.applied) \cap only = {} /\ Elems(t1.applied) \subseteq Elems(t0.applied)
  <2>1. t.applied \in Seq(Names)
    BY <1>2 DEF Transactions
  <2>2. t0.applied \in Seq(Names) /\ Elems(t0.applied) \cap only = {}
    BY <1>3, <2>1, BelowFrom
  <2> QED BY <1>4, <2>1, <2>2, BelowFrom
<1>6. /\ v.applied = t1.applied /\ v.patches = Overlay(t1.patches, f) /\ Kept(t1, v)
  <2>1. DOMAIN t1 = DOMAIN t0
    BY <1>1c DEF DeletePatches
  <2>2. DOMAIN t1 = {"applied", "unapplied", "hidden", "patches", "touched", "head", "base",
                     "tree", "conflicts"}
    BY <1>3, <2>1 DEF Transactions
  <2> QED BY <1>1d, <2>2 DEF Kept
<1>7. \A n \in Elems(t1.applied) : v.patches[n] = t1.patches[n]
  <2>1. \A n \in Elems(t1.applied) : n \in Names /\ n \notin DOMAIN f
    BY <1>1a, <1>1c, <1>5, ElemsIff
  <2> QED BY <1>6, <2>1 DEF Overlay
<1>8. Linked(v)
  BY <1>4, <1>5, <1>6, <1>7, SameLinked
<1> QED BY <1>1c, <1>3, <1>4, <1>6, <1>8 DEF Kept

\* A transaction that starts from a linked state is linked and stands on its base.
LEMMA BeginLinked ==
  ASSUME NEW s, NEW h, NEW mode, Linked(s)
  PROVE  Linked(Begin(s, h, mode)) /\ Based(Begin(s, h, mode))
<1>1. PICK t : t = Begin(s, h, mode)
  OBVIOUS
<1>2. t.applied = s.applied /\ t.patches = s.patches /\ t.base = BaseOf(s, h)
  BY <1>1 DEF Begin
<1> QED BY <1>1, <1>2 DEF Linked, Based, BaseOf

\* A transaction on a stack whose head is its top starts there.
LEMMA BeginHead ==
  ASSUME NEW s, NEW mode, s.head = StateTop(s)
  PROVE  LET t == Begin(s, s.head, mode) IN t.head = NoCommit /\ TransHead(t) = s.head
<1>1. PICK t : t = Begin(s, s.head, mode)
  OBVIOUS
<1>2. /\ t.head = NoCommit /\ t.applied = s.applied /\ t.patches = s.patches
      /\ t.base = BaseOf(s, s.head)
  BY <1>1 DEF Begin
<1>3. TransHead(t) = TopOf(s.applied, s.patches, BaseOf(s, s.head))
  BY <1>2 DEF TransHead, Top
<1>4. TransHead(t) = s.head
  BY <1>3 DEF TopOf, BaseOf, StateTop
<1> QED BY <1>1, <1>2, <1>4

\* v is t with another tree, or also with another conflict mode and head.
Retreed(t, tree, v) ==
  \/ v = [t EXCEPT !.tree = tree]
  \/ \E mode \in ConflictModes, head \in MaybeCommits :
       v = [t EXCEPT !.tree = tree, !.conflicts = mode, !.head = head]

SameLists(t, v) ==
  /\ InLists(v) = InLists(t) /\ v.applied = t.applied /\ v.unapplied = t.unapplied
  /\ v.hidden = t.hidden /\ v.patches = t.patches

\* Another current tree, conflict mode or head leaves the lists alone.
LEMMA RetreeOK ==
  ASSUME NEW t, NEW p, WF(t, p), NEW tree \in Trees, NEW v, Retreed(t, tree, v)
  PROVE  WF(v, p) /\ SameLists(t, v)
<1>1. t \in Transactions
  BY DEF WF
<1>2. /\ v \in Transactions /\ v.applied = t.applied /\ v.unapplied = t.unapplied
      /\ v.hidden = t.hidden /\ v.patches = t.patches /\ v.touched = t.touched
  BY <1>1 DEF Retreed, Transactions
<1>3. InLists(v) = InLists(t)
  BY <1>2 DEF InLists
<1>4. Distinct3(v.applied, v.unapplied, v.hidden)
  BY <1>2 DEF WF, Good
<1> QED BY <1>2, <1>3, <1>4, RelistOK DEF SameLists

\* Another tree, mode or head leaves the patches linked and the top where it is.
LEMMA RetreeLinked ==
  ASSUME NEW u, NEW p, WF(u, p), Linked(u), NEW tree \in Trees, NEW v, Retreed(u, tree, v)
  PROVE  Linked(v) /\ v.applied = u.applied /\ Top(v) = Top(u)
<1>1. v.applied = u.applied /\ v.patches = u.patches
  BY RetreeOK DEF SameLists
<1>2. v.base = u.base
  BY DEF WF, Transactions, Retreed
<1> QED BY <1>1, <1>2 DEF Linked, Top, TopOf
-----------------------------------------------------------------------------
(* The index and the worktree. *)

\* Checkout and merge produce an index and a worktree.
LEMMA WorkdirTypes ==
  ASSUME NEW w \in Workdirs, NEW base \in Trees, NEW ours \in Trees, NEW theirs \in Trees
  PROVE  /\ MergeTree(base, ours, theirs) \in Trees
         /\ ReadTreeCheckout(w, base, ours) \in Workdirs
         /\ ReadTreeCheckoutHard(base) \in Workdirs
         /\ MergeRecursive(w, base, ours, theirs) \in Workdirs
<1>1. MergeTree(base, ours, theirs) \in Trees
  BY DEF MergeTree, Trees
<1>2. w.index \in Trees /\ w.work \in Trees /\ w.unmerged \in SUBSET Files
  BY DEF Workdirs
<1>3. ReadTreeCheckoutHard(base) \in Workdirs
  BY DEF ReadTreeCheckoutHard, Workdirs
<1>4. ReadTreeCheckout(w, base, ours) \in Workdirs
  <2>1. PICK i, k : /\ i = [f \in Files |-> IF base[f] = ours[f] THEN w.index[f] ELSE ours[f]]
                    /\ k = [f \in Files |-> IF base[f] = ours[f] \/ w.index[f] = ours[f]
                                              THEN w.work[f] ELSE ours[f]]
    OBVIOUS
  <2>2. i \in Trees /\ k \in Trees
    BY <1>2, <2>1 DEF Trees
  <2>3. ReadTreeCheckout(w, base, ours) = [w EXCEPT !.index = i, !.work = k]
    BY <2>1 DEF ReadTreeCheckout
  <2> QED BY <2>2, <2>3 DEF Workdirs
<1>5. MergeRecursive(w, base, ours, theirs) \in Workdirs
  <2>1. PICK m, k, c : /\ m = MergeTree(base, ours, theirs)
                       /\ k = [f \in Files |-> IF m[f] = ours[f] THEN w.work[f] ELSE m[f]]
                       /\ c = ConflictFiles(base, ours, theirs)
    OBVIOUS
  <2>2. m \in Trees /\ k \in Trees /\ c \in SUBSET Files
    BY <1>1, <1>2, <2>1 DEF Trees, ConflictFiles
  <2>3. MergeRecursive(w, base, ours, theirs) = [index |-> m, work |-> k, unmerged |-> c]
    BY <2>1 DEF MergeRecursive
  <2> QED BY <2>2, <2>3 DEF Workdirs
<1> QED BY <1>1, <1>3, <1>4, <1>5

\* w is what became of the index and worktree s when the tree was checked out.
Follows(w, tree, s) ==
  /\ w.index = tree /\ w.unmerged = s.unmerged
  /\ \A f \in Files : IF s.work[f] = s.index[f]
                        THEN w.work[f] = tree[f]
                        ELSE w.work[f] = s.work[f] /\ tree[f] = s.index[f]
-----------------------------------------------------------------------------
(* The checkout primitives, file by file. *)

\* The index and worktree after a two-tree checkout.
LEMMA CheckoutFields ==
  ASSUME NEW w \in Workdirs, NEW from \in Trees, NEW to \in Trees,
         NEW v, v = ReadTreeCheckout(w, from, to)
  PROVE  /\ v \in Workdirs /\ v.index \in Trees /\ v.work \in Trees /\ v.unmerged = w.unmerged
         /\ \A f \in Files : v.index[f] = IF from[f] = to[f] THEN w.index[f] ELSE to[f]
         /\ \A f \in Files : v.work[f] = IF from[f] = to[f] \/ w.index[f] = to[f]
                                           THEN w.work[f] ELSE to[f]
<1>1. v \in Workdirs
  BY WorkdirTypes
<1>2. PICK i, k : /\ i = [f \in Files |-> IF from[f] = to[f] THEN w.index[f] ELSE to[f]]
                  /\ k = [f \in Files |-> IF from[f] = to[f] \/ w.index[f] = to[f]
                                            THEN w.work[f] ELSE to[f]]
  OBVIOUS
<1>3. v = [w EXCEPT !.index = i, !.work = k]
  BY <1>2 DEF ReadTreeCheckout
<1>4. v.index = i /\ v.work = k /\ v.unmerged = w.unmerged
  BY <1>3 DEF Workdirs
<1>5. v.index \in Trees /\ v.work \in Trees
  BY <1>1 DEF Workdirs
<1> QED BY <1>1, <1>2, <1>4, <1>5

\* A checkout that read-tree allows keeps every local change.
LEMMA CheckoutKeeps ==
  ASSUME NEW w \in Workdirs, NEW from \in Trees, NEW to \in Trees, ReadTreeOk(w, from, to)
  PROVE  LET v == ReadTreeCheckout(w, from, to)
         IN  \A f \in Dirty(w) : v.work[f] = w.work[f] /\ v.work[f] # v.index[f]
<1>1. PICK v : v = ReadTreeCheckout(w, from, to)
  OBVIOUS
<1>2. ASSUME NEW f \in Dirty(w) PROVE v.work[f] = w.work[f] /\ v.work[f] # v.index[f]
  <2>1. f \in Files /\ w.work[f] # w.index[f]
    BY DEF Dirty
  <2>2. from[f] = to[f] \/ w.index[f] = to[f]
    BY <2>1 DEF ReadTreeOk
  <2>3. /\ v.index[f] = IF from[f] = to[f] THEN w.index[f] ELSE to[f]
        /\ v.work[f] = w.work[f]
    BY <1>1, <2>1, <2>2, CheckoutFields
  <2> QED BY <2>1, <2>2, <2>3
<1> QED BY <1>1, <1>2

\* So does merge-recursive, where it can run.
LEMMA MergeKeeps ==
  ASSUME NEW w, NEW base \in Trees, NEW ours \in Trees, NEW theirs \in Trees,
         MergeRecursiveOk(w, base, ours, theirs), NEW f \in Files, w.work[f] # w.index[f]
  PROVE  MergeRecursive(w, base, ours, theirs).work[f] = w.work[f]
<1>1. PICK m : m = MergeTree(base, ours, theirs)
  OBVIOUS
<1>2. m[f] = IF ours[f] = base[f] THEN theirs[f] ELSE ours[f]
  BY <1>1 DEF MergeTree
<1>3. ~(theirs[f] # base[f] /\ theirs[f] # ours[f])
  BY DEF MergeRecursiveOk
<1>4. m[f] = ours[f]
  BY <1>2, <1>3
<1> QED BY <1>1, <1>4 DEF MergeRecursive

\* A checkout from the tree that the worktree follows makes it follow the other.
LEMMA CheckoutFollows ==
  ASSUME NEW w \in Workdirs, NEW s \in Workdirs, NEW from \in Trees, NEW to \in Trees,
         Follows(w, from, s), ReadTreeOk(w, from, to)
  PROVE  Follows(ReadTreeCheckout(w, from, to), to, s)
<1>1. PICK v : v = ReadTreeCheckout(w, from, to)
  OBVIOUS
<1>2. w.index = from /\ w.unmerged = s.unmerged
  BY DEF Follows
<1>3. /\ v.unmerged = s.unmerged /\ v.index \in Trees
      /\ \A f \in Files : v.index[f] = to[f]
  BY <1>1, <1>2, CheckoutFields
<1>4. v.index = to
  BY <1>3 DEF Trees
<1>5. ASSUME NEW f \in Files
      PROVE  IF s.work[f] = s.index[f]
               THEN v.work[f] = to[f]
               ELSE v.work[f] = s.work[f] /\ to[f] = s.index[f]
  <2>1. v.work[f] = IF from[f] = to[f] THEN w.work[f] ELSE to[f]
    BY <1>1, <1>2, CheckoutFields
  <2>2. from[f] = to[f] \/ w.work[f] = from[f]
    BY <1>2 DEF ReadTreeOk
  <2> QED BY <2>1, <2>2 DEF Follows
<1> QED BY <1>1, <1>3, <1>4, <1>5 DEF Follows

\* A merge without conflicts in such a worktree makes it follow the merged tree.
LEMMA MergeFollows ==
  ASSUME NEW w \in Workdirs, NEW s \in Workdirs,
         NEW base \in Trees, NEW ours \in Trees, NEW theirs \in Trees,
         Follows(w, ours, s), MergeRecursiveOk(w, base, ours, theirs),
         NEW v, v = MergeRecursive(w, base, ours, theirs), v.unmerged = {}
  PROVE  Follows(v, v.index, s)
<1>1. PICK m : m = MergeTree(base, ours, theirs)
  OBVIOUS
<1>2. /\ v.index = m
      /\ v.work = [f \in Files |-> IF m[f] = ours[f] THEN w.work[f] ELSE m[f]]
  BY <1>1 DEF MergeRecursive
<1>3. w.index = ours /\ w.unmerged = {} /\ s.unmerged = {}
  BY DEF Follows, MergeRecursiveOk
<1>4. ASSUME NEW f \in Files
      PROVE  IF s.work[f] = s.index[f]
               THEN v.work[f] = m[f]
               ELSE v.work[f] = s.work[f] /\ m[f] = s.index[f]
  <2>1. v.work[f] = IF m[f] = ours[f] THEN w.work[f] ELSE m[f]
    BY <1>2
  <2>2. m[f] = IF ours[f] = base[f] THEN theirs[f] ELSE ours[f]
    BY <1>1 DEF MergeTree
  <2>3. m[f] = ours[f] \/ w.work[f] = ours[f]
    BY <1>3, <2>2 DEF MergeRecursiveOk
  <2>4. IF s.work[f] = s.index[f] THEN w.work[f] = ours[f]
                                  ELSE w.work[f] = s.work[f] /\ ours[f] = s.index[f]
    BY DEF Follows
  <2> QED BY <2>1, <2>3, <2>4
<1> QED BY <1>2, <1>3, <1>4 DEF Follows

\* Back at the tree of its index, the worktree is what it was.
LEMMA FollowsBack ==
  ASSUME NEW w \in Workdirs, NEW s \in Workdirs, Follows(w, s.index, s)
  PROVE  w = s
<1>1. w.work \in Trees /\ s.work \in Trees
  BY DEF Workdirs
<1>2. \A f \in Files : w.work[f] = s.work[f]
  BY DEF Follows
<1>3. w.work = s.work
  BY <1>1, <1>2 DEF Trees
<1> QED BY <1>3 DEF Follows, Workdirs

\* A clean worktree at some tree that follows another is clean there.
LEMMA FollowsClean ==
  ASSUME NEW w \in Workdirs, NEW t \in Trees, NEW u \in Trees
  PROVE  Follows(w, u, ReadTreeCheckoutHard(t)) <=> w = ReadTreeCheckoutHard(u)
<1>1. PICK s : s = ReadTreeCheckoutHard(t)
  OBVIOUS
<1>2. s.work = t /\ s.index = t /\ s.unmerged = {}
  BY <1>1 DEF ReadTreeCheckoutHard
<1>3. ASSUME Follows(w, u, s) PROVE w = ReadTreeCheckoutHard(u)
  <2>1. w.index = u /\ w.unmerged = {} /\ \A f \in Files : w.work[f] = u[f]
    BY <1>2, <1>3 DEF Follows
  <2>2. w.work = u
    BY <2>1 DEF Workdirs, Trees
  <2> QED BY <2>1, <2>2 DEF Workdirs, ReadTreeCheckoutHard
<1>4. ASSUME w = ReadTreeCheckoutHard(u) PROVE Follows(w, u, s)
  BY <1>2, <1>4 DEF Follows, ReadTreeCheckoutHard
<1> QED BY <1>1, <1>3, <1>4

\* A checkout of what the index already holds changes nothing.
LEMMA CheckoutIdle ==
  ASSUME NEW w \in Workdirs, NEW from \in Trees
  PROVE  ReadTreeCheckout(w, from, w.index) = w
<1>1. w.index \in Trees /\ w.work \in Trees
  BY DEF Workdirs
<1>2. PICK v : v = ReadTreeCheckout(w, from, w.index)
  OBVIOUS
<1>3. /\ v \in Workdirs /\ v.index \in Trees /\ v.work \in Trees /\ v.unmerged = w.unmerged
      /\ \A f \in Files : v.index[f] = w.index[f] /\ v.work[f] = w.work[f]
  BY <1>1, <1>2, CheckoutFields
<1>4. v.index = w.index /\ v.work = w.work
  BY <1>1, <1>3 DEF Trees
<1> QED BY <1>2, <1>3, <1>4 DEF Workdirs
=============================================================================
