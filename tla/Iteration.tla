------------------------------ MODULE Iteration ------------------------------
(***************************************************************************)
(* Induction over an interval, and what recursive functions over an        *)
(* interval compute: facts that the proofs about stacks and logs need, for *)
(* every length of a stack, a list of parents, a log, or of object ids.    *)
(***************************************************************************)
EXTENDS Integers, FiniteSets, FiniteSetTheorems, TLAPS

\* A set of positions that with i has everything from 1 to i is an initial
\* segment.
LEMMA InitialSegment ==
  ASSUME NEW n \in Nat, NEW D \in SUBSET (1..n),
         \A i \in D : \A j \in 1..i : j \in D
  PROVE  \E c \in 0..n : D = 1..c
<1>1. IsFiniteSet(1..n) /\ Cardinality(1..n) = n
  BY FS_Interval
<1>2. IsFiniteSet(D) /\ Cardinality(D) <= n
  BY <1>1, FS_Subset
<1>3. PICK c : c = Cardinality(D)
  OBVIOUS
<1>4. c \in Nat /\ c <= n
  BY <1>2, <1>3, FS_CardinalityType
<1>5. ASSUME NEW i \in D PROVE i <= c
  <2>1. (1..i) \in SUBSET D
    OBVIOUS
  <2>2. i \in Nat /\ Cardinality(1..i) = i
    BY FS_Interval
  <2> QED BY <1>2, <1>3, <2>1, <2>2, FS_Subset
<1>6. ASSUME NEW i \in 1..n, i \notin D PROVE c < i
  <2>1. D \in SUBSET (1..(i - 1))
    BY <1>6
  <2>2. IsFiniteSet(1..(i - 1)) /\ Cardinality(1..(i - 1)) = i - 1
    BY FS_Interval
  <2>3. Cardinality(D) <= i - 1
    BY <2>1, <2>2, FS_Subset
  <2> QED BY <1>3, <1>4, <2>3
<1>7. D \subseteq 1..c
  BY <1>4, <1>5
<1>8. 1..c \subseteq D
  BY <1>4, <1>6
<1>9. D = 1..c
  BY <1>7, <1>8, Zenon
<1> QED BY <1>4, <1>9

\* Induction up to n, for a property given as the set of the numbers that have it.
LEMMA UpTo ==
  ASSUME NEW n \in Nat, NEW D, 0 \in D, \A k \in 0..(n - 1) : k \in D => k + 1 \in D
  PROVE  \A k \in 0..n : k \in D
<1>1. PICK E : E = {k \in 1..n : \A i \in 1..k : i \in D}
  OBVIOUS
<1>2. PICK c \in 0..n : E = 1..c
  <2>1. E \in SUBSET (1..n) /\ \A i \in E : \A j \in 1..i : j \in E
    BY <1>1
  <2> QED BY <2>1, InitialSegment
<1>3. ASSUME NEW i \in 0..c PROVE i \in D
  <2>1. i = 0 \/ i \in 1..c
    OBVIOUS
  <2>2. i \in 1..c => i \in E /\ i \in 1..i
    BY <1>2
  <2> QED BY <1>1, <2>1, <2>2
<1>4. c = n
  <2>1. SUFFICES ASSUME c < n PROVE FALSE
    BY <1>2
  <2>2. c + 1 \in D
    BY <1>3, <2>1
  <2>3. \A i \in 1..(c + 1) : i \in D
    BY <1>3, <2>2
  <2>4. c + 1 \in E
    BY <1>1, <2>1, <2>3
  <2> QED BY <1>2, <2>4
<1> QED BY <1>3, <1>4

\* A set of positions that is not empty has a first one.
LEMMA FirstPosition ==
  ASSUME NEW n \in Nat, NEW P \in SUBSET (1..n), P # {}
  PROVE  \E m \in P : \A i \in P : m <= i
<1>1. SUFFICES ASSUME \A m \in P : \E i \in P : i < m PROVE FALSE
  OBVIOUS
<1>2. PICK D : D = {k \in 0..n : \A i \in 1..k : i \notin P}
  OBVIOUS
<1>3. 0 \in D
  BY <1>2
<1>4. ASSUME NEW k \in 0..(n - 1), k \in D PROVE k + 1 \in D
  <2>1. k + 1 \notin P
    BY <1>1, <1>2, <1>4
  <2> QED BY <1>2, <1>4, <2>1
<1>5. n \in D
  BY <1>3, <1>4, UpTo
<1> QED BY <1>2, <1>5

StepMaps(n, U) == [1..n -> [U -> U]]

\* There is a function that starts at a and goes on by the given steps: what a
\* recursive definition over 0..n needs in order to define anything.
LEMMA Iterates ==
  ASSUME NEW n \in Nat, NEW U, NEW a \in U, NEW step \in StepMaps(n, U)
  PROVE  \E f \in [0..n -> U] : f[0] = a /\ \A k \in 1..n : f[k] = step[k][f[k - 1]]
<1> DEFINE Ok(m, f) == f[0] = a /\ \A k \in 1..m : f[k] = step[k][f[k - 1]]
<1>1. PICK D : D = {m \in 0..n : \E f \in [0..m -> U] : Ok(m, f)}
  OBVIOUS
<1>2. 0 \in D
  <2>1. [k \in 0..0 |-> a] \in [0..0 -> U] /\ Ok(0, [k \in 0..0 |-> a])
    OBVIOUS
  <2> HIDE DEF Ok
  <2>2. 0 \in 0..n
    OBVIOUS
  <2> QED BY <1>1, <2>1, <2>2
<1>3. ASSUME NEW m \in 0..(n - 1), m \in D PROVE m + 1 \in D
  <2>1. PICK f \in [0..m -> U] : Ok(m, f)
    BY <1>1, <1>3
  <2>2. PICK g : g = [k \in 0..(m + 1) |-> IF k = m + 1 THEN step[m + 1][f[m]] ELSE f[k]]
    OBVIOUS
  <2>3. m + 1 \in 1..n /\ step[m + 1] \in [U -> U] /\ f[m] \in U
    BY <1>3, <2>1 DEF StepMaps
  <2>4. g \in [0..(m + 1) -> U]
    BY <2>1, <2>2, <2>3
  <2>5. \A k \in 0..m : g[k] = f[k]
    BY <2>2
  <2>6. g[m + 1] = step[m + 1][g[m]]
    BY <2>2, <2>5
  <2>7. Ok(m + 1, g)
    BY <2>1, <2>5, <2>6
  <2> QED BY <1>1, <2>3, <2>4, <2>7
<1> HIDE DEF Ok
<1>4. \A k \in 0..n : k \in D
  BY <1>2, <1>3, UpTo
<1>5. PICK f \in [0..n -> U] : Ok(n, f)
  BY <1>1, <1>4
<1> QED BY <1>5 DEF Ok
Between(n, V) == {T \in [1..n -> UNION {[V[k - 1] -> V[k]] : k \in 1..n}] :
                    \A k \in 1..n : T[k] \in [V[k - 1] -> V[k]]}

\* f starts at a and goes on by the steps.
Runs(n, a, step, f) ==
  f = [k \in 0..n |-> f[k]] /\ f[0] = a /\ \A k \in 1..n : f[k] = step[k][f[k - 1]]

\* The same for steps that are only known to be good on the values that are
\* reached: V[k] are those that step k may lead to.
LEMMA IteratesWithin ==
  ASSUME NEW n \in Nat, NEW V, NEW a \in V[0], NEW step \in Between(n, V)
  PROVE  \E f : Runs(n, a, step, f) /\ \A k \in 0..n : f[k] \in V[k]
<1>1. PICK U : U = UNION {V[k] : k \in 0..n}
  OBVIOUS
<1>2. a \in U
  BY <1>1
<1>3. PICK s : s = [k \in 1..n |-> [u \in U |-> IF u \in V[k - 1] THEN step[k][u] ELSE a]]
  OBVIOUS
<1>4. ASSUME NEW k \in 1..n PROVE s[k] \in [U -> U]
  <2>1. step[k] \in [V[k - 1] -> V[k]] /\ V[k] \subseteq U
    <3>1. k \in 0..n
      OBVIOUS
    <3> QED BY <1>1, <3>1 DEF Between
  <2>2. s[k] = [u \in U |-> IF u \in V[k - 1] THEN step[k][u] ELSE a]
    BY <1>3
  <2> QED BY <1>2, <2>1, <2>2
<1>5. s \in StepMaps(n, U)
  BY <1>3, <1>4 DEF StepMaps
<1>6. PICK f \in [0..n -> U] : f[0] = a /\ \A k \in 1..n : f[k] = s[k][f[k - 1]]
  BY <1>2, <1>5, Iterates
<1>7. ASSUME NEW k \in 0..(n - 1), f[k] \in V[k]
      PROVE  f[k + 1] = step[k + 1][f[k]] /\ f[k + 1] \in V[k + 1]
  <2>1. k + 1 \in 1..n /\ (k + 1) - 1 = k /\ k \in 0..n
    OBVIOUS
  <2>2. f[k + 1] = s[k + 1][f[k]] /\ step[k + 1] \in [V[k] -> V[k + 1]] /\ f[k] \in U
    BY <1>6, <2>1 DEF Between
  <2>3. s[k + 1] = [u \in U |-> IF u \in V[k] THEN step[k + 1][u] ELSE a]
    BY <1>3, <2>1
  <2> QED BY <1>7, <2>2, <2>3
<1>8. PICK D : D = {k \in 0..n : f[k] \in V[k]}
  OBVIOUS
<1>9. \A k \in 0..n : k \in D
  <2>1. 0 \in D
    BY <1>6, <1>8
  <2>2. \A k \in 0..(n - 1) : k \in D => k + 1 \in D
    BY <1>7, <1>8
  <2> QED BY <2>1, <2>2, UpTo
<1>10. ASSUME NEW k \in 1..n PROVE f[k] = step[k][f[k - 1]]
  <2>1. k - 1 \in 0..(n - 1) /\ (k - 1) + 1 = k /\ k - 1 \in 0..n
    OBVIOUS
  <2>2. f[k - 1] \in V[k - 1]
    BY <1>8, <1>9, <2>1
  <2> QED BY <1>7, <2>1, <2>2
<1>11. f = [k \in 0..n |-> f[k]]
  BY <1>6
<1> QED BY <1>6, <1>8, <1>9, <1>10, <1>11 DEF Runs
\* What any function that goes on by these steps reaches.
LEMMA StaysWithin ==
  ASSUME NEW n \in Nat, NEW V, NEW step \in Between(n, V), NEW g, g[0] \in V[0],
         \A k \in 1..n : g[k - 1] \in V[k - 1] => g[k] = step[k][g[k - 1]]
  PROVE  \A k \in 0..n : g[k] \in V[k]
<1>1. PICK D : D = {k \in 0..n : g[k] \in V[k]}
  OBVIOUS
<1>2. 0 \in D
  BY <1>1
<1>3. ASSUME NEW k \in 0..(n - 1), k \in D PROVE k + 1 \in D
  <2>1. k + 1 \in 1..n /\ (k + 1) - 1 = k /\ k + 1 \in 0..n /\ g[k] \in V[k]
    BY <1>1, <1>3
  <2>2. step[k + 1] \in [V[k] -> V[k + 1]] /\ g[k + 1] = step[k + 1][g[k]]
    BY <2>1 DEF Between
  <2> QED BY <1>1, <2>1, <2>2
<1>4. \A k \in 0..n : k \in D
  BY <1>2, <1>3, UpTo
<1> QED BY <1>1, <1>4
=============================================================================
