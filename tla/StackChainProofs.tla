-------------------------- MODULE StackChainProofs --------------------------
(***************************************************************************)
(* What the stack is in terms of git history and of the worktree, for      *)
(* every value of the constants of StackTransaction: the applied patches   *)
(* of every installed state are a chain of commits; the branch is at the   *)
(* top of that chain; a branch position that StGit did not make is logged  *)
(* before the branch leaves it; files with local changes survive, a        *)
(* rollback brings back what the command found, a clean worktree follows   *)
(* the branch, and a conflict is there for the user.                       *)
(*                                                                         *)
(* None of them is inductive.  The chain needs that the transaction itself *)
(* is linked between any two method calls and, for uncommit and repair,    *)
(* that it stands on its base until the first call (ChainInv); the head    *)
(* needs what the transaction's own head may be (HeadInv); the log needs   *)
(* that the opened stack still has the head it was opened at (OpenedHead). *)
(* For the worktree, Moved says file by file how it follows the tree that  *)
(* the transaction believes to be checked out: a file that was clean when  *)
(* the command started has the content of that tree, a file with local     *)
(* changes still has them, and the tree has the content that file had in   *)
(* the index.                                                              *)
(***************************************************************************)
EXTENDS StackTransactionProofs, Iteration

LogLinked == \A i \in 1..Len(stateLog) : Linked(stateLog[i])

\* With IInv, the inductive invariant of the chain.
ChainInv ==
  /\ LogLinked
  /\ Linked(txn)
  /\ ops = 0 => Based(txn)
-----------------------------------------------------------------------------
(* repair, the one method that takes commits for what they are in the      *)
(* history and not for the list they come from.                            *)

\* The commits repair looks at are a stretch of the history of the branch head.
LEMMA RepairSeenFacts ==
  ASSUME IInv
  PROVE  /\ stk.head \in Commits /\ Len(stk.head) \in Nat
         /\ \E lo \in Nat :
              /\ \A c \in RepairSeen :
                   /\ Len(c) \in lo..Len(stk.head) /\ Len(c) > 1 /\ c = SubSeq(stk.head, 1, Len(c))
                   /\ Parent(c) = SubSeq(stk.head, 1, Len(c) - 1) /\ Len(Parent(c)) = Len(c) - 1
              /\ \A k \in lo..Len(stk.head) :
                   SubSeq(stk.head, 1, k) \in RepairSeen /\ Len(SubSeq(stk.head, 1, k)) = k
<1>1. PICK h, lo : h = stk.head /\ lo = IF ReachesBase THEN Len(txn.base) + 1 ELSE 2
  OBVIOUS
<1>2. h \in Commits /\ txn.base \in Commits
  BY <1>1, TxnFacts
<1>3. Len(h) \in Nat /\ Len(txn.base) \in Nat /\ Len(txn.base) > 0
  BY <1>2, CommitTypes
<1>4. lo \in Nat /\ lo >= 2
  BY <1>1, <1>3
<1>5. RepairSeen = {SubSeq(h, 1, k) : k \in lo..Len(h)}
  BY <1>1 DEF RepairSeen
<1>6. ASSUME NEW k \in lo..Len(h)
      PROVE  /\ Len(SubSeq(h, 1, k)) = k /\ SubSeq(h, 1, k) \in RepairSeen
             /\ Parent(SubSeq(h, 1, k)) = SubSeq(h, 1, k - 1) /\ Len(SubSeq(h, 1, k - 1)) = k - 1
  <2>1. k \in 2..Len(h)
    BY <1>3, <1>4
  <2> QED BY <1>2, <1>5, <2>1, ParentOfPrefix
<1>7. ASSUME NEW c \in RepairSeen
      PROVE  /\ Len(c) \in lo..Len(h) /\ Len(c) > 1 /\ c = SubSeq(h, 1, Len(c))
             /\ Parent(c) = SubSeq(h, 1, Len(c) - 1) /\ Len(Parent(c)) = Len(c) - 1
  <2>1. PICK k \in lo..Len(h) : c = SubSeq(h, 1, k)
    BY <1>5
  <2>2. Len(c) = k /\ Parent(c) = SubSeq(h, 1, k - 1) /\ Len(SubSeq(h, 1, k - 1)) = k - 1
    BY <1>6, <2>1
  <2> QED BY <1>3, <1>4, <2>1, <2>2
<1> QED BY <1>1, <1>2, <1>3, <1>4, <1>6, <1>7

\* A commit in that stretch that some patch has is found, as the commit of the
\* first patch that has it.
LEMMA RepairFirst ==
  ASSUME IInv, NEW n \in Existing, txn.patches[n] \in RepairSeen
  PROVE  \E m \in RepairFound : txn.patches[m] = txn.patches[n]
<1>1. PICK all, c, P : /\ all = AllPatches(txn) /\ c = txn.patches[n]
                       /\ P = {i \in 1..Len(all) : txn.patches[all[i]] = c}
  OBVIOUS
<1>2. all \in Seq(Names) /\ NoDuplicates(all) /\ Existing = Elems(all)
  BY <1>1, TxnFacts, AllPatchesElems DEF Existing
<1>3. Len(all) \in Nat /\ P \in SUBSET (1..Len(all))
  BY <1>1, <1>2
<1>4. P # {}
  BY <1>1, <1>2, ElemsIff
<1>5. PICK k \in P : \A i \in P : k <= i
  BY <1>3, <1>4, FirstPosition
<1>6. PICK m : m = all[k]
  OBVIOUS
<1>7. m \in Existing /\ txn.patches[m] = c /\ k \in 1..Len(all)
  BY <1>1, <1>2, <1>3, <1>5, <1>6, ElemsIff
<1>8. \A i, j \in DOMAIN all : all[j] = m /\ txn.patches[all[i]] = txn.patches[m] => j <= i
  <2> SUFFICES ASSUME NEW i \in DOMAIN all, NEW j \in DOMAIN all, all[j] = m,
                      txn.patches[all[i]] = txn.patches[m]
               PROVE  j <= i
    OBVIOUS
  <2>1. i \in 1..Len(all) /\ j \in 1..Len(all)
    BY <1>2
  <2>2. j = k
    BY <1>2, <1>6, <1>7, <2>1, NoDupIff
  <2>3. i \in P
    BY <1>1, <1>7, <2>1
  <2> QED BY <1>5, <2>2, <2>3
<1>9. m \in RepairFound
  BY <1>1, <1>7, <1>8 DEF RepairFound
<1> QED BY <1>1, <1>7, <1>9
\* There is no gap between two patches that repair finds one after the other: a
\* commit between them would become a patch, and the assertion of new_applied
\* would fail for the lowest such one.
LEMMA RepairFoundLinked ==
  ASSUME IInv, NEW a \in Seq(Names), Elems(a) = RepairFound, Ascending(a, txn.patches),
         NEW top, a # <<>> => top = txn.patches[a[Len(a)]],
         \A c \in RepairNew : Parent(c) \in RepairNew \cup {top}
  PROVE  \A i \in 2..Len(a) : Parent(txn.patches[a[i]]) = txn.patches[a[i - 1]]
<1> SUFFICES ASSUME NEW i \in 2..Len(a)
             PROVE  Parent(txn.patches[a[i]]) = txn.patches[a[i - 1]]
  OBVIOUS
<1>1. PICK P, h, c1, c2, k1, k2 : /\ P = txn.patches /\ h = stk.head /\ c1 = P[a[i - 1]] /\ c2 = P[a[i]]
                                  /\ k1 = Len(c1) /\ k2 = Len(c2)
  OBVIOUS
<1>2. PICK lo \in Nat :
        /\ h \in Commits /\ Len(h) \in Nat
        /\ \A c \in RepairSeen :
             /\ Len(c) \in lo..Len(h) /\ Len(c) > 1 /\ c = SubSeq(h, 1, Len(c))
             /\ Parent(c) = SubSeq(h, 1, Len(c) - 1) /\ Len(Parent(c)) = Len(c) - 1
        /\ \A k \in lo..Len(h) :
             SubSeq(h, 1, k) \in RepairSeen /\ Len(SubSeq(h, 1, k)) = k
  BY <1>1, RepairSeenFacts
<1>3. /\ Len(a) \in Nat /\ i \in 1..Len(a) /\ i - 1 \in 1..Len(a) /\ a # <<>> /\ Len(a) \in 1..Len(a)
      /\ DOMAIN a = 1..Len(a)
  OBVIOUS
<1>4. \A j \in 1..Len(a) : /\ a[j] \in RepairFound /\ a[j] \in Existing /\ P[a[j]] \in RepairSeen
                           /\ Len(P[a[j]]) \in Nat
  <2>1. \A j \in 1..Len(a) : a[j] \in RepairFound
    BY ElemsIff
  <2>2. \A j \in 1..Len(a) : a[j] \in Existing /\ P[a[j]] \in RepairSeen
    BY <1>1, <2>1 DEF RepairFound
  <2>3. \A c \in RepairSeen : Len(c) \in Nat
    BY <1>2
  <2> QED BY <2>1, <2>2, <2>3
<1>5. \A j, l \in 1..Len(a) : j < l => Len(P[a[j]]) < Len(P[a[l]])
  BY <1>1, <1>3 DEF Ascending
<1>6. /\ k1 \in lo..Len(h) /\ k2 \in lo..Len(h) /\ k1 < k2 /\ k1 > 0 /\ k1 \in Nat /\ k2 \in Nat
      /\ c1 = SubSeq(h, 1, k1) /\ Parent(c2) = SubSeq(h, 1, k2 - 1)
  <2>1. c1 \in RepairSeen /\ c2 \in RepairSeen
    BY <1>1, <1>3, <1>4
  <2>2. k1 < k2
    <3>1. i - 1 < i
      BY <1>3
    <3> QED BY <1>1, <1>3, <1>5, <3>1
  <2>3. k1 \in lo..Len(h) /\ k1 > 1 /\ c1 = SubSeq(h, 1, k1)
    BY <1>1, <1>2, <2>1
  <2>4. k2 \in lo..Len(h) /\ Parent(c2) = SubSeq(h, 1, k2 - 1)
    BY <1>1, <1>2, <2>1
  <2>5. lo \in Nat /\ Len(h) \in Nat
    BY <1>2
  <2> QED BY ONLY <2>2, <2>3, <2>4, <2>5
<1>7. Len(top) >= k2 /\ Len(top) \in Nat
  <2>1. top = P[a[Len(a)]] /\ Len(top) \in Nat
    BY <1>1, <1>3, <1>4
  <2>2. CASE i = Len(a)
    BY <1>1, <1>6, <2>1, <2>2
  <2>3. CASE i < Len(a)
    <3>1. Len(P[a[i]]) < Len(P[a[Len(a)]])
      BY <1>3, <1>5, <2>3
    <3> QED BY <1>1, <1>6, <2>1, <3>1
  <2>4. i = Len(a) \/ i < Len(a)
    <3>1. PICK l : l = Len(a)
      OBVIOUS
    <3>2. l \in Nat /\ i \in 1..l
      BY <1>3, <3>1
    <3>3. i = l \/ i < l
      BY ONLY <3>2
    <3> QED BY <3>1, <3>3
  <2> QED BY <2>2, <2>3, <2>4
<1>8. ASSUME NEW k \in (k1 + 1)..(k2 - 1) PROVE SubSeq(h, 1, k) \notin RepairNew
  <2>1. PICK Q : Q = {x \in 1..Len(h) : k1 < x /\ x < k2 /\ SubSeq(h, 1, x) \in RepairNew}
    OBVIOUS
  <2>2. SUFFICES ASSUME SubSeq(h, 1, k) \in RepairNew PROVE FALSE
    OBVIOUS
  <2>3. Q \in SUBSET (1..Len(h)) /\ k \in Q
    <3>1. k \in 1..Len(h) /\ k1 < k /\ k < k2
      BY <1>2, <1>6
    <3> QED BY <2>1, <2>2, <3>1
  <2>4. PICK m \in Q : \A x \in Q : m <= x
    BY <1>2, <2>3, FirstPosition
  <2>5. PICK c : c = SubSeq(h, 1, m)
    OBVIOUS
  <2>6. m \in 1..Len(h) /\ k1 < m /\ m < k2 /\ m \in lo..Len(h) /\ c \in RepairNew
    BY <1>2, <1>6, <2>1, <2>4, <2>5
  <2>7. Len(c) = m /\ Parent(c) = SubSeq(h, 1, m - 1) /\ Len(Parent(c)) = m - 1
    BY <1>2, <2>5, <2>6
  <2>8. Parent(c) \in RepairNew
    <3>1. Parent(c) # top
      BY <1>2, <1>6, <1>7, <2>6, <2>7
    <3> QED BY <2>6, <3>1
  <2>9. CASE m - 1 = k1
    <3>1. Parent(c) = txn.patches[a[i - 1]] /\ a[i - 1] \in Existing
      BY <1>1, <1>3, <1>4, <1>6, <2>7, <2>9
    <3> QED BY <2>8, <3>1 DEF RepairNew
  <2>10. CASE m - 1 # k1
    <3>1. m - 1 \in 1..Len(h) /\ k1 < m - 1 /\ m - 1 < k2
      BY <1>2, <1>6, <2>6, <2>10
    <3>2. m - 1 \in Q
      BY <2>1, <2>7, <2>8, <3>1
    <3>3. m <= m - 1
      BY <2>4, <3>2
    <3> QED BY <2>6, <3>3
  <2> QED BY <2>9, <2>10
<1>9. k2 = k1 + 1
  <2>1. SUFFICES ASSUME k2 # k1 + 1 PROVE FALSE
    OBVIOUS
  <2>2. PICK k, c : k = k2 - 1 /\ c = SubSeq(h, 1, k)
    OBVIOUS
  <2>3. k \in (k1 + 1)..(k2 - 1) /\ k \in lo..Len(h)
    <3>1. PICK l : l = Len(h)
      OBVIOUS
    <3>2. /\ l \in Nat /\ lo \in Nat /\ k1 \in Nat /\ k2 \in Nat /\ k1 < k2 /\ k2 # k1 + 1
          /\ k1 \in lo..l /\ k2 \in lo..l /\ k = k2 - 1
      BY <1>2, <1>6, <2>1, <2>2, <3>1
    <3>3. k \in (k1 + 1)..(k2 - 1) /\ k \in lo..l
      BY ONLY <3>2
    <3> QED BY <3>1, <3>3
  <2>4. c \in RepairSeen /\ c \notin RepairNew /\ Len(c) = k
    BY <1>2, <1>8, <2>2, <2>3
  <2>5. a[i - 1] \in RepairFound /\ Len(txn.patches[a[i - 1]]) < Len(c)
    BY <1>1, <1>3, <1>4, <1>6, <2>3, <2>4
  <2>6. PICK n \in Existing : txn.patches[n] = c
    BY <2>4, <2>5 DEF RepairNew
  <2>7. PICK m \in RepairFound : txn.patches[m] = c
    BY <2>4, <2>6, RepairFirst
  <2>8. PICK j \in 1..Len(a) : a[j] = m
    BY <2>7, ElemsIff
  <2>9. Len(P[a[j]]) = k
    BY <1>1, <2>4, <2>7, <2>8
  <2>10. CASE j < i
    <3>1. j < i - 1 \/ j = i - 1
      BY <1>3, <2>8, <2>10
    <3>2. Len(P[a[j]]) <= k1
      BY <1>1, <1>3, <1>4, <1>5, <2>8, <3>1
    <3> QED BY <1>6, <2>3, <2>9, <3>2
  <2>11. CASE ~(j < i)
    <3>1. i < j \/ j = i
      BY <1>3, <2>8, <2>11
    <3>2. Len(P[a[j]]) >= k2
      BY <1>1, <1>3, <1>4, <1>5, <2>8, <3>1
    <3> QED BY <1>6, <2>3, <2>9, <3>2
  <2> QED BY <2>10, <2>11
<1> QED BY <1>1, <1>6, <1>9

\* The patches that repair makes are linked, the lowest one on the top of those
\* it found.
LEMMA RepairNewLinked ==
  ASSUME IInv, NEW new \in Seq(Names), NEW at \in [Elems(new) -> RepairNew],
         Len(new) = Cardinality(RepairNew), Ascending(new, at),
         NEW top, \A c \in RepairNew : Parent(c) \in RepairNew \cup {top}
  PROVE  /\ \A i \in 2..Len(new) : Parent(at[new[i]]) = at[new[i - 1]]
         /\ new # <<>> => Parent(at[new[1]]) = top
<1>1. PICK f, n : n = Len(new) /\ f = [i \in 1..n |-> at[new[i]]]
  OBVIOUS
<1>2. n \in Nat /\ DOMAIN new = 1..n /\ \A i \in 1..n : new[i] \in Elems(new)
  BY <1>1, ElemsIff
<1>3. PICK h : h = stk.head
  OBVIOUS
<1>4. /\ Len(h) \in Nat
      /\ \A c \in RepairNew : /\ Len(c) \in 1..Len(h) /\ Len(Parent(c)) = Len(c) - 1
                              /\ c = SubSeq(h, 1, Len(c))
  <2>1. RepairNew \subseteq RepairSeen
    BY DEF RepairNew
  <2>2. Len(h) \in Nat
    BY <1>3, RepairSeenFacts
  <2>3. PICK lo \in Nat :
          \A c \in RepairSeen :
            /\ Len(c) \in lo..Len(h) /\ Len(c) > 1 /\ c = SubSeq(h, 1, Len(c))
            /\ Len(Parent(c)) = Len(c) - 1
    BY <1>3, RepairSeenFacts
  <2> QED BY <2>1, <2>2, <2>3
<1>5. IsFiniteSet(RepairNew)
  <2>1. PICK g : g = [c \in RepairNew |-> Len(c)]
    OBVIOUS
  <2>2. g \in Injection(RepairNew, 1..Len(h))
    BY <1>4, <2>1 DEF Injection, IsInjective
  <2>3. IsFiniteSet(1..Len(h))
    BY <1>4, FS_Interval
  <2> QED BY <2>2, <2>3, FS_Injection
<1>6. \A i \in 1..n : f[i] \in RepairNew /\ f[i] = at[new[i]]
  BY <1>1, <1>2
<1>7. \A i, j \in 1..n : i < j => Len(f[i]) < Len(f[j])
  BY <1>2, <1>6 DEF Ascending
<1>8. \A i, j \in 1..n : f[i] = f[j] => i = j
  BY <1>2, <1>4, <1>6, <1>7
<1>9. \A c \in RepairNew : \E i \in 1..n : f[i] = c
  <2>1. f \in Injection(1..n, RepairNew)
    BY <1>1, <1>6, <1>8 DEF Injection, IsInjective
  <2>2. Cardinality(1..n) = Cardinality(RepairNew)
    BY <1>1, <1>2, FS_Interval
  <2>3. f \in Surjection(1..n, RepairNew)
    BY <1>5, <2>1, <2>2, FS_Injection
  <2> QED BY <2>3 DEF Surjection
<1>10. ASSUME NEW i \in 1..n PROVE Len(f[i]) \in Nat /\ Len(Parent(f[i])) = Len(f[i]) - 1
  BY <1>4, <1>6
<1>11. ASSUME 1 \in 1..n PROVE Parent(f[1]) = top
  <2>1. SUFFICES ASSUME Parent(f[1]) \in RepairNew PROVE FALSE
    BY <1>6, <1>11
  <2>2. PICK j \in 1..n : f[j] = Parent(f[1])
    BY <1>9, <2>1
  <2>3. j = 1 \/ 1 < j
    BY <1>2, <2>2
  <2> QED BY <1>7, <1>10, <1>11, <2>2, <2>3
<1>12. ASSUME NEW i \in 2..n PROVE Parent(f[i]) = f[i - 1]
  <2>1. i \in 1..n /\ i - 1 \in 1..n /\ 1 \in 1..n /\ 1 < i
    BY <1>2
  <2>2. Parent(f[i]) # top
    <3>1. Len(f[1]) < Len(f[i])
      BY <1>7, <2>1
    <3>2. Len(top) = Len(f[1]) - 1 /\ Len(Parent(f[i])) = Len(f[i]) - 1 /\ Len(f[1]) \in Nat /\ Len(f[i]) \in Nat
      BY <1>10, <1>11, <2>1
    <3> QED BY <3>1, <3>2
  <2>3. PICK j \in 1..n : f[j] = Parent(f[i])
    BY <1>6, <1>9, <2>1, <2>2
  <2>4. Len(f[j]) = Len(f[i]) - 1 /\ Len(f[j]) \in Nat /\ Len(f[i]) \in Nat
    BY <1>10, <2>1, <2>3
  <2>5. ~(j > i - 1)
    <3>1. SUFFICES ASSUME j > i - 1 PROVE FALSE
      OBVIOUS
    <3>2. j = i \/ i < j
      BY <2>1, <2>3, <3>1
    <3> QED BY <1>7, <2>1, <2>3, <2>4, <3>2
  <2>6. ~(j < i - 1)
    <3>1. SUFFICES ASSUME j < i - 1 PROVE FALSE
      OBVIOUS
    <3>2. Len(f[j]) < Len(f[i - 1]) /\ Len(f[i - 1]) < Len(f[i]) /\ Len(f[i - 1]) \in Nat
      BY <1>7, <1>10, <2>1, <2>3, <3>1
    <3> QED BY <2>4, <3>2
  <2> QED BY <2>1, <2>3, <2>5, <2>6
<1>13. ASSUME NEW i \in 2..Len(new) PROVE Parent(at[new[i]]) = at[new[i - 1]]
  <2>1. i \in 1..n /\ i - 1 \in 1..n /\ i \in 2..n
    BY <1>1, <1>2
  <2> QED BY <1>6, <1>12, <2>1
<1>14. ASSUME new # <<>> PROVE Parent(at[new[1]]) = top
  <2>1. 1 \in 1..n
    BY <1>1, <1>2, <1>14
  <2> QED BY <1>6, <1>11, <2>1
<1> QED BY <1>13, <1>14

\* repair leaves a linked stack.
LEMMA RepairLinked ==
  ASSUME IInv, NEW a \in {<<>>} \cup Lists(Existing), NEW new \in {<<>>} \cup Lists(Fresh),
         NEW at \in [Elems(new) -> RepairNew],
         Elems(a) = RepairFound, Ascending(a, txn.patches),
         Len(new) = Cardinality(RepairNew), Ascending(new, at), ParentsOnTop(RepairLists(a))
  PROVE  /\ Linked(NewOnTop(RepairLists(a), new, at)) /\ Kept(txn, NewOnTop(RepairLists(a), new, at))
<1>1. PICK t, v, top : t = RepairLists(a) /\ v = NewOnTop(t, new, at) /\ top = Top(t)
  OBVIOUS
<1>2. /\ txn \in Transactions /\ Existing \subseteq Names /\ Existing = InLists(txn)
      /\ Fresh \subseteq Names /\ Fresh \cap Existing = {}
  BY TxnFacts DEF Fresh
<1>3. a \in Seq(Names) /\ new \in Seq(Names) /\ Elems(new) \subseteq Fresh /\ Elems(a) \subseteq Existing
  BY <1>2, ListsType, NoElems
<1>4. /\ t \in Transactions /\ t.applied = a /\ t.patches = txn.patches /\ Kept(txn, t)
  <2>1. t \in Transactions
    BY <1>1, RepairListsOK DEF WF
  <2> QED BY <1>1, <1>2, <2>1 DEF RepairLists, RepairAppliedness, Transactions, Kept
<1>5. v.applied = a \o new /\ v.patches = Overlay(txn.patches, at) /\ Kept(t, v)
  BY <1>1, <1>4 DEF NewOnTop, Transactions, Kept
<1>6. \A i \in 1..Len(a) : v.patches[a[i]] = txn.patches[a[i]]
  <2>1. \A i \in 1..Len(a) : a[i] \in Elems(a) /\ a[i] \in Names
    BY <1>3, ElemsIff
  <2>2. \A i \in 1..Len(a) : a[i] \notin DOMAIN at
    BY <1>2, <1>3, <2>1
  <2> QED BY <1>5, <2>1, <2>2 DEF Overlay
<1>7. \A i \in 1..Len(new) : v.patches[new[i]] = at[new[i]]
  <2>1. \A i \in 1..Len(new) : new[i] \in DOMAIN at /\ new[i] \in Names
    BY <1>3, ElemsIff
  <2> QED BY <1>5, <2>1 DEF Overlay
<1>8. a # <<>> => top = txn.patches[a[Len(a)]]
  BY <1>1, <1>4 DEF Top, TopOf
<1>9. \A c \in RepairNew : Parent(c) \in RepairNew \cup {top}
  BY <1>1 DEF ParentsOnTop
<1>10. \A i \in 2..Len(a) : Parent(txn.patches[a[i]]) = txn.patches[a[i - 1]]
  BY <1>3, <1>8, <1>9, RepairFoundLinked
<1>11. /\ \A i \in 2..Len(new) : Parent(at[new[i]]) = at[new[i - 1]]
       /\ new # <<>> => Parent(at[new[1]]) = top
  BY <1>3, <1>9, RepairNewLinked
<1>12. \A i \in 2..Len(a) : Parent(v.patches[a[i]]) = v.patches[a[i - 1]]
  <2>1. \A i \in 2..Len(a) : i \in 1..Len(a) /\ i - 1 \in 1..Len(a)
    BY <1>3
  <2> QED BY <1>6, <1>10, <2>1
<1>13. \A i \in 2..Len(new) : Parent(v.patches[new[i]]) = v.patches[new[i - 1]]
  <2>1. \A i \in 2..Len(new) : i \in 1..Len(new) /\ i - 1 \in 1..Len(new)
    BY <1>3
  <2> QED BY <1>7, <1>11, <2>1
<1>14. a # <<>> /\ new # <<>> => Parent(v.patches[new[1]]) = v.patches[a[Len(a)]]
  <2> SUFFICES ASSUME a # <<>>, new # <<>> PROVE Parent(v.patches[new[1]]) = v.patches[a[Len(a)]]
    OBVIOUS
  <2>1. Len(a) \in 1..Len(a) /\ 1 \in 1..Len(new)
    BY <1>3
  <2> QED BY <1>6, <1>7, <1>8, <1>11, <2>1
<1>15. Linked(v)
  BY <1>3, <1>5, <1>12, <1>13, <1>14, LinkedConcat
<1> QED BY <1>1, <1>4, <1>5, <1>15 DEF Kept
-----------------------------------------------------------------------------
(* What the actions do to the transaction, as far as the invariants below  *)
(* tell: one lemma for the methods of the closure, one for the calls they  *)
(* make and one for the ends of execute().                                 *)

\* A method was called: the process alone has moved.
Called ==
  /\ pc = "body" /\ todo = <<>> /\ txn.head = NoCommit /\ ops' = ops + 1
  /\ UNCHANGED <<stateLog, branch, patchRefs, wd, opts, stk, outcome, snap, pc, temp, err>>

\* It was a reset: the transaction is at a state of the log.
ResetDone ==
  /\ todo' = <<>> /\ "reset" \in opts.calls
  /\ txn'.tree = txn.tree /\ txn'.conflicts = txn.conflicts
  /\ \E i \in 1..Len(stateLog) : /\ txn'.head = stateLog[i].head
                                 /\ txn'.applied = stateLog[i].applied
                                 /\ txn'.patches = stateLog[i].patches

MethodDone ==
  /\ Called /\ Linked(txn')
  /\ \/ /\ Kept(txn, txn')
        /\ \E m \in opts.calls : m = "uncommit" => Top(txn') = Top(txn) /\ todo' = <<>>
     \/ ResetDone

\* A method other than uncommit that leaves a linked stack and the tree, the
\* mode and the head of the transaction.
LEMMA CallDone ==
  ASSUME NEW method, NEW t, NEW cs, Call(method, t, cs), method # "uncommit",
         Linked(t) /\ Kept(txn, t)
  PROVE  MethodDone
<1>1. Called /\ txn' = t /\ method \in opts.calls
  BY DEF Call, Called, repo, body
<1> QED BY <1>1 DEF MethodDone

\* What the chain proofs take from the two invariants.
LEMMA ChainFacts ==
  ASSUME IInv, ChainInv
  PROVE  /\ WF(txn, stk.state.patches) /\ txn \in Transactions /\ Linked(txn)
         /\ txn.applied \in Seq(Names) /\ NoDuplicates(txn.applied)
         /\ Elems(txn.applied) \subseteq Existing /\ Fresh \cap Elems(txn.applied) = {}
         /\ Fresh \subseteq Names /\ Existing \subseteq Names /\ Top(txn) \in Commits
         /\ Fresh \cap Existing = {}
<1>1. WF(txn, stk.state.patches) /\ Linked(txn)
  BY DEF IInv, ChainInv
<1>2. /\ txn \in Transactions /\ txn.applied \in Seq(Names) /\ NoDuplicates(txn.applied)
      /\ Existing = InLists(txn) /\ Existing \subseteq Names /\ Top(txn) \in Commits
  BY TxnFacts DEF Distinct3
<1> QED BY <1>1, <1>2 DEF InLists, Fresh

\* The methods that rearrange the patches they find: pop, delete, push,
\* push_tree, reorder, hide, unhide, rename and the first part of commit.
LEMMA RearrangeDone ==
  ASSUME IInv, ChainInv,
         Pop \/ Delete \/ Push \/ PushSetTree \/ Reorder \/ Hide \/ Unhide \/ Rename \/ Commit
  PROVE  MethodDone
<1>1. CASE Pop
  BY <1>1, ChainFacts, PopLinked, CallDone DEF Pop
<1>2. CASE Delete
  BY <1>2, ChainFacts, DeleteLinked, CallDone DEF Delete
<1>3. CASE Push
  <2>1. Kept(txn, txn)
    BY DEF Kept
  <2> QED BY <1>3, <2>1, ChainFacts, CallDone DEF Push
<1>4. CASE PushSetTree
  <2>1. PICK n \in Elems(txn.unapplied) \cup Elems(txn.hidden) : Call("push_tree", PushTree(txn, n), <<>>)
    BY <1>4 DEF PushSetTree
  <2>2. PushedAs(txn, n, txn.tree, PushTree(txn, n)) /\ txn.tree \in Trees
    BY TxnFacts DEF PushedAs
  <2>3. Linked(PushTree(txn, n)) /\ Kept(txn, PushTree(txn, n))
    BY <2>1, <2>2, ChainFacts, PushLinked, PushParent
  <2> QED BY <2>1, <2>3, CallDone
<1>5. CASE Reorder
  <2>1. PICK S, cs : Call("reorder", PopPatches(txn, S), cs)
    BY <1>5 DEF Reorder
  <2> QED BY <2>1, ChainFacts, PopLinked, CallDone
<1>6. CASE Hide
  <2>1. PICK S, cs : Call("hide", PopPatches(txn, S), cs)
    BY <1>6 DEF Hide
  <2> QED BY <2>1, ChainFacts, PopLinked, CallDone
<1>7. CASE Unhide
  BY <1>7, ChainFacts, UnhideLinked, CallDone DEF Unhide
<1>8. CASE Rename
  <2>1. PICK old \in Existing, new \in Fresh : Call("rename", RenamePatch(txn, old, new), <<>>)
    BY <1>8 DEF Rename
  <2>2. old \in Names /\ new \in Names /\ new \notin Elems(txn.applied)
    BY <2>1, ChainFacts
  <2> QED BY <2>1, <2>2, ChainFacts, RenameLinked, CallDone
<1>9. CASE Commit
  <2>1. PICK S, cs : Call("commit", PopPatches(txn, S), cs) \/ Call("commit", txn, cs)
    BY <1>9 DEF Commit
  <2>2. Kept(txn, txn)
    BY DEF Kept
  <2> QED BY <2>1, <2>2, ChainFacts, PopLinked, CallDone
<1> QED BY <1>1, <1>2, <1>3, <1>4, <1>5, <1>6, <1>7, <1>8, <1>9

\* The methods that make commits: new_applied, new_unapplied, update_patch.
LEMMA MakeDone ==
  ASSUME IInv, ChainInv, New \/ AddUnapplied \/ Update
  PROVE  MethodDone
<1>1. CASE New
  <2>1. PICK n, tree, m : n \in Fresh /\
          Call("new_applied", NewApplied(txn, n, MkCommit(Top(txn), tree, m)), <<>>)
    BY <1>1 DEF New
  <2>2. n \in Names /\ n \notin Elems(txn.applied) /\ Parent(MkCommit(Top(txn), tree, m)) = Top(txn)
    BY <2>1, ChainFacts, ParentOfNew
  <2> QED BY <2>1, <2>2, ChainFacts, NewLinked, CallDone
<1>2. CASE AddUnapplied
  <2>1. PICK n, c, pos : n \in Fresh /\ Call("new_unapplied", NewUnapplied(txn, n, c, pos), <<>>)
    BY <1>2 DEF AddUnapplied
  <2>2. n \in Names /\ n \notin Elems(txn.applied)
    BY <2>1, ChainFacts
  <2> QED BY <2>1, <2>2, ChainFacts, NewUnappliedLinked, CallDone
<1>3. CASE Update
  <2>1. PICK n, tree, m :
          /\ n \in Existing
          /\ n \in Elems(txn.applied) => n = txn.applied[Len(txn.applied)]
          /\ Call("update", UpdatePatch(txn, n, MkCommit(Parent(txn.patches[n]), tree, m)), <<>>)
    BY <1>3 DEF Update
  <2>2. n \in Names /\ Parent(txn.patches[n]) \in Commits
    BY <2>1, TxnFacts, PatchCommit
  <2>3. Parent(MkCommit(Parent(txn.patches[n]), tree, m)) = Parent(txn.patches[n])
    BY <2>2, ParentOfNew
  <2> QED BY <2>1, <2>2, <2>3, ChainFacts, UpdateLinked, CallDone
<1> QED BY <1>1, <1>2, <1>3

\* uncommit_patches leaves the top where it is.
LEMMA UncommitDone ==
  ASSUME IInv, ChainInv, Uncommit
  PROVE  MethodDone
<1>1. PICK names, k, at :
        /\ names \in Lists(Fresh)
        /\ k = Len(names) /\ TakesFromBase(txn, names, at)
        /\ ops = 0 /\ Len(txn.base) > k
        /\ Call("uncommit", UncommitPatches(txn, names, at), <<>>)
  BY DEF Uncommit, TakesFromBase
<1>2. PICK v, a, b : v = UncommitPatches(txn, names, at) /\ a = txn.applied /\ b = txn.base
  OBVIOUS
<1>3. /\ names \in Seq(Names) /\ NoDuplicates(names) /\ Elems(names) \subseteq Fresh /\ names # <<>>
  BY <1>1, ChainFacts, ListsType
<1>4. Elems(names) \cap Elems(txn.applied) = {} /\ Based(txn)
  BY <1>1, <1>3, ChainFacts DEF ChainInv
<1>5. Linked(v) /\ Kept(txn, v)
  <2>1. Linked(txn) /\ txn \in Transactions
    BY ChainFacts
  <2> QED BY <1>1, <1>2, <1>3, <1>4, <2>1, UncommitLinked
<1>6. v.applied = names \o a /\ v.patches = Overlay(txn.patches, at) /\ v.base = b
  BY <1>2, ChainFacts DEF UncommitPatches, Transactions
<1>7. a \in Seq(Names) /\ Elems(a) \subseteq Names /\ b \in Commits
  BY <1>2, ChainFacts, TxnFacts, ElemsIff
<1>8. Top(v) = Top(txn)
  <2>1. PICK c, l : c = names \o a /\ l = Len(a)
    OBVIOUS
  <2>2. /\ c \in Seq(Names) /\ Len(c) = k + l /\ k \in Nat /\ l \in Nat /\ k > 0
        /\ \A i \in 1..k : c[i] = names[i]
        /\ \A i \in 1..l : c[k + i] = a[i]
    BY <1>1, <1>3, <1>7, <2>1, ConcatIndex
  <2>3. c # <<>> /\ Top(v) = v.patches[c[k + l]]
    BY <1>6, <2>1, <2>2 DEF Top, TopOf
  <2>4. CASE a = <<>>
    <3>1. l = 0 /\ k \in 1..k /\ c[k + l] = names[k] /\ Top(txn) = b
      BY <1>2, <2>1, <2>2, <2>4 DEF Top, TopOf
    <3>2. names[k] \in Elems(names) /\ names[k] \in Names
      BY <1>1, <1>3, <3>1, ElemsIff
    <3>3. PICK j : j = CHOOSE i \in 1..k : names[i] = names[k]
      OBVIOUS
    <3>4. j \in 1..k /\ names[j] = names[k]
      BY <3>1, <3>3
    <3>5. j = k
      BY <1>1, <1>3, <3>1, <3>4, NoDupIff
    <3>6. Len(b) \in Nat
      BY <1>7, CommitTypes
    <3>7. at[names[k]] = SubSeq(b, 1, Len(b) - k + j)
      BY <1>1, <1>2, <3>2, <3>3 DEF TakesFromBase
    <3>8. Len(b) - k + j = Len(b)
      BY <2>2, <3>5, <3>6
    <3>9. SubSeq(b, 1, Len(b)) = b
      <4>1. PICK T : b \in Seq(T)
        BY <1>7 DEF Commits
      <4> QED BY <4>1
    <3>10. v.patches[names[k]] = at[names[k]]
      BY <1>1, <1>6, <3>2 DEF Overlay, TakesFromBase
    <3> QED BY <2>3, <3>1, <3>7, <3>8, <3>9, <3>10
  <2>5. CASE a # <<>>
    <3>0. l > 0
      BY <1>7, <2>1, <2>5
    <3>1. l \in 1..l /\ c[k + l] = a[l] /\ Top(txn) = txn.patches[a[l]]
      <4>1. l \in 1..l
        BY <2>2, <3>0
      <4>2. Top(txn) = txn.patches[a[l]]
        BY <1>2, <2>1, <2>5 DEF Top, TopOf
      <4> QED BY <2>2, <4>1, <4>2
    <3>2. a[l] \in Elems(a) /\ a[l] \in Names /\ a[l] \notin DOMAIN at
      BY <1>1, <1>2, <1>4, <1>7, <2>1, <3>1, ElemsIff DEF TakesFromBase
    <3>3. v.patches[a[l]] = txn.patches[a[l]]
      BY <1>6, <3>2 DEF Overlay
    <3> QED BY <2>3, <3>1, <3>3
  <2> QED BY <2>4, <2>5
<1>9. Called /\ txn' = v /\ todo' = <<>> /\ "uncommit" \in opts.calls
  BY <1>1, <1>2 DEF Call, Called, repo, body
<1> QED BY <1>5, <1>8, <1>9 DEF MethodDone

\* repair and the resets.
LEMMA RestoreDone ==
  ASSUME IInv, ChainInv, Repair \/ Reset \/ ResetSome
  PROVE  MethodDone
<1>1. CASE Repair
  BY <1>1, RepairLinked, CallDone DEF Repair
<1>2. CASE Reset
  <2>1. PICK i \in 1..Len(stateLog) : Call("reset", ResetToState(txn, stateLog[i]), <<>>)
    BY <1>2 DEF Reset
  <2>2. Linked(stateLog[i]) /\ txn \in Transactions
    BY <2>1, ChainFacts DEF ChainInv, LogLinked
  <2>3. Called /\ txn' = ResetToState(txn, stateLog[i]) /\ todo' = <<>> /\ "reset" \in opts.calls
    BY <2>1 DEF Call, Called, repo, body
  <2>4. Linked(txn') /\ ResetDone
    BY <2>2, <2>3, ResetLinked DEF ResetDone
  <2> QED BY <2>3, <2>4 DEF MethodDone
<1>3. CASE ResetSome
  <2>1. PICK i, only, cs : Call("reset_partially", ResetPartially(txn, stateLog[i], only), cs)
    BY <1>3 DEF ResetSome
  <2> QED BY <2>1, ChainFacts, ResetPartiallyLinked, CallDone
<1> QED BY <1>1, <1>2, <1>3

\* Every step of the closure is a method call, or its return.
LEMMA ClosureDone ==
  ASSUME IInv, ChainInv, Closure
  PROVE  MethodDone \/ BodyFails \/ BodyReturns
BY RearrangeDone, MakeDone, UncommitDone, RestoreDone DEF Closure
\* The running method made one of its calls: the head of the transaction is
\* the one it was, or a push ended in a conflict and fixed it to the new top.
CallMade ==
  /\ pc = "body" /\ todo # <<>> /\ ops # 0 /\ Linked(txn')
  /\ UNCHANGED <<stateLog, branch, patchRefs, opts, stk, outcome, snap, ops>>
  /\ pc' = "body" \/ (pc' = "execute" /\ todo' = <<>>)
  /\ \/ txn'.head = txn.head
     \/ txn'.applied # <<>> /\ txn'.head = Top(txn') /\ pc' = "execute" /\ todo' = <<>>

\* What a running push is known to do.
LEMMA PushingFacts ==
  ASSUME IInv, CanPush
  PROVE  pc = "body" /\ todo # <<>> /\ ops # 0
<1>1. PICK op : Doing(op)
  BY DEF CanPush, Pushing
<1> QED BY <1>1, DoingFacts

\* A push_patch that goes on leaves a linked stack.
LEMMA PushAsDone ==
  ASSUME IInv, ChainInv, CanPush, NEW t \in Trees, NEW w, NEW x, NEW cur \in Trees,
         PushAs(t, w, x, cur)
  PROVE  CallMade
<1>1. PICK p, n, u : p = stk.state.patches /\ n = Pushed /\ u = PushPatch(txn, n, t)
  OBVIOUS
<1>2. n \in Elems(txn.unapplied) \cup Elems(txn.hidden) /\ WF(txn, p) /\ Linked(txn)
  BY <1>1, PushFacts, ChainFacts
<1>3. PushedAs(txn, n, t, u)
  BY <1>1 DEF PushedAs
<1>4. WF(u, p) /\ Linked(u) /\ Kept(txn, u)
  BY <1>2, <1>3, PushPatchOK, PushLinked, PushParent
<1>5. txn' = [u EXCEPT !.tree = cur]
  BY <1>1 DEF PushAs
<1>6. Linked(txn')
  BY <1>4, <1>5, RetreeLinked DEF Retreed
<1>7. txn'.head = txn.head
  BY <1>4, <1>5 DEF WF, Transactions, Kept
<1> QED BY <1>6, <1>7, PushingFacts DEF CallMade, PushAs, body

\* A push_patch that halts leaves the stack as it is.
LEMMA HaltDone ==
  ASSUME IInv, ChainInv, CanPush, NEW w, NEW x, NEW cur \in Trees, Halt(w, x, cur)
  PROVE  CallMade
<1>1. txn' = [txn EXCEPT !.tree = cur]
  BY DEF Halt
<1>2. Linked(txn')
  BY <1>1, ChainFacts, RetreeLinked DEF Retreed
<1>3. txn'.head = txn.head
  BY <1>1, ChainFacts DEF Transactions
<1> QED BY <1>2, <1>3, PushingFacts DEF CallMade, Halt, body

\* A push_patch that ends in a conflict leaves a linked stack with the head of
\* the transaction on its top.
LEMMA ConflictDone ==
  ASSUME IInv, ChainInv, PushConflicts
  PROVE  CallMade /\ err' = "conflict" /\ txn'.applied # <<>> /\ txn'.head = Top(txn')
<1>0. CanPush
  BY DEF PushConflicts, CanMerge, ApplyFails
<1>1. PICK p, n, u : p = stk.state.patches /\ n = Pushed /\ u = PushPatch(txn, n, Ours)
  OBVIOUS
<1>2. /\ n \in Elems(txn.unapplied) \cup Elems(txn.hidden) /\ n \in Names
      /\ WF(txn, p) /\ Linked(txn) /\ Ours \in Trees
  BY <1>0, <1>1, PushFacts, ChainFacts
<1>3. PushedAs(txn, n, Ours, u)
  BY <1>1 DEF PushedAs
<1>4. WF(u, p) /\ Linked(u) /\ Top(u) = u.patches[n] /\ u.applied # <<>>
  BY <1>2, <1>3, PushPatchOK, PushLinked
<1>5. txn' = [u EXCEPT !.tree = Ours, !.conflicts = "allow", !.head = u.patches[n]]
  BY <1>1 DEF PushConflicts
<1>6. u.patches[n] \in MaybeCommits /\ "allow" \in ConflictModes
  BY <1>2, <1>4 DEF WF, Transactions, PatchMaps, ConflictModes
<1>7. Retreed(u, Ours, txn')
  BY <1>5, <1>6 DEF Retreed
<1>8. Linked(txn') /\ Top(txn') = Top(u) /\ txn'.applied # <<>>
  BY <1>2, <1>4, <1>7, RetreeLinked
<1>9. txn'.head = Top(txn')
  BY <1>4, <1>5, <1>8 DEF WF, Transactions
<1> QED BY <1>0, <1>8, <1>9, PushingFacts DEF CallMade, PushConflicts, body

\* Every call that a method makes leaves a linked stack.
LEMMA StepDone ==
  ASSUME IInv, ChainInv, Steps
  PROVE  CallMade
<1>1. CASE OpenTempIndex \/ CloseTempIndex
  <2>1. PICK op : Doing(op)
    BY <1>1 DEF OpenTempIndex, CloseTempIndex, Pushing
  <2>2. pc = "body" /\ todo # <<>> /\ ops # 0 /\ Linked(txn)
    BY <2>1, DoingFacts, ChainFacts
  <2> QED BY <1>1, <2>2 DEF OpenTempIndex, CloseTempIndex, CallMade, repo, body
<1>2. CASE PushTrivially
  <2>1. CanPush /\ PushAs(TrivialTree, wd, temp, txn.tree)
    BY <1>2 DEF PushTrivially
  <2>2. TrivialTree \in Trees /\ txn.tree \in Trees
    BY <2>1, PushFacts, TxnFacts DEF TrivialTree
  <2> QED BY <2>1, <2>2, PushAsDone
<1>3. CASE PushApplied
  <2>1. PICK t, x : t = MergeTree(OldParent, TempIndex, Theirs) /\ PushAs(t, wd, x, txn.tree)
    BY <1>3 DEF PushApplied
  <2>2. CanPush
    BY <1>3 DEF PushApplied
  <2>3. OldParent \in Trees /\ TempIndex \in Trees /\ Theirs \in Trees /\ wd \in Workdirs
    BY <2>2, PushFacts DEF IInv, TypeOK
  <2>4. t \in Trees /\ txn.tree \in Trees
    BY <2>1, <2>3, WorkdirTypes, TxnFacts
  <2> QED BY <2>1, <2>2, <2>4, PushAsDone
<1>4. CASE PushHalts
  <2>1. CanPush
    BY <1>4 DEF PushHalts, ApplyFails
  <2>2. txn.tree \in Trees /\ Ours \in Trees
    BY <2>1, PushFacts, TxnFacts
  <2>3. PICK w, x : Halt(w, x, txn.tree) \/ Halt(w, x, Ours)
    BY <1>4 DEF PushHalts
  <2> QED BY <2>1, <2>2, <2>3, HaltDone
<1>5. CASE PushMerged
  <2>1. CanPush /\ PushAs(Merged.index, Merged, TempAfterFailure, Merged.index)
    BY <1>5 DEF PushMerged, CanMerge, ApplyFails
  <2>2. Merged.index \in Trees
    BY <2>1, MergedType
  <2> QED BY <2>1, <2>2, PushAsDone
<1>6. CASE PushConflicts
  BY <1>6, ConflictDone
<1>7. CASE AssignLists
  <2>1. Doing("lists")
    BY <1>7 DEF AssignLists
  <2>2. pc = "body" /\ todo # <<>> /\ ops # 0 /\ Linked(txn) /\ txn \in Transactions
    BY <2>1, DoingFacts, ChainFacts
  <2>3. PICK x, y : txn' = [txn EXCEPT !.unapplied = x, !.hidden = y]
    BY <1>7 DEF AssignLists
  <2>4. txn'.applied = txn.applied /\ txn'.patches = txn.patches /\ txn'.head = txn.head
    BY <2>2, <2>3 DEF Transactions
  <2>5. Linked(txn')
    BY <2>2, <2>4 DEF Linked
  <2> QED BY <1>7, <2>2, <2>4, <2>5 DEF AssignLists, CallMade, repo, body
<1>8. CASE MoveBase
  <2>1. Doing("base")
    BY <1>8 DEF MoveBase
  <2>2. /\ pc = "body" /\ todo # <<>> /\ todo \in Seq(Calls) /\ ops # 0 /\ Head(todo) = todo[1]
        /\ todo[1].op = "base" /\ todo[1].names \in Seq(Names) /\ Pending(txn, todo, stk.state.patches)
    BY <2>1, DoingFacts
  <2>3. IsPrefixOf(todo[1].names, txn.applied)
    <3>1. IsPrefixOf(todo[1].names, txn.applied \o <<>>)
      BY <2>2, PendingShape DEF OneBase, BasePush, BaseAhead
    <3>2. txn.applied \o <<>> = txn.applied
      BY TxnFacts
    <3> QED BY <3>1, <3>2
  <2>4. txn' = CommitPatches(txn, todo[1].names)
    BY <1>8, <2>2 DEF MoveBase
  <2>5. Linked(txn') /\ Kept(txn, txn')
    BY <2>2, <2>3, <2>4, ChainFacts, CommitLinked
  <2> QED BY <1>8, <2>2, <2>5 DEF MoveBase, CallMade, Kept, repo, body
<1> QED BY <1>1, <1>2, <1>3, <1>4, <1>5, <1>6, <1>7, <1>8 DEF Steps
\* The transaction is over: the references are as they were, or all edited,
\* or some of them edited because the edits were torn or the process killed.
Over(how) ==
  /\ pc # "idle" /\ End(how)
  /\ \/ UNCHANGED <<stateLog, branch, patchRefs>>
     \/ pc = "critical" /\ EditAll
     \/ /\ Events \cap {"torn", "crash"} # {}
        /\ \E P \in SUBSET txn.touched, s, b \in BOOLEAN : EditReferences(P, s, b)

\* execute() logs the external modification, checks out, or ends.
LEMMA ExecuteDone ==
  ASSUME Execute
  PROVE  ExecuteStarts \/ ExecuteChecksOut \/ \E how : Over(how)
<1>1. \A from, how : Rollback(from, how) => \E h : End(h)
  BY DEF Rollback
<1>2. CASE NewAppliedPanics \/ ExecuteReturnsError
  BY <1>2 DEF NewAppliedPanics, ExecuteReturnsError, Over, repo
<1>3. CASE ExecuteCheckoutFails \/ CriticalRefused
  BY <1>1, <1>3 DEF ExecuteCheckoutFails, CriticalRefused, Over
<1>4. CASE CriticalSucceeds
  BY <1>4 DEF CriticalSucceeds, Over
<1>5. CASE CriticalInterrupted
  BY <1>1, <1>5 DEF CriticalInterrupted, Over
<1>6. CASE CriticalTorn
  BY <1>6 DEF CriticalTorn, Over
<1>7. CASE Crash
  BY <1>7 DEF Crash, Over
<1> QED BY <1>2, <1>3, <1>4, <1>5, <1>6, <1>7 DEF Execute

\* In each case the log is the same or has the new state at its end.
LEMMA OverLog ==
  ASSUME NEW how, Over(how)
  PROVE  stateLog' = stateLog \/ stateLog' = Append(stateLog, NewState)
BY DEF Over, EditAll, EditReferences

\* A linked state at the end of a linked log.
LEMMA AppendLinked ==
  ASSUME IInv, LogLinked, NEW s \in States, Linked(s), stateLog' = Append(stateLog, s)
  PROVE  LogLinked'
<1>1. stateLog \in Seq(States)
  BY DEF IInv, TypeOK
<1>2. /\ Len(stateLog') = Len(stateLog) + 1 /\ Len(stateLog) \in Nat
      /\ stateLog'[Len(stateLog) + 1] = s
      /\ \A i \in 1..Len(stateLog) : stateLog'[i] = stateLog[i]
  BY <1>1
<1>3. \A i \in 1..Len(stateLog') : Linked(stateLog'[i])
  BY <1>2 DEF LogLinked
<1> QED BY <1>3 DEF LogLinked

\* A step that does not touch log and transaction.
LEMMA SameChain ==
  ASSUME ChainInv, stateLog' = stateLog, txn' = txn, ops' = ops
  PROVE  ChainInv'
BY DEF ChainInv, LogLinked, Linked, Based

\* The chain in the initial states.
LEMMA InitChain == Init => ChainInv
<1> SUFFICES ASSUME Init PROVE ChainInv
  OBVIOUS
<1>1. PICK s \in InitStates : stateLog = <<s>>
  BY DEF Init
<1>2. Linked(s)
  BY <1>1, InitAssumption DEF Chained, Linked
<1>3. Len(stateLog) = 1 /\ stateLog[1] = s /\ Oldest = s
  BY <1>1 DEF Oldest
<1>4. LogLinked
  BY <1>2, <1>3 DEF LogLinked
<1>5. txn = Begin(s, s.head, "disallow")
  BY <1>3 DEF Init, NoTxn
<1> QED BY <1>2, <1>4, <1>5, BeginLinked DEF ChainInv

\* Every step preserves it.
LEMMA NextChain == IInv /\ ChainInv /\ [Next]_vars => ChainInv'
<1> SUFFICES ASSUME IInv, ChainInv, [Next]_vars PROVE ChainInv'
  OBVIOUS
<1>0. /\ ops \in Nat /\ LogLinked /\ stateLog \in Seq(States) \ {<<>>}
      /\ 1 \in 1..Len(stateLog) /\ Len(stateLog) \in 1..Len(stateLog)
  BY DEF IInv, TypeOK, ChainInv
<1>1. CASE User \/ UNCHANGED vars
  BY <1>1, SameChain DEF User, EditFile, ResolveConflicts, GitCommit, GitReset, vars, repo, proc
<1>2. CASE RefuseMismatch
  BY <1>2, SameChain DEF RefuseMismatch
<1>3. CASE OpenStack
  <2>1. PICK mode : txn' = Begin(State, branch, mode)
    BY <1>3 DEF OpenStack
  <2>2. Linked(State)
    BY <1>0 DEF LogLinked, State
  <2>3. stateLog' = stateLog
    BY <1>3 DEF OpenStack
  <2>4. Linked(txn') /\ Based(txn')
    BY <2>1, <2>2, BeginLinked
  <2>5. LogLinked'
    BY <1>0, <2>3 DEF LogLinked
  <2> QED BY <2>4, <2>5 DEF ChainInv, Linked, Based
<1>4. CASE MethodDone
  <2>1. Linked(txn') /\ ops' = ops + 1 /\ stateLog' = stateLog
    BY <1>4 DEF MethodDone, Called
  <2>2. LogLinked' /\ ops' # 0
    BY <1>0, <2>1 DEF LogLinked
  <2> QED BY <2>1, <2>2 DEF ChainInv, Linked
<1>5. CASE BodyFails \/ BodyReturns
  BY <1>5, SameChain DEF BodyFails, BodyReturns, repo, body
<1>6. CASE CallMade
  <2>1. Linked(txn') /\ ops' # 0 /\ stateLog' = stateLog
    BY <1>6 DEF CallMade
  <2>2. LogLinked'
    BY <1>0, <2>1 DEF LogLinked
  <2> QED BY <2>1, <2>2 DEF ChainInv, Linked
<1>7. CASE ExecuteStarts
  <2>1. txn' = txn /\ ops' = ops
    BY <1>7 DEF ExecuteStarts
  <2>2. PICK s : s = [stk.state EXCEPT !.head = stk.head]
    OBVIOUS
  <2>3. stateLog' = stateLog \/ stateLog' = Append(stateLog, s)
    BY <1>7, <2>2 DEF ExecuteStarts
  <2>4. stk.state = State /\ stk.state \in States /\ stk.head \in Commits
    BY <1>7, TxnFacts DEF ExecuteStarts, IInv, OpenedState
  <2>5. s \in States /\ s.applied = State.applied /\ s.patches = State.patches
    BY <2>2, <2>4 DEF States
  <2>6. Linked(s)
    BY <1>0, <2>5 DEF LogLinked, State, Linked
  <2>7. LogLinked'
    BY <1>0, <2>3, <2>5, <2>6, AppendLinked DEF LogLinked
  <2>8. Linked(txn') /\ (ops' = 0 => Based(txn'))
    BY <2>1 DEF ChainInv
  <2> QED BY <2>7, <2>8 DEF ChainInv, Linked, Based
<1>8. CASE ExecuteChecksOut
  BY <1>8, SameChain DEF ExecuteChecksOut
<1>9. ASSUME NEW how, Over(how) PROVE ChainInv'
  <2>1. Linked(NewState) /\ NewState \in States
    BY NewStateGood DEF ChainInv, Linked, NewState
  <2>2. LogLinked'
    BY <1>0, <1>9, <2>1, OverLog, AppendLinked DEF LogLinked
  <2>3. txn' = Begin(Oldest, Oldest.head, "disallow")
    BY <1>9 DEF Over, End, NoTxn
  <2>4. Linked(Oldest)
    BY <1>0 DEF LogLinked, Oldest
  <2>5. Linked(txn') /\ Based(txn')
    BY <2>3, <2>4, BeginLinked
  <2> QED BY <2>2, <2>5 DEF ChainInv, Linked, Based
<1> QED BY <1>1, <1>2, <1>3, <1>4, <1>5, <1>6, <1>7, <1>8, <1>9, ClosureDone, StepDone, ExecuteDone
        DEF Next, Open

\* Both invariants hold in every reachable state.
LEMMA SpecChain == Spec => [](IInv /\ ChainInv)
BY InitIInv, NextIInv, InitChain, NextChain, PTL DEF Spec

\* In every state that execute() installs, whatever methods were called before
\* and wherever the transaction halted, each applied patch's commit is the
\* parent of the next one's: the stack is a piece of branch history.
THEOREM StackIsHistory == Spec => []AppliedPatchesChained
<1>1. IInv /\ ChainInv => AppliedPatchesChained
  <2> SUFFICES ASSUME IInv, ChainInv, NEW i \in 1..Len(stateLog) PROVE Chained(stateLog[i])
    BY DEF AppliedPatchesChained
  <2>1. PICK s : s = stateLog[i]
    OBVIOUS
  <2>2. Good(s) /\ Linked(s)
    BY <2>1 DEF IInv, ChainInv, LogGood, LogLinked
  <2> QED BY <2>1, <2>2 DEF Good, Chained, Linked, HasPatch
<1> QED BY <1>1, SpecChain, PTL
-----------------------------------------------------------------------------
(* Where the branch is.                                                    *)

\* The one command that does not set the head, uncommit, makes patches of the
\* commits below the stack and calls no other method (cmd/uncommit.rs).
UncommitAlone == \A o \in OptionSets : o.set_head \/ o.calls \subseteq {"uncommit"}

\* Nobody but StGit moves the branch and every reference transaction is atomic.
OnlyStGit == Events \cap {"git", "torn", "crash"} = {} /\ UncommitAlone

LogOnTop == \A i \in 1..Len(stateLog) : stateLog[i].head = StateTop(stateLog[i])

\* The head that a conflict or a reset fixed is the top, and while a method has
\* calls to make none is fixed.
FixedHead ==
  /\ txn.head # NoCommit => txn.head = TopOf(txn.applied, txn.patches, txn.head)
  /\ pc = "body" /\ todo # <<>> => txn.head = NoCommit

\* The stack was opened where the branch still is.
OpenedHere == pc # "idle" => stk.head = branch /\ opts \in OptionSets

\* Uncommit ends where it started.
StaysPut == pc # "idle" /\ ~opts.set_head => TransHead(txn) = branch /\ todo = <<>>

\* With IInv, ChainInv and OnlyStGit, the inductive invariant of the head.
HeadInv ==
  /\ LogOnTop
  /\ branch = State.head
  /\ FixedHead
  /\ OpenedHere
  /\ StaysPut

\* The head of the state that execute() builds is its top.
LEMMA NewStateOnTop ==
  ASSUME IInv, FixedHead
  PROVE  NewState.head = StateTop(NewState) /\ NewState.head = TransHead(txn)
<1>1. PICK h : h = TransHead(txn)
  OBVIOUS
<1>2. StateTop(NewState) = TopOf(txn.applied, txn.patches, h) /\ NewState.head = h
  BY <1>1 DEF StateTop, NewState
<1>3. CASE txn.head = NoCommit
  <2>1. h = TopOf(txn.applied, txn.patches, txn.base)
    BY <1>1, <1>3 DEF TransHead, Top
  <2> QED BY <1>1, <1>2, <2>1 DEF TopOf
<1>4. CASE txn.head # NoCommit
  BY <1>1, <1>2, <1>4 DEF FixedHead, TransHead
<1> QED BY <1>3, <1>4

\* The head in the initial states.
LEMMA InitHead == Init => HeadInv
<1> SUFFICES ASSUME Init PROVE HeadInv
  OBVIOUS
<1>1. PICK s \in InitStates : stateLog = <<s>> /\ branch = s.head
  BY DEF Init
<1>2. s.head = StateTop(s)
  BY <1>1, InitAssumption
<1>3. Len(stateLog) = 1 /\ stateLog[1] = s /\ Oldest = s /\ State = s
  BY <1>1 DEF Oldest, State
<1>4. txn = Begin(s, s.head, "disallow") /\ pc = "idle"
  BY <1>3 DEF Init, NoTxn
<1>5. txn.head = NoCommit
  BY <1>4 DEF Begin
<1> QED BY <1>1, <1>2, <1>3, <1>4, <1>5 DEF HeadInv, LogOnTop, FixedHead, OpenedHere, StaysPut

\* A step of the closure that leaves the references preserves the invariant of
\* the head if it preserves what it says of the transaction.
LEMMA HeadStep ==
  ASSUME HeadInv, UNCHANGED <<stateLog, branch, opts, stk>>, pc # "idle", FixedHead',
         ~opts.set_head => TransHead(txn') = branch /\ todo' = <<>>
  PROVE  HeadInv'
<1>1. LogOnTop' /\ (branch = State.head)'
  BY DEF HeadInv, LogOnTop, State
<1>2. OpenedHere'
  BY DEF HeadInv, OpenedHere
<1>3. StaysPut'
  BY DEF HeadInv, StaysPut
<1> QED BY <1>1, <1>2, <1>3 DEF HeadInv

\* A method call preserves the invariant of the head.
LEMMA MethodHead ==
  ASSUME OnlyStGit, HeadInv, MethodDone
  PROVE  HeadInv'
<1>1. /\ pc = "body" /\ pc' = "body" /\ txn.head = NoCommit
      /\ UNCHANGED <<stateLog, branch, opts, stk>> /\ opts \in OptionSets
  BY DEF MethodDone, Called, HeadInv, OpenedHere
<1>2. CASE ResetDone
  <2>1. PICK i \in 1..Len(stateLog) : /\ txn'.head = stateLog[i].head
                                      /\ txn'.applied = stateLog[i].applied
                                      /\ txn'.patches = stateLog[i].patches
    BY <1>2 DEF ResetDone
  <2>2. stateLog[i].head = TopOf(txn'.applied, txn'.patches, txn'.head)
    BY <2>1 DEF HeadInv, LogOnTop, StateTop
  <2>3. FixedHead'
    BY <1>2, <2>1, <2>2 DEF FixedHead, ResetDone
  <2>4. opts.set_head
    BY <1>1, <1>2 DEF OnlyStGit, UncommitAlone, ResetDone
  <2> QED BY <1>1, <2>3, <2>4, HeadStep
<1>3. CASE /\ Kept(txn, txn')
           /\ \E m \in opts.calls : m = "uncommit" => Top(txn') = Top(txn) /\ todo' = <<>>
  <2>1. txn'.head = NoCommit
    BY <1>1, <1>3 DEF Kept
  <2>2. FixedHead'
    BY <2>1 DEF FixedHead
  <2>3. ASSUME ~opts.set_head PROVE TransHead(txn') = branch /\ todo' = <<>>
    <3>1. Top(txn') = Top(txn) /\ todo' = <<>>
      BY <1>1, <1>3, <2>3 DEF OnlyStGit, UncommitAlone
    <3>2. TransHead(txn) = branch
      BY <1>1, <2>3 DEF HeadInv, StaysPut
    <3> QED BY <1>1, <2>1, <3>1, <3>2 DEF TransHead
  <2> QED BY <1>1, <2>2, <2>3, HeadStep
<1> QED BY <1>2, <1>3 DEF MethodDone

\* A call that a method makes preserves the invariant of the head.
LEMMA CallHead ==
  ASSUME IInv, HeadInv, CallMade
  PROVE  HeadInv'
<1>1. /\ pc = "body" /\ todo # <<>> /\ UNCHANGED <<stateLog, branch, opts, stk>>
  BY DEF CallMade
<1>2. txn.head = NoCommit /\ opts.set_head
  BY <1>1 DEF HeadInv, FixedHead, StaysPut, IInv, TypeOK, AllOptions
<1>3. FixedHead'
  <2>1. CASE txn'.head = txn.head
    BY <1>2, <2>1 DEF FixedHead
  <2>2. CASE txn'.applied # <<>> /\ txn'.head = Top(txn') /\ pc' = "execute"
    BY <2>2 DEF FixedHead, Top, TopOf
  <2> QED BY <2>1, <2>2 DEF CallMade
<1> QED BY <1>1, <1>2, <1>3, HeadStep

\* A new state on its top at the end of the log.
LEMMA AppendOnTop ==
  ASSUME IInv, LogOnTop, NEW s \in States, s.head = StateTop(s), stateLog' = Append(stateLog, s)
  PROVE  LogOnTop' /\ State' = s
<1>1. stateLog \in Seq(States)
  BY DEF IInv, TypeOK
<1>2. /\ Len(stateLog') = Len(stateLog) + 1 /\ Len(stateLog) \in Nat
      /\ stateLog'[Len(stateLog) + 1] = s
      /\ \A i \in 1..Len(stateLog) : stateLog'[i] = stateLog[i]
  BY <1>1
<1>3. \A i \in 1..Len(stateLog') : stateLog'[i].head = StateTop(stateLog'[i])
  BY <1>2 DEF LogOnTop
<1> QED BY <1>2, <1>3 DEF LogOnTop, State

\* The end of a transaction preserves the invariant of the head.
LEMMA OverHead ==
  ASSUME OnlyStGit, IInv, HeadInv, NEW how, Over(how)
  PROVE  HeadInv'
<1>1. pc' = "idle" /\ txn' = Begin(Oldest, Oldest.head, "disallow")
  BY DEF Over, End, NoTxn
<1>2. txn'.head = NoCommit
  BY <1>1 DEF Begin
<1>3. FixedHead' /\ OpenedHere' /\ StaysPut'
  BY <1>1, <1>2 DEF FixedHead, OpenedHere, StaysPut
<1>4. CASE UNCHANGED <<stateLog, branch, patchRefs>>
  BY <1>3, <1>4 DEF HeadInv, LogOnTop, State
<1>5. CASE pc = "critical" /\ EditAll
  <2>1. /\ stateLog' = Append(stateLog, NewState)
        /\ branch' = IF opts.set_head THEN TransHead(txn) ELSE branch
    BY <1>5 DEF EditAll, EditReferences
  <2>2. /\ NewState \in States /\ NewState.head = StateTop(NewState) /\ NewState.head = TransHead(txn)
    BY NewStateGood, NewStateOnTop DEF HeadInv
  <2>3. LogOnTop' /\ State' = NewState
    BY <2>1, <2>2, AppendOnTop DEF HeadInv
  <2>4. branch' = TransHead(txn)
    BY <1>5, <2>1 DEF HeadInv, StaysPut
  <2> QED BY <1>3, <2>2, <2>3, <2>4 DEF HeadInv
<1> QED BY <1>4, <1>5 DEF Over, OnlyStGit

\* Every step preserves the invariant of the head.
LEMMA NextHead ==
  ASSUME OnlyStGit
  PROVE  IInv /\ ChainInv /\ HeadInv /\ [Next]_vars => HeadInv'
<1> SUFFICES ASSUME IInv, ChainInv, HeadInv, [Next]_vars PROVE HeadInv'
  OBVIOUS
<1>1. CASE User
  <2>1. EditFile \/ ResolveConflicts
    BY <1>1 DEF User, GitCommit, GitReset, OnlyStGit
  <2>2. UNCHANGED <<stateLog, branch, opts, stk, txn, todo, pc>> /\ pc = "idle"
    BY <2>1 DEF EditFile, ResolveConflicts, proc
  <2> QED BY <2>2 DEF HeadInv, LogOnTop, State, FixedHead, OpenedHere, StaysPut
<1>2. CASE UNCHANGED vars
  BY <1>2 DEF vars, repo, proc, HeadInv, LogOnTop, State, FixedHead, OpenedHere, StaysPut, TransHead, Top
<1>3. CASE RefuseMismatch
  BY <1>3 DEF RefuseMismatch, HeadInv, LogOnTop, State, FixedHead, OpenedHere, StaysPut
<1>4. CASE OpenStack
  <2>1. PICK o \in OptionSets : opts' = o /\ txn' = Begin(State, branch, o.conflicts)
    BY <1>4 DEF OpenStack
  <2>2. UNCHANGED <<stateLog, branch>> /\ stk'.head = branch /\ todo' = <<>>
    BY <1>4 DEF OpenStack
  <2>3. branch = State.head /\ State.head = StateTop(State)
    <3>1. Len(stateLog) \in 1..Len(stateLog)
      BY DEF IInv, TypeOK
    <3> QED BY <3>1 DEF HeadInv, LogOnTop, State
  <2>4. txn'.head = NoCommit /\ TransHead(txn') = branch
    BY <2>1, <2>3, BeginHead
  <2>5. LogOnTop' /\ (branch = State.head)'
    BY <2>2 DEF HeadInv, LogOnTop, State
  <2>6. FixedHead' /\ OpenedHere' /\ StaysPut'
    BY <2>1, <2>2, <2>4 DEF FixedHead, OpenedHere, StaysPut
  <2> QED BY <2>5, <2>6 DEF HeadInv
<1>5. CASE MethodDone
  BY <1>5, MethodHead
<1>6. CASE BodyFails \/ BodyReturns
  <2>1. pc = "body" /\ pc' = "execute" /\ todo' = <<>> /\ UNCHANGED <<stateLog, branch, opts, stk, txn>>
    BY <1>6 DEF BodyFails, BodyReturns, repo, body
  <2>2. FixedHead'
    BY <2>1 DEF HeadInv, FixedHead
  <2>3. ~opts.set_head => TransHead(txn') = branch
    BY <2>1 DEF HeadInv, StaysPut
  <2> QED BY <2>1, <2>2, <2>3, HeadStep
<1>7. CASE CallMade
  BY <1>7, CallHead
<1>8. CASE ExecuteStarts \/ ExecuteChecksOut
  <2>1. /\ pc # "idle" /\ pc' # "body" /\ pc' # "idle" /\ UNCHANGED <<branch, opts, txn, todo>>
        /\ UNCHANGED <<stateLog, stk>> \/ stk.state.head # stk.head
    BY <1>8 DEF ExecuteStarts, ExecuteChecksOut
  <2>2. stk.state.head = stk.head
    BY <2>1 DEF IInv, OpenedState, HeadInv, OpenedHere
  <2>3. FixedHead' /\ (~opts.set_head => TransHead(txn') = branch /\ todo' = <<>>)
    BY <2>1 DEF HeadInv, FixedHead, StaysPut
  <2> QED BY <2>1, <2>2, <2>3, HeadStep
<1>9. ASSUME NEW how, Over(how) PROVE HeadInv'
  BY <1>9, OverHead
<1> QED BY <1>1, <1>2, <1>3, <1>4, <1>5, <1>6, <1>7, <1>8, <1>9, ClosureDone, StepDone, ExecuteDone
        DEF Next, Open

\* When only StGit moves the branch and the reference transaction is atomic,
\* the branch is, between commands, where the stack state says, and that is the
\* topmost applied patch: also after a conflict, a halt, a rollback, a ctrl-c
\* or a panic, and after undo, redo and uncommit.
THEOREM BranchIsTop ==
  ASSUME OnlyStGit
  PROVE  Spec => []HeadIsTop
<1>1. IInv /\ HeadInv => HeadIsTop
  <2> SUFFICES ASSUME IInv, HeadInv PROVE HeadIsTop
    OBVIOUS
  <2>1. Len(stateLog) \in 1..Len(stateLog)
    BY DEF IInv, TypeOK
  <2> QED BY <2>1 DEF HeadInv, LogOnTop, State, HeadIsTop
<1>2. IInv /\ ChainInv /\ HeadInv /\ [Next]_vars => HeadInv'
  BY NextHead
<1> QED BY <1>1, <1>2, InitHead, SpecChain, PTL DEF Spec
-----------------------------------------------------------------------------
(* What git did to the branch is logged.                                   *)

\* The stack has the head it was opened at and, once log_external_mods has
\* run, so has its state, the last one of the log.
OpenedHead ==
  /\ pc # "idle" => stk.head = snap.branch
  /\ pc \in {"checkout", "critical"} => stk.state.head = stk.head

\* Only execute() ends a transaction.
LEMMA EndsInExecute ==
  ASSUME Next, pc # "idle", pc' = "idle"
  PROVE  \/ NewAppliedPanics \/ ExecuteReturnsError \/ ExecuteCheckoutFails \/ CriticalSucceeds
         \/ CriticalInterrupted \/ CriticalRefused \/ CriticalTorn \/ Crash
<1>1. ~User /\ ~Open
  BY DEF User, EditFile, ResolveConflicts, GitCommit, GitReset, Open, OpenStack, RefuseMismatch
<1>2. \A method, t, cs : ~Call(method, t, cs)
  BY DEF Call
<1>3. ~Closure
  BY <1>2 DEF Closure, Pop, Delete, Push, PushSetTree, New, AddUnapplied, Update, Reorder,
     Hide, Unhide, Rename, Commit, Uncommit, Repair, Reset, ResetSome, BodyFails, BodyReturns
<1>4. /\ \A t, w, x, cur : ~PushAs(t, w, x, cur)
      /\ \A w, x, cur : ~Halt(w, x, cur)
  BY DEF PushAs, Halt
<1>5. ~Steps
  BY <1>4 DEF Steps, OpenTempIndex, CloseTempIndex, PushTrivially, PushApplied, PushHalts,
     PushMerged, PushConflicts, AssignLists, MoveBase
<1>6. ~ExecuteStarts /\ ~ExecuteChecksOut
  BY DEF ExecuteStarts, ExecuteChecksOut
<1> QED BY <1>1, <1>3, <1>5, <1>6 DEF Next, Execute

\* The outcomes of the endings: only a critical section that succeeds ends a
\* transaction well, and a rollback after a failed checkout or refused edits
\* aborts it.
LEMMA EndsHow ==
  ASSUME Next, pc # "idle", pc' = "idle"
  PROVE  /\ outcome' \in {"ok", "halted", "conflict"} => CriticalSucceeds
         /\ outcome' = "aborted" => ExecuteCheckoutFails \/ CriticalRefused
<1>1. /\ \A how : End(how) => outcome' = how
      /\ \A from, how : Rollback(from, how) => outcome' \in {how, "stuck"}
  BY DEF End, Rollback
<1>2. /\ NewAppliedPanics => outcome' = "panicked"
      /\ ExecuteReturnsError => outcome' = "error"
      /\ ExecuteCheckoutFails \/ CriticalRefused => outcome' \in {"aborted", "stuck"}
      /\ CriticalInterrupted => outcome' \in {"interrupted", "stuck"}
      /\ CriticalTorn => outcome' = "torn"
      /\ Crash => outcome' = "crashed"
  BY <1>1 DEF NewAppliedPanics, ExecuteReturnsError, ExecuteCheckoutFails, CriticalInterrupted,
     CriticalRefused, CriticalTorn, Crash
<1>3. CriticalSucceeds => outcome' \in {"ok", "halted", "conflict"}
  BY <1>1 DEF CriticalSucceeds
<1> QED BY <1>2, <1>3, EndsInExecute

\* In particular.
LEMMA EndsWell ==
  ASSUME Next, Ends({"ok", "halted", "conflict"})
  PROVE  CriticalSucceeds
BY EndsHow DEF Ends

\* Every step preserves what is known of the opened head.
LEMMA NextOpened == IInv /\ ChainInv /\ OpenedHead /\ [Next]_vars => OpenedHead'
<1> SUFFICES ASSUME IInv, ChainInv, OpenedHead, [Next]_vars PROVE OpenedHead'
  OBVIOUS
<1>1. CASE User \/ RefuseMismatch
  BY <1>1 DEF User, EditFile, ResolveConflicts, GitCommit, GitReset, RefuseMismatch, proc, OpenedHead
<1>2. CASE UNCHANGED vars
  BY <1>2 DEF vars, repo, proc, OpenedHead
<1>3. CASE OpenStack
  BY <1>3 DEF OpenStack, OpenedHead
<1>4. CASE MethodDone \/ CallMade
  BY <1>4 DEF MethodDone, Called, CallMade, OpenedHead
<1>5. CASE BodyFails \/ BodyReturns
  BY <1>5 DEF BodyFails, BodyReturns, repo, body, OpenedHead
<1>6. CASE ExecuteStarts
  <2>1. pc = "execute" /\ UNCHANGED snap
    BY <1>6 DEF ExecuteStarts
  <2>2. stk \in [state : States, head : Commits]
    BY DEF IInv, TypeOK
  <2>3. stk'.head = stk.head /\ stk'.state.head = stk.head
    BY <1>6, <2>2 DEF ExecuteStarts, States
  <2> QED BY <2>1, <2>3 DEF OpenedHead
<1>7. CASE ExecuteChecksOut
  BY <1>7 DEF ExecuteChecksOut, OpenedHead
<1>8. ASSUME NEW how, Over(how) PROVE OpenedHead'
  BY <1>8 DEF Over, End, OpenedHead
<1> QED BY <1>1, <1>2, <1>3, <1>4, <1>5, <1>6, <1>7, <1>8, ClosureDone, StepDone, ExecuteDone
        DEF Next, Open

\* A position of the branch that plain git made is in the log before a command
\* moves the branch, so that undo can go back to it: log_external_mods runs in
\* every transaction that ends well, before its references are edited.
THEOREM ExternalHeadsLogged == Spec => ExternalHeadLogged
<1>1. IInv /\ OpenedHead /\ [Next]_vars =>
        [Ends({"ok", "halted", "conflict"}) =>
           \E i \in 1..Len(stateLog') : stateLog'[i].head = snap.branch]_vars
  <2> SUFFICES ASSUME IInv, OpenedHead, Next, Ends({"ok", "halted", "conflict"})
               PROVE  \E i \in 1..Len(stateLog') : stateLog'[i].head = snap.branch
    OBVIOUS
  <2>1. pc = "critical" /\ stateLog' = Append(stateLog, NewState)
    BY EndsWell DEF CriticalSucceeds, EditAll, EditReferences
  <2>2. stateLog[Len(stateLog)].head = snap.branch
    BY <2>1 DEF OpenedHead, IInv, OpenedState, State
  <2>3. stateLog \in Seq(States) \ {<<>>} /\ NewState \in States
    BY NewStateGood DEF IInv, TypeOK
  <2>4. Len(stateLog) \in 1..Len(stateLog') /\ stateLog'[Len(stateLog)] = stateLog[Len(stateLog)]
    BY <2>1, <2>3
  <2> QED BY <2>2, <2>4
<1>2. Init => OpenedHead
  BY DEF Init, OpenedHead
<1> QED BY <1>1, <1>2, SpecChain, NextOpened, PTL DEF Spec, ExternalHeadLogged
-----------------------------------------------------------------------------
(* What the actions do with the worktree.                                  *)

\* A call that a method makes leaves the worktree, checks "ours" out before a
\* merge that cannot run, or merges.
WorkMade ==
  \/ /\ wd' = wd /\ txn'.tree = txn.tree
     /\ err' = err \/ (err' = "halt" /\ pc' = "execute")
  \/ /\ CanPush /\ opts.use_iw /\ ReadTreeOk(wd, txn.tree, Ours)
     /\ wd' = ReadTreeCheckout(wd, txn.tree, Ours) /\ txn'.tree = Ours
     /\ err' = "halt" /\ pc' = "execute"
  \/ /\ CanMerge /\ wd' = Merged
     /\ \/ Merged.unmerged = {} /\ txn'.tree = Merged.index /\ err' = err
        \/ PushConflicts

\* The tree of the transaction after a push_patch that goes on.
LEMMA PushAsTree ==
  ASSUME IInv, CanPush, NEW t \in Trees, NEW w, NEW x, NEW cur, PushAs(t, w, x, cur)
  PROVE  txn'.tree = cur /\ wd' = w /\ err' = err
<1>1. PICK u : u = PushPatch(txn, Pushed, t)
  OBVIOUS
<1>2. PushedAs(txn, Pushed, t, u) /\ Pushed \in Elems(txn.unapplied) \cup Elems(txn.hidden)
  BY <1>1, PushFacts DEF PushedAs
<1>3. u \in Transactions
  BY <1>2, PushPatchOK DEF IInv, WF
<1> QED BY <1>1, <1>3 DEF PushAs, Transactions

\* Every call that a method makes does one of these.
LEMMA StepWork ==
  ASSUME IInv, Steps
  PROVE  WorkMade
<1>0. txn \in Transactions /\ txn.tree \in Trees /\ wd \in Workdirs
  BY TxnFacts DEF IInv, TypeOK
<1>1. CASE OpenTempIndex \/ CloseTempIndex
  BY <1>1 DEF OpenTempIndex, CloseTempIndex, WorkMade, repo
<1>2. CASE PushTrivially
  <2>1. CanPush /\ PushAs(TrivialTree, wd, temp, txn.tree)
    BY <1>2 DEF PushTrivially
  <2>2. TrivialTree \in Trees
    BY <2>1, PushFacts DEF TrivialTree
  <2> QED BY <2>1, <2>2, PushAsTree DEF WorkMade
<1>3. CASE PushApplied
  <2>1. PICK t, x : t = MergeTree(OldParent, TempIndex, Theirs) /\ PushAs(t, wd, x, txn.tree)
    BY <1>3 DEF PushApplied
  <2>2. CanPush
    BY <1>3 DEF PushApplied
  <2>3. t \in Trees
    BY <1>0, <2>1, <2>2, PushFacts, WorkdirTypes
  <2> QED BY <2>1, <2>2, <2>3, PushAsTree DEF WorkMade
<1>4. CASE PushHalts
  <2>1. CASE Halt(wd, TempAfterFailure, txn.tree)
    BY <1>0, <2>1 DEF Halt, WorkMade, Transactions
  <2>2. CASE /\ opts.use_iw /\ ReadTreeOk(wd, txn.tree, Ours)
             /\ Halt(ReadTreeCheckout(wd, txn.tree, Ours), TempAfterFailure, Ours)
    <3>1. CanPush
      BY <1>4 DEF PushHalts, ApplyFails
    <3> QED BY <1>0, <2>2, <3>1 DEF Halt, WorkMade, Transactions
  <2> QED BY <1>4, <2>1, <2>2 DEF PushHalts
<1>5. CASE PushMerged
  <2>1. /\ CanPush /\ CanMerge /\ Merged.unmerged = {}
        /\ PushAs(Merged.index, Merged, TempAfterFailure, Merged.index)
    BY <1>5 DEF PushMerged, CanMerge, ApplyFails
  <2>2. Merged.index \in Trees
    BY <2>1, MergedType
  <2> QED BY <2>1, <2>2, PushAsTree DEF WorkMade
<1>6. CASE PushConflicts
  BY <1>6 DEF PushConflicts, WorkMade
<1>7. CASE AssignLists
  BY <1>0, <1>7 DEF AssignLists, WorkMade, repo, Transactions
<1>8. CASE MoveBase
  BY <1>0, <1>8 DEF MoveBase, CommitPatches, WorkMade, repo, Transactions
<1> QED BY <1>1, <1>2, <1>3, <1>4, <1>5, <1>6, <1>7, <1>8 DEF Steps

\* Where execute() changes the worktree, it has asked for the checkout.
LEMMA ExecuteWork ==
  ASSUME IInv, Execute
  PROVE  \/ wd' = wd
         \/ \E from, to \in Trees : CheckoutOk(wd, from, to) /\ wd' = CheckedOut(wd, from, to)
<1>1. txn.tree \in Trees /\ HeadTree \in Trees /\ Tree(stk.head) \in Trees
  BY TxnFacts, CommitTypes DEF HeadTree
<1>2. \A from, how : Rollback(from, how) =>
        \/ wd' = wd
        \/ CheckoutOk(wd, from, Tree(stk.head)) /\ wd' = CheckedOut(wd, from, Tree(stk.head))
  BY DEF Rollback
<1>3. CASE NewAppliedPanics \/ ExecuteReturnsError \/ ExecuteStarts \/ CriticalSucceeds \/ Crash
  BY <1>3 DEF NewAppliedPanics, ExecuteReturnsError, ExecuteStarts, CriticalSucceeds, Crash, repo
<1>4. CASE ExecuteChecksOut
  BY <1>1, <1>4 DEF ExecuteChecksOut
<1>5. CASE ExecuteCheckoutFails
  BY <1>1, <1>2, <1>5 DEF ExecuteCheckoutFails
<1>6. CASE CriticalInterrupted \/ CriticalRefused
  BY <1>1, <1>2, <1>6 DEF CriticalInterrupted, CriticalRefused
<1>7. CASE CriticalTorn
  BY <1>1, <1>7 DEF CriticalTorn
<1> QED BY <1>3, <1>4, <1>5, <1>6, <1>7 DEF Execute

\* The checkout before a merge and the merge itself keep local changes.
LEMMA MergedKeeps ==
  ASSUME IInv, CanMerge
  PROVE  \A f \in Dirty(wd) : Merged.work[f] = wd.work[f]
<1>0. CanPush
  BY DEF CanMerge, ApplyFails
<1>1. /\ wd \in Workdirs /\ txn.tree \in Trees /\ Ours \in Trees /\ OldParent \in Trees
      /\ Theirs \in Trees
  BY <1>0, TxnFacts, PushFacts DEF IInv, TypeOK
<1>2. PICK w : w = ReadTreeCheckout(wd, txn.tree, Ours)
  OBVIOUS
<1>3. \A f \in Dirty(wd) : w.work[f] = wd.work[f] /\ w.work[f] # w.index[f] /\ f \in Files
  BY <1>1, <1>2, CheckoutKeeps DEF CanMerge, Dirty
<1>4. MergeRecursiveOk(w, OldParent, Ours, Theirs) /\ Merged = MergeRecursive(w, OldParent, Ours, Theirs)
  BY <1>2 DEF CanMerge, Merged
<1> QED BY <1>1, <1>3, <1>4, MergeKeeps

\* No step of a command overwrites a file with local changes, unless the
\* command was told to discard changes: not the checkout of "ours" and the
\* merge in the middle of a push, not the checkout of execute() and not the
\* rollbacks after a failed checkout, a refused, interrupted or torn edit.
THEOREM LocalChangesSurvive == Spec => LocalChangesKept
<1>1. IInv /\ ChainInv /\ [Next]_vars =>
        [pc # "idle" /\ ~opts.discard =>
           \A f \in Dirty(wd) \ wd.unmerged : wd'.work[f] = wd.work[f]]_vars
  <2> SUFFICES ASSUME IInv, ChainInv, Next, pc # "idle", ~opts.discard, NEW f \in Dirty(wd)
               PROVE  wd'.work[f] = wd.work[f]
    OBVIOUS
  <2>0. wd \in Workdirs /\ txn.tree \in Trees
    BY TxnFacts DEF IInv, TypeOK
  <2>1. CASE User \/ Open
    BY <2>1 DEF User, EditFile, ResolveConflicts, GitCommit, GitReset, Open, OpenStack, RefuseMismatch
  <2>2. CASE Closure
    BY <2>2, ClosureDone DEF MethodDone, Called, BodyFails, BodyReturns, repo
  <2>3. CASE Steps
    <3>1. CASE wd' = wd
      BY <3>1
    <3>2. CASE CanPush /\ ReadTreeOk(wd, txn.tree, Ours) /\ wd' = ReadTreeCheckout(wd, txn.tree, Ours)
      <4>1. Ours \in Trees
        BY <3>2, PushFacts
      <4> QED BY <2>0, <3>2, <4>1, CheckoutKeeps
    <3>3. CASE CanMerge /\ wd' = Merged
      BY <3>3, MergedKeeps
    <3> QED BY <2>3, <3>1, <3>2, <3>3, StepWork DEF WorkMade
  <2>4. CASE Execute
    <3>1. CASE wd' = wd
      BY <3>1
    <3>2. ASSUME NEW from \in Trees, NEW to \in Trees, CheckoutOk(wd, from, to),
                 wd' = CheckedOut(wd, from, to)
          PROVE  wd'.work[f] = wd.work[f]
      <4>1. CASE from = to
        BY <3>2, <4>1 DEF CheckedOut
      <4>2. CASE from # to
        <5>1. ReadTreeOk(wd, from, to) /\ wd' = ReadTreeCheckout(wd, from, to)
          BY <3>2, <4>2 DEF CheckoutOk, CheckedOut
        <5> QED BY <2>0, <5>1, CheckoutKeeps
      <4> QED BY <4>1, <4>2
    <3> QED BY <2>4, <3>1, <3>2, ExecuteWork
  <2> QED BY <2>1, <2>2, <2>3, <2>4 DEF Next
<1> QED BY <1>1, SpecChain, PTL DEF Spec, LocalChangesKept
-----------------------------------------------------------------------------
(* The invariants of the worktree.                                         *)

\* While a command runs, the branch is where the command found it, and the
\* stack state is the one it found, or that with the branch's position logged.
Opened ==
  /\ pc # "idle" => /\ branch = snap.branch /\ stk.head = snap.branch /\ opts \in OptionSets
                    /\ State \in {snap.state, [snap.state EXCEPT !.head = snap.branch]}
  /\ pc = "body" => err = "none"
  /\ pc \in {"checkout", "critical"} => err # "error"

\* When nothing was staged, the worktree follows the transaction's tree and,
\* after the checkout of execute(), the tree of the new head.
Moved ==
  pc # "idle" /\ err # "conflict" /\ snap.wd.index = Tree(snap.branch) =>
    IF pc = "critical" /\ UsesWorktree
      THEN IF opts.discard THEN wd = ReadTreeCheckoutHard(HeadTree)
                           ELSE Follows(wd, HeadTree, snap.wd)
      ELSE Follows(wd, txn.tree, snap.wd)

\* The branch, the log and what was found do not change before the end.
LEMMA OpenedSame ==
  ASSUME Opened, UNCHANGED <<stateLog, branch, stk, opts, snap>>, pc # "idle",
         pc' = "body" => err' = "none", pc' \in {"checkout", "critical"} => err' # "error"
  PROVE  Opened'
BY DEF Opened, State

\* Every step preserves what is known of the opened repository.
LEMMA NextOpenedRepo == IInv /\ ChainInv /\ Opened /\ [Next]_vars => Opened'
<1> SUFFICES ASSUME IInv, ChainInv, Opened, [Next]_vars PROVE Opened'
  OBVIOUS
<1>1. CASE User
  <2>1. pc = "idle" /\ pc' = "idle"
    BY <1>1 DEF User, EditFile, ResolveConflicts, GitCommit, GitReset, proc
  <2> QED BY <2>1 DEF Opened
<1>2. CASE RefuseMismatch
  <2>1. pc = "idle" /\ pc' = "idle"
    BY <1>2 DEF RefuseMismatch
  <2> QED BY <2>1 DEF Opened
<1>3. CASE UNCHANGED vars
  BY <1>3 DEF vars, repo, proc, Opened, State
<1>4. CASE OpenStack
  BY <1>4 DEF OpenStack, Opened, State
<1>5. CASE Closure
  <2>1. /\ UNCHANGED <<stateLog, branch, stk, opts, snap>> /\ pc = "body" /\ (pc' = "body" => err' = err)
        /\ pc' \in {"body", "execute"}
    BY <1>5, ClosureDone DEF MethodDone, Called, BodyFails, BodyReturns, repo, body
  <2> QED BY <2>1, OpenedSame DEF Opened
<1>6. CASE Steps
  <2>1. UNCHANGED <<stateLog, branch, stk, opts, snap>> /\ pc = "body" /\ pc' \in {"body", "execute"}
    BY <1>6, StepDone DEF CallMade
  <2>2. pc' = "body" => err' = err
    BY <1>6, StepWork DEF WorkMade, PushConflicts
  <2> QED BY <2>1, <2>2, OpenedSame DEF Opened
<1>7. CASE ExecuteStarts
  <2>1. pc = "execute" /\ pc' = "checkout" /\ UNCHANGED <<branch, opts, snap>> /\ err' # "error"
    BY <1>7 DEF ExecuteStarts
  <2>2. stk \in [state : States, head : Commits] /\ stk.state = State /\ stk.head = snap.branch
    BY <2>1 DEF IInv, TypeOK, OpenedState, Opened
  <2>3. CASE UNCHANGED <<stateLog, stk>>
    BY <2>1, <2>3, OpenedSame
  <2>4. ASSUME NEW s, s = [stk.state EXCEPT !.head = stk.head],
               stateLog' = Append(stateLog, s), stk' = [stk EXCEPT !.state = s]
        PROVE  Opened'
    <3>1. stateLog \in Seq(States) \ {<<>>} /\ snap.state \in States /\ snap.branch \in Commits
      BY DEF IInv, TypeOK
    <3>2. s \in States
      BY <2>2, <2>4 DEF States
    <3>3. State' = s
      BY <2>4, <3>1, <3>2 DEF State
    <3>4. s = [snap.state EXCEPT !.head = snap.branch]
      <4>1. State = snap.state \/ State = [snap.state EXCEPT !.head = snap.branch]
        BY <2>1 DEF Opened
      <4> QED BY <2>2, <2>4, <3>1, <4>1 DEF States
    <3>5. stk'.head = stk.head
      BY <2>2, <2>4
    <3> QED BY <2>1, <3>3, <3>4, <3>5 DEF Opened
  <2> QED BY <1>7, <2>3, <2>4 DEF ExecuteStarts
<1>8. CASE ExecuteChecksOut
  <2>1. /\ pc = "checkout" /\ pc' = "critical" /\ UNCHANGED <<stateLog, branch, stk, opts, snap, err>>
    BY <1>8 DEF ExecuteChecksOut
  <2>2. err' # "error"
    BY <2>1 DEF Opened
  <2> QED BY <2>1, <2>2, OpenedSame
<1>9. ASSUME NEW how, Over(how) PROVE Opened'
  BY <1>9 DEF Over, End, Opened
<1> QED BY <1>1, <1>2, <1>3, <1>4, <1>5, <1>6, <1>7, <1>8, <1>9, ExecuteDone DEF Next, Open

\* The checkout of execute() in a worktree that follows the transaction's tree.
LEMMA CheckedOutFollows ==
  ASSUME NEW s \in Workdirs, NEW from \in Trees, NEW to \in Trees, IInv,
         Follows(wd, from, s), CheckoutOk(wd, from, to)
  PROVE  IF opts.discard THEN CheckedOut(wd, from, to) = ReadTreeCheckoutHard(to)
                         ELSE Follows(CheckedOut(wd, from, to), to, s)
<1>1. wd \in Workdirs
  BY DEF IInv, TypeOK
<1>2. CASE opts.discard
  BY <1>2 DEF CheckedOut
<1>3. CASE ~opts.discard /\ from = to
  BY <1>3 DEF CheckedOut
<1>4. CASE ~opts.discard /\ from # to
  BY <1>1, <1>4, CheckoutFollows DEF CheckedOut, CheckoutOk
<1> QED BY <1>2, <1>3, <1>4

\* Every step preserves how the worktree follows the transaction.
LEMMA NextMoved == IInv /\ ChainInv /\ Opened /\ Moved /\ [Next]_vars => Moved'
<1> SUFFICES ASSUME IInv, ChainInv, Opened, Moved, [Next]_vars PROVE Moved'
  OBVIOUS
<1>0. wd \in Workdirs /\ snap.wd \in Workdirs /\ txn.tree \in Trees /\ HeadTree \in Trees
  BY TxnFacts, CommitTypes DEF IInv, TypeOK, HeadTree
<1>1. CASE User \/ RefuseMismatch
  <2>1. pc' = "idle"
    BY <1>1 DEF User, EditFile, ResolveConflicts, GitCommit, GitReset, RefuseMismatch, proc
  <2> QED BY <2>1 DEF Moved
<1>2. CASE UNCHANGED vars
  BY <1>2 DEF vars, repo, proc, Moved, UsesWorktree, HeadTree, TransHead, Top, Follows
<1>3. CASE OpenStack
  <2>1. /\ pc' = "body" /\ wd' = wd /\ snap' = [branch |-> branch, state |-> State, wd |-> wd]
    BY <1>3 DEF OpenStack
  <2>2. txn'.tree = Tree(branch)
    BY <1>3 DEF OpenStack, Begin
  <2>3. snap'.wd.index = Tree(snap'.branch) => Follows(wd', txn'.tree, snap'.wd)
    BY <2>1, <2>2 DEF Follows
  <2> QED BY <2>1, <2>3 DEF Moved
<1>4. CASE Closure
  <2>1. /\ pc = "body" /\ pc' \in {"body", "execute"} /\ UNCHANGED <<wd, snap>> /\ err = "none"
        /\ txn'.tree = txn.tree
    BY <1>4, ClosureDone DEF MethodDone, Called, Kept, ResetDone, BodyFails, BodyReturns, repo, body, Opened
  <2>2. snap.wd.index = Tree(snap.branch) => Follows(wd', txn'.tree, snap'.wd)
    BY <2>1 DEF Moved
  <2> QED BY <2>1, <2>2 DEF Moved
<1>5. CASE Steps
  <2>1. /\ pc = "body" /\ pc' \in {"body", "execute"} /\ UNCHANGED snap /\ err = "none"
    BY <1>5, StepDone DEF CallMade, Opened
  <2>2. ASSUME snap.wd.index = Tree(snap.branch), err' # "conflict"
        PROVE  Follows(wd', txn'.tree, snap.wd)
    <3>1. Follows(wd, txn.tree, snap.wd)
      BY <2>1, <2>2 DEF Moved
    <3>2. CASE wd' = wd /\ txn'.tree = txn.tree
      BY <3>1, <3>2
    <3>3. CASE /\ CanPush /\ ReadTreeOk(wd, txn.tree, Ours)
               /\ wd' = ReadTreeCheckout(wd, txn.tree, Ours) /\ txn'.tree = Ours
      <4>1. Ours \in Trees
        BY <3>3, PushFacts
      <4> QED BY <1>0, <3>1, <3>3, <4>1, CheckoutFollows
    <3>4. CASE CanMerge /\ wd' = Merged /\ Merged.unmerged = {} /\ txn'.tree = Merged.index
      <4>1. CanPush /\ ReadTreeOk(wd, txn.tree, Ours)
        BY <3>4 DEF CanMerge, ApplyFails
      <4>2. Ours \in Trees /\ OldParent \in Trees /\ Theirs \in Trees
        BY <4>1, PushFacts
      <4>3. PICK w : w = ReadTreeCheckout(wd, txn.tree, Ours)
        OBVIOUS
      <4>4. w \in Workdirs /\ Follows(w, Ours, snap.wd)
        BY <1>0, <3>1, <4>1, <4>2, <4>3, CheckoutFollows, WorkdirTypes
      <4>5. /\ MergeRecursiveOk(w, OldParent, Ours, Theirs)
            /\ Merged = MergeRecursive(w, OldParent, Ours, Theirs)
        BY <3>4, <4>3 DEF CanMerge, Merged
      <4> QED BY <1>0, <3>4, <4>2, <4>4, <4>5, MergeFollows
    <3>5. ~PushConflicts
      BY <2>2 DEF PushConflicts
    <3> QED BY <1>5, <3>2, <3>3, <3>4, <3>5, StepWork DEF WorkMade
  <2> QED BY <2>1, <2>2 DEF Moved
<1>6. CASE ExecuteStarts
  <2>1. pc = "execute" /\ pc' = "checkout" /\ UNCHANGED <<wd, txn, err, snap>>
    BY <1>6 DEF ExecuteStarts
  <2> QED BY <2>1 DEF Moved
<1>7. CASE ExecuteChecksOut
  <2>1. pc = "checkout" /\ pc' = "critical" /\ UNCHANGED <<opts, txn, err, snap>>
    BY <1>7 DEF ExecuteChecksOut
  <2>2. HeadTree' = HeadTree /\ UsesWorktree' = UsesWorktree
    BY <2>1 DEF HeadTree, TransHead, Top, UsesWorktree
  <2>3. ASSUME err # "conflict", snap.wd.index = Tree(snap.branch)
        PROVE  IF UsesWorktree
                 THEN IF opts.discard THEN wd' = ReadTreeCheckoutHard(HeadTree)
                                      ELSE Follows(wd', HeadTree, snap.wd)
                 ELSE Follows(wd', txn.tree, snap.wd)
    <3>1. Follows(wd, txn.tree, snap.wd)
      BY <2>1, <2>3 DEF Moved
    <3>2. IF UsesWorktree THEN /\ CheckoutOk(wd, txn.tree, HeadTree)
                               /\ wd' = CheckedOut(wd, txn.tree, HeadTree)
                          ELSE wd' = wd
      BY <1>7 DEF ExecuteChecksOut
    <3> QED BY <1>0, <3>1, <3>2, CheckedOutFollows
  <2> QED BY <2>1, <2>2, <2>3 DEF Moved
<1>8. ASSUME NEW how, Over(how) PROVE Moved'
  BY <1>8 DEF Over, End, Moved
<1> QED BY <1>1, <1>2, <1>3, <1>4, <1>5, <1>6, <1>7, <1>8, ExecuteDone DEF Next, Open

\* All of this holds in every reachable state.
LEMMA SpecMoved == Spec => [](IInv /\ ChainInv /\ Opened /\ Moved)
<1>1. Init => Opened /\ Moved
  BY DEF Init, Opened, Moved
<1> QED BY <1>1, SpecChain, NextOpenedRepo, NextMoved, PTL DEF Spec

\* A command that uses the worktree, starts on a clean one and ends well, or
\* with a halt, leaves it clean at the tree of the new branch head: the merges
\* that pushes make in the worktree on the way leave nothing behind.
THEOREM CleanWorktreeStays == Spec => CleanStaysClean
<1>1. IInv /\ Moved /\ [Next]_vars =>
        [/\ Ends({"ok", "halted"}) /\ UsesWorktree
         /\ snap.wd = ReadTreeCheckoutHard(Tree(snap.branch))
         => wd' = ReadTreeCheckoutHard(Tree(branch'))]_vars
  <2> SUFFICES ASSUME IInv, Moved, Next, Ends({"ok", "halted"}), UsesWorktree,
                      snap.wd = ReadTreeCheckoutHard(Tree(snap.branch))
               PROVE  wd' = ReadTreeCheckoutHard(Tree(branch'))
    OBVIOUS
  <2>1. CriticalSucceeds
    BY EndsWell DEF Ends
  <2>2. pc = "critical" /\ wd' = wd /\ branch' = TransHead(txn) /\ outcome' \in {"ok", "halted"}
    BY <2>1 DEF CriticalSucceeds, EditAll, EditReferences, Ends, UsesWorktree
  <2>3. err # "conflict"
    BY <2>1, <2>2 DEF CriticalSucceeds, End
  <2>4. /\ snap.wd.index = Tree(snap.branch) /\ Tree(snap.branch) \in Trees
        /\ wd \in Workdirs /\ HeadTree \in Trees
    <3>1. snap.branch \in Commits /\ wd \in Workdirs
      BY DEF IInv, TypeOK
    <3> QED BY <3>1, CommitTypes, TxnFacts DEF ReadTreeCheckoutHard, HeadTree
  <2>5. wd = ReadTreeCheckoutHard(HeadTree) \/ Follows(wd, HeadTree, snap.wd)
    BY <2>2, <2>3, <2>4 DEF Moved
  <2>6. wd = ReadTreeCheckoutHard(HeadTree)
    BY <2>4, <2>5, FollowsClean
  <2> QED BY <2>2, <2>6 DEF HeadTree
<1> QED BY <1>1, SpecMoved, PTL DEF Spec, CleanStaysClean
\* A command that does not check out the new head has not touched the worktree.
Still ==
  pc # "idle" /\ ~UsesWorktree =>
    txn.tree = Tree(snap.branch) /\ (~opts.set_head => todo = <<>>)

\* Every step preserves it.
LEMMA NextStill ==
  ASSUME UncommitAlone
  PROVE  IInv /\ ChainInv /\ Opened /\ Still /\ [Next]_vars => Still'
<1> SUFFICES ASSUME IInv, ChainInv, Opened, Still, [Next]_vars PROVE Still'
  OBVIOUS
<1>1. CASE User \/ RefuseMismatch
  <2>1. pc' = "idle"
    BY <1>1 DEF User, EditFile, ResolveConflicts, GitCommit, GitReset, RefuseMismatch, proc
  <2> QED BY <2>1 DEF Still
<1>2. CASE UNCHANGED vars
  BY <1>2 DEF vars, repo, proc, Still, UsesWorktree
<1>3. CASE OpenStack
  BY <1>3 DEF OpenStack, Begin, Still
<1>4. CASE MethodDone
  <2>1. /\ pc = "body" /\ UNCHANGED <<opts, snap>> /\ txn'.tree = txn.tree /\ opts \in OptionSets
    BY <1>4 DEF MethodDone, Called, Kept, ResetDone, Opened
  <2>2. ~opts.set_head => todo' = <<>>
    BY <1>4, <2>1 DEF MethodDone, ResetDone, UncommitAlone
  <2> QED BY <2>1, <2>2 DEF Still, UsesWorktree
<1>5. CASE BodyFails \/ BodyReturns
  BY <1>5 DEF BodyFails, BodyReturns, repo, body, Still, UsesWorktree
<1>6. CASE Steps
  <2>1. pc = "body" /\ todo # <<>> /\ UNCHANGED <<opts, snap>>
    BY <1>6, StepDone DEF CallMade
  <2>2. CASE ~UsesWorktree
    <3>1. opts.set_head /\ ~opts.use_iw
      BY <2>1, <2>2 DEF Still, UsesWorktree, IInv, TypeOK, AllOptions
    <3>2. txn'.tree = txn.tree
      BY <1>6, <3>1, StepWork DEF WorkMade, CanMerge
    <3> QED BY <2>1, <2>2, <3>1, <3>2 DEF Still, UsesWorktree
  <2>3. CASE UsesWorktree
    BY <2>1, <2>3 DEF Still, UsesWorktree
  <2> QED BY <2>2, <2>3
<1>7. CASE ExecuteStarts \/ ExecuteChecksOut
  BY <1>7 DEF ExecuteStarts, ExecuteChecksOut, Still, UsesWorktree
<1>8. ASSUME NEW how, Over(how) PROVE Still'
  BY <1>8 DEF Over, End, Still
<1> QED BY <1>1, <1>2, <1>3, <1>4, <1>5, <1>6, <1>7, <1>8, ClosureDone, ExecuteDone DEF Next, Open

\* A rollback from the tree that the worktree follows restores it.
LEMMA RollbackBack ==
  ASSUME IInv, NEW from \in Trees, ~opts.discard, CheckoutOk(wd, from, Tree(stk.head)),
         snap.wd.index = Tree(stk.head), Follows(wd, from, snap.wd)
  PROVE  CheckedOut(wd, from, Tree(stk.head)) = snap.wd
<1>1. snap.wd \in Workdirs /\ Tree(stk.head) \in Trees
  BY TxnFacts, CommitTypes DEF IInv, TypeOK
<1>2. PICK v : v = CheckedOut(wd, from, Tree(stk.head))
  OBVIOUS
<1>3. v \in Workdirs /\ Follows(v, Tree(stk.head), snap.wd)
  BY <1>1, <1>2, CheckedOutFollows, RollbackType
<1> QED BY <1>1, <1>2, <1>3, FollowsBack

\* "command aborted (all changes rolled back)": when the checkout fails or the
\* references are refused, and nothing was staged before, references, index and
\* worktree are those the command found, local changes and the merges that
\* pushes made on the way included; only a position that git gave the branch
\* may have been logged.
THEOREM AbortedRestores ==
  ASSUME UncommitAlone
  PROVE  Spec => RollbackRestores
<1>1. IInv /\ Opened /\ Moved /\ Still /\ [Next]_vars =>
        [/\ Ends({"aborted"}) /\ err # "conflict" /\ ~opts.discard
         /\ snap.wd.index = Tree(snap.branch)
         => /\ branch' = snap.branch
            /\ State' = [snap.state EXCEPT !.head = State'.head]
            /\ State'.head \in {snap.state.head, branch'}
            /\ wd' = snap.wd]_vars
  <2> SUFFICES ASSUME IInv, Opened, Moved, Still, Next, Ends({"aborted"}), err # "conflict",
                      ~opts.discard, snap.wd.index = Tree(snap.branch)
               PROVE  /\ branch' = snap.branch
                      /\ State' = [snap.state EXCEPT !.head = State'.head]
                      /\ State'.head \in {snap.state.head, branch'}
                      /\ wd' = snap.wd
    OBVIOUS
  <2>1. pc # "idle" /\ outcome' = "aborted" /\ (ExecuteCheckoutFails \/ CriticalRefused)
    BY EndsHow DEF Ends
  <2>2. branch' = branch /\ State' = State
    BY <2>1 DEF ExecuteCheckoutFails, CriticalRefused, State
  <2>3. /\ branch = snap.branch /\ stk.head = snap.branch
        /\ State = snap.state \/ State = [snap.state EXCEPT !.head = snap.branch]
    BY <2>1 DEF Opened
  <2>4. snap.state \in States /\ wd \in Workdirs /\ snap.wd \in Workdirs
    BY DEF IInv, TypeOK
  <2>5. State' = [snap.state EXCEPT !.head = State'.head] /\ State'.head \in {snap.state.head, branch'}
    BY <2>2, <2>3, <2>4 DEF States
  <2>6. \A how : End(how) => outcome' = how
    BY DEF End
  <2>7. txn.tree \in Trees /\ HeadTree \in Trees
    BY TxnFacts, CommitTypes DEF HeadTree
  <2>8. CASE ExecuteCheckoutFails
    <3>1. CheckoutOk(wd, txn.tree, Tree(stk.head)) /\ wd' = CheckedOut(wd, txn.tree, Tree(stk.head))
      BY <2>1, <2>6, <2>8 DEF ExecuteCheckoutFails, Rollback
    <3>2. Follows(wd, txn.tree, snap.wd)
      BY <2>8 DEF ExecuteCheckoutFails, Moved
    <3> QED BY <2>2, <2>3, <2>5, <2>7, <3>1, <3>2, RollbackBack
  <2>9. CASE CriticalRefused
    <3>1. CheckoutOk(wd, HeadTree, Tree(stk.head)) /\ wd' = CheckedOut(wd, HeadTree, Tree(stk.head))
      BY <2>1, <2>6, <2>9 DEF CriticalRefused, Rollback
    <3>2. CASE UsesWorktree
      <4>1. Follows(wd, HeadTree, snap.wd)
        BY <2>9, <3>2 DEF CriticalRefused, Moved
      <4> QED BY <2>2, <2>3, <2>5, <2>7, <3>1, <4>1, RollbackBack
    <3>3. CASE ~UsesWorktree
      <4>1. Follows(wd, txn.tree, snap.wd) /\ txn.tree = snap.wd.index
        BY <2>9, <3>3 DEF CriticalRefused, Moved, Still
      <4>2. wd = snap.wd /\ Tree(stk.head) = wd.index
        BY <2>3, <2>4, <4>1, FollowsBack
      <4>3. wd' = wd
        BY <2>4, <2>7, <3>1, <4>2, CheckoutIdle DEF CheckedOut
      <4> QED BY <2>2, <2>3, <2>5, <4>2, <4>3
    <3> QED BY <3>2, <3>3
  <2> QED BY <2>1, <2>8, <2>9
<1>2. Init => Still
  BY DEF Init, Still
<1>3. IInv /\ ChainInv /\ Opened /\ Still /\ [Next]_vars => Still'
  BY NextStill
<1> QED BY <1>1, <1>2, <1>3, SpecMoved, PTL DEF Spec, RollbackRestores
-----------------------------------------------------------------------------
\* After a conflict the patch is on top, the head is fixed to its commit, whose
\* tree is the transaction's, so that no later checkout touches the conflict.
Stopped ==
  pc # "idle" /\ err = "conflict" =>
    /\ txn.applied # <<>> /\ txn.head = Top(txn) /\ Tree(txn.head) = txn.tree
    /\ txn.conflicts = "allow"
    /\ opts.discard \/ wd.unmerged # {}

\* The commit of a patch that was pushed with a tree has that tree.
LEMMA PushedTree ==
  ASSUME NEW t, NEW p, WF(t, p), NEW n \in Elems(t.unapplied) \cup Elems(t.hidden),
         NEW tree \in Trees
  PROVE  Tree(PushPatch(t, n, tree).patches[n]) = tree
<1>1. t \in Transactions /\ Good(t) /\ t.patches \in PatchMaps
  BY DEF WF, Transactions
<1>2. n \in Names /\ n \in InLists(t)
  BY ElemsIff DEF WF, Transactions, InLists
<1>3. PICK c, e, v : c = t.patches[n] /\ e = MkCommit(Top(t), tree, Meta(c)) /\ v = PushPatch(t, n, tree)
  OBVIOUS
<1>4. Top(t) \in Commits /\ c \in Commits /\ Meta(c) \in Metas
  BY <1>1, <1>2, <1>3, TopType, PatchCommit, CommitTypes
<1>5. Tree(e) = tree
  <2>1. PICK x : x = [tree |-> tree, meta |-> Meta(c)]
    OBVIOUS
  <2>2. x \in [tree : Trees, meta : Metas] /\ x.tree = tree
    BY <1>4, <2>1
  <2>3. e = Append(Top(t), x) /\ Top(t) \in Seq([tree : Trees, meta : Metas])
    BY <1>3, <1>4, <2>1 DEF MkCommit, Commits
  <2>4. e[Len(e)] = x
    BY <2>2, <2>3
  <2> QED BY <2>2, <2>4 DEF Tree
<1>6. CASE tree = Tree(c) /\ v = Raise(t, n)
  <2>1. v.patches = t.patches
    BY <1>1, <1>6 DEF Raise, Transactions
  <2> QED BY <1>3, <1>6, <2>1
<1>7. CASE v = Raise(SetPatch(t, n, e), n)
  <2>1. v.patches = [t.patches EXCEPT ![n] = e]
    BY <1>1, <1>7 DEF Raise, SetPatch, Transactions
  <2>2. v.patches[n] = e
    BY <1>1, <1>2, <2>1 DEF PatchMaps
  <2> QED BY <1>3, <1>5, <2>2
<1> QED BY <1>3, <1>6, <1>7 DEF PushPatch

\* A push that stops at a conflict.
LEMMA ConflictStops ==
  ASSUME IInv, ChainInv, PushConflicts
  PROVE  Stopped'
<1>0. CanPush /\ Merged.unmerged # {} /\ wd' = Merged
  BY DEF PushConflicts, CanMerge, ApplyFails
<1>1. PICK u : u = PushPatch(txn, Pushed, Ours)
  OBVIOUS
<1>2. txn' = [u EXCEPT !.tree = Ours, !.conflicts = "allow", !.head = u.patches[Pushed]]
  BY <1>1 DEF PushConflicts
<1>3. /\ Pushed \in Elems(txn.unapplied) \cup Elems(txn.hidden) /\ Ours \in Trees
      /\ WF(txn, stk.state.patches)
  BY <1>0, PushFacts DEF IInv
<1>4. u \in Transactions
  <2>1. PushedAs(txn, Pushed, Ours, u)
    BY <1>1 DEF PushedAs
  <2> QED BY <1>3, <2>1, PushPatchOK DEF WF
<1>5. txn'.tree = Ours /\ txn'.conflicts = "allow" /\ txn'.head = u.patches[Pushed]
  BY <1>2, <1>4 DEF Transactions
<1>6. Tree(u.patches[Pushed]) = Ours
  BY <1>1, <1>3, PushedTree
<1>7. txn'.applied # <<>> /\ txn'.head = Top(txn')
  BY ConflictDone
<1> QED BY <1>0, <1>5, <1>6, <1>7 DEF Stopped, Top

\* Every step preserves what a conflict left.
LEMMA NextStopped == IInv /\ ChainInv /\ Opened /\ Stopped /\ [Next]_vars => Stopped'
<1> SUFFICES ASSUME IInv, ChainInv, Opened, Stopped, [Next]_vars PROVE Stopped'
  OBVIOUS
<1>1. CASE User \/ RefuseMismatch
  <2>1. pc' = "idle"
    BY <1>1 DEF User, EditFile, ResolveConflicts, GitCommit, GitReset, RefuseMismatch, proc
  <2> QED BY <2>1 DEF Stopped
<1>2. CASE UNCHANGED vars
  BY <1>2 DEF vars, repo, proc, Stopped, Top
<1>3. CASE OpenStack
  BY <1>3 DEF OpenStack, Stopped
<1>4. CASE Closure
  <2>1. pc = "body" /\ err' \in {err, "error"}
    BY <1>4, ClosureDone DEF MethodDone, Called, BodyFails, BodyReturns, repo, body
  <2>2. err' # "conflict"
    BY <2>1 DEF Opened
  <2> QED BY <2>2 DEF Stopped
<1>5. CASE Steps
  <2>1. CASE PushConflicts
    BY <2>1, ConflictStops
  <2>2. CASE ~PushConflicts
    <3>1. err' \in {err, "halt"} /\ pc = "body"
      BY <1>5, <2>2, StepWork, StepDone DEF WorkMade, CallMade
    <3>2. err' # "conflict"
      BY <3>1 DEF Opened
    <3> QED BY <3>2 DEF Stopped
  <2> QED BY <2>1, <2>2
<1>6. CASE ExecuteStarts
  <2>1. pc # "idle" /\ UNCHANGED <<txn, wd, opts, err>>
    BY <1>6 DEF ExecuteStarts
  <2>2. err = "conflict" =>
          /\ txn'.applied # <<>> /\ txn'.head = Top(txn') /\ Tree(txn'.head) = txn'.tree
          /\ txn'.conflicts = "allow" /\ (opts'.discard \/ wd'.unmerged # {})
    BY <2>1 DEF Stopped
  <2> QED BY <2>1, <2>2 DEF Stopped, Top
<1>7. CASE ExecuteChecksOut
  <2>1. pc # "idle" /\ UNCHANGED <<txn, opts, err>>
    BY <1>7 DEF ExecuteChecksOut
  <2>2. ASSUME err = "conflict" PROVE opts.discard \/ wd'.unmerged # {}
    <3>1. txn.head = Top(txn) /\ Tree(txn.head) = txn.tree /\ (opts.discard \/ wd.unmerged # {})
      BY <2>1, <2>2 DEF Stopped
    <3>2. HeadTree = txn.tree
      BY <3>1 DEF HeadTree, TransHead
    <3>3. wd' = wd \/ wd' = CheckedOut(wd, txn.tree, HeadTree)
      BY <1>7 DEF ExecuteChecksOut
    <3> QED BY <3>1, <3>2, <3>3 DEF CheckedOut
  <2>3. err = "conflict" =>
          /\ txn'.applied # <<>> /\ txn'.head = Top(txn') /\ Tree(txn'.head) = txn'.tree
          /\ txn'.conflicts = "allow"
    BY <2>1 DEF Stopped
  <2> QED BY <2>1, <2>2, <2>3 DEF Stopped, Top
<1>8. ASSUME NEW how, Over(how) PROVE Stopped'
  BY <1>8 DEF Over, End, Stopped
<1> QED BY <1>1, <1>2, <1>3, <1>4, <1>5, <1>6, <1>7, <1>8, ExecuteDone DEF Next, Open

\* A push that stops at a conflict puts the patch on top.
LEMMA ConflictOnTop ==
  ASSUME IInv, ChainInv, PushConflicts
  PROVE  /\ txn'.applied = Append(txn.applied, Pushed)
         /\ txn'.head = txn'.patches[Pushed] /\ Parent(txn'.head) = Top(txn)
<1>0. CanPush
  BY DEF PushConflicts, CanMerge, ApplyFails
<1>1. PICK n, u, c, e : /\ n = Pushed /\ u = PushPatch(txn, n, Ours) /\ c = txn.patches[n]
                        /\ e = MkCommit(Top(txn), Ours, Meta(c))
  OBVIOUS
<1>2. /\ n \in Elems(txn.unapplied) \cup Elems(txn.hidden) /\ Ours \in Trees
      /\ WF(txn, stk.state.patches)
  BY <1>0, <1>1, PushFacts DEF IInv
<1>3. txn \in Transactions /\ Good(txn) /\ txn.patches \in PatchMaps /\ n \in Names /\ n \in InLists(txn)
  BY <1>2, ElemsIff DEF WF, Transactions, InLists
<1>4. u \in Transactions
  <2>1. PushedAs(txn, n, Ours, u)
    BY <1>1 DEF PushedAs
  <2> QED BY <1>2, <2>1, PushPatchOK DEF WF
<1>5. txn' = [u EXCEPT !.tree = Ours, !.conflicts = "allow", !.head = u.patches[n]]
  BY <1>1 DEF PushConflicts
<1>6. txn'.applied = u.applied /\ txn'.patches = u.patches /\ txn'.head = u.patches[n]
  BY <1>4, <1>5 DEF Transactions
<1>7. u.applied = Append(txn.applied, n) /\ Parent(u.patches[n]) = Top(txn)
  <2>1. Top(txn) \in Commits /\ c \in Commits /\ Meta(c) \in Metas
    BY <1>1, <1>3, TopType, PatchCommit, CommitTypes
  <2>2. Parent(e) = Top(txn)
    BY <1>1, <1>2, <2>1, ParentOfNew
  <2>3. CASE Parent(c) = Top(txn) /\ u = Raise(txn, n)
    BY <1>1, <1>3, <2>3 DEF Raise, Transactions
  <2>4. CASE u = Raise(SetPatch(txn, n, e), n)
    <3>1. u.patches = [txn.patches EXCEPT ![n] = e] /\ u.applied = Append(txn.applied, n)
      BY <1>3, <2>4 DEF Raise, SetPatch, Transactions
    <3>2. u.patches[n] = e
      BY <1>3, <3>1 DEF PatchMaps
    <3> QED BY <2>2, <3>1, <3>2
  <2> QED BY <1>1, <2>3, <2>4 DEF PushPatch
<1> QED BY <1>1, <1>6, <1>7

\* Only such a push ends in a conflict, and then only execute() goes on.
LEMMA StopsOnce ==
  ASSUME IInv, ChainInv, Opened, Stopped, [Next]_vars
  PROVE  /\ err # "conflict" /\ err' = "conflict" => PushConflicts
         /\ err = "conflict" /\ pc # "idle" /\ pc' # "idle" => txn' = txn /\ (opts.discard \/ wd' = wd)
<1>0. err = "conflict" => pc # "body"
  BY DEF Opened
<1>1. CASE User \/ RefuseMismatch
  <2>1. pc' = "idle" /\ err' = err
    BY <1>1 DEF User, EditFile, ResolveConflicts, GitCommit, GitReset, RefuseMismatch, proc
  <2> QED BY <2>1
<1>2. CASE UNCHANGED vars
  BY <1>2 DEF vars, repo, proc
<1>3. CASE OpenStack
  BY <1>0, <1>3 DEF OpenStack
<1>4. CASE Closure
  <2>1. pc = "body" /\ err' \in {err, "error"}
    BY <1>4, ClosureDone DEF MethodDone, Called, BodyFails, BodyReturns, repo, body
  <2> QED BY <1>0, <2>1
<1>5. CASE Steps
  <2>1. pc = "body" /\ (PushConflicts \/ err' \in {err, "halt"})
    BY <1>5, StepWork, StepDone DEF WorkMade, CallMade
  <2> QED BY <1>0, <2>1
<1>6. CASE ExecuteStarts
  BY <1>6 DEF ExecuteStarts
<1>7. CASE ExecuteChecksOut
  <2>1. pc # "idle" /\ UNCHANGED <<txn, opts, err>>
    BY <1>7 DEF ExecuteChecksOut
  <2>2. ASSUME err = "conflict" PROVE opts.discard \/ wd' = wd
    <3>1. HeadTree = txn.tree
      BY <2>1, <2>2 DEF Stopped, HeadTree, TransHead
    <3>2. wd' = wd \/ wd' = CheckedOut(wd, txn.tree, HeadTree)
      BY <1>7 DEF ExecuteChecksOut
    <3> QED BY <3>1, <3>2 DEF CheckedOut
  <2> QED BY <2>1, <2>2
<1>8. ASSUME NEW how, Over(how)
      PROVE  /\ err # "conflict" /\ err' = "conflict" => PushConflicts
             /\ err = "conflict" /\ pc # "idle" /\ pc' # "idle" => txn' = txn /\ (opts.discard \/ wd' = wd)
  BY <1>8 DEF Over, End
<1> QED BY <1>1, <1>2, <1>3, <1>4, <1>5, <1>6, <1>7, <1>8, ExecuteDone DEF Next, Open

\* When a push stops at a conflict, in whatever method, it is the patch being pushed
\* that goes on top of the one below it; execute() changes neither the lists nor the
\* conflict any more, and installs that patch as the topmost one, the branch at its
\* commit and the conflict in the index, unless the command discards changes.
THEOREM ConflictStays == Spec => ConflictLeftToUser
<1>1. IInv /\ ChainInv /\ Opened /\ Stopped /\ [Next]_vars =>
        [/\ err # "conflict" /\ err' = "conflict" =>
              /\ txn'.applied = Append(txn.applied, Pushed)
              /\ txn'.head = txn'.patches[Pushed] /\ Parent(txn'.head) = Top(txn)
         /\ err = "conflict" /\ pc # "idle" /\ pc' # "idle" => txn' = txn /\ (opts.discard \/ wd' = wd)
         /\ Ends({"conflict"}) =>
              /\ State'.applied = txn.applied /\ State'.head = txn.head
              /\ State'.head = StateTop(State)'
              /\ opts.set_head => branch' = State'.head
              /\ opts.discard \/ (wd' = wd /\ wd.unmerged # {})]_vars
  <2> SUFFICES ASSUME IInv, ChainInv, Opened, Stopped, Next
               PROVE  /\ err # "conflict" /\ err' = "conflict" =>
                           /\ txn'.applied = Append(txn.applied, Pushed)
                           /\ txn'.head = txn'.patches[Pushed] /\ Parent(txn'.head) = Top(txn)
                      /\ err = "conflict" /\ pc # "idle" /\ pc' # "idle" => txn' = txn /\ (opts.discard \/ wd' = wd)
                      /\ Ends({"conflict"}) =>
                           /\ State'.applied = txn.applied /\ State'.head = txn.head
                           /\ State'.head = StateTop(State)'
                           /\ opts.set_head => branch' = State'.head
                           /\ opts.discard \/ (wd' = wd /\ wd.unmerged # {})
    OBVIOUS
  <2>1. /\ err # "conflict" /\ err' = "conflict" => PushConflicts
        /\ err = "conflict" /\ pc # "idle" /\ pc' # "idle" => txn' = txn /\ (opts.discard \/ wd' = wd)
    BY StopsOnce
  <2>2. PushConflicts => /\ txn'.applied = Append(txn.applied, Pushed)
                         /\ txn'.head = txn'.patches[Pushed] /\ Parent(txn'.head) = Top(txn)
    BY ConflictOnTop
  <2>3. ASSUME Ends({"conflict"})
        PROVE  /\ State'.applied = txn.applied /\ State'.head = txn.head
               /\ State'.head = StateTop(State)'
               /\ opts.set_head => branch' = State'.head
               /\ opts.discard \/ (wd' = wd /\ wd.unmerged # {})
    <3>1. CriticalSucceeds /\ outcome' = "conflict"
      BY <2>3, EndsHow DEF Ends
    <3>2. /\ pc = "critical" /\ wd' = wd /\ EditReferences(txn.touched, TRUE, opts.set_head)
          /\ branch' = IF opts.set_head THEN TransHead(txn) ELSE branch
      BY <3>1 DEF CriticalSucceeds, EditAll, EditReferences
    <3>3. err = "conflict"
      <4>1. err \in {"none", "halt", "conflict"}
        BY <3>2 DEF Opened, IInv, TypeOK
      <4> QED BY <3>1, <4>1 DEF CriticalSucceeds, End
    <3>4. /\ txn.applied # <<>> /\ txn.head = Top(txn) /\ (opts.discard \/ wd.unmerged # {})
      BY <3>2, <3>3 DEF Stopped
    <3>5. State' = NewState
      <4>1. txn.touched \in SUBSET Names /\ opts.set_head \in BOOLEAN
        BY TxnFacts DEF IInv, TypeOK, AllOptions, Transactions
      <4> QED BY <3>2, <4>1, EditTypesOK
    <3>6. NewState.applied = txn.applied /\ NewState.head = Top(txn) /\ TransHead(txn) = Top(txn)
      BY <3>4 DEF NewState, TransHead
    <3>7. StateTop(State)' = StateTop(NewState) /\ StateTop(NewState) = Top(txn)
      BY <3>4, <3>5 DEF StateTop, TopOf, NewState, Top
    <3> QED BY <3>2, <3>4, <3>5, <3>6, <3>7
  <2> QED BY <2>1, <2>2, <2>3
<1>2. Init => Stopped
  BY DEF Init, Stopped
<1> QED BY <1>1, <1>2, SpecMoved, NextStopped, PTL DEF Spec, ConflictLeftToUser
=============================================================================
