---------------------------- MODULE UndoLogProofs ----------------------------
(***************************************************************************)
(* What undo and redo find in the log, for every log, every number of      *)
(* undos and redos and every width of the numbers: the log with its        *)
(* messages implements UndoHistory.                                        *)
(*                                                                         *)
(* The argument: at every entry of the log there is a list of the entries  *)
(* that can be undone to, and one of the entries that can be redone to.    *)
(* Both follow from the entry and the lists of the entry before it, and    *)
(* find_undo_state counts from the end of one of them.                     *)
(***************************************************************************)
EXTENDS UndoLog, Iteration, TLAPS

\* Nobody runs undo or redo right after git moved the branch: those look the state
\* up before the move is logged, and their number then counts from another entry.
NoUndoAfterGit == UndoAfterGit = FALSE

\* The numbers of redo are positive as isize too.
SmallRedo == \A n \in RedoNumbers : n < Half

\* Such a number survives the conversion to isize and its negation.
LEMMA SmallRedoSteps ==
  ASSUME SmallRedo, NEW n \in RedoNumbers
  PROVE  RedoSteps(n) = -n /\ n \in Nat \ {0} /\ n < Half
<1>1. PICK h, m : h = Half /\ m = 2^Width
  OBVIOUS
<1>2. h \in Nat \ {0} /\ m \in Nat \ {0} /\ m = 2 * h /\ n \in Nat \ {0} /\ n < h
  BY <1>1, WidthAssumption, NumbersAssumption DEF Half, SmallRedo
<1>3. n + h \in 0..(m - 1) /\ (-n) + h \in 0..(m - 1)
  BY <1>2
<1>4. (n + h) % m = n + h /\ ((-n) + h) % m = (-n) + h
  BY <1>2, <1>3
<1>5. AsIsize(n) = n /\ AsIsize(-n) = -n
  <2>1. AsIsize(n) = ((n + h) % m) - h
    BY <1>1, Zenon DEF AsIsize
  <2>2. AsIsize(-n) = (((-n) + h) % m) - h
    BY <1>1, Zenon DEF AsIsize
  <2> QED BY <1>2, <1>4, <2>1, <2>2
<1> QED BY <1>1, <1>2, <1>5 DEF RedoSteps
-----------------------------------------------------------------------------
(* Counting from the end of a list of entries. *)

\* The m-th entry from the end, or 0.
Back(Q, m) == IF m <= Len(Q) THEN Q[Len(Q) - m + 1] ELSE 0

\* Lists of entries below i, the first one in ascending order.
Below(i, W) == W \in Seq(Nat) /\ \A a \in 1..Len(W) : W[a] \in 1..(i - 1)

Rising(Q) == \A a, b \in 1..Len(Q) : a < b => Q[a] < Q[b]

\* The beginning of a list.
LEMMA Shorter ==
  ASSUME NEW Q, NEW i \in Nat, Below(i, Q), NEW n \in 1..Len(Q), NEW R, R = SubSeq(Q, 1, Len(Q) - n)
  PROVE  /\ Below(i, R) /\ Below(i + 1, R)
         /\ \A m \in Nat \ {0} : Back(R, m) = Back(Q, m + n)
<1>1. PICK l : l = Len(Q)
  OBVIOUS
<1>2. Q \in Seq(Nat) /\ l \in Nat /\ n \in 1..l /\ l - n \in 0..l
  BY <1>1 DEF Below
<1>3. R \in Seq(Nat) /\ Len(R) = l - n /\ \A a \in 1..(l - n) : R[a] = Q[a]
  BY <1>1, <1>2
<1>4. \A a \in 1..(l - n) : a \in 1..l
  BY <1>2
<1>5. Below(i, R) /\ Below(i + 1, R)
  <2>1. ASSUME NEW a \in 1..(l - n) PROVE R[a] \in 1..(i - 1) /\ R[a] \in 1..((i + 1) - 1)
    <3>1. Q[a] \in 1..(i - 1)
      BY <1>1, <1>4 DEF Below
    <3> QED BY <1>3, <3>1
  <2> QED BY <1>3, <2>1 DEF Below
<1>6. ASSUME NEW m \in Nat \ {0} PROVE Back(R, m) = Back(Q, m + n)
  <2>1. CASE m <= l - n
    <3>1. m + n <= l /\ (l - n) - m + 1 = l - (m + n) + 1 /\ (l - n) - m + 1 \in 1..(l - n)
      BY <1>2, <2>1
    <3>2. R[(l - n) - m + 1] = Q[l - (m + n) + 1]
      BY <1>3, <3>1
    <3> QED BY <1>1, <1>3, <2>1, <3>1, <3>2 DEF Back
  <2>2. CASE ~(m <= l - n)
    <3>1. ~(m + n <= l)
      BY <1>2, <2>2
    <3> QED BY <1>1, <1>3, <2>2, <3>1 DEF Back
  <2> QED BY <2>1, <2>2
<1> QED BY <1>5, <1>6

\* The beginning of an ascending list ascends.
LEMMA ShorterRises ==
  ASSUME NEW i, NEW Q, Below(i, Q), Rising(Q), NEW n \in 1..Len(Q)
  PROVE  Rising(SubSeq(Q, 1, Len(Q) - n))
<1>1. PICK l : l = Len(Q)
  OBVIOUS
<1>2. PICK R : R = SubSeq(Q, 1, l - n)
  OBVIOUS
<1>3. Q \in Seq(Nat) /\ l \in Nat /\ n \in 1..l /\ l - n \in 0..l
  BY <1>1 DEF Below
<1>4. Len(R) = l - n /\ \A a \in 1..(l - n) : R[a] = Q[a]
  BY <1>1, <1>2, <1>3
<1>5. \A a \in 1..(l - n) : a \in 1..l
  BY <1>3
<1> QED BY <1>1, <1>2, <1>4, <1>5 DEF Rising

\* A list with one more entry.
LEMMA Longer ==
  ASSUME NEW Q, NEW i \in Nat \ {0}, Below(i, Q), NEW R, R = Append(Q, i)
  PROVE  /\ R \in Seq(Nat) /\ Len(R) = Len(Q) + 1 /\ Below(i + 1, R)
         /\ \A a \in 1..Len(Q) : R[a] = Q[a]
         /\ R[Len(Q) + 1] = i
         /\ Rising(Q) => Rising(R)
         /\ Back(R, 1) = i
         /\ \A m \in Nat \ {0} : Back(R, m + 1) = Back(Q, m)
<1>1. PICK l : l = Len(Q)
  OBVIOUS
<1>2. Q \in Seq(Nat) /\ l \in Nat /\ \A a \in 1..l : Q[a] \in Nat /\ Q[a] < i
  BY <1>1 DEF Below
<1>3. R \in Seq(Nat) /\ Len(R) = l + 1 /\ R[l + 1] = i /\ \A a \in 1..l : R[a] = Q[a]
  BY <1>1, <1>2
<1>4. \A a \in 1..(l + 1) : a = l + 1 \/ a \in 1..l
  BY <1>2
<1>5. Below(i + 1, R)
  <2>1. ASSUME NEW a \in 1..(l + 1) PROVE R[a] \in 1..((i + 1) - 1)
    <3>1. CASE a = l + 1
      BY <1>3, <3>1
    <3>2. CASE a \in 1..l
      <4>1. Q[a] \in 1..(i - 1)
        BY <1>1, <3>2 DEF Below
      <4> QED BY <1>3, <3>2, <4>1
    <3> QED BY <1>4, <3>1, <3>2
  <2> QED BY <1>3, <2>1 DEF Below
<1>6. ASSUME Rising(Q) PROVE Rising(R)
  <2>1. ASSUME NEW a \in 1..(l + 1), NEW b \in 1..(l + 1), a < b PROVE R[a] < R[b]
    <3>1. a \in 1..l
      BY <1>2, <2>1
    <3>2. CASE b = l + 1
      BY <1>2, <1>3, <3>1, <3>2
    <3>3. CASE b \in 1..l
      BY <1>1, <1>3, <1>6, <2>1, <3>1, <3>3 DEF Rising
    <3> QED BY <1>4, <3>2, <3>3
  <2> QED BY <1>3, <2>1 DEF Rising
<1>7. Back(R, 1) = i
  <2>1. 1 <= l + 1 /\ (l + 1) - 1 + 1 = l + 1
    BY <1>2
  <2> QED BY <1>3, <2>1 DEF Back
<1>8. ASSUME NEW m \in Nat \ {0} PROVE Back(R, m + 1) = Back(Q, m)
  <2>1. (m + 1 <= l + 1) <=> (m <= l)
    BY <1>2
  <2>2. ASSUME m <= l PROVE R[(l + 1) - (m + 1) + 1] = Q[l - m + 1]
    <3>1. (l + 1) - (m + 1) + 1 = l - m + 1 /\ l - m + 1 \in 1..l
      BY <1>2, <2>2
    <3> QED BY <1>3, <3>1
  <2> QED BY <1>1, <1>3, <2>1, <2>2 DEF Back
<1> QED BY <1>1, <1>3, <1>5, <1>6, <1>7, <1>8

\* The empty list.
LEMMA Nothing ==
  /\ <<>> \in Seq(Nat) /\ Len(<<>>) = 0
  /\ \A i : Below(i, <<>>)
  /\ Rising(<<>>)
  /\ \A m \in Nat \ {0} : Back(<<>>, m) = 0
BY DEF Below, Rising, Back

\* The entry that counting back arrives at.
LEMMA BackIn ==
  ASSUME NEW Q, NEW i, Below(i, Q), NEW n \in 1..Len(Q)
  PROVE  Back(Q, n) \in 1..(i - 1) /\ Back(Q, n) = Q[Len(Q) - n + 1] /\ Len(Q) - n + 1 \in 1..Len(Q)
<1>1. Len(Q) \in Nat
  BY DEF Below
<1>2. n <= Len(Q) /\ Len(Q) - n + 1 \in 1..Len(Q)
  BY <1>1
<1> QED BY <1>2 DEF Back, Below
-----------------------------------------------------------------------------
(* The two lists of every entry. *)

Entries == [state : Positions, prev : Nat, kind : {"undo", "redo", "other"}, n : Nat,
            by : {"undo", "redo", "other", "external"}, at : Nat]

\* The entry e at position i, where Q and W are the lists of the position before.
EntryOK(Q, W, i, e) ==
  /\ e.prev = 0 \/ e.prev = i - 1
  /\ e.kind = "undo" => /\ i > 1 /\ e.prev = i - 1 /\ e.by = "undo"
                        /\ e.n \in 1..Len(Q) /\ e.at = Back(Q, e.n)
  /\ e.kind = "redo" => i > 1 /\ e.prev = i - 1 /\ e.by = "redo" /\ e.n \in 1..Len(W)
  /\ e.by \in {"undo", "redo"} => e.kind = e.by

UndoList(Q, i, e) ==
  IF e.prev = 0 THEN <<>>
  ELSE IF e.kind = "undo" THEN SubSeq(Q, 1, Len(Q) - e.n) ELSE Append(Q, i - 1)

RedoList(W, i, e) ==
  IF e.prev = 0 \/ e.kind = "other" THEN <<>>
  ELSE IF e.kind = "undo" THEN Append(W, i - 1) ELSE SubSeq(W, 1, Len(W) - e.n)

\* q and w are the lists of the entries of the log l.
Lists(l, q, w) ==
  /\ l \in Seq(Entries) /\ Len(l) >= 1
  /\ q = [i \in 0..Len(l) |-> q[i]] /\ w = [i \in 0..Len(l) |-> w[i]]
  /\ q[0] = <<>> /\ w[0] = <<>>
  /\ \A i \in 1..Len(l) : /\ EntryOK(q[i - 1], w[i - 1], i, l[i])
                          /\ q[i] = UndoList(q[i - 1], i, l[i]) /\ w[i] = RedoList(w[i - 1], i, l[i])
  /\ \A i \in 0..Len(l) : Below(i, q[i]) /\ Rising(q[i]) /\ Below(i, w[i])

\* The lists of the next entry are lists of entries below it.
LEMMA NextLists ==
  ASSUME NEW i \in Nat \ {0}, NEW Q, NEW W, Below(i - 1, Q), Rising(Q), Below(i - 1, W),
         NEW e \in Entries, EntryOK(Q, W, i, e)
  PROVE  /\ Below(i, UndoList(Q, i, e)) /\ Rising(UndoList(Q, i, e))
         /\ Below(i, RedoList(W, i, e))
<1>1. PICK j : j = i - 1
  OBVIOUS
<1>2. j \in Nat /\ i = j + 1 /\ i - 1 = j /\ Below(j, Q) /\ Below(j, W)
  BY <1>1
<1>3. CASE e.prev = 0
  BY <1>3, Nothing DEF UndoList, RedoList
<1>4. CASE e.prev # 0 /\ e.kind = "undo"
  <2>0. PICK d : d = e.n
    OBVIOUS
  <2>1. j \in Nat /\ j \in Nat \ {0} /\ d \in 1..Len(Q)
    BY <1>2, <1>4, <2>0 DEF EntryOK
  <2>2. PICK R : R = SubSeq(Q, 1, Len(Q) - d)
    OBVIOUS
  <2>3. Below(j + 1, R) /\ Rising(R)
    <3>1. j \in Nat /\ Below(j, Q) /\ d \in 1..Len(Q)
      BY <1>2, <2>1
    <3>2. Below(j + 1, R)
      BY <2>2, <3>1, Shorter
    <3>3. Rising(R)
      BY <2>2, <3>1, ShorterRises
    <3> QED BY <3>2, <3>3
  <2>4. PICK V : V = Append(W, j)
    OBVIOUS
  <2>5. Below(j + 1, V)
    BY <1>2, <2>1, <2>4, Longer
  <2>6. UndoList(Q, i, e) = R /\ RedoList(W, i, e) = V
    BY <1>2, <1>4, <2>0, <2>2, <2>4 DEF UndoList, RedoList
  <2> QED BY <1>2, <2>3, <2>5, <2>6
<1>5. CASE e.prev # 0 /\ e.kind # "undo"
  <2>1. j \in Nat \ {0}
    BY <1>2, <1>5 DEF EntryOK
  <2>2. PICK R : R = Append(Q, j)
    OBVIOUS
  <2>3. Below(j + 1, R) /\ Rising(R)
    BY <1>2, <2>1, <2>2, Longer
  <2>4. UndoList(Q, i, e) = R
    BY <1>2, <1>5, <2>2 DEF UndoList
  <2>5. CASE e.kind = "other"
    <3>1. RedoList(W, i, e) = <<>>
      BY <2>5 DEF RedoList
    <3> QED BY <1>2, <2>3, <2>4, <3>1, Nothing
  <2>6. CASE e.kind = "redo"
    <3>0. PICK d : d = e.n
      OBVIOUS
    <3>1. d \in 1..Len(W)
      BY <2>6, <3>0 DEF EntryOK
    <3>2. PICK V : V = SubSeq(W, 1, Len(W) - d)
      OBVIOUS
    <3>3. Below(j + 1, V)
      BY <1>2, <3>1, <3>2, Shorter
    <3>4. RedoList(W, i, e) = V
      BY <1>5, <2>6, <3>0, <3>2 DEF RedoList
    <3> QED BY <1>2, <2>3, <2>4, <3>3, <3>4
  <2>7. e.kind \in {"undo", "redo", "other"}
    BY DEF Entries
  <2> QED BY <1>5, <2>5, <2>6, <2>7
<1> QED BY <1>3, <1>4, <1>5

\* The lists of a log that ends in e, where Q and W are those of the entry before.
MoreLists(Q, W, e, m) ==
  \E r, v : /\ Lists(m, r, v)
            /\ r[Len(m)] = UndoList(Q, Len(m), e) /\ v[Len(m)] = RedoList(W, Len(m), e)

\* The lists when an entry is added to the log.
LEMMA AppendLists ==
  ASSUME NEW l, NEW q, NEW w, Lists(l, q, w), NEW e \in Entries,
         EntryOK(q[Len(l)], w[Len(l)], Len(l) + 1, e), NEW m, m = Append(l, e)
  PROVE  MoreLists(q[Len(l)], w[Len(l)], e, m)
<1>1. PICK n : n = Len(l)
  OBVIOUS
<1>2. n \in Nat /\ n >= 1 /\ l \in Seq(Entries)
  BY <1>1 DEF Lists
<1>3. m \in Seq(Entries) /\ Len(m) = n + 1 /\ m[n + 1] = e /\ \A i \in 1..n : m[i] = l[i]
  BY <1>1, <1>2
<1>4. PICK a, b : a = UndoList(q[n], n + 1, e) /\ b = RedoList(w[n], n + 1, e)
  OBVIOUS
<1>5. PICK r, v : /\ r = [i \in 0..(n + 1) |-> IF i = n + 1 THEN a ELSE q[i]]
                  /\ v = [i \in 0..(n + 1) |-> IF i = n + 1 THEN b ELSE w[i]]
  OBVIOUS
<1>6. /\ r = [i \in 0..(n + 1) |-> r[i]] /\ v = [i \in 0..(n + 1) |-> v[i]]
      /\ \A i \in 0..n : r[i] = q[i] /\ v[i] = w[i]
      /\ r[n + 1] = a /\ v[n + 1] = b
  <2>1. \A i \in 0..n : i \in 0..(n + 1) /\ i # n + 1
    BY <1>2
  <2>2. n + 1 \in 0..(n + 1)
    BY <1>2
  <2>3. \A i \in 0..n : r[i] = q[i] /\ v[i] = w[i]
    BY <1>5, <2>1, Zenon
  <2>4. r[n + 1] = a /\ v[n + 1] = b
    BY <1>5, <2>2, Zenon
  <2>5. r = [i \in 0..(n + 1) |-> r[i]] /\ v = [i \in 0..(n + 1) |-> v[i]]
    BY <1>5
  <2> QED BY <2>3, <2>4, <2>5
<1>7. r[0] = <<>> /\ v[0] = <<>>
  <2>1. q[0] = <<>> /\ w[0] = <<>>
    BY DEF Lists
  <2>2. 0 \in 0..n
    BY <1>2
  <2> QED BY <1>6, <2>1, <2>2
<1>8. ASSUME NEW i \in 1..(n + 1)
      PROVE  /\ EntryOK(r[i - 1], v[i - 1], i, m[i])
             /\ r[i] = UndoList(r[i - 1], i, m[i]) /\ v[i] = RedoList(v[i - 1], i, m[i])
  <2>1. CASE i = n + 1
    <3>1. i - 1 = n /\ n \in 0..n
      BY <1>2, <2>1
    <3>2. r[i - 1] = q[n] /\ v[i - 1] = w[n] /\ m[i] = e
      BY <1>3, <1>6, <2>1, <3>1
    <3> QED BY <1>1, <1>4, <1>6, <2>1, <3>2
  <2>2. CASE i \in 1..n
    <3>1. i - 1 \in 0..n /\ i \in 0..n
      BY <1>2, <2>2
    <3>2. r[i - 1] = q[i - 1] /\ v[i - 1] = w[i - 1] /\ m[i] = l[i] /\ r[i] = q[i] /\ v[i] = w[i]
      BY <1>3, <1>6, <2>2, <3>1
    <3>3. /\ EntryOK(q[i - 1], w[i - 1], i, l[i])
          /\ q[i] = UndoList(q[i - 1], i, l[i]) /\ w[i] = RedoList(w[i - 1], i, l[i])
      BY <1>1, <2>2 DEF Lists
    <3> QED BY <3>2, <3>3
  <2>3. i = n + 1 \/ i \in 1..n
    BY <1>2
  <2> QED BY <2>1, <2>2, <2>3
<1>9. ASSUME NEW i \in 0..(n + 1) PROVE Below(i, r[i]) /\ Rising(r[i]) /\ Below(i, v[i])
  <2>1. CASE i = n + 1
    <3>1. Below(n, q[n]) /\ Rising(q[n]) /\ Below(n, w[n]) /\ (n + 1) - 1 = n /\ n + 1 \in Nat \ {0}
      BY <1>1, <1>2 DEF Lists
    <3>2. EntryOK(q[n], w[n], n + 1, e)
      BY <1>1
    <3>3. Below(n + 1, a) /\ Rising(a) /\ Below(n + 1, b)
      BY <1>4, <3>1, <3>2, NextLists
    <3> QED BY <1>6, <2>1, <3>3
  <2>2. CASE i \in 0..n
    <3>1. Below(i, q[i]) /\ Rising(q[i]) /\ Below(i, w[i])
      BY <1>1, <2>2 DEF Lists
    <3> QED BY <1>6, <2>2, <3>1
  <2>3. i = n + 1 \/ i \in 0..n
    BY <1>2
  <2> QED BY <2>1, <2>2, <2>3
<1>10. Lists(m, r, v)
  <2>1. Len(m) >= 1
    BY <1>2, <1>3
  <2> HIDE DEF EntryOK, UndoList, RedoList, Below, Rising
  <2> QED BY <1>3, <1>6, <1>7, <1>8, <1>9, <2>1, Zenon DEF Lists
<1>11. /\ r[Len(m)] = UndoList(q[Len(l)], Len(m), e)
       /\ v[Len(m)] = RedoList(w[Len(l)], Len(m), e)
  BY <1>1, <1>3, <1>4, <1>6, Zenon
<1> QED BY <1>10, <1>11, Zenon DEF MoreLists
-----------------------------------------------------------------------------
(* find_undo_state counts from the end of the lists of an entry. *)

\* Counting from the end of the lists of an entry, by the lists of the one before.
LEMMA BackLists ==
  ASSUME NEW p \in Nat \ {0}, NEW Q, NEW W, Below(p, Q), Below(p, W),
         NEW e \in Entries, e.prev = p, EntryOK(Q, W, p + 1, e),
         NEW U, U = UndoList(Q, p + 1, e), NEW R, R = RedoList(W, p + 1, e)
  PROVE  /\ e.kind = "undo" => /\ \A m \in Nat \ {0} : Back(U, m) = Back(Q, m + e.n)
                               /\ Back(R, 1) = p
                               /\ \A m \in Nat \ {0} : Back(R, m + 1) = Back(W, m)
         /\ e.kind # "undo" => /\ Back(U, 1) = p
                               /\ \A m \in Nat \ {0} : Back(U, m + 1) = Back(Q, m)
         /\ e.kind = "redo" => \A m \in Nat \ {0} : Back(R, m) = Back(W, m + e.n)
         /\ e.kind = "other" => \A m \in Nat \ {0} : Back(R, m) = 0
<1>1. PICK d : d = e.n
  OBVIOUS
<1>2. (p + 1) - 1 = p /\ p \in Nat /\ e.prev # 0
  OBVIOUS
<1>3. ASSUME e.kind = "undo"
      PROVE  /\ \A m \in Nat \ {0} : Back(U, m) = Back(Q, m + e.n)
             /\ Back(R, 1) = p
             /\ \A m \in Nat \ {0} : Back(R, m + 1) = Back(W, m)
  <2>0. U = SubSeq(Q, 1, Len(Q) - d)
    BY <1>1, <1>2, <1>3 DEF UndoList
  <2>1. R = Append(W, p)
    BY <1>2, <1>3 DEF RedoList
  <2>2. d \in 1..Len(Q)
    BY <1>1, <1>3 DEF EntryOK
  <2>3. \A m \in Nat \ {0} : Back(U, m) = Back(Q, m + d)
    BY <1>2, <2>0, <2>2, Shorter
  <2>4. Back(R, 1) = p /\ \A m \in Nat \ {0} : Back(R, m + 1) = Back(W, m)
    BY <2>1, Longer
  <2> QED BY <1>1, <2>3, <2>4
<1>4. ASSUME e.kind # "undo"
      PROVE  Back(U, 1) = p /\ \A m \in Nat \ {0} : Back(U, m + 1) = Back(Q, m)
  <2>1. U = Append(Q, p)
    BY <1>2, <1>4 DEF UndoList
  <2> QED BY <2>1, Longer
<1>5. ASSUME e.kind = "redo" PROVE \A m \in Nat \ {0} : Back(R, m) = Back(W, m + e.n)
  <2>1. R = SubSeq(W, 1, Len(W) - d)
    BY <1>1, <1>2, <1>5 DEF RedoList
  <2>2. d \in 1..Len(W)
    BY <1>1, <1>5 DEF EntryOK
  <2>3. \A m \in Nat \ {0} : Back(R, m) = Back(W, m + d)
    BY <1>2, <2>1, <2>2, Shorter
  <2> QED BY <1>1, <2>3
<1>6. ASSUME e.kind = "other" PROVE \A m \in Nat \ {0} : Back(R, m) = 0
  BY <1>6, Nothing DEF RedoList
<1> QED BY <1>3, <1>4, <1>5, <1>6

\* Where s undos, or for a negative s that many redos, lead from entry j.
Reach(Q, W, j, s) == IF s = 0 THEN j ELSE IF s > 0 THEN Back(Q, s) ELSE Back(W, -s)

Reached(Q, W, j) == [s \in Int |-> Reach(Q, W, j, s)]
\* One round of the loop of find_undo_state.
LEMMA FindRound ==
  ASSUME NEW q, NEW w, Lists(log, q, w), NEW i \in 1..Last, NEW p, p = log[i].prev
  PROVE  FindFrom(i, Reached(q[p], w[p], p)) = Reached(q[i], w[i], i)
<1>1. PICK e : e = log[i]
  OBVIOUS
<1>2. PICK Q, W, U, R, b : Q = q[p] /\ W = w[p] /\ U = q[i] /\ R = w[i] /\ b = Reached(Q, W, p)
  OBVIOUS
<1>3. /\ Last \in Nat /\ i \in Nat /\ i - 1 \in 0..Last /\ e \in Entries /\ e.n \in Nat
      /\ e.kind \in {"undo", "redo", "other"} /\ e.prev = p
  <2>1. log \in Seq(Entries)
    BY DEF Lists
  <2>2. Last \in Nat /\ i \in Nat /\ i - 1 \in 0..Last /\ e \in Entries
    BY <1>1, <2>1 DEF Last
  <2>3. e.n \in Nat /\ e.kind \in {"undo", "redo", "other"}
    BY <2>2 DEF Entries
  <2> QED BY <1>1, <2>2, <2>3
<1>4. EntryOK(q[i - 1], w[i - 1], i, e)
  BY <1>1 DEF Lists, Last
<1>5. U = UndoList(q[i - 1], i, e) /\ R = RedoList(w[i - 1], i, e)
  BY <1>1, <1>2 DEF Lists, Last
<1>6. p = 0 \/ p = i - 1
  BY <1>3, <1>4 DEF EntryOK
<1>7. \A s \in Int : b[s] = Reach(Q, W, p, s)
  BY <1>2 DEF Reached
<1>8. ASSUME NEW s \in Int
      PROVE  (IF s = 0 THEN i
              ELSE IF s > 0 THEN b[IF e.kind = "undo" THEN s + e.n ELSE s - 1]
              ELSE IF e.kind = "undo" THEN b[s + 1]
              ELSE IF e.kind = "redo" THEN b[s - e.n]
              ELSE 0) = Reach(U, R, i, s)
  <2>1. CASE s = 0
    BY <2>1 DEF Reach
  <2>2. CASE p = 0 /\ s # 0
    <3>1. e.kind = "other"
      BY <1>3, <1>4, <2>2 DEF EntryOK
    <3>2. U = <<>> /\ R = <<>>
      BY <1>3, <1>5, <2>2 DEF UndoList, RedoList
    <3>3. Q = <<>> /\ W = <<>>
      BY <1>2, <2>2 DEF Lists
    <3>4. Reach(U, R, i, s) = 0
      <4>1. s > 0 \/ -s \in Nat \ {0}
        BY <2>2
      <4> QED BY <2>2, <3>2, <4>1, Nothing DEF Reach
    <3>5. ASSUME s > 0 PROVE b[s - 1] = 0
      <4>1. s - 1 = 0 \/ (s - 1 > 0 /\ s - 1 \in Nat \ {0})
        BY <3>5
      <4>2. b[s - 1] = Reach(Q, W, p, s - 1)
        BY <1>7
      <4> QED BY <2>2, <3>3, <4>1, <4>2, Nothing DEF Reach
    <3> QED BY <2>2, <3>1, <3>4, <3>5
  <2>3. CASE p # 0 /\ s # 0
    <3>1. p \in Nat \ {0} /\ i = p + 1 /\ p = i - 1 /\ p \in 0..Last
      BY <1>3, <1>6, <2>3
    <3>2. Below(p, Q) /\ Below(p, W)
      BY <1>2, <3>1 DEF Lists, Last
    <3>3. EntryOK(Q, W, p + 1, e) /\ U = UndoList(Q, p + 1, e) /\ R = RedoList(W, p + 1, e)
      BY <1>2, <1>4, <1>5, <3>1
    <3>4. /\ e.kind = "undo" => /\ \A m \in Nat \ {0} : Back(U, m) = Back(Q, m + e.n)
                                /\ Back(R, 1) = p
                                /\ \A m \in Nat \ {0} : Back(R, m + 1) = Back(W, m)
          /\ e.kind # "undo" => /\ Back(U, 1) = p
                                /\ \A m \in Nat \ {0} : Back(U, m + 1) = Back(Q, m)
          /\ e.kind = "redo" => \A m \in Nat \ {0} : Back(R, m) = Back(W, m + e.n)
          /\ e.kind = "other" => \A m \in Nat \ {0} : Back(R, m) = 0
      BY <1>3, <3>1, <3>2, <3>3, BackLists
    <3>5. CASE s > 0 /\ e.kind = "undo"
      <4>1. s \in Nat \ {0} /\ s + e.n \in Int /\ s + e.n > 0
        BY <1>3, <3>5
      <4>2. b[s + e.n] = Back(Q, s + e.n)
        BY <1>7, <4>1 DEF Reach
      <4>3. Back(U, s) = Back(Q, s + e.n)
        BY <3>4, <3>5, <4>1
      <4> QED BY <3>5, <4>2, <4>3 DEF Reach
    <3>6. CASE s > 0 /\ e.kind # "undo"
      <4>1. b[s - 1] = Reach(Q, W, p, s - 1)
        BY <1>7
      <4>2. CASE s = 1
        BY <3>4, <3>6, <4>1, <4>2 DEF Reach
      <4>3. CASE s # 1
        <5>1. PICK m : m = s - 1
          OBVIOUS
        <5>2. m \in Nat \ {0} /\ m > 0 /\ s = m + 1
          BY <3>6, <4>3, <5>1
        <5>3. Back(U, m + 1) = Back(Q, m)
          BY <3>4, <3>6, <5>2
        <5> QED BY <3>6, <4>1, <5>1, <5>2, <5>3 DEF Reach
      <4> QED BY <4>2, <4>3
    <3>7. CASE s < 0 /\ e.kind = "undo"
      <4>1. b[s + 1] = Reach(Q, W, p, s + 1)
        BY <1>7
      <4>2. CASE s = -1
        BY <3>4, <3>7, <4>1, <4>2 DEF Reach
      <4>3. CASE s # -1
        <5>1. PICK m : m = -(s + 1)
          OBVIOUS
        <5>2. m \in Nat \ {0} /\ s + 1 # 0 /\ ~(s + 1 > 0) /\ -s = m + 1
          BY <3>7, <4>3, <5>1
        <5>3. Back(R, m + 1) = Back(W, m)
          BY <3>4, <3>7, <5>2
        <5> QED BY <3>7, <4>1, <5>1, <5>2, <5>3 DEF Reach
      <4> QED BY <4>2, <4>3
    <3>8. CASE s < 0 /\ e.kind = "redo"
      <4>1. -s \in Nat \ {0} /\ s - e.n \in Int /\ s - e.n < 0 /\ -(s - e.n) = (-s) + e.n
        BY <1>3, <3>8
      <4>2. b[s - e.n] = Back(W, (-s) + e.n)
        BY <1>7, <4>1 DEF Reach
      <4>3. Back(R, -s) = Back(W, (-s) + e.n)
        BY <3>4, <3>8, <4>1
      <4> QED BY <3>8, <4>2, <4>3 DEF Reach
    <3>9. CASE s < 0 /\ e.kind = "other"
      <4>1. -s \in Nat \ {0}
        BY <3>9
      <4>2. Back(R, -s) = 0
        BY <3>4, <3>9, <4>1
      <4> QED BY <3>9, <4>2 DEF Reach
    <3> QED BY <1>3, <2>3, <3>5, <3>6, <3>7, <3>8, <3>9
  <2> QED BY <2>1, <2>2, <2>3
<1>9. Reached(U, R, i) = [s \in Int |-> Reach(U, R, i, s)]
  BY DEF Reached
<1>10. FindFrom(i, b) = [s \in Int |-> Reach(U, R, i, s)]
  BY <1>1, <1>8 DEF FindFrom
<1> QED BY <1>2, <1>9, <1>10
\* find_undo_state ends where counting from the end of the lists leads.
LEMMA FindLists ==
  ASSUME NEW q, NEW w, Lists(log, q, w), NEW s \in Int
  PROVE  FindUndoState(Last, s) = Reach(q[Last], w[Last], Last, s)
<1> DEFINE IsFind(f) == f = [j \in 0..Last |-> IF j = 0 THEN [t \in Int |-> 0] ELSE FindFrom(j, f[log[j].prev])]
<1>1. PICK g : g = CHOOSE f : IsFind(f)
  OBVIOUS
<1>2. FindUndoState(Last, s) = g[Last][s]
  BY <1>1, Zenon DEF FindUndoState
<1>3. PICK h : h = [j \in 0..Last |-> Reached(q[j], w[j], j)]
  OBVIOUS
<1>4. Last \in Nat
  BY DEF Lists, Last
<1>5. ASSUME NEW j \in 1..Last PROVE log[j].prev = 0 \/ log[j].prev = j - 1
  BY DEF Lists, Last, EntryOK
<1>6. h[0] = [t \in Int |-> 0]
  <2>1. q[0] = <<>> /\ w[0] = <<>>
    BY DEF Lists
  <2>2. ASSUME NEW t \in Int PROVE Reach(<<>>, <<>>, 0, t) = 0
    <3>1. t = 0 \/ t \in Nat \ {0} \/ -t \in Nat \ {0}
      OBVIOUS
    <3> QED BY <3>1, Nothing DEF Reach
  <2>3. h[0] = Reached(<<>>, <<>>, 0)
    BY <1>3, <1>4, <2>1
  <2> QED BY <2>2, <2>3 DEF Reached
<1>7. ASSUME NEW j \in 1..Last PROVE h[j] = FindFrom(j, h[log[j].prev])
  <2>1. PICK p : p = log[j].prev
    OBVIOUS
  <2>2. p \in 0..Last /\ j \in 0..Last
    BY <1>4, <1>5, <2>1
  <2>3. h[p] = Reached(q[p], w[p], p) /\ h[j] = Reached(q[j], w[j], j)
    BY <1>3, <2>2
  <2> QED BY <2>1, <2>3, FindRound
<1>8. IsFind(h)
  <2>1. h = [j \in 0..Last |-> h[j]]
    BY <1>3
  <2>2. \A j \in 0..Last : j # 0 => j \in 1..Last
    BY <1>4
  <2>3. \A j \in 0..Last : h[j] = IF j = 0 THEN [t \in Int |-> 0] ELSE FindFrom(j, h[log[j].prev])
    BY <1>6, <1>7, <2>2, Zenon
  <2> QED BY <2>1, <2>3, Zenon
<1>9. IsFind(g)
  <2> HIDE DEF IsFind
  <2> QED BY <1>1, <1>8, Zenon
<1>10. g[0] = [t \in Int |-> 0] /\ \A j \in 1..Last : g[j] = FindFrom(j, g[log[j].prev])
  <2>1. 0 \in 0..Last /\ \A j \in 1..Last : j \in 0..Last /\ j # 0
    BY <1>4
  <2> QED BY <1>9, <2>1, Zenon
<1> HIDE DEF IsFind
<1>11. PICK D : D = {k \in 0..Last : g[k] = h[k]}
  OBVIOUS
<1>12. 0 \in D
  BY <1>4, <1>6, <1>10, <1>11
<1>13. ASSUME NEW k \in 0..(Last - 1), k \in D PROVE k + 1 \in D
  <2>1. k + 1 \in 1..Last /\ k + 1 \in 0..Last /\ (k + 1) - 1 = k
    BY <1>4
  <2>2. PICK p : p = log[k + 1].prev
    OBVIOUS
  <2>3. p \in D
    BY <1>5, <1>12, <1>13, <2>1, <2>2
  <2>4. g[p] = h[p]
    BY <1>11, <2>3
  <2>5. g[k + 1] = FindFrom(k + 1, g[p]) /\ h[k + 1] = FindFrom(k + 1, h[p])
    BY <1>7, <1>10, <2>1, <2>2
  <2> QED BY <1>11, <2>1, <2>4, <2>5
<1>14. Last \in D
  <2>1. \A k \in 0..Last : k \in D
    BY <1>4, <1>12, <1>13, UpTo
  <2> QED BY <1>4, <2>1
<1>15. g[Last] = Reached(q[Last], w[Last], Last)
  <2>1. g[Last] = h[Last]
    BY <1>11, <1>14
  <2> QED BY <1>3, <1>4, <2>1
<1> QED BY <1>2, <1>15 DEF Reached
-----------------------------------------------------------------------------
(* The past and the undone states are the states of the entries of the lists. *)

States(l, Q) == [k \in 1..Len(Q) |-> l[Q[k]].state]

\* S are the states of Q, a list of entries below i, and change as Q does.
StatesFollow(l, i, Q, S) ==
  /\ S \in Seq(Positions) /\ Len(S) = Len(Q)
  /\ \A k \in 1..Len(Q) : S[k] = l[Q[k]].state
  /\ \A n \in 1..Len(Q) : SubSeq(S, 1, Len(S) - n) = States(l, SubSeq(Q, 1, Len(Q) - n))
  /\ i \in 1..Len(l) => Append(S, l[i].state) = States(l, Append(Q, i))

\* What becomes of the states when the list changes.
LEMMA StatesOf ==
  ASSUME NEW l \in Seq(Entries), NEW i \in 0..(Len(l) + 1), NEW Q, Below(i, Q), NEW S, S = States(l, Q)
  PROVE  StatesFollow(l, i, Q, S)
<1>1. PICK c : c = Len(Q)
  OBVIOUS
<1>2. Q \in Seq(Nat) /\ c \in Nat /\ \A k \in 1..c : Q[k] \in 1..(i - 1)
  BY <1>1 DEF Below
<1>3. ASSUME NEW k \in 1..c PROVE l[Q[k]].state \in Positions
  <2>1. Q[k] \in 1..Len(l)
    BY <1>2
  <2>2. l[Q[k]] \in Entries
    BY <2>1
  <2> QED BY <2>2 DEF Entries
<1>4. S = [k \in 1..c |-> l[Q[k]].state]
  BY <1>1 DEF States
<1>5. S \in Seq(Positions) /\ Len(S) = c /\ \A k \in 1..c : S[k] = l[Q[k]].state
  BY <1>2, <1>3, <1>4
<1>6. ASSUME NEW n \in 1..c PROVE SubSeq(S, 1, c - n) = States(l, SubSeq(Q, 1, c - n))
  <2>1. PICK R, T : R = SubSeq(Q, 1, c - n) /\ T = SubSeq(S, 1, c - n)
    OBVIOUS
  <2>2. c - n \in 0..c /\ \A k \in 1..(c - n) : k \in 1..c
    BY <1>2
  <2>3. Len(R) = c - n /\ \A k \in 1..(c - n) : R[k] = Q[k]
    BY <1>1, <1>2, <2>1, <2>2
  <2>4. T = [k \in 1..(c - n) |-> S[k]]
    BY <1>5, <2>1, <2>2
  <2>5. \A k \in 1..(c - n) : S[k] = l[R[k]].state
    BY <1>5, <2>2, <2>3
  <2>6. T = [k \in 1..(c - n) |-> l[R[k]].state]
    BY <2>4, <2>5
  <2> QED BY <2>1, <2>3, <2>6 DEF States
<1>7. ASSUME i \in 1..Len(l) PROVE Append(S, l[i].state) = States(l, Append(Q, i))
  <2>1. PICK R, T : R = Append(Q, i) /\ T = Append(S, l[i].state)
    OBVIOUS
  <2>2. \A k \in 1..(c + 1) : k = c + 1 \/ k \in 1..c
    BY <1>2
  <2>3. Len(R) = c + 1 /\ R[c + 1] = i /\ \A k \in 1..c : R[k] = Q[k]
    BY <1>1, <1>2, <2>1
  <2>4. T = [k \in 1..(c + 1) |-> T[k]] /\ T[c + 1] = l[i].state /\ \A k \in 1..c : T[k] = S[k]
    BY <1>5, <1>2, <2>1
  <2>5. \A k \in 1..(c + 1) : T[k] = l[R[k]].state
    BY <1>5, <2>2, <2>3, <2>4
  <2>6. T = [k \in 1..(c + 1) |-> l[R[k]].state]
    BY <2>4, <2>5
  <2> QED BY <2>1, <2>3, <2>6 DEF States
<1>8. \A n \in 1..Len(Q) : SubSeq(S, 1, Len(S) - n) = States(l, SubSeq(Q, 1, Len(Q) - n))
  BY <1>1, <1>5, <1>6
<1> QED BY <1>1, <1>5, <1>7, <1>8, Zenon DEF StatesFollow

\* No entries, no states.
LEMMA NoStates == ASSUME NEW l PROVE States(l, <<>>) = <<>>
<1>1. Len(<<>>) = 0 /\ 1..0 = {}
  OBVIOUS
<1> QED BY <1>1 DEF States

\* What can be undone and redone at an entry, by the states of the entry before.
LEMMA ListRound ==
  ASSUME NEW q, NEW w, Lists(log, q, w), NEW i \in 1..Last, NEW p, p = log[i].prev
  PROVE  /\ PastAt(i, States(log, q[p])) = States(log, q[i])
         /\ UndoneAt(i, States(log, w[p])) = States(log, w[i])
<1>1. PICK e, Q, W : e = log[i] /\ Q = q[p] /\ W = w[p]
  OBVIOUS
<1>2. log \in Seq(Entries)
  BY DEF Lists
<1>3. Last \in Nat /\ i \in Nat /\ i - 1 \in 0..Last /\ e \in Entries /\ Last = Len(log)
  BY <1>1, <1>2 DEF Last
<1>4. e.n \in Nat /\ e.kind \in {"undo", "redo", "other"} /\ e.prev = p
  BY <1>1, <1>3 DEF Entries
<1>5. EntryOK(q[i - 1], w[i - 1], i, e)
  BY <1>1 DEF Lists, Last
<1>6. q[i] = UndoList(q[i - 1], i, e) /\ w[i] = RedoList(w[i - 1], i, e)
  BY <1>1 DEF Lists, Last
<1>7. p = 0 \/ p = i - 1
  BY <1>4, <1>5 DEF EntryOK
<1>8. CASE p = 0
  <2>1. q[i] = <<>> /\ w[i] = <<>>
    BY <1>4, <1>6, <1>8 DEF UndoList, RedoList
  <2>2. PastAt(i, States(log, q[p])) = <<>> /\ UndoneAt(i, States(log, w[p])) = <<>>
    BY <1>8 DEF PastAt, UndoneAt
  <2> QED BY <2>1, <2>2, NoStates
<1>9. CASE p # 0
  <2>1. p = i - 1 /\ p \in 1..Len(log) /\ p \in 0..(Len(log) + 1) /\ p \in 0..Len(log)
    BY <1>3, <1>7, <1>9
  <2>2. Below(p, Q) /\ Below(p, W)
    BY <1>1, <2>1 DEF Lists
  <2>3. PICK S, T : S = States(log, Q) /\ T = States(log, W)
    OBVIOUS
  <2>4. /\ Len(S) = Len(Q)
        /\ \A n \in 1..Len(Q) : SubSeq(S, 1, Len(S) - n) = States(log, SubSeq(Q, 1, Len(Q) - n))
        /\ Append(S, log[p].state) = States(log, Append(Q, p))
    <3>1. StatesFollow(log, p, Q, S)
      BY <1>2, <2>1, <2>2, <2>3, StatesOf
    <3> QED BY <2>1, <3>1 DEF StatesFollow
  <2>5. /\ Len(T) = Len(W)
        /\ \A n \in 1..Len(W) : SubSeq(T, 1, Len(T) - n) = States(log, SubSeq(W, 1, Len(W) - n))
        /\ Append(T, log[p].state) = States(log, Append(W, p))
    <3>1. StatesFollow(log, p, W, T)
      BY <1>2, <2>1, <2>2, <2>3, StatesOf
    <3> QED BY <2>1, <3>1 DEF StatesFollow
  <2>6. PastAt(i, S) = States(log, UndoList(Q, i, e))
    <3>1. CASE e.kind = "undo"
      <4>1. e.n \in 1..Len(Q)
        BY <1>1, <1>5, <2>1, <3>1 DEF EntryOK
      <4>2. PastAt(i, S) = SubSeq(S, 1, Len(S) - e.n)
        BY <1>1, <1>9, <3>1 DEF PastAt
      <4>3. UndoList(Q, i, e) = SubSeq(Q, 1, Len(Q) - e.n)
        BY <1>4, <1>9, <3>1 DEF UndoList
      <4> QED BY <2>4, <4>1, <4>2, <4>3
    <3>2. CASE e.kind # "undo"
      <4>1. PastAt(i, S) = Append(S, log[p].state)
        BY <1>1, <1>9, <3>2 DEF PastAt
      <4>2. UndoList(Q, i, e) = Append(Q, p)
        BY <1>4, <1>9, <2>1, <3>2 DEF UndoList
      <4> QED BY <2>4, <4>1, <4>2
    <3> QED BY <3>1, <3>2
  <2>7. UndoneAt(i, T) = States(log, RedoList(W, i, e))
    <3>1. CASE e.kind = "redo"
      <4>1. e.n \in 1..Len(W)
        BY <1>1, <1>5, <2>1, <3>1 DEF EntryOK
      <4>2. UndoneAt(i, T) = SubSeq(T, 1, Len(T) - e.n)
        BY <1>1, <1>9, <3>1 DEF UndoneAt
      <4>3. RedoList(W, i, e) = SubSeq(W, 1, Len(W) - e.n)
        BY <1>4, <1>9, <3>1 DEF RedoList
      <4> QED BY <2>5, <4>1, <4>2, <4>3
    <3>2. CASE e.kind = "undo"
      <4>1. UndoneAt(i, T) = Append(T, log[p].state)
        BY <1>1, <1>9, <3>2 DEF UndoneAt
      <4>2. RedoList(W, i, e) = Append(W, p)
        BY <1>4, <1>9, <2>1, <3>2 DEF RedoList
      <4> QED BY <2>5, <4>1, <4>2
    <3>3. CASE e.kind = "other"
      <4>1. UndoneAt(i, T) = <<>> /\ RedoList(W, i, e) = <<>>
        BY <1>1, <3>3 DEF UndoneAt, RedoList
      <4> QED BY <4>1, NoStates
    <3> QED BY <1>4, <3>1, <3>2, <3>3
  <2> QED BY <1>1, <1>6, <2>1, <2>3, <2>6, <2>7
<1> QED BY <1>8, <1>9

\* The past of the history is what the undo list says.
LEMMA PastLists ==
  ASSUME NEW q, NEW w, Lists(log, q, w)
  PROVE  Past = States(log, q[Last])
<1> DEFINE Is(f) == f = [i \in 0..Last |-> IF i = 0 THEN <<>> ELSE PastAt(i, f[log[i].prev])]
<1>1. PICK g : g = CHOOSE f : Is(f)
  OBVIOUS
<1>2. Past = g[Last]
  BY <1>1, Zenon DEF Past
<1>3. PICK h : h = [i \in 0..Last |-> States(log, q[i])]
  OBVIOUS
<1>4. Last \in Nat
  BY DEF Lists, Last
<1>5. ASSUME NEW i \in 1..Last PROVE log[i].prev = 0 \/ log[i].prev = i - 1
  BY DEF Lists, Last, EntryOK
<1>6. h[0] = <<>>
  <2>1. q[0] = <<>>
    BY DEF Lists
  <2>2. h[0] = States(log, <<>>)
    BY <1>3, <1>4, <2>1
  <2> QED BY <2>2, NoStates
<1>7. ASSUME NEW i \in 1..Last PROVE h[i] = PastAt(i, h[log[i].prev])
  <2>1. PICK p : p = log[i].prev
    OBVIOUS
  <2>2. p \in 0..Last /\ i \in 0..Last
    BY <1>4, <1>5, <2>1
  <2>3. h[p] = States(log, q[p]) /\ h[i] = States(log, q[i])
    BY <1>3, <2>2
  <2> QED BY <2>1, <2>3, ListRound
<1>8. Is(h)
  <2>1. h = [i \in 0..Last |-> h[i]]
    BY <1>3
  <2>2. \A i \in 0..Last : i # 0 => i \in 1..Last
    BY <1>4
  <2>3. \A i \in 0..Last : h[i] = IF i = 0 THEN <<>> ELSE PastAt(i, h[log[i].prev])
    BY <1>6, <1>7, <2>2, Zenon
  <2> QED BY <2>1, <2>3, Zenon
<1>9. Is(g)
  <2> HIDE DEF Is
  <2> QED BY <1>1, <1>8, Zenon
<1>10. g[0] = <<>> /\ \A i \in 1..Last : g[i] = PastAt(i, g[log[i].prev])
  <2>1. 0 \in 0..Last /\ \A i \in 1..Last : i \in 0..Last /\ i # 0
    BY <1>4
  <2> QED BY <1>9, <2>1, Zenon
<1> HIDE DEF Is
<1>11. PICK D : D = {k \in 0..Last : g[k] = h[k]}
  OBVIOUS
<1>12. 0 \in D
  BY <1>4, <1>6, <1>10, <1>11
<1>13. ASSUME NEW k \in 0..(Last - 1), k \in D PROVE k + 1 \in D
  <2>1. k + 1 \in 1..Last /\ k + 1 \in 0..Last /\ (k + 1) - 1 = k
    BY <1>4
  <2>2. PICK p : p = log[k + 1].prev
    OBVIOUS
  <2>3. p \in D
    BY <1>5, <1>12, <1>13, <2>1, <2>2
  <2>4. g[p] = h[p]
    BY <1>11, <2>3
  <2>5. g[k + 1] = PastAt(k + 1, g[p]) /\ h[k + 1] = PastAt(k + 1, h[p])
    BY <1>7, <1>10, <2>1, <2>2
  <2> QED BY <1>11, <2>1, <2>4, <2>5
<1>14. Last \in D
  <2>1. \A k \in 0..Last : k \in D
    BY <1>4, <1>12, <1>13, UpTo
  <2> QED BY <1>4, <2>1
<1>15. g[Last] = h[Last]
  BY <1>11, <1>14
<1> QED BY <1>2, <1>3, <1>4, <1>15

\* The undone states of the history are what the redo list says.
LEMMA UndoneLists ==
  ASSUME NEW q, NEW w, Lists(log, q, w)
  PROVE  Undone = States(log, w[Last])
<1> DEFINE Is(f) == f = [i \in 0..Last |-> IF i = 0 THEN <<>> ELSE UndoneAt(i, f[log[i].prev])]
<1>1. PICK g : g = CHOOSE f : Is(f)
  OBVIOUS
<1>2. Undone = g[Last]
  BY <1>1, Zenon DEF Undone
<1>3. PICK h : h = [i \in 0..Last |-> States(log, w[i])]
  OBVIOUS
<1>4. Last \in Nat
  BY DEF Lists, Last
<1>5. ASSUME NEW i \in 1..Last PROVE log[i].prev = 0 \/ log[i].prev = i - 1
  BY DEF Lists, Last, EntryOK
<1>6. h[0] = <<>>
  <2>1. w[0] = <<>>
    BY DEF Lists
  <2>2. h[0] = States(log, <<>>)
    BY <1>3, <1>4, <2>1
  <2> QED BY <2>2, NoStates
<1>7. ASSUME NEW i \in 1..Last PROVE h[i] = UndoneAt(i, h[log[i].prev])
  <2>1. PICK p : p = log[i].prev
    OBVIOUS
  <2>2. p \in 0..Last /\ i \in 0..Last
    BY <1>4, <1>5, <2>1
  <2>3. h[p] = States(log, w[p]) /\ h[i] = States(log, w[i])
    BY <1>3, <2>2
  <2> QED BY <2>1, <2>3, ListRound
<1>8. Is(h)
  <2>1. h = [i \in 0..Last |-> h[i]]
    BY <1>3
  <2>2. \A i \in 0..Last : i # 0 => i \in 1..Last
    BY <1>4
  <2>3. \A i \in 0..Last : h[i] = IF i = 0 THEN <<>> ELSE UndoneAt(i, h[log[i].prev])
    BY <1>6, <1>7, <2>2, Zenon
  <2> QED BY <2>1, <2>3, Zenon
<1>9. Is(g)
  <2> HIDE DEF Is
  <2> QED BY <1>1, <1>8, Zenon
<1>10. g[0] = <<>> /\ \A i \in 1..Last : g[i] = UndoneAt(i, g[log[i].prev])
  <2>1. 0 \in 0..Last /\ \A i \in 1..Last : i \in 0..Last /\ i # 0
    BY <1>4
  <2> QED BY <1>9, <2>1, Zenon
<1> HIDE DEF Is
<1>11. PICK D : D = {k \in 0..Last : g[k] = h[k]}
  OBVIOUS
<1>12. 0 \in D
  BY <1>4, <1>6, <1>10, <1>11
<1>13. ASSUME NEW k \in 0..(Last - 1), k \in D PROVE k + 1 \in D
  <2>1. k + 1 \in 1..Last /\ k + 1 \in 0..Last /\ (k + 1) - 1 = k
    BY <1>4
  <2>2. PICK p : p = log[k + 1].prev
    OBVIOUS
  <2>3. p \in D
    BY <1>5, <1>12, <1>13, <2>1, <2>2
  <2>4. g[p] = h[p]
    BY <1>11, <2>3
  <2>5. g[k + 1] = UndoneAt(k + 1, g[p]) /\ h[k + 1] = UndoneAt(k + 1, h[p])
    BY <1>7, <1>10, <2>1, <2>2
  <2> QED BY <1>11, <2>1, <2>4, <2>5
<1>14. Last \in D
  <2>1. \A k \in 0..Last : k \in D
    BY <1>4, <1>12, <1>13, UpTo
  <2> QED BY <1>4, <2>1
<1>15. g[Last] = h[Last]
  BY <1>11, <1>14
<1> QED BY <1>2, <1>3, <1>4, <1>15
ListsSay ==
  \A q, w : Lists(log, q, w) => Past = States(log, q[Last]) /\ Undone = States(log, w[Last])

\* The lists give the history in this state and in the next one.
LEMMA History1 == ListsSay
BY PastLists, UndoneLists DEF ListsSay

\* The same in the next state.
LEMMA History2 == ListsSay'
BY History1, PTL

\* The states of a list stay when an entry is added to the log.
LEMMA StatesStay ==
  ASSUME NEW l \in Seq(Entries), Len(l) >= 1, NEW e \in Entries, NEW m, m = Append(l, e),
         NEW Q, Below(Len(l), Q), NEW S, S = States(l, Q)
  PROVE  StatesFollow(m, Len(l), Q, S)
<1>1. PICK n : n = Len(l)
  OBVIOUS
<1>2. n \in Nat /\ m \in Seq(Entries) /\ Len(m) = n + 1 /\ \A i \in 1..n : m[i] = l[i]
  BY <1>1
<1>3. Q \in Seq(Nat) /\ Len(Q) \in Nat /\ \A k \in 1..Len(Q) : Q[k] \in 1..n
  BY <1>1, <1>2 DEF Below
<1>4. States(m, Q) = S
  BY <1>2, <1>3 DEF States
<1>5. n \in 0..(Len(m) + 1)
  BY <1>2
<1>6. StatesFollow(m, n, Q, S)
  BY <1>1, <1>2, <1>4, <1>5, StatesOf
<1> QED BY <1>1, <1>6

\* What the entry e does to the history.
Grown(e) ==
  /\ \E r, v : Lists(log', r, v)
  /\ Current' = e.state
  /\ Past' = IF e.prev = 0 THEN <<>>
             ELSE IF e.kind = "undo" THEN SubSeq(Past, 1, Len(Past) - e.n) ELSE Append(Past, Current)
  /\ Undone' = IF e.prev = 0 \/ e.kind = "other" THEN <<>>
               ELSE IF e.kind = "undo" THEN Append(Undone, Current)
               ELSE SubSeq(Undone, 1, Len(Undone) - e.n)

\* What adding an entry to the log does to the lists and to the history.
LEMMA Appended ==
  ASSUME NEW q, NEW w, Lists(log, q, w), NEW e \in Entries,
         EntryOK(q[Last], w[Last], Last + 1, e), log' = Append(log, e)
  PROVE  Grown(e)
<1>1. PICK l, n : l = log /\ n = Len(l)
  OBVIOUS
<1>2. PICK m : m = log'
  OBVIOUS
<1>3. l \in Seq(Entries) /\ n >= 1 /\ n \in Nat /\ Last = n
  BY <1>1 DEF Lists, Last
<1>4. m = Append(l, e) /\ Len(m) = n + 1 /\ m[n + 1] = e /\ (\A i \in 1..n : m[i] = l[i]) /\ Last' = n + 1
  BY <1>1, <1>2, <1>3 DEF Last
<1>5. PICK Q, W : Q = q[n] /\ W = w[n]
  OBVIOUS
<1>6. Below(n, Q) /\ Below(n, W) /\ n \in 1..n
  BY <1>1, <1>3, <1>5 DEF Lists
<1>7. EntryOK(Q, W, n + 1, e)
  BY <1>3, <1>5
<1>8. PICK r, v : /\ Lists(m, r, v)
                  /\ r[Len(m)] = UndoList(q[Len(l)], Len(m), e) /\ v[Len(m)] = RedoList(w[Len(l)], Len(m), e)
  <2>1. Lists(l, q, w) /\ EntryOK(q[Len(l)], w[Len(l)], Len(l) + 1, e)
    BY <1>1, <1>3
  <2>2. m = Append(l, e)
    BY <1>4
  <2>3. MoreLists(q[Len(l)], w[Len(l)], e, m)
    BY <2>1, <2>2, AppendLists
  <2> QED BY <2>3 DEF MoreLists
<1>9. r[n + 1] = UndoList(Q, n + 1, e) /\ v[n + 1] = RedoList(W, n + 1, e)
  BY <1>1, <1>4, <1>5, <1>8
<1>10. Current' = e.state /\ Current = l[n].state
  BY <1>1, <1>2, <1>3, <1>4 DEF Current
<1>11. PICK S, T : S = States(l, Q) /\ T = States(l, W)
  OBVIOUS
<1>12. Past = S /\ Undone = T
  BY <1>1, <1>3, <1>5, <1>11, PastLists, UndoneLists
<1>13. Past' = States(m, UndoList(Q, n + 1, e)) /\ Undone' = States(m, RedoList(W, n + 1, e))
  <2>1. Past' = States(log', r[Last']) /\ Undone' = States(log', v[Last'])
    BY <1>2, <1>8, History2 DEF ListsSay
  <2> QED BY <1>2, <1>4, <1>9, <2>1
<1>14. StatesFollow(m, n, Q, S) /\ StatesFollow(m, n, W, T)
  BY <1>1, <1>3, <1>4, <1>6, <1>11, StatesStay
<1>15. (n + 1) - 1 = n /\ n \in 1..Len(m) /\ m[n] = l[n] /\ e.kind \in {"undo", "redo", "other"}
  BY <1>3, <1>4 DEF Entries
<1>16. Past' = IF e.prev = 0 THEN <<>>
               ELSE IF e.kind = "undo" THEN SubSeq(S, 1, Len(S) - e.n) ELSE Append(S, l[n].state)
  <2>1. CASE e.prev = 0
    BY <1>13, <2>1, NoStates DEF UndoList
  <2>2. CASE e.prev # 0 /\ e.kind = "undo"
    <3>1. e.n \in 1..Len(Q)
      BY <1>7, <2>2 DEF EntryOK
    <3>2. States(m, SubSeq(Q, 1, Len(Q) - e.n)) = SubSeq(S, 1, Len(S) - e.n)
      BY <1>14, <3>1 DEF StatesFollow
    <3>3. UndoList(Q, n + 1, e) = SubSeq(Q, 1, Len(Q) - e.n)
      BY <2>2 DEF UndoList
    <3> QED BY <1>13, <2>2, <3>2, <3>3
  <2>3. CASE e.prev # 0 /\ e.kind # "undo"
    <3>1. States(m, Append(Q, n)) = Append(S, l[n].state)
      BY <1>14, <1>15 DEF StatesFollow
    <3>2. UndoList(Q, n + 1, e) = Append(Q, n)
      BY <1>15, <2>3 DEF UndoList
    <3> QED BY <1>13, <2>3, <3>1, <3>2
  <2> QED BY <2>1, <2>2, <2>3
<1>17. Undone' = IF e.prev = 0 \/ e.kind = "other" THEN <<>>
                 ELSE IF e.kind = "undo" THEN Append(T, l[n].state) ELSE SubSeq(T, 1, Len(T) - e.n)
  <2>1. CASE e.prev = 0 \/ e.kind = "other"
    BY <1>13, <2>1, NoStates DEF RedoList
  <2>2. CASE e.prev # 0 /\ e.kind = "redo"
    <3>1. e.n \in 1..Len(W)
      BY <1>7, <2>2 DEF EntryOK
    <3>2. States(m, SubSeq(W, 1, Len(W) - e.n)) = SubSeq(T, 1, Len(T) - e.n)
      BY <1>14, <3>1 DEF StatesFollow
    <3>3. RedoList(W, n + 1, e) = SubSeq(W, 1, Len(W) - e.n)
      BY <2>2 DEF RedoList
    <3> QED BY <1>13, <2>2, <3>2, <3>3
  <2>3. CASE e.prev # 0 /\ e.kind = "undo"
    <3>1. States(m, Append(W, n)) = Append(T, l[n].state)
      BY <1>14, <1>15 DEF StatesFollow
    <3>2. RedoList(W, n + 1, e) = Append(W, n)
      BY <1>15, <2>3 DEF RedoList
    <3> QED BY <1>13, <2>3, <3>1, <3>2
  <2> QED BY <1>15, <2>1, <2>2, <2>3
<1> QED BY <1>2, <1>8, <1>10, <1>12, <1>16, <1>17 DEF Grown
-----------------------------------------------------------------------------
(* The inductive invariant. *)

OpenCommands == [by : {"other", "undo", "redo"}, n : Nat, state : Positions, at : Nat]

\* The open command c was found in the lists Q and W of the last entry of the log l,
\* and nothing comes between it and that entry.
CommandOK(c, Q, W, l, head) ==
  /\ c \in OpenCommands
  /\ c.by = "undo" => /\ c.n \in 1..Len(Q) /\ c.at = Back(Q, c.n) /\ c.state = l[Back(Q, c.n)].state
                      /\ head = l[Len(l)].state.head
  /\ c.by = "redo" => /\ c.n \in 1..Len(W) /\ c.n < Half /\ c.state = l[Back(W, c.n)].state
                      /\ head = l[Len(l)].state.head

\* Every entry has its lists, and the open command comes from those of the last one.
Inv ==
  /\ branch \in 0..MaxMade /\ made \in 0..MaxMade
  /\ \E q, w : /\ Lists(log, q, w)
               /\ cmd = NoCommand \/ CommandOK(cmd, q[Last], w[Last], log, branch)

\* Initially the log has one entry.
LEMMA InitInv == Init => Inv
<1> SUFFICES ASSUME Init PROVE Inv
  OBVIOUS
<1>1. PICK p : p = [stack |-> 0, head |-> 0]
  OBVIOUS
<1>2. MaxMade \in Nat
  BY BoundsAssumption
<1>3. p \in Positions /\ branch \in 0..MaxMade /\ made \in 0..MaxMade /\ cmd = NoCommand
  BY <1>1, <1>2 DEF Init, Positions
<1>4. PICK e : e = [state |-> p, prev |-> 0, kind |-> "other", n |-> 0, by |-> "other", at |-> 0]
  OBVIOUS
<1>5. e \in Entries /\ e.prev = 0 /\ e.kind = "other" /\ e.by = "other"
  BY <1>3, <1>4 DEF Entries
<1>6. log = <<e>>
  BY <1>1, <1>4 DEF Init
<1>7. log \in Seq(Entries) /\ Len(log) = 1 /\ log[1] = e
  BY <1>5, <1>6
<1>8. PICK q : q = [i \in 0..1 |-> <<>>]
  OBVIOUS
<1>9. q = [i \in 0..Len(log) |-> q[i]] /\ q[0] = <<>> /\ q[1] = <<>>
  BY <1>7, <1>8
<1>10. EntryOK(q[0], q[0], 1, e) /\ UndoList(q[0], 1, e) = <<>> /\ RedoList(q[0], 1, e) = <<>>
  BY <1>5 DEF EntryOK, UndoList, RedoList
<1>11. \A i \in 1..Len(log) : i = 1 /\ i - 1 = 0
  BY <1>7
<1>12. \A i \in 0..Len(log) : i = 0 \/ i = 1
  BY <1>7
<1>13. \A i \in 1..Len(log) : /\ EntryOK(q[i - 1], q[i - 1], i, log[i])
                              /\ q[i] = UndoList(q[i - 1], i, log[i]) /\ q[i] = RedoList(q[i - 1], i, log[i])
  BY <1>7, <1>9, <1>10, <1>11
<1>14. \A i \in 0..Len(log) : Below(i, q[i]) /\ Rising(q[i])
  BY <1>9, <1>12, Nothing
<1>15. Len(log) >= 1
  BY <1>7
<1>16. Lists(log, q, q)
  BY <1>7, <1>9, <1>13, <1>14, <1>15, Zenon DEF Lists
<1> QED BY <1>3, <1>16 DEF Inv

\* What undo and redo find is in the lists of the last entry.
LEMMA FoundInLists ==
  ASSUME NEW q, NEW w, Lists(log, q, w), NEW n \in Nat \ {0}
  PROVE  /\ FindUndoState(Last, n) # 0 => n \in 1..Len(q[Last]) /\ FindUndoState(Last, n) = Back(q[Last], n)
         /\ FindUndoState(Last, -n) # 0 => n \in 1..Len(w[Last]) /\ FindUndoState(Last, -n) = Back(w[Last], n)
<1>1. PICK Q, W : Q = q[Last] /\ W = w[Last]
  OBVIOUS
<1>2. Len(Q) \in Nat /\ Len(W) \in Nat
  <2>1. Last \in 0..Len(log)
    BY DEF Lists, Last
  <2> QED BY <1>1, <2>1 DEF Lists, Below
<1>3. n \in Int /\ -n \in Int /\ n > 0 /\ -n # 0 /\ ~(-n > 0) /\ -(-n) = n
  OBVIOUS
<1>4. FindUndoState(Last, n) = Reach(Q, W, Last, n) /\ FindUndoState(Last, -n) = Reach(Q, W, Last, -n)
  BY <1>1, <1>3, FindLists
<1>5. FindUndoState(Last, n) = Back(Q, n) /\ FindUndoState(Last, -n) = Back(W, n)
  BY <1>3, <1>4 DEF Reach
<1> QED BY <1>1, <1>2, <1>5 DEF Back
-----------------------------------------------------------------------------
(* The steps. *)

\* A step that adds nothing to the log.
LEMMA SameLog ==
  ASSUME NEW q, NEW w, Lists(log, q, w), log' = log, branch' \in 0..MaxMade, made' \in 0..MaxMade,
         cmd' = NoCommand \/ CommandOK(cmd', q[Last], w[Last], log, branch')
  PROVE  Inv' /\ UNCHANGED <<Current, Past, Undone>>
<1>1. Last' = Last /\ Current' = Current
  BY DEF Last, Current
<1>2. Lists(log', q, w)
  OBVIOUS
<1>3. Past = States(log, q[Last]) /\ Undone = States(log, w[Last])
  BY PastLists, UndoneLists
<1>4. Past' = States(log', q[Last']) /\ Undone' = States(log', w[Last'])
  BY <1>2, History2 DEF ListsSay
<1>5. Past' = Past /\ Undone' = Undone
  BY <1>1, <1>3, <1>4
<1>6. Inv'
  <2>1. cmd' = NoCommand \/ CommandOK(cmd', q[Last'], w[Last'], log', branch')
    BY <1>1
  <2> QED BY <1>2, <2>1 DEF Inv
<1> QED BY <1>1, <1>5, <1>6

\* What Inv says of the last entry.
LEMMA LastEntry ==
  ASSUME NEW q, NEW w, Lists(log, q, w)
  PROVE  /\ Last \in Nat \ {0} /\ Last = Len(log) /\ Last \in 1..Len(log) /\ Last \in 0..Len(log)
         /\ Below(Last, q[Last]) /\ Below(Last, w[Last])
         /\ log \in Seq(Entries) /\ Current \in Positions /\ Current = log[Len(log)].state
<1>1. log \in Seq(Entries) /\ Len(log) >= 1
  BY DEF Lists
<1>2. Last \in Nat \ {0} /\ Last = Len(log) /\ Last \in 1..Len(log) /\ Last \in 0..Len(log)
  BY <1>1 DEF Last
<1>3. Below(Last, q[Last]) /\ Below(Last, w[Last])
  BY <1>2 DEF Lists
<1>4. log[Last] \in Entries
  BY <1>1, <1>2
<1> QED BY <1>1, <1>2, <1>3, <1>4 DEF Current, Entries

\* The state of any entry.
LEMMA EntryState ==
  ASSUME NEW l \in Seq(Entries), NEW i \in 1..Len(l)
  PROVE  l[i].state \in Positions /\ l[i].state.head \in 0..MaxMade
<1>1. l[i] \in Entries
  OBVIOUS
<1> QED BY <1>1 DEF Entries, Positions

\* GitMoves.
LEMMA GitMovesStep == Inv /\ GitMoves => Inv' /\ UNCHANGED <<Current, Past, Undone>>
<1> SUFFICES ASSUME Inv, GitMoves PROVE Inv' /\ UNCHANGED <<Current, Past, Undone>>
  OBVIOUS
<1>1. PICK q, w : Lists(log, q, w)
  BY DEF Inv
<1>2. MaxMade \in Nat /\ made \in 0..MaxMade
  BY BoundsAssumption DEF Inv
<1>3. branch' \in 0..MaxMade /\ made' \in 0..MaxMade /\ log' = log /\ cmd' = NoCommand
  BY <1>2 DEF GitMoves, Idle
<1> QED BY <1>1, <1>3, SameLog

\* The commands that make a state, and reset: Begin with a state and nothing found.
LEMMA BeginOther ==
  ASSUME Inv, NEW p \in Positions, Begin("other", 0, p, 0), made' \in 0..MaxMade
  PROVE  Inv' /\ UNCHANGED <<Current, Past, Undone>>
<1>1. PICK q, w : Lists(log, q, w)
  BY DEF Inv
<1>2. cmd' = [by |-> "other", n |-> 0, state |-> p, at |-> 0] /\ log' = log /\ branch' = branch
  BY DEF Begin
<1>3. cmd' \in OpenCommands /\ cmd'.by = "other"
  BY <1>2 DEF OpenCommands
<1>4. CommandOK(cmd', q[Last], w[Last], log, branch')
  BY <1>3 DEF CommandOK
<1>5. branch' \in 0..MaxMade
  BY <1>2 DEF Inv
<1> QED BY <1>1, <1>2, <1>4, <1>5, SameLog

\* Operate opens a command with a new state.
LEMMA OperateStep == Inv /\ Operate => Inv' /\ UNCHANGED <<Current, Past, Undone>>
<1> SUFFICES ASSUME Inv, Operate PROVE Inv' /\ UNCHANGED <<Current, Past, Undone>>
  OBVIOUS
<1>1. MaxMade \in Nat /\ made \in 0..MaxMade
  BY BoundsAssumption DEF Inv
<1>2. made' \in 0..MaxMade
  BY <1>1 DEF Operate
<1>3. PICK p : p = [stack |-> made', head |-> made']
  OBVIOUS
<1>4. p \in Positions /\ Begin("other", 0, p, 0)
  BY <1>2, <1>3 DEF Operate, Positions
<1> QED BY <1>2, <1>4, BeginOther

\* Reset opens a command with the state of some entry.
LEMMA ResetStep == Inv /\ Reset => Inv' /\ UNCHANGED <<Current, Past, Undone>>
<1> SUFFICES ASSUME Inv, Reset PROVE Inv' /\ UNCHANGED <<Current, Past, Undone>>
  OBVIOUS
<1>1. PICK q, w : Lists(log, q, w)
  BY DEF Inv
<1>2. PICK i \in 1..Last : Begin("other", 0, log[i].state, 0)
  BY DEF Reset
<1>3. log[i].state \in Positions
  BY <1>1, <1>2, LastEntry, EntryState
<1>4. made' \in 0..MaxMade
  BY DEF Reset, Inv
<1> QED BY <1>2, <1>3, <1>4, BeginOther

\* Undo finds its entry in the undo list, and git has not moved the branch.
LEMMA UndoStep == NoUndoAfterGit /\ Inv /\ Undo => Inv' /\ UNCHANGED <<Current, Past, Undone>>
<1> SUFFICES ASSUME NoUndoAfterGit, Inv, Undo PROVE Inv' /\ UNCHANGED <<Current, Past, Undone>>
  OBVIOUS
<1>1. PICK q, w : Lists(log, q, w)
  BY DEF Inv
<1>2. PICK n \in UndoNumbers : FindUndoState(Last, n) # 0 /\ Begin("undo", n, log[FindUndoState(Last, n)].state, FindUndoState(Last, n))
  BY DEF Undo
<1>3. n \in Nat \ {0}
  BY <1>2, NumbersAssumption
<1>4. PICK Q, i : Q = q[Last] /\ i = Back(Q, n)
  OBVIOUS
<1>5. n \in 1..Len(Q) /\ FindUndoState(Last, n) = i
  BY <1>1, <1>2, <1>3, <1>4, FoundInLists
<1>6. Below(Last, Q) /\ Last = Len(log) /\ Last \in Nat /\ log \in Seq(Entries) /\ Current = log[Len(log)].state
  BY <1>1, <1>4, LastEntry
<1>7. i \in 1..(Last - 1)
  BY <1>4, <1>5, <1>6, BackIn
<1>8. i \in 1..Len(log) /\ i \in Nat
  BY <1>6, <1>7
<1>9. log[i].state \in Positions
  BY <1>6, <1>8, EntryState
<1>10. cmd' = [by |-> "undo", n |-> n, state |-> log[i].state, at |-> i] /\ log' = log /\ branch' = branch /\ made' = made
  BY <1>2, <1>5 DEF Begin, Undo
<1>11. branch' = log[Len(log)].state.head
  BY <1>6, <1>10 DEF Undo, NoUndoAfterGit
<1>12. /\ cmd' \in OpenCommands
       /\ cmd'.by = "undo" /\ cmd'.n = n /\ cmd'.at = i /\ cmd'.state = log[i].state
  BY <1>3, <1>8, <1>9, <1>10 DEF OpenCommands
<1>13. CommandOK(cmd', Q, w[Last], log, branch')
  BY <1>4, <1>5, <1>11, <1>12 DEF CommandOK
<1>14. branch' \in 0..MaxMade /\ made' \in 0..MaxMade
  BY <1>10 DEF Inv
<1> QED BY <1>1, <1>4, <1>10, <1>13, <1>14, SameLog

\* Redo finds its entry in the redo list.
LEMMA RedoStep ==
  NoUndoAfterGit /\ SmallRedo /\ Inv /\ Redo => Inv' /\ UNCHANGED <<Current, Past, Undone>>
<1> SUFFICES ASSUME NoUndoAfterGit, SmallRedo, Inv, Redo
             PROVE  Inv' /\ UNCHANGED <<Current, Past, Undone>>
  OBVIOUS
<1>1. PICK q, w : Lists(log, q, w)
  BY DEF Inv
<1>2. PICK n \in RedoNumbers :
        /\ FindUndoState(Last, RedoSteps(n)) # 0
        /\ Begin("redo", n, log[FindUndoState(Last, RedoSteps(n))].state, FindUndoState(Last, RedoSteps(n)))
  BY DEF Redo
<1>3. n \in Nat \ {0}
  BY <1>2, SmallRedoSteps
<1>4. PICK W, i : W = w[Last] /\ i = Back(W, n)
  OBVIOUS
<1>5. RedoSteps(n) = -n /\ n < Half
  BY <1>2, SmallRedoSteps
<1>6. n \in 1..Len(W) /\ FindUndoState(Last, RedoSteps(n)) = i
  BY <1>1, <1>2, <1>3, <1>4, <1>5, FoundInLists
<1>7. Below(Last, W) /\ Last = Len(log) /\ Last \in Nat /\ log \in Seq(Entries) /\ Current = log[Len(log)].state
  BY <1>1, <1>4, LastEntry
<1>8. i \in 1..(Last - 1)
  BY <1>4, <1>6, <1>7, BackIn
<1>9. i \in 1..Len(log) /\ i \in Nat
  BY <1>7, <1>8
<1>10. log[i].state \in Positions
  BY <1>7, <1>9, EntryState
<1>11. cmd' = [by |-> "redo", n |-> n, state |-> log[i].state, at |-> i] /\ log' = log /\ branch' = branch /\ made' = made
  BY <1>2, <1>6 DEF Begin, Redo
<1>12. branch' = log[Len(log)].state.head
  BY <1>7, <1>11 DEF Redo, NoUndoAfterGit
<1>13. /\ cmd' \in OpenCommands
       /\ cmd'.by = "redo" /\ cmd'.n = n /\ cmd'.at = i /\ cmd'.state = log[i].state
  BY <1>3, <1>9, <1>10, <1>11 DEF OpenCommands
<1>14. CommandOK(cmd', q[Last], W, log, branch')
  BY <1>4, <1>5, <1>6, <1>12, <1>13 DEF CommandOK
<1>15. branch' \in 0..MaxMade /\ made' \in 0..MaxMade
  BY <1>11 DEF Inv
<1> QED BY <1>1, <1>4, <1>11, <1>14, <1>15, SameLog

\* Abort.
LEMMA AbortStep == Inv /\ Abort => Inv' /\ UNCHANGED <<Current, Past, Undone>>
<1> SUFFICES ASSUME Inv, Abort PROVE Inv' /\ UNCHANGED <<Current, Past, Undone>>
  OBVIOUS
<1>1. PICK q, w : Lists(log, q, w)
  BY DEF Inv
<1>2. branch' \in 0..MaxMade /\ made' \in 0..MaxMade /\ log' = log /\ cmd' = NoCommand
  BY DEF Abort, Inv
<1> QED BY <1>1, <1>2, SameLog
\* ClearLog forgets the past.
LEMMA ClearLogStep == Inv /\ ClearLog => Inv' /\ History!Forget
<1> SUFFICES ASSUME Inv, ClearLog PROVE Inv' /\ History!Forget
  OBVIOUS
<1>1. PICK q, w : Lists(log, q, w)
  BY DEF Inv
<1>2. PICK p, e : /\ p = Current
                  /\ e = [state |-> p, prev |-> 0, kind |-> "other", n |-> 0, by |-> "other", at |-> 0]
  OBVIOUS
<1>3. p \in Positions
  BY <1>1, <1>2, LastEntry
<1>4. e \in Entries /\ e.state = p /\ e.prev = 0 /\ e.kind = "other" /\ e.by = "other"
  BY <1>2, <1>3 DEF Entries
<1>5. log' = Append(log, e) /\ branch' = branch /\ made' = made /\ cmd' = NoCommand
  BY <1>2 DEF ClearLog, Idle
<1>6. EntryOK(q[Last], w[Last], Last + 1, e)
  BY <1>4 DEF EntryOK
<1>7. Grown(e)
  BY <1>1, <1>4, <1>5, <1>6, Appended
<1>8. Inv'
  <2>1. branch' \in 0..MaxMade /\ made' \in 0..MaxMade
    BY <1>5 DEF Inv
  <2>2. PICK r, v : Lists(log', r, v)
    BY <1>7 DEF Grown
  <2> QED BY <1>5, <2>1, <2>2 DEF Inv
<1>9. Current' = Current /\ Past' = <<>> /\ Undone' = <<>>
  BY <1>2, <1>4, <1>7 DEF Grown
<1> QED BY <1>8, <1>9 DEF History!Forget

\* LogExternalMods is work like that of a command.
LEMMA ExternalStep == Inv /\ LogExternalMods => Inv' /\ History!Work
<1> SUFFICES ASSUME Inv, LogExternalMods PROVE Inv' /\ History!Work
  OBVIOUS
<1>1. PICK q, w : Lists(log, q, w) /\ CommandOK(cmd, q[Last], w[Last], log, branch)
  BY DEF Inv, LogExternalMods, Idle
<1>2. PICK p, n : p = [Current EXCEPT !.head = branch] /\ n = Last
  OBVIOUS
<1>3. PICK e : e = [state |-> p, prev |-> n, kind |-> "other", n |-> 0, by |-> "external", at |-> 0]
  OBVIOUS
<1>4. p \in Positions /\ n \in Nat \ {0}
  <2>1. Current \in Positions /\ Last \in Nat \ {0}
    BY <1>1, LastEntry
  <2>2. branch \in 0..MaxMade
    BY DEF Inv
  <2> QED BY <1>2, <2>1, <2>2 DEF Positions
<1>5. e \in Entries /\ e.state = p /\ e.prev = n /\ e.kind = "other" /\ e.by = "external"
  BY <1>3, <1>4 DEF Entries
<1>6. log' = Append(log, e) /\ branch' = branch /\ made' = made /\ cmd' = cmd
  BY <1>2, <1>3 DEF LogExternalMods
<1>7. EntryOK(q[Last], w[Last], Last + 1, e)
  <2>1. n = (n + 1) - 1
    BY <1>4
  <2> QED BY <1>2, <1>5, <2>1 DEF EntryOK
<1>8. Grown(e)
  BY <1>1, <1>5, <1>6, <1>7, Appended
<1>9. cmd.by = "other" /\ cmd \in OpenCommands
  <2>1. Current = log[Len(log)].state
    BY <1>1, LastEntry
  <2>2. cmd.by # "undo" /\ cmd.by # "redo"
    BY <1>1, <2>1 DEF LogExternalMods, CommandOK
  <2>3. cmd \in OpenCommands
    BY <1>1 DEF CommandOK
  <2> QED BY <2>2, <2>3 DEF OpenCommands
<1>10. Inv'
  <2>1. branch' \in 0..MaxMade /\ made' \in 0..MaxMade
    BY <1>6 DEF Inv
  <2>2. PICK r, v : Lists(log', r, v)
    BY <1>8 DEF Grown
  <2>3. CommandOK(cmd', r[Last'], v[Last'], log', branch')
    BY <1>6, <1>9 DEF CommandOK
  <2> QED BY <2>1, <2>2, <2>3 DEF Inv
<1>11. Current' = p /\ Past' = Append(Past, Current) /\ Undone' = <<>>
  BY <1>4, <1>5, <1>8 DEF Grown
<1> QED BY <1>4, <1>10, <1>11 DEF History!Work

\* The past and the undone states are as many as the lists have entries, and the
\* n-th from the end is the state of the n-th entry from the end.
LEMMA CountBack ==
  ASSUME NEW q, NEW w, Lists(log, q, w)
  PROVE  /\ Len(Past) = Len(q[Last]) /\ Len(Undone) = Len(w[Last])
         /\ \A n \in 1..Len(q[Last]) : Past[Len(Past) - n + 1] = log[Back(q[Last], n)].state
         /\ \A n \in 1..Len(w[Last]) : Undone[Len(Undone) - n + 1] = log[Back(w[Last], n)].state
<1>1. PICK Q, W, S, T : Q = q[Last] /\ W = w[Last] /\ S = States(log, Q) /\ T = States(log, W)
  OBVIOUS
<1>2. /\ Below(Last, Q) /\ Below(Last, W) /\ log \in Seq(Entries) /\ Last \in Nat /\ Last = Len(log)
  BY <1>1, LastEntry
<1>3. Last \in 0..(Len(log) + 1)
  BY <1>2
<1>4. StatesFollow(log, Last, Q, S) /\ StatesFollow(log, Last, W, T)
  BY <1>1, <1>2, <1>3, StatesOf
<1>5. Past = S /\ Undone = T
  BY <1>1, PastLists, UndoneLists
<1>6. Len(S) = Len(Q) /\ \A n \in 1..Len(Q) : S[Len(S) - n + 1] = log[Back(Q, n)].state
  <2>1. Len(S) = Len(Q) /\ \A k \in 1..Len(Q) : S[k] = log[Q[k]].state
    BY <1>4 DEF StatesFollow
  <2>2. ASSUME NEW n \in 1..Len(Q) PROVE Back(Q, n) = Q[Len(Q) - n + 1] /\ Len(Q) - n + 1 \in 1..Len(Q)
    BY <1>2, BackIn
  <2> QED BY <2>1, <2>2
<1>7. Len(T) = Len(W) /\ \A n \in 1..Len(W) : T[Len(T) - n + 1] = log[Back(W, n)].state
  <2>1. Len(T) = Len(W) /\ \A k \in 1..Len(W) : T[k] = log[W[k]].state
    BY <1>4 DEF StatesFollow
  <2>2. ASSUME NEW n \in 1..Len(W) PROVE Back(W, n) = W[Len(W) - n + 1] /\ Len(W) - n + 1 \in 1..Len(W)
    BY <1>2, BackIn
  <2> QED BY <2>1, <2>2
<1> QED BY <1>1, <1>5, <1>6, <1>7

\* Execute does what the command looked up, and its message says so.
LEMMA ExecuteStep == Inv /\ Execute => Inv' /\ History!Next
<1> SUFFICES ASSUME Inv, Execute PROVE Inv' /\ History!Next
  OBVIOUS
<1>1. PICK q, w : Lists(log, q, w) /\ CommandOK(cmd, q[Last], w[Last], log, branch)
  BY DEF Inv, Execute, Idle
<1>2. PICK c, k, n, Q, W : c = cmd /\ k = ParsedKind(cmd) /\ n = Last /\ Q = q[Last] /\ W = w[Last]
  OBVIOUS
<1>3. PICK e : e = [state |-> c.state, prev |-> n, kind |-> k, n |-> c.n, by |-> c.by, at |-> c.at]
  OBVIOUS
<1>4. CommandOK(c, Q, W, log, branch)
  BY <1>1, <1>2
<1>5. c.state \in Positions /\ c.n \in Nat /\ c.by \in {"other", "undo", "redo"} /\ c.at \in Nat
  BY <1>4 DEF CommandOK, OpenCommands
<1>6. n \in Nat \ {0}
  BY <1>1, <1>2, LastEntry
<1>7. k = c.by
  BY <1>2, <1>4, <1>5 DEF ParsedKind, CommandOK
<1>8. e \in Entries
  BY <1>3, <1>5, <1>6, <1>7 DEF Entries
<1>9. e.state = c.state /\ e.prev = n /\ e.kind = c.by /\ e.n = c.n /\ e.by = c.by /\ e.at = c.at
  BY <1>3, <1>7
<1>10. log' = Append(log, e) /\ branch' = c.state.head /\ made' = made /\ cmd' = NoCommand
  BY <1>2, <1>3 DEF Execute
<1>11. EntryOK(Q, W, n + 1, e)
  <2>1. n = (n + 1) - 1 /\ n + 1 > 1
    BY <1>6
  <2> QED BY <1>4, <1>9, <2>1 DEF EntryOK, CommandOK
<1>12. Grown(e)
  BY <1>1, <1>2, <1>8, <1>10, <1>11, Appended
<1>13. Inv'
  <2>1. branch' \in 0..MaxMade /\ made' \in 0..MaxMade
    BY <1>5, <1>10 DEF Inv, Positions
  <2>2. PICK r, v : Lists(log', r, v)
    BY <1>12 DEF Grown
  <2> QED BY <1>10, <2>1, <2>2 DEF Inv
<1>14. /\ Len(Past) = Len(Q) /\ Len(Undone) = Len(W)
       /\ \A m \in 1..Len(Q) : Past[Len(Past) - m + 1] = log[Back(Q, m)].state
       /\ \A m \in 1..Len(W) : Undone[Len(Undone) - m + 1] = log[Back(W, m)].state
  BY <1>1, <1>2, CountBack
<1>15. e.prev # 0
  BY <1>6, <1>9
<1>16. CASE c.by = "other"
  <2>1. Current' = c.state /\ Past' = Append(Past, Current) /\ Undone' = <<>>
    BY <1>9, <1>12, <1>15, <1>16 DEF Grown
  <2> QED BY <1>5, <1>13, <2>1 DEF History!Next, History!Work
<1>17. CASE c.by = "undo"
  <2>1. /\ Current' = c.state /\ Past' = SubSeq(Past, 1, Len(Past) - c.n)
        /\ Undone' = Append(Undone, Current)
    BY <1>9, <1>12, <1>15, <1>17 DEF Grown
  <2>2. c.n \in 1..Len(Past) /\ c.state = Past[Len(Past) - c.n + 1]
    BY <1>4, <1>14, <1>17 DEF CommandOK
  <2>3. History!Undo(c.n)
    BY <2>1, <2>2 DEF History!Undo
  <2> QED BY <1>13, <2>2, <2>3 DEF History!Next
<1>18. CASE c.by = "redo"
  <2>1. /\ Current' = c.state /\ Past' = Append(Past, Current)
        /\ Undone' = SubSeq(Undone, 1, Len(Undone) - c.n)
    BY <1>9, <1>12, <1>15, <1>18 DEF Grown
  <2>2. c.n \in 1..Len(Undone) /\ c.state = Undone[Len(Undone) - c.n + 1]
    BY <1>4, <1>14, <1>18 DEF CommandOK
  <2>3. History!Redo(c.n)
    BY <2>1, <2>2 DEF History!Redo
  <2> QED BY <1>13, <2>2, <2>3 DEF History!Next
<1> QED BY <1>5, <1>16, <1>17, <1>18

\* Every step keeps the invariant and is a step of the history, or leaves it alone.
LEMMA NextStep ==
  ASSUME NoUndoAfterGit, SmallRedo
  PROVE  Inv /\ [Next]_vars => Inv' /\ [History!Next]_(History!vars)
<1> SUFFICES ASSUME Inv, [Next]_vars PROVE Inv' /\ [History!Next]_(History!vars)
  OBVIOUS
<1>1. CASE GitMoves
  BY <1>1, GitMovesStep DEF History!vars
<1>2. CASE Operate
  BY <1>2, OperateStep DEF History!vars
<1>3. CASE Reset
  BY <1>3, ResetStep DEF History!vars
<1>4. CASE Undo
  BY <1>4, UndoStep DEF History!vars
<1>5. CASE Redo
  BY <1>5, RedoStep DEF History!vars
<1>6. CASE ClearLog
  BY <1>6, ClearLogStep DEF History!Next
<1>7. CASE LogExternalMods
  BY <1>7, ExternalStep DEF History!Next
<1>8. CASE Execute
  BY <1>8, ExecuteStep
<1>9. CASE Abort
  BY <1>9, AbortStep DEF History!vars
<1>10. CASE UNCHANGED vars
  <2>1. log' = log /\ branch' = branch /\ made' = made /\ cmd' = cmd
    BY <1>10 DEF vars
  <2>2. branch' \in 0..MaxMade /\ made' \in 0..MaxMade
    BY <2>1 DEF Inv
  <2>3. PICK q, w : Lists(log, q, w) /\ (cmd = NoCommand \/ CommandOK(cmd, q[Last], w[Last], log, branch))
    BY DEF Inv
  <2>4. cmd' = NoCommand \/ CommandOK(cmd', q[Last], w[Last], log, branch')
    BY <2>1, <2>3
  <2> QED BY <2>1, <2>2, <2>3, <2>4, SameLog DEF History!vars
<1> QED BY <1>1, <1>2, <1>3, <1>4, <1>5, <1>6, <1>7, <1>8, <1>9, <1>10 DEF Next
-----------------------------------------------------------------------------
(* The theorems. *)

\* At every entry, the lists relate an undo to the one before it.
LEMMA InvGoesBack == Inv => ConsecutiveUndosGoBack
<1> SUFFICES ASSUME Inv, NEW i \in 2..Last, log[i].by = "undo", log[i - 1].by = "undo"
             PROVE  log[i].at < log[i - 1].at
  BY DEF ConsecutiveUndosGoBack
<1>1. PICK q, w : Lists(log, q, w)
  BY DEF Inv
<1>2. PICK j : j = i - 1
  OBVIOUS
<1>3. /\ i \in 1..Len(log) /\ j \in 1..Len(log) /\ j \in 0..Len(log) /\ j - 1 \in 0..Len(log)
      /\ j \in Nat \ {0} /\ i = j + 1 /\ i - 1 = j
  BY <1>1, <1>2, LastEntry
<1>4. PICK d, e, P, Q : d = log[j] /\ e = log[i] /\ P = q[j - 1] /\ Q = q[j]
  OBVIOUS
<1>5. EntryOK(Q, w[j], i, e)
  BY <1>1, <1>3, <1>4 DEF Lists
<1>6. EntryOK(P, w[j - 1], j, d) /\ Q = UndoList(P, j, d) /\ Below(j - 1, P) /\ Rising(P)
  BY <1>1, <1>3, <1>4 DEF Lists
<1>7. e.by = "undo" /\ d.by = "undo"
  BY <1>2, <1>4
<1>8. PICK m, n : m = e.n /\ n = d.n
  OBVIOUS
<1>9. m \in 1..Len(Q) /\ e.at = Back(Q, m)
  BY <1>5, <1>7, <1>8 DEF EntryOK
<1>10. n \in 1..Len(P) /\ d.at = Back(P, n) /\ d.kind = "undo" /\ d.prev = j - 1 /\ j > 1
  BY <1>6, <1>7, <1>8 DEF EntryOK
<1>11. Q = SubSeq(P, 1, Len(P) - n)
  BY <1>3, <1>6, <1>8, <1>10 DEF UndoList
<1>12. Below(j - 1, Q) /\ Len(Q) = Len(P) - n /\ \A a \in 1..Len(Q) : Q[a] = P[a]
  <2>1. PICK h : h = j - 1
    OBVIOUS
  <2>2. h \in Nat /\ Below(h, P)
    BY <1>3, <1>6, <2>1
  <2>3. n \in 1..Len(P)
    BY <1>10
  <2>4. Below(h, Q)
    BY <1>11, <2>2, <2>3, Shorter
  <2>5. PICK l : l = Len(P)
    OBVIOUS
  <2>6. P \in Seq(Nat) /\ l \in Nat /\ l - n \in 0..l /\ Q = SubSeq(P, 1, l - n)
    BY <1>11, <2>2, <2>3, <2>5 DEF Below
  <2>7. Len(Q) = l - n /\ \A a \in 1..(l - n) : Q[a] = P[a]
    BY <2>5, <2>6
  <2> QED BY <2>1, <2>4, <2>5, <2>7
<1>13. Back(Q, m) = Q[Len(Q) - m + 1] /\ Len(Q) - m + 1 \in 1..Len(Q)
  BY <1>9, <1>12, BackIn
<1>14. Back(P, n) = P[Len(P) - n + 1] /\ Len(P) - n + 1 \in 1..Len(P)
  BY <1>6, <1>10, BackIn
<1>15. PICK a, b : a = Len(Q) - m + 1 /\ b = Len(P) - n + 1
  OBVIOUS
<1>16. a \in 1..Len(P) /\ b \in 1..Len(P) /\ a < b
  <2>1. Len(P) \in Nat /\ Len(Q) \in Nat
    BY <1>6, <1>12 DEF Below
  <2> QED BY <1>9, <1>10, <1>12, <1>13, <1>14, <1>15, <2>1
<1>17. e.at = P[a] /\ d.at = P[b]
  BY <1>9, <1>10, <1>12, <1>13, <1>14, <1>15
<1>18. P[a] < P[b]
  BY <1>6, <1>16 DEF Rising
<1> QED BY <1>2, <1>4, <1>17, <1>18

\* At every entry, a redo needs a redo list, which only an undo or a redo leaves.
LEMMA InvRedoFollows == Inv => RedoFollowsUndo
<1> SUFFICES ASSUME Inv, NEW i \in 2..Last, log[i].by = "redo" PROVE log[i - 1].by \in {"undo", "redo"}
  BY DEF RedoFollowsUndo
<1>1. PICK q, w : Lists(log, q, w)
  BY DEF Inv
<1>2. PICK j, d : j = i - 1 /\ d = log[j]
  OBVIOUS
<1>3. i \in 1..Len(log) /\ j \in 1..Len(log) /\ log \in Seq(Entries)
  BY <1>1, <1>2, LastEntry
<1>4. EntryOK(q[j], w[j], i, log[i])
  BY <1>1, <1>2, <1>3 DEF Lists
<1>5. log[i].n \in 1..Len(w[j])
  BY <1>4 DEF EntryOK
<1>6. EntryOK(q[j - 1], w[j - 1], j, d) /\ w[j] = RedoList(w[j - 1], j, d)
  BY <1>1, <1>2, <1>3 DEF Lists
<1>7. d.kind # "other"
  <2>1. SUFFICES ASSUME d.kind = "other" PROVE FALSE
    OBVIOUS
  <2>2. w[j] = <<>>
    BY <1>6, <2>1 DEF RedoList
  <2> QED BY <1>5, <2>2
<1>8. d.kind \in {"undo", "redo", "other"}
  <2>1. d \in Entries
    BY <1>2, <1>3
  <2> QED BY <2>1 DEF Entries
<1>9. d.by = "undo" \/ d.by = "redo"
  BY <1>6, <1>7, <1>8 DEF EntryOK
<1> QED BY <1>2, <1>9

\* An undo that follows an undo restores an older entry, for every number of steps
\* and every log: find_undo_state adds the number of an undo that it meets to the
\* steps that are left.
THEOREM UndosGoBack ==
  ASSUME NoUndoAfterGit, SmallRedo
  PROVE  Spec => []ConsecutiveUndosGoBack
<1>1. Inv /\ [Next]_vars => Inv'
  BY NextStep
<1> QED BY <1>1, InitInv, InvGoesBack, PTL DEF Spec

\* A redo follows an undo or a redo: find_undo_state, going forward, gives up at any
\* other entry.
THEOREM RedosFollowUndos ==
  ASSUME NoUndoAfterGit, SmallRedo
  PROVE  Spec => []RedoFollowsUndo
<1>1. Inv /\ [Next]_vars => Inv'
  BY NextStep
<1> QED BY <1>1, InitInv, InvRedoFollows, PTL DEF Spec

\* The log with its messages implements the history: whatever commands, undos,
\* redos, aborted commands and cleared logs went before, undo and redo of any number
\* restore the state that the history says, and refuse what it does not have.
THEOREM LogImplementsHistory ==
  ASSUME NoUndoAfterGit, SmallRedo
  PROVE  Spec => ImplementsHistory
<1>1. Init => History!Init
  <2> SUFFICES ASSUME Init PROVE History!Init
    OBVIOUS
  <2>1. PICK q, w : Lists(log, q, w)
    BY InitInv DEF Inv
  <2>2. Current \in Positions /\ Last = 1
    <3>1. Len(log) = 1
      BY DEF Init
    <3> QED BY <2>1, <3>1, LastEntry DEF Last
  <2>3. log[1].prev = 0
    BY DEF Init
  <2>4. q[1] = <<>> /\ w[1] = <<>>
    <3>1. 1 \in 1..Len(log)
      BY <2>1, <2>2, LastEntry
    <3>2. q[1] = UndoList(q[1 - 1], 1, log[1]) /\ w[1] = RedoList(w[1 - 1], 1, log[1])
      BY <2>1, <3>1 DEF Lists
    <3> QED BY <2>3, <3>2 DEF UndoList, RedoList
  <2>5. Past = <<>> /\ Undone = <<>>
    BY <2>1, <2>2, <2>4, PastLists, UndoneLists, NoStates
  <2> QED BY <2>2, <2>5 DEF History!Init
<1>2. Inv /\ [Next]_vars => Inv' /\ [History!Next]_(History!vars)
  BY NextStep
<1> QED BY <1>1, <1>2, InitInv, PTL DEF Spec, ImplementsHistory, History!Spec
=============================================================================
