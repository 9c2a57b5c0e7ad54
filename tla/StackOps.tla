------------------------------ MODULE StackOps ------------------------------
(***************************************************************************)
(* The pure part of `stack/transaction/mod.rs': what each method of        *)
(* StackTransaction does to the patch lists and to the patch commits of    *)
(* the transaction, without touching a reference or the worktree.          *)
(*                                                                         *)
(* A transaction t is a record.  `patches' is the stack's patch map with   *)
(* the transaction's updated_patches laid over it (get_patch, has_patch),  *)
(* `touched' the keys of updated_patches, `base' is updated_base or else   *)
(* the stack's base, `head' is updated_head or NoCommit, and `tree' is     *)
(* current_tree_id, the tree the transaction believes to be checked out.   *)
(***************************************************************************)
EXTENDS GitModel

CONSTANT Names   \* the patch names

PatchMaps == [Names -> MaybeCommits]

States == [head : Commits, applied : Seq(Names), unapplied : Seq(Names),
           hidden : Seq(Names), patches : PatchMaps]

ConflictModes == {"disallow", "allow", "same top"}

Transactions ==
  [applied : Seq(Names), unapplied : Seq(Names), hidden : Seq(Names),
   patches : PatchMaps, touched : SUBSET Names, head : MaybeCommits,
   base : Commits, tree : Trees, conflicts : ConflictModes]
-----------------------------------------------------------------------------
(* Lists of patch names. *)

Elems(s) == {s[i] : i \in DOMAIN s}

NoDuplicates(s) == \A i, j \in DOMAIN s : s[i] = s[j] => i = j

\* The members of the list that are in S, in the order of the list: entry k
\* is the one that has k members of S up to it.
Keep(s, S) ==
  LET at   == {i \in 1..Len(s) : s[i] \in S}
      nth(k) == CHOOSE i \in at : Cardinality({j \in at : j <= i}) = k
  IN  [k \in 1..Cardinality(at) |-> s[nth(k)]]

Drop(s, S) == Keep(s, Names \ S)

\* Position of the first member of S, or one past the end.
FirstIn(s, S) == 1 + Cardinality({i \in 1..Len(s) : \A j \in 1..i : s[j] \notin S})

\* The list before, and from, the first member of S.
Below(s, S) == SubSeq(s, 1, FirstIn(s, S) - 1)
From(s, S)  == SubSeq(s, FirstIn(s, S), Len(s))

\* Length of the longest common prefix.
NumCommon(s, r) ==
  Cardinality({k \in 1..Len(s) : k <= Len(r) /\ \A i \in 1..k : s[i] = r[i]})

IsPrefixOf(s, r) == Len(s) <= Len(r) /\ \A i \in 1..Len(s) : s[i] = r[i]

AllPatches(t) == t.applied \o t.unapplied \o t.hidden

HasPatch(t, n) == t.patches[n] # NoCommit

TopOf(applied, patches, base) ==
  IF applied = <<>> THEN base ELSE patches[applied[Len(applied)]]

\* StackTransaction::top() and head().
Top(t) == TopOf(t.applied, t.patches, t.base)

TransHead(t) == IF t.head = NoCommit THEN Top(t) ELSE t.head

\* StackState::top().
StateTop(s) == TopOf(s.applied, s.patches, s.head)

\* The base of a stack that is opened with the branch at `head'.
BaseOf(s, head) ==
  IF s.applied = <<>> THEN head ELSE Parent(s.patches[s.applied[1]])

\* patches with the commits of f for the names in its domain.
Overlay(patches, f) ==
  [n \in Names |-> IF n \in DOMAIN f THEN f[n] ELSE patches[n]]

Forget(patches, S) == [n \in Names |-> IF n \in S THEN NoCommit ELSE patches[n]]
-----------------------------------------------------------------------------
\* The transaction that TransactionBuilder::transact() hands to the closure.
Begin(state, head, mode) ==
  [applied |-> state.applied, unapplied |-> state.unapplied,
   hidden |-> state.hidden, patches |-> state.patches, touched |-> {},
   head |-> NoCommit, base |-> BaseOf(state, head), tree |-> Tree(head),
   conflicts |-> mode]

\* pop_patches: everything from the first popped patch up comes off; the
\* incidental ones land below the requested ones.
PopPatches(t, S) ==
  LET popped == From(t.applied, S)
  IN  [t EXCEPT !.applied = Below(t.applied, S),
                !.unapplied = Drop(popped, S) \o Keep(popped, S) \o t.unapplied]

\* The patches that a pop or a delete takes off without being asked to.
Incidental(t, S) == Drop(From(t.applied, S), S)

DeletePatches(t, S) ==
  LET gone == S \cap Elems(AllPatches(t))
  IN  [t EXCEPT !.applied = Below(t.applied, S),
                !.unapplied = Incidental(t, S) \o Drop(t.unapplied, S),
                !.hidden = Drop(t.hidden, S),
                !.patches = Forget(t.patches, gone),
                !.touched = t.touched \cup gone]

\* Mutation of SetPatch: the patch is not entered into updated_patches.
SetPatchUntracked(t, n, c) == [t EXCEPT !.patches = [t.patches EXCEPT ![n] = c]]

SetPatch(t, n, c) ==
  [t EXCEPT !.patches = [t.patches EXCEPT ![n] = c], !.touched = t.touched \cup {n}]

UpdatePatch(t, n, c) == SetPatch(t, n, c)

NewApplied(t, n, c) ==
  [SetPatch(t, n, c) EXCEPT !.applied = Append(t.applied, n)]

\* Mutation of NewUnapplied: the patch is not entered into the list.
NewUnlisted(t, n, c, pos) == SetPatch(t, n, c)

NewUnapplied(t, n, c, pos) ==
  [SetPatch(t, n, c) EXCEPT
     !.unapplied = SubSeq(t.unapplied, 1, pos) \o <<n>>
                     \o SubSeq(t.unapplied, pos + 1, Len(t.unapplied))]

\* The bookkeeping at the end of push_patch and push_tree.
Raise(t, n) ==
  [t EXCEPT !.applied = Append(t.applied, n),
            !.unapplied = Drop(t.unapplied, {n}),
            !.hidden = Drop(t.hidden, {n})]

\* Mutation of PushTree: the commit is kept although its parent is another one.
PushTreeAsIs(t, n) == Raise(t, n)

\* push_tree keeps the tree of the patch, whatever it lands on.
PushTree(t, n) ==
  LET c == t.patches[n]
  IN  IF Parent(c) = Top(t)
        THEN Raise(t, n)
        ELSE Raise(SetPatch(t, n, MkCommit(Top(t), Tree(c), Meta(c))), n)

\* Second half of push_patch, once the tree of the patch on its new parent is
\* known: a new commit unless tree and parent are the old ones.
PushPatch(t, n, tree) ==
  LET c == t.patches[n]
  IN  IF tree = Tree(c) /\ Parent(c) = Top(t)
        THEN Raise(t, n)
        ELSE Raise(SetPatch(t, n, MkCommit(Top(t), tree, Meta(c))), n)

RepairAppliedness(t, a, u, h) ==
  [t EXCEPT !.applied = a, !.unapplied = u, !.hidden = h]

\* Mutation of CommitPatches: the patches are dropped before the commit of the
\* last one is taken for the base.
CommitForgotten(t, names) ==
  LET u == [t EXCEPT !.patches = Forget(t.patches, Elems(names))]
  IN  [u EXCEPT !.base = u.patches[names[Len(names)]],
                !.touched = t.touched \cup Elems(names),
                !.applied = SubSeq(t.applied, Len(names) + 1, Len(t.applied))]

\* Tail of commit_patches: the bottommost patches become the base.
CommitPatches(t, names) ==
  [t EXCEPT !.base = t.patches[names[Len(names)]],
            !.patches = Forget(t.patches, Elems(names)),
            !.touched = t.touched \cup Elems(names),
            !.applied = SubSeq(t.applied, Len(names) + 1, Len(t.applied))]

\* new_applied, once for each of the names, bottommost first.
NewOnTop(t, names, f) ==
  [t EXCEPT !.applied = t.applied \o names,
            !.patches = Overlay(t.patches, f),
            !.touched = t.touched \cup Elems(names)]

\* Mutation of UncommitPatches: the new patches go to the top.
UncommitOnTop(t, names, f) == NewOnTop(t, names, f)

\* uncommit_patches: names, bottommost first, for the commits f.
UncommitPatches(t, names, f) ==
  [t EXCEPT !.applied = names \o t.applied,
            !.patches = Overlay(t.patches, f),
            !.touched = t.touched \cup Elems(names)]

UnhidePatches(t, names) ==
  [t EXCEPT !.unapplied = t.unapplied \o names,
            !.hidden = Drop(t.hidden, Elems(names))]

Renamed(s, old, new) ==
  [i \in DOMAIN s |-> IF s[i] = old THEN new ELSE s[i]]

RenamePatch(t, old, new) ==
  [t EXCEPT !.applied = Renamed(t.applied, old, new),
            !.unapplied = Renamed(t.unapplied, old, new),
            !.hidden = Renamed(t.hidden, old, new),
            !.patches = [Forget(t.patches, {old}) EXCEPT ![new] = t.patches[old]],
            !.touched = t.touched \cup {old, new}]

ResetToState(t, s) ==
  [t EXCEPT !.applied = s.applied, !.unapplied = s.unapplied, !.hidden = s.hidden,
            !.patches = s.patches,
            !.touched = t.touched \cup Elems(AllPatches(t)) \cup Elems(AllPatches(s)),
            !.base = BaseOf(s, s.head), !.head = s.head]

\* reset_to_state_partially up to its final push: pop what will change, delete
\* what the old state does not have, bring back the old commits.
ResetPartially(t, s, only) ==
  LET existing == Elems(AllPatches(t))
      reset    == Elems(AllPatches(s)) \cap only
      delete   == (existing \ reset) \cap only
      matching == {n \in existing : s.patches[n] = t.patches[n]}
      t1       == DeletePatches(PopPatches(t, only), delete)
      change   == {n \in reset : n \notin existing \cap matching}
      fresh    == Keep(AllPatches(s), reset \ existing)
  IN  [t1 EXCEPT !.hidden = t1.hidden \o Keep(fresh, Elems(s.hidden)),
                 !.unapplied = t1.unapplied \o Drop(fresh, Elems(s.hidden)),
                 !.patches = Overlay(t1.patches, [n \in change |-> s.patches[n]]),
                 !.touched = t1.touched \cup change]

\* check_merged: taking the patches off the tree of the branch head, topmost
\* first, which reverse diffs still apply.
CheckMerged(t, headTree, names) ==
  LET undo[k \in 0..Len(names)] ==
        IF k = 0 THEN [tree |-> headTree, merged |-> {}]
        ELSE LET before == undo[k - 1]
                 n      == names[Len(names) - k + 1]
                 c      == t.patches[n]
                 p      == Tree(Parent(c))
             IN  IF ~IsNoChange(c) /\ PlainApplyClean(before.tree, Tree(c), p)
                   THEN [tree   |-> [f \in Files |-> IF Tree(c)[f] = p[f]
                                                       THEN before.tree[f] ELSE p[f]],
                         merged |-> before.merged \cup {n}]
                   ELSE before
  IN  {n \in Elems(names) : n \in undo[Len(names)].merged}
-----------------------------------------------------------------------------
(* What makes a stack state good. *)

\* Every patch is in exactly one place of exactly one list.
Partitioned(s) ==
  /\ NoDuplicates(AllPatches(s))
  /\ Elems(AllPatches(s)) = {n \in Names : HasPatch(s, n)}

\* Every patch sits on a parent, and the applied ones on each other.
Chained(s) ==
  /\ \A n \in Names : HasPatch(s, n) => HasParent(s.patches[n])
  /\ \A i \in 2..Len(s.applied) :
       Parent(s.patches[s.applied[i]]) = s.patches[s.applied[i - 1]]
=============================================================================
