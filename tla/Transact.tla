------------------------------ MODULE Transact ------------------------------
(***************************************************************************)
(* A whole stack transaction as one step, for the commands that make       *)
(* several: setup_transaction(), the methods its closure calls, execute(). *)
(* StackTransaction has the same code at the grain of its own steps, with  *)
(* kills and failures in between; here a transaction is a value x that the *)
(* operators below pass on.                                                *)
(***************************************************************************)
EXTENDS StackOps

\* TransactionOptions, as far as the commands of Workflows set them.
Options == [iw : BOOLEAN, push_conflicts : BOOLEAN, conflicts : {"disallow", "allow"}]

NoWorktree == [iw |-> FALSE, push_conflicts |-> TRUE, conflicts |-> "disallow"]
InWorktree == [NoWorktree EXCEPT !.iw = TRUE]

\* A repository r has a stack `state', a `branch' and an index with worktree `wd'.
\* x: the transaction t, the worktree and the error of the closure so far.
Setup(r, o) ==
  [t |-> Begin(r.state, r.branch, o.conflicts), r |-> r, wd |-> r.wd, err |-> "none", o |-> o]

\* A method that cannot fail leaves the transaction as t.
With(x, t) == IF x.err = "none" THEN [x EXCEPT !.t = t] ELSE x

Fail(x, err) == IF x.err = "none" THEN [x EXCEPT !.err = err] ELSE x

\* The temporary index of one push_patches: as in StackTransaction, `id' is the
\* tree it was filled with, `index' what it holds.
TempIndex(x, names, merged) ==
  LET m == IF merged THEN CheckMerged(x.t, Tree(x.r.branch), names) ELSE {}
  IN  [known |-> merged /\ m = {}, id |-> Tree(x.r.branch), index |-> Tree(x.r.branch),
       broken |-> FALSE, merged |-> m]

\* push_patch of n; y pairs the transaction with its temporary index.
PushOne(y, n) ==
  LET x     == y.x
      t     == x.t
      c     == t.patches[n]
      old   == Tree(Parent(c))
      new   == Tree(Top(t))
      swap  == y.temp.known /\ y.temp.id = Tree(c)
      ours  == IF swap THEN Tree(c) ELSE new
      their == IF swap THEN new ELSE Tree(c)
      held  == y.temp.known /\ y.temp.id = ours
      index == IF held THEN y.temp.index ELSE ours
      tree  == MergeTree(old, index, their)
      spent == [y.temp EXCEPT !.known = TRUE, !.id = ours, !.broken = TRUE]
      out   == ReadTreeCheckout(x.wd, t.tree, ours)
      m     == MergeRecursive(out, old, ours, their)
      as(u, w, cur, temp) ==
        [x |-> [x EXCEPT !.t = [PushPatch(t, n, u) EXCEPT !.tree = cur], !.wd = w],
         temp |-> temp]
      halt(w, cur) ==
        [x |-> [x EXCEPT !.t.tree = cur, !.wd = w, !.err = "halt"], temp |-> spent]
      conflict == PushPatch(t, n, ours)
  IN  IF x.err # "none" THEN y
      ELSE IF n \in y.temp.merged \/ old = Tree(c) THEN as(new, x.wd, t.tree, y.temp)
      ELSE IF old = new \/ new = Tree(c) THEN as(Tree(c), x.wd, t.tree, y.temp)
      ELSE IF ~(held /\ y.temp.broken) /\ ApplyClean(old, index, their)
        THEN as(tree, x.wd, t.tree,
                [y.temp EXCEPT !.known = TRUE, !.id = ours, !.index = tree, !.broken = FALSE])
      ELSE IF ~(x.o.iw /\ x.o.push_conflicts /\ ReadTreeOk(x.wd, t.tree, ours)) THEN halt(x.wd, t.tree)
      ELSE IF ~MergeRecursiveOk(out, old, ours, their) THEN halt(out, ours)
      ELSE IF m.unmerged = {} THEN as(m.index, m, m.index, spent)
      ELSE [x |-> [x EXCEPT !.t = [conflict EXCEPT !.tree = ours, !.conflicts = "allow",
                                                   !.head = conflict.patches[n]],
                            !.wd = m, !.err = "conflict"],
            temp |-> spent]

PushPatches(x, names, merged) ==
  LET push[k \in 0..Len(names)] ==
        IF k = 0 THEN [x |-> x, temp |-> TempIndex(x, names, merged)]
        ELSE PushOne(push[k - 1], names[k])
  IN  push[Len(names)].x

PushTreePatches(x, names) ==
  LET push[k \in 0..Len(names)] ==
        IF k = 0 THEN x ELSE With(push[k - 1], PushTree(push[k - 1].t, names[k]))
  IN  push[Len(names)]

\* hide_patches of patches that are not applied.
HideUnapplied(t, names) ==
  [t EXCEPT !.unapplied = Drop(@, Elems(names)), !.hidden = names \o @]
-----------------------------------------------------------------------------
CheckoutOk(w, from, to, mode) ==
  IF from = to THEN w.unmerged = {} \/ mode = "allow" ELSE ReadTreeOk(w, from, to)

CheckedOut(w, from, to) == IF from = to THEN w ELSE ReadTreeCheckout(w, from, to)

\* execute(): the repository afterwards, and how it ended.  An ordinary error of
\* the closure is returned without touching anything; a moved branch is logged; a
\* checkout that fails is rolled back.
Execute(x) ==
  LET head == TransHead(x.t)
      here == x.t.tree
      back == Tree(x.r.branch)
      \* log_external_mods
      kept == [x.r.state EXCEPT !.head = x.r.branch]
      new  == [head |-> head, applied |-> x.t.applied, unapplied |-> x.t.unapplied,
               hidden |-> x.t.hidden, patches |-> x.t.patches]
      ok   == ~x.o.iw \/ CheckoutOk(x.wd, here, Tree(head), x.t.conflicts)
  IN  IF x.err = "error"
        THEN [r |-> [x.r EXCEPT !.wd = x.wd], how |-> "error"]
      ELSE IF ~ok
        THEN [r |-> [x.r EXCEPT
                       !.state = kept,
                       !.wd = IF CheckoutOk(x.wd, here, back, x.t.conflicts)
                                THEN CheckedOut(x.wd, here, back) ELSE x.wd],
              how |-> "aborted"]
      ELSE [r |-> [state |-> new, branch |-> head,
                   wd |-> IF x.o.iw THEN CheckedOut(x.wd, here, Tree(head)) ELSE x.wd],
            how |-> IF x.err = "none" THEN "ok" ELSE x.err]
=============================================================================
