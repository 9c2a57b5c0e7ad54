------------------------------ MODULE GitModel ------------------------------
(***************************************************************************)
(* What StGit uses of git: trees, commits, the three-way merge, and the    *)
(* checkout primitives that `stupid/context.rs` runs as git subprocesses.  *)
(*                                                                         *)
(* A tree gives every file its content.  A commit is its first-parent      *)
(* history: the sequence of [tree, meta] entries from the root commit to   *)
(* the commit itself.  Equal histories are equal commits, which is git's   *)
(* content addressing; the parent of a commit is its prefix.  "meta"       *)
(* stands for the author and the message.                                  *)
(***************************************************************************)
EXTENDS Integers, Sequences, FiniteSets

CONSTANTS Files,     \* the tracked paths
          Contents,  \* the contents a file can have (absence is one of them)
          Metas      \* author and message of a commit

Trees == [Files -> Contents]

Commits == Seq([tree : Trees, meta : Metas]) \ {<<>>}

\* "There is no commit": an absent patch, an unset updated_head.
NoCommit == <<>>

MaybeCommits == Seq([tree : Trees, meta : Metas])

Tree(c) == c[Len(c)].tree

Meta(c) == c[Len(c)].meta

\* A root commit has none: get_parent_commit() is an error there.
HasParent(c) == Len(c) > 1

Parent(c) == SubSeq(c, 1, Len(c) - 1)

MkCommit(parent, tree, meta) == Append(parent, [tree |-> tree, meta |-> meta])

\* The commit has the tree of its parent.
IsNoChange(c) == HasParent(c) /\ Tree(c) = Tree(Parent(c))
-----------------------------------------------------------------------------
(* The three-way merge, file by file.  A file that both sides changed, to  *)
(* different contents, is in conflict.                                     *)

ConflictFiles(base, ours, theirs) ==
  {f \in Files : /\ ours[f] # base[f]
                 /\ theirs[f] # base[f]
                 /\ ours[f] # theirs[f]}

MergeTree(base, ours, theirs) ==
  [f \in Files |-> IF ours[f] = base[f] THEN theirs[f] ELSE ours[f]]

\* apply_treediff_to_index(base, theirs, 3way) on an index that holds ours.
ApplyClean(base, ours, theirs) == ConflictFiles(base, ours, theirs) = {}

\* apply_treediff_to_index(from, to, FALSE): every file the diff touches
\* must have the diff's old content.
PlainApplyClean(index, from, to) ==
  \A f \in Files : from[f] # to[f] => index[f] = from[f]
-----------------------------------------------------------------------------
(* The index and the worktree, as one record.  `unmerged' is the set of    *)
(* files with conflict entries in the index.                               *)

Workdirs == [index : Trees, work : Trees, unmerged : SUBSET Files]

Dirty(w) == {f \in Files : w.work[f] # w.index[f]}

\* The two-tree `read-tree -m -u` refuses when the index is unmerged or when
\* a file that changes between the trees is neither clean nor there already.
ReadTreeOk(w, from, to) ==
  /\ w.unmerged = {}
  /\ \A f \in Files :
       \/ from[f] = to[f]
       \/ w.index[f] = to[f]
       \/ w.index[f] = from[f] /\ w.work[f] = w.index[f]

ReadTreeCheckout(w, from, to) ==
  [w EXCEPT
     !.index = [f \in Files |-> IF from[f] = to[f] THEN w.index[f] ELSE to[f]],
     !.work  = [f \in Files |-> IF from[f] = to[f] \/ w.index[f] = to[f]
                                  THEN w.work[f] ELSE to[f]]]

ReadTreeCheckoutHard(to) == [index |-> to, work |-> to, unmerged |-> {}]

\* merge-recursive works on the real index and worktree: the index has to be
\* `ours' and the files the merge changes have to be clean.
MergeRecursiveOk(w, base, ours, theirs) ==
  /\ w.unmerged = {}
  /\ w.index = ours
  /\ \A f \in Files :
       theirs[f] # base[f] /\ theirs[f] # ours[f] => w.work[f] = w.index[f]

MergeRecursive(w, base, ours, theirs) ==
  LET merged == MergeTree(base, ours, theirs)
  IN  [index    |-> merged,
       work     |-> [f \in Files |-> IF merged[f] = ours[f] THEN w.work[f] ELSE merged[f]],
       unmerged |-> ConflictFiles(base, ours, theirs)]
=============================================================================
