------------------------------- MODULE StateLog -------------------------------
(***************************************************************************)
(* The stack state as git stores it, and several StGit processes that work *)
(* on one branch at the same time.                                         *)
(*                                                                         *)
(* Every transaction writes its state as a commit whose parents keep alive *)
(* what the state names: the commits of its patches and the state before   *)
(* it.  The parents are pruned and, when there are too many, bundled; git  *)
(* collects whatever no reference reaches.  A process opens the stack,     *)
(* runs a closure on what it read, writes the new state on top of the one  *)
(* that the stack reference names by then, and edits the references one by *)
(* one, each under a lock of its own.                                      *)
(***************************************************************************)
EXTENDS Integers, FiniteSets, SequencesExt

CONSTANTS Procs,       \* the StGit processes
          Names,       \* the patch names
          MaxParents,  \* MAX_PARENTS (16 in the code)
          MaxWrites,   \* bound: states that are written
          MaxCommits,  \* bound: commits that patches and plain git make
          MaxOpens,    \* bound: commands that are started
          MaxKills     \* bound: processes that are killed

ASSUME ParentsAssumption == MaxParents \in Nat /\ MaxParents > 1

VARIABLES
  objects,    \* the object database: a commit of each id that is still there
  lastId,     \* ids are given out in ascending order
  stackRef,   \* refs/stacks/<branch>
  branch,     \* refs/heads/<branch>
  patchRefs,  \* refs/patches/<branch>/*
  proc,       \* what each process has in memory
  logged,     \* history: the states that the stack reference named since `log --clear'
  count       \* how much of each bound is used up

vars == <<objects, lastId, stackRef, branch, patchRefs, proc, logged, count>>

None == 0   \* no commit

\* A commit: its parents and its tree, the stack state for all but the commits
\* of patches, which have the tree NoTree.
NoTree == [prev |-> None, head |-> None, applied |-> <<>>, unapplied |-> <<>>,
           hidden |-> <<>>, patches |-> [n \in Names |-> None]]

Commit(parents, tree) == [parents |-> parents, tree |-> tree]

IsState(c) == c.tree.head # None

AllPatches(s) == s.applied \o s.unapplied \o s.hidden

Top(s) == IF s.applied = <<>> THEN s.head ELSE s.patches[Last(s.applied)]

\* from_raw_state looks up every commit that the state names.
Readable(objs, s) ==
  /\ s.head \in DOMAIN objs
  /\ s.prev = None \/ s.prev \in DOMAIN objs
  /\ \A n \in ToSet(AllPatches(s)) : s.patches[n] \in DOMAIN objs
-----------------------------------------------------------------------------
(* StackState::commit. *)

\* An IndexSet with the ids inserted in this order and the removed ones taken out:
\* what is at the first positions of those that are left.
IndexSet(ids, removed) ==
  LET at     == {i \in 1..Len(ids) : ids[i] \notin removed /\ \A j \in 1..(i - 1) : ids[j] # ids[i]}
      nth(k) == CHOOSE i \in at : Cardinality({j \in at : j <= i}) = k
  IN  [k \in 1..Cardinality(at) |-> ids[nth(k)]]

CommitsOf(s, list) == [i \in 1..Len(list) |-> s.patches[list[i]]]

PrevList(s) == IF s.prev = None THEN <<>> ELSE <<s.prev>>

\* Mutation of ParentList: what was unapplied before is not kept alive again.
ParentListShort(objs, s) == IndexSet(<<s.head, Top(s)>> \o PrevList(s), {})

\* The parents of a state commit, without the patch commits of the state before,
\* which that state keeps alive.
ParentList(objs, s) ==
  LET named == <<s.head, Top(s)>> \o CommitsOf(s, s.unapplied) \o CommitsOf(s, s.hidden)
  IN  IndexSet(named \o PrevList(s),
               IF s.prev = None THEN {}
               ELSE LET before == objs[s.prev].tree
                    IN  {before.patches[n] : n \in ToSet(AllPatches(before))})

\* While there are too many parents, the last MaxParents become a group commit.
\* `first' is the id of the first group.
Group(b, first) ==
  LET n == Len(b.list) - MaxParents
  IN  IF n <= 0 THEN b
      ELSE [list   |-> Append(SubSeq(b.list, 1, n), first + Len(b.groups)),
            groups |-> Append(b.groups, SubSeq(b.list, n + 1, Len(b.list)))]

Bundle(parents, first) ==
  LET round[k \in 0..Len(parents)] ==
        IF k = 0 THEN [list |-> parents, groups |-> <<>>] ELSE Group(round[k - 1], first)
  IN  round[Len(parents)]

\* Mutation of StateCommits: the simplified entry follows the full one.
StateCommitsFull(objs, next, s) ==
  LET simple == Commit(PrevList(s), s)
      b      == Bundle(ParentList(objs, s), next + 1)
  IN  <<simple>> \o [k \in 1..Len(b.groups) |-> Commit(b.groups[k], s)]
        \o <<Commit(<<next>> \o b.list, s)>>

\* The commits that commit() writes from id `next' on, the state commit last: the
\* simplified log entry, the groups, and the state with all its parents.
StateCommits(objs, next, s) ==
  LET simple == Commit(IF s.prev = None THEN <<>> ELSE <<objs[s.prev].parents[1]>>, s)
      b      == Bundle(ParentList(objs, s), next + 1)
  IN  <<simple>> \o [k \in 1..Len(b.groups) |-> Commit(b.groups[k], s)]
        \o <<Commit(<<next>> \o b.list, s)>>

\* objs with the new commits under the ids that follow `last'.
Written(objs, last, commits) ==
  [i \in DOMAIN objs \cup (last + 1)..(last + Len(commits)) |->
     IF i > last THEN commits[i - last] ELSE objs[i]]

\* The ids that git reaches from roots.  Parents have smaller ids.
WithParents(objs, ids, i) ==
  IF i \in ids /\ i \in DOMAIN objs THEN ids \cup ToSet(objs[i].parents) ELSE ids

Reachable(objs, last, roots) ==
  LET below[k \in 0..last] ==
        IF k = 0 THEN roots ELSE WithParents(objs, below[k - 1], last - k + 1)
  IN  below[last]

\* The states behind a state commit, newest first, itself included.
WithPrev(objs, ids) ==
  LET i == Last(ids)
  IN  IF i \in DOMAIN objs /\ objs[i].tree.prev # None
        THEN Append(ids, objs[i].tree.prev) ELSE ids

History(objs, id) ==
  LET chain[k \in 0..lastId] == IF k = 0 THEN <<id>> ELSE WithPrev(objs, chain[k - 1])
  IN  chain[lastId]

State == objects[stackRef].tree
-----------------------------------------------------------------------------
NoProc == [pc |-> "idle", head |-> None, state |-> NoTree, trans |-> NoTree,
           touched |-> {}, prev |-> None, new |-> None, todo |-> {}, seen |-> <<>>, alone |-> FALSE]

Init ==
  LET s == [NoTree EXCEPT !.head = 1]
      written == StateCommits(<<Commit(<<>>, NoTree)>>, 2, s)
  IN  /\ objects = Written(<<Commit(<<>>, NoTree)>>, 1, written)
      /\ lastId = 1 + Len(written)
      /\ stackRef = lastId /\ branch = 1 /\ logged = {lastId}
      /\ patchRefs = [n \in Names |-> None]
      /\ proc = [p \in Procs |-> NoProc]
      /\ count = [writes |-> 0, commits |-> 0, opens |-> 0, kills |-> 0]

\* An action of p is seen by the others, none of which is alone any more.
Step(p, r) ==
  proc' = [q \in Procs |-> IF q = p THEN r ELSE [proc[q] EXCEPT !.alone = FALSE]]

Uses(what) == count' = [count EXCEPT ![what] = @ + 1]

\* A process that writes references has locked all of them before it begins, and
\* releases each with its edit.
Locked(others, r) == \E q \in others : proc[q].pc = "writing" /\ r \in proc[q].todo

Unlocked(p, refs) == \A r \in refs : ~Locked(Procs \ {p}, r)
-----------------------------------------------------------------------------
(* Opening the stack: Stack::from_branch. *)

ReadBranch(p) ==
  /\ proc[p].pc = "idle" /\ count.opens < MaxOpens
  /\ Step(p, [NoProc EXCEPT !.pc = "branch read", !.head = branch,
                            !.alone = \A q \in Procs \ {p} : proc[q].pc = "idle"])
  /\ Uses("opens")
  /\ UNCHANGED <<objects, lastId, stackRef, branch, patchRefs, logged>>

ReadState(p) ==
  /\ proc[p].pc = "branch read"
  /\ Step(p, [proc[p] EXCEPT !.pc = "ensure", !.state = State, !.todo = Names])
  /\ UNCHANGED <<objects, lastId, stackRef, branch, patchRefs, logged, count>>

\* ensure_patch_refs finds a reference that has to be put right, or looks at the
\* next one.
Finds(p, n, right) ==
  /\ Step(p, [proc[p] EXCEPT !.todo = @ \ {n}, !.seen = IF right THEN <<>> ELSE <<n, patchRefs[n]>>])
  /\ UNCHANGED <<objects, lastId, stackRef, branch, patchRefs, logged, count>>

\* Mutation of FindRef: references of patches that are gone are kept.
FindKnownRef(p) ==
  /\ proc[p].pc = "ensure" /\ proc[p].seen = <<>>
  /\ \E n \in proc[p].todo : Finds(p, n, proc[p].state.patches[n] \in {None, patchRefs[n]})

\* It goes by the state that was read, which may be old by now.
FindRef(p) ==
  /\ proc[p].pc = "ensure" /\ proc[p].seen = <<>>
  /\ \E n \in proc[p].todo : Finds(p, n, patchRefs[n] = proc[p].state.patches[n])

\* The reference is set, made or deleted, if it still is what was found.
FixRef(p) ==
  /\ proc[p].pc = "ensure" /\ proc[p].seen # <<>>
  /\ LET n == proc[p].seen[1]
     IN  /\ Unlocked(p, {n}) /\ patchRefs[n] = proc[p].seen[2]
         /\ patchRefs' = [patchRefs EXCEPT ![n] = proc[p].state.patches[n]]
  /\ Step(p, [proc[p] EXCEPT !.seen = <<>>])
  /\ UNCHANGED <<objects, lastId, stackRef, branch, logged, count>>

Opened(p) ==
  /\ proc[p].pc = "ensure" /\ proc[p].seen = <<>> /\ proc[p].todo = {}
  /\ Step(p, [proc[p] EXCEPT !.pc = "body"])
  /\ UNCHANGED <<objects, lastId, stackRef, branch, patchRefs, logged, count>>

EnsurePatchRefs(p) == FindRef(p) \/ FixRef(p) \/ Opened(p)

\* The command ends without having changed anything (more).
Ends(p) ==
  /\ Step(p, NoProc)
  /\ UNCHANGED <<objects, lastId, stackRef, branch, patchRefs, logged, count>>

\* A reference that has to be fixed is locked or was changed; or the branch moved
\* and the command refuses that (check_head_top_mismatch); or the state has been
\* made to match a moved branch, and a new patch, whose commit is made on the
\* branch, ends at the assertion of new_applied that its parent is the topmost patch.
OpenFails(p) ==
  /\ \/ /\ proc[p].pc = "ensure" /\ proc[p].seen # <<>>
        /\ ~Unlocked(p, {proc[p].seen[1]}) \/ patchRefs[proc[p].seen[1]] # proc[p].seen[2]
     \/ /\ proc[p].pc = "body" /\ proc[p].state.applied # <<>>
        /\ \/ proc[p].state.head # proc[p].head
           \/ proc[p].head # Top(proc[p].state)
  /\ Ends(p)
-----------------------------------------------------------------------------
(* The closure: transactions on what was read.  What all of them may do is  *)
(* in StackTransaction; these suffice to make, move, drop and bring back    *)
(* commits.                                                                 *)

Pops(s) == [s EXCEPT !.applied = Front(@), !.unapplied = <<Last(s.applied)>> \o @]

\* The first unapplied patch n is deleted, or hidden.
Deletes(s, n) == [s EXCEPT !.unapplied = Tail(@), !.patches[n] = None]

Hides(s, n) == [s EXCEPT !.unapplied = Tail(@), !.hidden = <<n>> \o @]

\* The closure arrives at s, with the commit c written if there is a new one, and
\* with updated_patches for the names in `touched'.
Arrives(p, s, c, touched) ==
  /\ IF c = <<>> THEN UNCHANGED <<objects, lastId, count>>
     ELSE /\ count.commits < MaxCommits /\ Uses("commits")
          /\ objects' = Written(objects, lastId, c) /\ lastId' = lastId + 1
  /\ Step(p, [proc[p] EXCEPT
       !.pc = IF proc[p].state.head = proc[p].head THEN "execute" ELSE "log",
       !.trans = s, !.touched = touched])
  /\ UNCHANGED <<stackRef, branch, patchRefs, logged>>

\* The head follows the topmost patch.
Changes(p, s, c) ==
  Arrives(p, [s EXCEPT !.head = Top(s)], c,
          {n \in Names : s.patches[n] # proc[p].state.patches[n]})

\* The base: where the stack has been opened with the branch at `head'.
BaseOf(p) ==
  LET s == proc[p].state
  IN  IF s.applied = <<>> THEN proc[p].head ELSE objects[s.patches[s.applied[1]]].parents[1]

InBody(p) ==
  /\ proc[p].pc = "body" /\ count.writes < MaxWrites
  /\ proc[p].state.applied = <<>> \/ proc[p].state.head = proc[p].head

NewPatch(p) ==
  /\ InBody(p)
  /\ proc[p].state.applied = <<>> \/ proc[p].head = Top(proc[p].state)
  /\ \E n \in Names :
       /\ proc[p].state.patches[n] = None
       /\ Changes(p, [proc[p].state EXCEPT !.applied = Append(@, n), !.patches[n] = lastId + 1],
                  <<Commit(<<proc[p].head>>, NoTree)>>)

\* The topmost patch gets a new commit.
Refresh(p) ==
  /\ InBody(p) /\ proc[p].state.applied # <<>>
  /\ LET n == Last(proc[p].state.applied)
     IN  Changes(p, [proc[p].state EXCEPT !.patches[n] = lastId + 1],
                 <<Commit(objects[proc[p].state.patches[n]].parents, NoTree)>>)

Pop(p) ==
  /\ InBody(p) /\ proc[p].state.applied # <<>>
  /\ LET s == Pops(proc[p].state)
     IN  Changes(p, [s EXCEPT !.head = BaseOf(p)], <<>>)

Push(p) ==
  /\ InBody(p) /\ proc[p].state.unapplied # <<>>
  /\ LET s    == proc[p].state
         n    == Head(s.unapplied)
         up   == [s EXCEPT !.applied = Append(@, n), !.unapplied = Tail(@)]
         top  == IF s.applied = <<>> THEN proc[p].head ELSE Top(s)
     IN  IF objects[s.patches[n]].parents = <<top>> THEN Changes(p, up, <<>>)
         ELSE Changes(p, [up EXCEPT !.patches[n] = lastId + 1], <<Commit(<<top>>, NoTree)>>)

HideOrDelete(p) ==
  /\ InBody(p) /\ proc[p].state.unapplied # <<>>
  /\ LET n == Head(proc[p].state.unapplied)
         s == [proc[p].state EXCEPT !.head = IF proc[p].state.applied = <<>> THEN proc[p].head ELSE @]
     IN  Changes(p, Hides(s, n), <<>>) \/ Changes(p, Deletes(s, n), <<>>)

\* undo and reset: back to a state of the log, which has to be readable, and to its
\* head, which is not its topmost patch where the branch had been moved.  The
\* references of all patches are written.  These do not mind that the branch moved.
Reset(p) ==
  /\ proc[p].pc = "body" /\ count.writes < MaxWrites
  /\ \E i \in ToSet(Tail(History(objects, stackRef))) :
       LET s == objects[i].tree
       IN  /\ i \in DOMAIN objects /\ Readable(objects, s)
           /\ Arrives(p, s, <<>>, {n \in Names : s.patches[n] # None
                                             \/ proc[p].state.patches[n] # None})

\* log --clear.
StartClear(p) ==
  /\ proc[p].pc = "body" /\ count.writes < MaxWrites
  /\ Step(p, [proc[p] EXCEPT !.pc = "clear"])
  /\ UNCHANGED <<objects, lastId, stackRef, branch, patchRefs, logged, count>>
-----------------------------------------------------------------------------
(* execute(): log_external_mods, the new state, the references. *)

\* Writes the state s on top of prev; the process goes on at step `next'.
WriteState(p, s, next) ==
  LET commits == StateCommits(objects, lastId + 1, s)
  IN  /\ objects' = Written(objects, lastId, commits)
      /\ lastId' = lastId + Len(commits)
      /\ Uses("writes")
      /\ Step(p, [proc[p] EXCEPT !.pc = next, !.prev = s.prev, !.new = lastId + Len(commits)])

LogExternalMods(p) ==
  /\ proc[p].pc = "log"
  /\ WriteState(p, [proc[p].state EXCEPT !.head = proc[p].head, !.prev = stackRef], "log edit")
  /\ UNCHANGED <<stackRef, branch, patchRefs, logged>>

LogEdit(p) ==
  /\ proc[p].pc = "log edit" /\ stackRef = proc[p].prev /\ Unlocked(p, {"stack"})
  /\ stackRef' = proc[p].new /\ logged' = logged \cup {proc[p].new}
  /\ Step(p, [proc[p] EXCEPT !.pc = "execute", !.state.head = proc[p].head])
  /\ UNCHANGED <<objects, lastId, branch, patchRefs, count>>

\* prev_state_commit is read again: it need not be the state that was opened.
Execute(p) ==
  /\ proc[p].pc = "execute"
  /\ WriteState(p, [proc[p].trans EXCEPT !.prev = stackRef], "edit")
  /\ UNCHANGED <<stackRef, branch, patchRefs, logged>>

\* The references that are locked and edited at once.
Edits(p) == {"stack"} \cup (IF proc[p].pc = "edit" THEN {"branch"} \cup proc[p].touched ELSE {})

\* Mutation of PrepareEdits: the old value of the stack reference is not asked for.
PrepareUnchecked(p) ==
  /\ proc[p].pc = "edit" /\ Unlocked(p, Edits(p))
  /\ Step(p, [proc[p] EXCEPT !.pc = "writing", !.todo = Edits(p)])
  /\ UNCHANGED <<objects, lastId, stackRef, branch, patchRefs, logged, count>>

\* edit_references locks all references and compares the old values, of which
\* only the one of the stack reference is asked for.
PrepareEdits(p) ==
  /\ proc[p].pc = "edit" /\ Unlocked(p, Edits(p)) /\ stackRef = proc[p].prev
  /\ Step(p, [proc[p] EXCEPT !.pc = "writing", !.todo = Edits(p)])
  /\ UNCHANGED <<objects, lastId, stackRef, branch, patchRefs, logged, count>>

\* A reference is locked, or the stack reference is no longer what it was, which
\* `log --clear' does not ask for.
EditFails(p) ==
  /\ proc[p].pc \in {"edit", "log edit", "clear"}
  /\ ~Unlocked(p, Edits(p)) \/ (proc[p].pc # "clear" /\ stackRef # proc[p].prev)
  /\ Ends(p)

\* One reference after the other.
WriteReference(p) ==
  /\ proc[p].pc = "writing"
  /\ \E r \in proc[p].todo :
       /\ stackRef'  = IF r = "stack" THEN proc[p].new ELSE stackRef
       /\ logged'    = IF r = "stack" THEN logged \cup {proc[p].new} ELSE logged
       /\ branch'    = IF r = "branch" THEN proc[p].trans.head ELSE branch
       /\ patchRefs' = IF r \in Names THEN [patchRefs EXCEPT ![r] = proc[p].trans.patches[r]]
                                      ELSE patchRefs
       /\ Step(p, [proc[p] EXCEPT !.todo = @ \ {r}])
  /\ UNCHANGED <<objects, lastId, count>>

Finish(p) ==
  /\ proc[p].pc = "writing" /\ proc[p].todo = {}
  /\ Step(p, [NoProc EXCEPT !.alone = proc[p].alone])
  /\ UNCHANGED <<objects, lastId, stackRef, branch, patchRefs, logged, count>>

\* clear_state_log writes the opened state without a predecessor, whatever the
\* stack reference names by now.
ClearStateLog(p) ==
  /\ proc[p].pc = "clear" /\ Unlocked(p, {"stack"})
  /\ LET commits == StateCommits(objects, lastId + 1, [proc[p].state EXCEPT !.prev = None])
     IN  /\ objects' = Written(objects, lastId, commits)
         /\ lastId' = lastId + Len(commits)
         /\ stackRef' = lastId' /\ logged' = {lastId'}
  /\ Uses("writes") /\ Step(p, NoProc)
  /\ UNCHANGED <<branch, patchRefs>>

Kill(p) ==
  /\ proc[p].pc # "idle" /\ count.kills < MaxKills
  /\ Uses("kills")
  /\ Step(p, NoProc)
  /\ UNCHANGED <<objects, lastId, stackRef, branch, patchRefs, logged>>
-----------------------------------------------------------------------------
(* Plain git. *)

GitCommit ==
  /\ ~Locked(Procs, "branch") /\ count.commits < MaxCommits /\ Uses("commits")
  /\ objects' = Written(objects, lastId, <<Commit(<<branch>>, NoTree)>>)
  /\ lastId' = lastId + 1 /\ branch' = lastId'
  /\ proc' = [p \in Procs |-> [proc[p] EXCEPT !.alone = FALSE]]
  /\ UNCHANGED <<stackRef, patchRefs, logged>>

\* Unreachable objects go.  They have to be weeks old first, so nothing that a
\* running command has written or read is among them.
Gc ==
  /\ \A p \in Procs : proc[p].pc = "idle"
  /\ LET kept == Reachable(objects, lastId,
                           {stackRef, branch} \cup {patchRefs[n] : n \in Names})
     IN  /\ kept \cap DOMAIN objects # DOMAIN objects
         /\ objects' = [i \in kept \cap DOMAIN objects |-> objects[i]]
  /\ UNCHANGED <<lastId, stackRef, branch, patchRefs, proc, logged, count>>

Opening(p)  == ReadBranch(p) \/ ReadState(p) \/ EnsurePatchRefs(p) \/ OpenFails(p)
Closure(p)  == NewPatch(p) \/ Refresh(p) \/ Pop(p) \/ Push(p) \/ HideOrDelete(p)
                 \/ Reset(p) \/ StartClear(p)
Executing(p) == LogExternalMods(p) \/ LogEdit(p) \/ Execute(p) \/ PrepareEdits(p)
                  \/ EditFails(p) \/ WriteReference(p) \/ Finish(p) \/ ClearStateLog(p)

Next ==
  \/ \E p \in Procs : Opening(p) \/ Closure(p) \/ Executing(p) \/ Kill(p)
  \/ GitCommit \/ Gc

Spec == Init /\ [][Next]_vars
-----------------------------------------------------------------------------
(* Properties. *)

\* Every state of the log can still be read: the commits of all its patches, its
\* head and its predecessor are there, whatever was collected, however parents
\* were pruned and bundled, and whoever wrote in between.  undo and reset rely on
\* it, and so does commit() itself.
LoggedStatesReadable ==
  \A i \in ToSet(History(objects, stackRef)) :
    i \in DOMAIN objects /\ Readable(objects, objects[i].tree)

\* A state that was once installed stays in the log until `log --clear': two
\* processes can overwrite each other's result, but never the record of it.
InstalledStatesStayLogged == logged \subseteq ToSet(History(objects, stackRef))

\* `stg log' walks the simplified commits, first parents of the state commits:
\* it shows the trees of exactly the states that `undo' walks.
SimplifiedLogAgrees ==
  LET h == History(objects, stackRef)
      simple[k \in 1..Len(h)] ==
        IF k = 1 THEN objects[stackRef].parents[1] ELSE objects[simple[k - 1]].parents[1]
  IN  /\ \A k \in 1..Len(h) : objects[simple[k]].tree = objects[h[k]].tree
      /\ objects[simple[Len(h)]].parents = <<>>

\* A command that ran to its end with nobody interfering leaves branch, stack
\* state and patch references in agreement, whatever mixture of killed and
\* overtaken commands it started from.
OneCommandHeals ==
  [][\A p \in Procs : Finish(p) /\ proc[p].alone =>
       patchRefs = State.patches /\ branch = State.head]_vars
=============================================================================
