-------------------------- MODULE StackTransaction --------------------------
(***************************************************************************)
(* One StGit process running stack transactions on the branch that is      *)
(* checked out, between a user who edits files and uses plain git.         *)
(*                                                                         *)
(* A transaction opens the stack (Stack::from_branch, setup_transaction),  *)
(* runs a closure that calls methods of StackTransaction in some order,    *)
(* and is executed: worktree checkout first, then, in the critical         *)
(* section, the new stack state and all references.  Every way in which    *)
(* `execute' can end is an action here.  Commands are exactly particular   *)
(* sequences of the method calls below, so what holds of all sequences     *)
(* holds of every command.                                                 *)
(***************************************************************************)
EXTENDS StackOps

CONSTANTS InitStates,   \* the stack states a behaviour may start from
          OptionSets,   \* the commands: TransactionOptions and methods called
          Events,       \* what the environment may do, a subset of AllEvents
          MaxOps,       \* bound: method calls in one closure
          MaxPush,      \* bound: patches in one push or one patch list argument
          MaxLog,       \* bound: a command is opened only below this length of the state log
          MaxDepth      \* bound: length of a commit's first-parent history

AllEvents == {"edit",       \* the user edits files between commands
              "git",        \* the user commits or resets with plain git
              "body",       \* the closure fails with an ordinary error
              "refuse",     \* the reference transaction is refused as a whole
              "torn",       \* the reference transaction fails halfway
              "interrupt",  \* one ctrl-c during the critical section
              "crash"}      \* the process is killed

\* The methods of StackTransaction that a closure may call.
Methods == {"pop", "delete", "push", "push_tree", "new_applied", "new_unapplied",
            "update", "reorder", "hide", "unhide", "rename", "commit", "uncommit",
            "repair", "reset", "reset_partially"}

\* What a command brings: its TransactionOptions, whether it called
\* check_head_top_mismatch before it set the transaction up (`checked'), and
\* the methods its closure calls.
AllOptions == [conflicts : ConflictModes, push_conflicts : BOOLEAN, discard : BOOLEAN,
               use_iw : BOOLEAN, set_head : BOOLEAN, bad_head : BOOLEAN,
               checked : BOOLEAN, calls : SUBSET Methods]

ASSUME EventsAssumption == Events \subseteq AllEvents

ASSUME OptionsAssumption == OptionSets \subseteq AllOptions

ASSUME InitAssumption ==
  \A s \in InitStates :
    /\ s \in States
    /\ Partitioned(s) /\ Chained(s)
    /\ s.head = StateTop(s)

ASSUME BoundsAssumption ==
  MaxOps \in Nat /\ MaxPush \in Nat /\ MaxLog \in Nat /\ MaxDepth \in Nat

VARIABLES
  stateLog,   \* refs/stacks/<branch>: the last state, and its chain of `prev'
  branch,     \* refs/heads/<branch>
  patchRefs,  \* refs/patches/<branch>/*
  wd,         \* index and worktree
  pc,         \* where the process is
  opts,       \* the options of the transaction
  stk,        \* the Stack it opened: its state and its branch_head
  txn,        \* the StackTransaction
  todo,       \* calls that the running method still has to make
  temp,       \* the temporary index of the running push_patches
  err,        \* the error of the closure: "none", "halt", "conflict" or "error"
  ops,        \* method calls made by the closure
  outcome,    \* how the last transaction ended
  snap        \* history: the repository when the transaction opened

repo == <<stateLog, branch, patchRefs, wd>>
proc == <<pc, opts, stk, txn, todo, temp, err, ops, outcome, snap>>
body == <<opts, stk, outcome, snap>>
vars == <<repo, proc>>

State == stateLog[Len(stateLog)]

\* A call the running method will make: a push_patches of `names' (with or
\* without check_merged), the end of reorder_patches (which asserts that the
\* applied patches are `names' and assigns the other lists), or the end of
\* commit_patches for `names'.
Calls == [op : {"push", "push merged", "lists", "base"},
          names : Seq(Names), unapplied : Seq(Names), hidden : Seq(Names)]

CallOn(op, names)   == [op |-> op, names |-> names, unapplied |-> <<>>, hidden |-> <<>>]
PushCall(names)     == CallOn("push", names)
MergedCall(names)   == CallOn("push merged", names)
BaseCall(names)     == CallOn("base", names)
ListsCall(a, u, h)  == [op |-> "lists", names |-> a, unapplied |-> u, hidden |-> h]

\* The temporary index.  `id' is temp_index_tree_id, valid when `known';
\* `index' is what the index really holds, unless a failed apply left it
\* `broken'.
Temps == [open : BOOLEAN, known : BOOLEAN, id : Trees, index : Trees,
          broken : BOOLEAN, merged : SUBSET Names]

(* While no command runs, the memory of the process has these values. *)

Oldest == stateLog[1]

NoOptions == [conflicts |-> "disallow", push_conflicts |-> TRUE, discard |-> FALSE,
              use_iw |-> FALSE, set_head |-> TRUE, bad_head |-> FALSE,
              checked |-> TRUE, calls |-> {}]

NoStack == [state |-> Oldest, head |-> Oldest.head]

NoTxn == Begin(Oldest, Oldest.head, "disallow")

NoTemp == [open |-> FALSE, known |-> FALSE, id |-> Tree(Oldest.head),
           index |-> Tree(Oldest.head), broken |-> FALSE, merged |-> {}]

NoSnap == [branch |-> Oldest.head, state |-> Oldest,
           wd |-> ReadTreeCheckoutHard(Tree(Oldest.head))]

TypeOK ==
  /\ stateLog \in Seq(States) \ {<<>>}
  /\ branch \in Commits
  /\ patchRefs \in PatchMaps
  /\ wd \in Workdirs
  /\ pc \in {"idle", "body", "execute", "checkout", "critical"}
  /\ opts \in AllOptions
  /\ stk \in [state : States, head : Commits]
  /\ txn \in Transactions
  /\ todo \in Seq(Calls)
  /\ temp \in Temps
  /\ err \in {"none", "halt", "conflict", "error"}
  /\ ops \in Nat
  /\ outcome \in {"none", "ok", "halted", "conflict", "aborted", "error",
                  "stuck", "torn", "interrupted", "crashed", "panicked"}
  /\ snap \in [branch : Commits, state : States, wd : Workdirs]
-----------------------------------------------------------------------------
Init ==
  /\ \E s \in InitStates :
       /\ stateLog = <<s>>
       /\ branch = s.head
       /\ patchRefs = s.patches
       /\ wd = ReadTreeCheckoutHard(Tree(s.head))
  /\ pc = "idle" /\ outcome = "none" /\ opts = NoOptions
  /\ stk = NoStack /\ txn = NoTxn /\ todo = <<>> /\ temp = NoTemp
  /\ err = "none" /\ ops = 0 /\ snap = NoSnap

(* The user, between commands. *)

\* An edit; one at a time, which is a bound on the model.
EditFile ==
  /\ pc = "idle" /\ "edit" \in Events
  /\ Dirty(wd) = {}
  /\ \E f \in Files, v \in Contents :
       wd' = [wd EXCEPT !.work = [wd.work EXCEPT ![f] = v]]
  /\ UNCHANGED <<stateLog, branch, patchRefs, proc>>

\* `git add' of every conflicted file, with whatever content it now has.
ResolveConflicts ==
  /\ pc = "idle" /\ "edit" \in Events /\ wd.unmerged # {}
  /\ \E v \in Contents :
       LET fix(t) == [f \in Files |-> IF f \in wd.unmerged THEN v ELSE t[f]]
       IN  wd' = [index |-> fix(wd.index), work |-> fix(wd.work), unmerged |-> {}]
  /\ UNCHANGED <<stateLog, branch, patchRefs, proc>>

\* `git commit -a'.
GitCommit ==
  /\ pc = "idle" /\ "git" \in Events
  /\ wd.unmerged = {} /\ Len(branch) < MaxDepth
  /\ \E m \in Metas : branch' = MkCommit(branch, wd.work, m)
  /\ wd' = [wd EXCEPT !.index = wd.work]
  /\ UNCHANGED <<stateLog, patchRefs, proc>>

\* `git reset --hard', to HEAD^ or to the reference of a patch.
GitReset ==
  /\ pc = "idle" /\ "git" \in Events
  /\ \/ HasParent(branch) /\ branch' = Parent(branch)
     \/ \E n \in Names : patchRefs[n] # NoCommit /\ branch' = patchRefs[n]
  /\ wd' = ReadTreeCheckoutHard(Tree(branch'))
  /\ UNCHANGED <<stateLog, patchRefs, proc>>
-----------------------------------------------------------------------------
(* Opening the stack.  from_branch makes the patch references agree with   *)
(* the stack state before anything else (ensure_patch_refs).               *)

Mismatch == State.applied # <<>> /\ State.head # branch

OpenStack ==
  /\ pc = "idle" /\ Len(stateLog) < MaxLog
  /\ \E o \in OptionSets :
       /\ o.checked => ~Mismatch
       /\ opts' = o
       /\ txn' = Begin(State, branch, o.conflicts)
  /\ patchRefs' = State.patches
  /\ stk' = [state |-> State, head |-> branch]
  /\ pc' = "body" /\ err' = "none" /\ ops' = 0 /\ todo' = <<>> /\ temp' = NoTemp
  /\ outcome' = "none"
  /\ snap' = [branch |-> branch, state |-> State, wd |-> wd]
  /\ UNCHANGED <<stateLog, branch, wd>>

\* "HEAD and stack top are not the same": the command gives up.
RefuseMismatch ==
  /\ pc = "idle" /\ Mismatch
  /\ \E o \in OptionSets : o.checked
  /\ patchRefs' = State.patches
  /\ outcome' = "error"
  /\ UNCHANGED <<stateLog, branch, wd, pc, opts, stk, txn, todo, temp, err, ops, snap>>
-----------------------------------------------------------------------------
(* The closure: one action per method of StackTransaction.                 *)

\* The lists of distinct names from S, at most MaxPush long.
Lists(S) == {s \in UNION {[1..k -> S] : k \in 1..MaxPush} : NoDuplicates(s)}

Existing == Elems(AllPatches(txn))

Fresh == Names \ Existing

\* The closure calls a method that leaves the transaction as t and has the
\* calls cs still to make.  No caller goes on after a reset_to_state, which
\* sets the head.
Call(method, t, cs) ==
  /\ pc = "body" /\ todo = <<>> /\ ops < MaxOps
  /\ method \in opts.calls
  /\ txn.head = NoCommit
  /\ txn' = t
  /\ todo' = cs
  /\ ops' = ops + 1
  /\ UNCHANGED <<repo, body, pc, temp, err>>

\* A tree a user would make from tree t: one file changed, or none.
Edits(t) == {[t EXCEPT ![f] = v] : f \in Files, v \in Contents}

Pop ==
  \E S \in SUBSET Elems(txn.applied) : Call("pop", PopPatches(txn, S), <<>>)

\* delete_patches: some callers push the incidental patches back at once (delete,
\* clean, squash), others go on without (rebase, refresh, import).
Delete ==
  \E S \in SUBSET (Existing \cap Elems(AllPatches(stk.state))), again \in BOOLEAN :
    /\ S # {}
    /\ Call("delete", DeletePatches(txn, S),
            IF again THEN <<PushCall(Incidental(txn, S))>> ELSE <<>>)

Push ==
  \E names \in Lists(Elems(txn.unapplied) \cup Elems(txn.hidden)), merged \in BOOLEAN :
    Call("push", txn, <<IF merged THEN MergedCall(names) ELSE PushCall(names)>>)

PushSetTree ==
  \E n \in Elems(txn.unapplied) \cup Elems(txn.hidden) : Call("push_tree", PushTree(txn, n), <<>>)

\* The commit is made on the branch head, before anything else is done.
New ==
  /\ ops = 0 => stk.head = Top(txn)
  /\ \E n \in Fresh, tree \in Edits(Tree(Top(txn))), m \in Metas :
       /\ Len(Top(txn)) < MaxDepth
       /\ Call("new_applied", NewApplied(txn, n, MkCommit(Top(txn), tree, m)), <<>>)

\* pick and squash put a commit made elsewhere on the unapplied list.
AddUnapplied ==
  \E n \in Fresh, pos \in 0..Len(txn.unapplied),
     tree \in Edits(Tree(stk.head)), m \in Metas :
    /\ Len(stk.head) < MaxDepth
    /\ Call("new_unapplied", NewUnapplied(txn, n, MkCommit(stk.head, tree, m), pos), <<>>)

\* The callers update the topmost patch, after popping the ones above it, or
\* a patch that is not applied; the new commit has the old parent.
Update ==
  \E n \in Existing :
    LET c == txn.patches[n]
    IN  /\ n \in Elems(txn.applied) => n = txn.applied[Len(txn.applied)]
        /\ \E tree \in Edits(Tree(c)), m \in Metas :
             Call("update", UpdatePatch(txn, n, MkCommit(Parent(c), tree, m)), <<>>)

\* reorder_patches with new applied and unapplied lists (float, sink, goto,
\* pop): pop to the common prefix, push the rest, assign the unapplied list.
Reorder ==
  \E a \in Lists(Elems(txn.applied) \cup Elems(txn.unapplied)) :
    LET common == NumCommon(txn.applied, a)
        off    == SubSeq(txn.applied, common + 1, Len(txn.applied))
        rest   == Drop(txn.applied \o txn.unapplied, Elems(a))
    IN  Call("reorder", PopPatches(txn, Elems(off)),
             <<PushCall(SubSeq(a, common + 1, Len(a))), ListsCall(a, rest, txn.hidden)>>)

Hide ==
  \E names \in Lists(Elems(txn.applied) \cup Elems(txn.unapplied)) :
    LET a      == Drop(txn.applied, Elems(names))
        common == NumCommon(txn.applied, a)
        off    == SubSeq(txn.applied, common + 1, Len(txn.applied))
    IN  Call("hide", PopPatches(txn, Elems(off)),
             <<PushCall(SubSeq(a, common + 1, Len(a))),
               ListsCall(a, Drop(txn.unapplied, Elems(names)), names \o txn.hidden)>>)

Unhide ==
  \E names \in Lists(Elems(txn.hidden)) : Call("unhide", UnhidePatches(txn, names), <<>>)

\* The name is free in the stack: cmd/rename.rs checks, the editor uniquifies.
Rename ==
  \E old \in Existing \cap Elems(AllPatches(stk.state)), new \in Fresh :
    /\ ~HasPatch(stk.state, new)
    /\ Call("rename", RenamePatch(txn, old, new), <<>>)

\* commit_patches of S, in stack order: what is below and not in S is popped,
\* S pushed, the base moved, and the rest pushed again.
Commit ==
  \E S \in SUBSET (Elems(txn.applied) \cup Elems(txn.unapplied)) :
    LET names  == Keep(txn.applied \o txn.unapplied, S)
        common == NumCommon(txn.applied, names)
        above  == Drop(SubSeq(txn.applied, common + 1, Len(txn.applied)), S)
    IN  /\ S # {}
        /\ S \subseteq Elems(AllPatches(stk.state))
        /\ IF common < Len(names)
             THEN Call("commit", PopPatches(txn, Elems(above)),
                       <<PushCall(SubSeq(names, common + 1, Len(names))),
                         BaseCall(names), PushCall(above)>>)
             ELSE Call("commit", txn, <<BaseCall(names)>>)

\* The k commits from the base down become patches.
Uncommit ==
  \E names \in Lists(Fresh) :
    LET k  == Len(names)
        at == [n \in Elems(names) |->
                 SubSeq(txn.base, 1, Len(txn.base) - k
                                       + CHOOSE i \in 1..k : names[i] = n)]
    IN  /\ ops = 0 /\ Len(txn.base) > k
        /\ Call("uncommit", UncommitPatches(txn, names, at), <<>>)

\* repair looks at the commits from the branch head down to the stack base or,
\* if the base is not below the head, down to the last commit with a parent.
ReachesBase ==
  Len(txn.base) < Len(stk.head) /\ txn.base = SubSeq(stk.head, 1, Len(txn.base))

RepairSeen ==
  {SubSeq(stk.head, 1, k) : k \in (IF ReachesBase THEN Len(txn.base) + 1 ELSE 2)..Len(stk.head)}

\* The patches it finds there: for every commit the first patch that has it.
RepairFound ==
  LET all == AllPatches(txn)
  IN  {n \in Existing : /\ txn.patches[n] \in RepairSeen
                        /\ \A i, j \in DOMAIN all :
                             all[j] = n /\ txn.patches[all[i]] = txn.patches[n] => j <= i}

\* The other commits it makes patches of: those above a patch, or all of them
\* when it has reached the base.
RepairNew ==
  {c \in RepairSeen :
     /\ \A n \in Existing : txn.patches[n] # c
     /\ ReachesBase \/ \E n \in RepairFound : Len(txn.patches[n]) < Len(c)}

\* The names are in the order of their commits, the lowest first.
Ascending(names, f) ==
  \A i, j \in DOMAIN names : i < j => Len(f[names[i]]) < Len(f[names[j]])

\* repair_appliedness with a for the applied patches.
RepairLists(a) ==
  RepairAppliedness(txn, a, Drop(txn.applied \o txn.unapplied, Elems(a)),
                    Drop(txn.hidden, Elems(a)))

\* The assertion of new_applied: each new patch is parented by the one on top.
ParentsOnTop(t) == \A c \in RepairNew : Parent(c) \in RepairNew \cup {Top(t)}

Repair ==
  \E a \in {<<>>} \cup Lists(Existing), new \in {<<>>} \cup Lists(Fresh) :
    \E at \in [Elems(new) -> RepairNew] :
      /\ ops = 0
      /\ Elems(a) = RepairFound /\ Ascending(a, txn.patches)
      /\ Len(new) = Cardinality(RepairNew) /\ Ascending(new, at)
      /\ ParentsOnTop(RepairLists(a))
      /\ Call("repair", NewOnTop(RepairLists(a), new, at), <<>>)

\* undo, redo and reset, to any state in the log.
Reset ==
  \E i \in 1..Len(stateLog) : ops = 0 /\ Call("reset", ResetToState(txn, stateLog[i]), <<>>)

ResetSome ==
  \E i \in 1..Len(stateLog), only \in SUBSET Names :
    LET t == ResetPartially(txn, stateLog[i], only)
    IN  /\ ops = 0 /\ only # {} /\ only \subseteq Elems(AllPatches(stateLog[i]))
        /\ Call("reset_partially", t, <<PushCall(Keep(txn.applied, Elems(t.unapplied) \cup Elems(t.hidden)))>>)

\* A method or the closure itself returns an ordinary error (a commit that
\* cannot be signed or decoded, an aborted editor, a failing hook).
BodyFails ==
  /\ pc = "body" /\ "body" \in Events
  /\ err' = "error" /\ pc' = "execute" /\ todo' = <<>>
  /\ UNCHANGED <<repo, body, txn, temp, ops>>

BodyReturns ==
  /\ pc = "body" /\ todo = <<>> /\ ops > 0
  /\ pc' = "execute"
  /\ UNCHANGED <<repo, body, txn, todo, temp, err, ops>>
-----------------------------------------------------------------------------
(* The calls that a method makes. *)

Doing(op) == pc = "body" /\ todo # <<>> /\ Head(todo).op = op

Pushing == Doing("push") \/ Doing("push merged")

\* push_patches starts with a temporary index; check_merged reads the tree of
\* the branch head into it and takes merged patches off it.
OpenTempIndex ==
  /\ Pushing /\ ~temp.open
  /\ LET merged == IF Head(todo).op = "push merged"
                     THEN CheckMerged(txn, Tree(stk.head), Head(todo).names)
                     ELSE {}
     IN  temp' = [open |-> TRUE, known |-> Head(todo).op = "push merged" /\ merged = {},
                  id |-> Tree(stk.head), index |-> Tree(stk.head),
                  broken |-> FALSE, merged |-> merged]
  /\ UNCHANGED <<repo, body, pc, txn, todo, err, ops>>

CloseTempIndex ==
  /\ Pushing /\ temp.open /\ Head(todo).names = <<>>
  /\ temp' = NoTemp
  /\ todo' = Tail(todo)
  /\ UNCHANGED <<repo, body, pc, txn, err, ops>>

Pushed == Head(Head(todo).names)

OldCommit == txn.patches[Pushed]
OldParent == Tree(Parent(OldCommit))
NewParent == Tree(Top(txn))

\* push_patch keeps on with tree t for the patch, worktree w, temporary index x.
PushAs(t, w, x, cur) ==
  /\ txn' = [PushPatch(txn, Pushed, t) EXCEPT !.tree = cur]
  /\ wd' = w
  /\ temp' = x
  /\ todo' = [todo EXCEPT ![1] = [todo[1] EXCEPT !.names = Tail(todo[1].names)]]
  /\ UNCHANGED <<stateLog, branch, patchRefs, body, pc, err, ops>>

\* TransactionHalt without conflicts: the closure returns it, execute goes on
\* with what the transaction has reached.
Halt(w, x, cur) ==
  /\ err' = "halt" /\ pc' = "execute" /\ todo' = <<>>
  /\ wd' = w
  /\ temp' = x
  /\ txn' = [txn EXCEPT !.tree = cur]
  /\ UNCHANGED <<stateLog, branch, patchRefs, body, ops>>

CanPush == Pushing /\ temp.open /\ Head(todo).names # <<>>

\* The tree of the patch on its new parent when no merge is needed.
TrivialTree ==
  IF Pushed \in temp.merged THEN NewParent
  ELSE IF OldParent = NewParent THEN Tree(OldCommit)
  ELSE IF OldParent = Tree(OldCommit) THEN NewParent
  ELSE Tree(OldCommit)

NeedsMerge ==
  /\ Pushed \notin temp.merged
  /\ OldParent # NewParent /\ OldParent # Tree(OldCommit) /\ NewParent # Tree(OldCommit)

PushTrivially ==
  /\ CanPush /\ ~NeedsMerge
  /\ PushAs(TrivialTree, wd, temp, txn.tree)

\* Whose tree the temporary index is taken to hold decides who is "ours".
Swapped == temp.known /\ temp.id = Tree(OldCommit)

Ours   == IF Swapped THEN Tree(OldCommit) ELSE NewParent
Theirs == IF Swapped THEN NewParent ELSE Tree(OldCommit)

\* The temporary index is read only if it is not taken to hold "ours" already.
TempIndex == IF temp.known /\ temp.id = Ours THEN temp.index ELSE Ours

TempBroken == temp.known /\ temp.id = Ours /\ temp.broken

\* apply_treediff_to_index and write_tree succeed.
PushApplied ==
  /\ CanPush /\ NeedsMerge
  /\ ~TempBroken /\ ApplyClean(OldParent, TempIndex, Theirs)
  /\ LET t == MergeTree(OldParent, TempIndex, Theirs)
     IN  PushAs(t, wd, [temp EXCEPT !.known = TRUE, !.id = Ours, !.index = t,
                                    !.broken = FALSE], txn.tree)

\* They may fail even on a diff that a real merge resolves.
ApplyFails == CanPush /\ NeedsMerge

TempAfterFailure == [temp EXCEPT !.known = TRUE, !.id = Ours, !.broken = TRUE]

\* Without the worktree, or with push conflicts disallowed, that is the end;
\* so it is when "ours" cannot be checked out, or merge-recursive cannot run.
PushHalts ==
  /\ ApplyFails
  /\ \/ /\ ~(opts.use_iw /\ opts.push_conflicts /\ ReadTreeOk(wd, txn.tree, Ours))
        /\ Halt(wd, TempAfterFailure, txn.tree)
     \/ /\ opts.use_iw /\ opts.push_conflicts /\ ReadTreeOk(wd, txn.tree, Ours)
        /\ ~MergeRecursiveOk(ReadTreeCheckout(wd, txn.tree, Ours), OldParent, Ours, Theirs)
        /\ Halt(ReadTreeCheckout(wd, txn.tree, Ours), TempAfterFailure, Ours)

CanMerge ==
  /\ ApplyFails /\ opts.use_iw /\ opts.push_conflicts
  /\ ReadTreeOk(wd, txn.tree, Ours)
  /\ MergeRecursiveOk(ReadTreeCheckout(wd, txn.tree, Ours), OldParent, Ours, Theirs)

Merged == MergeRecursive(ReadTreeCheckout(wd, txn.tree, Ours), OldParent, Ours, Theirs)

PushMerged ==
  /\ CanMerge /\ Merged.unmerged = {}
  /\ PushAs(Merged.index, Merged, TempAfterFailure, Merged.index)

\* Mutation of PushConflicts: the patch is not moved to the applied list.
PushConflictsUnlisted ==
  /\ CanMerge /\ Merged.unmerged # {}
  /\ txn' = [txn EXCEPT !.tree = Ours, !.conflicts = "allow",
                        !.head = MkCommit(Top(txn), Ours, Meta(OldCommit))]
  /\ wd' = Merged
  /\ temp' = TempAfterFailure
  /\ err' = "conflict" /\ pc' = "execute" /\ todo' = <<>>
  /\ UNCHANGED <<stateLog, branch, patchRefs, body, ops>>

\* A conflict: the patch is pushed with the tree "ours", the transaction's head
\* is fixed to it, its checkout will accept conflicts, and the closure halts.
PushConflicts ==
  /\ CanMerge /\ Merged.unmerged # {}
  /\ LET t == PushPatch(txn, Pushed, Ours)
     IN  txn' = [t EXCEPT !.tree = Ours, !.conflicts = "allow",
                          !.head = t.patches[Pushed]]
  /\ wd' = Merged
  /\ temp' = TempAfterFailure
  /\ err' = "conflict" /\ pc' = "execute" /\ todo' = <<>>
  /\ UNCHANGED <<stateLog, branch, patchRefs, body, ops>>

\* Mutation of AssignLists: the hidden list is left as it is.
AssignUnapplied ==
  /\ Doing("lists")
  /\ txn' = [txn EXCEPT !.unapplied = Head(todo).unapplied]
  /\ todo' = Tail(todo)
  /\ UNCHANGED <<repo, body, pc, temp, err, ops>>

AssignLists ==
  /\ Doing("lists")
  /\ txn' = [txn EXCEPT !.unapplied = Head(todo).unapplied, !.hidden = Head(todo).hidden]
  /\ todo' = Tail(todo)
  /\ UNCHANGED <<repo, body, pc, temp, err, ops>>

MoveBase ==
  /\ Doing("base")
  /\ txn' = CommitPatches(txn, Head(todo).names)
  /\ todo' = Tail(todo)
  /\ UNCHANGED <<repo, body, pc, temp, err, ops>>
-----------------------------------------------------------------------------
(* ExecuteContext::execute().                                              *)

End(how) ==
  /\ pc' = "idle" /\ outcome' = how /\ opts' = NoOptions
  /\ stk' = NoStack /\ txn' = NoTxn /\ todo' = <<>> /\ temp' = NoTemp
  /\ err' = "none" /\ ops' = 0 /\ snap' = NoSnap

\* Only halts go on; any other error is returned as it is.
ExecuteReturnsError ==
  /\ pc = "execute" /\ err = "error"
  /\ End("error")
  /\ UNCHANGED repo

\* The assertion of new_applied fails and the process ends: in the closure of repair, or
\* because the branch head, on which the commit was made, is not the topmost patch.
NewAppliedPanics ==
  /\ pc = "body" /\ ops = 0
  /\ \/ /\ "repair" \in opts.calls
        /\ \E a \in {<<>>} \cup Lists(Existing) :
             /\ Elems(a) = RepairFound /\ Ascending(a, txn.patches)
             /\ ~ParentsOnTop(RepairLists(a))
     \/ "new_applied" \in opts.calls /\ stk.head # Top(txn)
  /\ End("panicked")
  /\ UNCHANGED repo

\* Mutation of ExecuteStarts: external modifications are not logged.
ExecuteStartsUnlogged ==
  /\ pc = "execute" /\ err # "error"
  /\ pc' = "checkout"
  /\ UNCHANGED <<repo, opts, stk, txn, todo, temp, err, ops, outcome, snap>>

\* log_external_mods when the branch is not where the stack state says.
ExecuteStarts ==
  /\ pc = "execute" /\ err # "error"
  /\ IF stk.state.head = stk.head
       THEN UNCHANGED <<stateLog, stk>>
       ELSE LET s == [stk.state EXCEPT !.head = stk.head]
            IN  stateLog' = Append(stateLog, s) /\ stk' = [stk EXCEPT !.state = s]
  /\ pc' = "checkout"
  /\ UNCHANGED <<branch, patchRefs, wd, opts, txn, todo, temp, err, ops, outcome, snap>>

\* The topmost patch is the one it was.
SameTop ==
  /\ txn.applied # <<>> /\ stk.state.applied # <<>>
  /\ txn.applied[Len(txn.applied)] = stk.state.applied[Len(stk.state.applied)]

CheckoutOk(w, from, to) ==
  IF opts.discard THEN TRUE
  ELSE IF from = to
    THEN w.unmerged = {} \/ txn.conflicts = "allow" \/ (txn.conflicts = "same top" /\ SameTop)
    ELSE ReadTreeOk(w, from, to)

\* Mutations of CheckedOut: local changes are not looked at; the worktree is
\* not updated.
CheckedOutHard(w, from, to) == ReadTreeCheckoutHard(to)

CheckedOutIndex(w, from, to) == [w EXCEPT !.index = to]

CheckedOut(w, from, to) ==
  IF opts.discard THEN ReadTreeCheckoutHard(to)
  ELSE IF from = to THEN w ELSE ReadTreeCheckout(w, from, to)

HeadTree == Tree(TransHead(txn))

\* Mutation of Rollback: the worktree is left as it is.
RollbackReferences(from, how) == wd' = wd /\ End(how)

\* The rollback closure: check the tree of the old branch head out again,
\* from `from'; if even that fails the worktree stays as it is.
Rollback(from, how) ==
  IF CheckoutOk(wd, from, Tree(stk.head))
    THEN wd' = CheckedOut(wd, from, Tree(stk.head)) /\ End(how)
    ELSE wd' = wd /\ End("stuck")

UsesWorktree == opts.set_head /\ opts.use_iw

ExecuteChecksOut ==
  /\ pc = "checkout"
  /\ UsesWorktree /\ ~opts.bad_head =>
       stk.state.applied = <<>> \/ stk.state.head = stk.head
  /\ IF UsesWorktree THEN /\ CheckoutOk(wd, txn.tree, HeadTree)
                          /\ wd' = CheckedOut(wd, txn.tree, HeadTree)
                     ELSE wd' = wd
  /\ pc' = "critical"
  /\ UNCHANGED <<stateLog, branch, patchRefs, opts, stk, txn, todo, temp, err, ops,
                 outcome, snap>>

ExecuteCheckoutFails ==
  /\ pc = "checkout" /\ UsesWorktree
  /\ ~CheckoutOk(wd, txn.tree, HeadTree)
  /\ Rollback(txn.tree, "aborted")
  /\ UNCHANGED <<stateLog, branch, patchRefs>>

\* Mutation of NewState: the new state records the head the command found.
NewStateOldHead ==
  [head |-> stk.head, applied |-> txn.applied, unapplied |-> txn.unapplied,
   hidden |-> txn.hidden, patches |-> txn.patches]

NewState ==
  [head |-> TransHead(txn), applied |-> txn.applied, unapplied |-> txn.unapplied,
   hidden |-> txn.hidden, patches |-> txn.patches]

\* The reference edits: the patch references in P, and the stack and the
\* branch reference if s and b hold.
EditReferences(P, s, b) ==
  /\ patchRefs' = [n \in Names |-> IF n \in P THEN txn.patches[n] ELSE patchRefs[n]]
  /\ stateLog' = IF s THEN Append(stateLog, NewState) ELSE stateLog
  /\ branch' = IF b THEN TransHead(txn) ELSE branch

EditAll == EditReferences(txn.touched, TRUE, opts.set_head)

\* P, s, b are some of the edits, but not all.
Torn(P, s, b) ==
  /\ b => opts.set_head
  /\ ~(P = txn.touched /\ s /\ b = opts.set_head)

CriticalSucceeds ==
  /\ pc = "critical"
  /\ EditAll
  /\ End(CASE err = "none" -> "ok" [] err = "halt" -> "halted" [] OTHER -> "conflict")
  /\ UNCHANGED wd

\* signal::critical() turns a held-off ctrl-c into an error although the
\* references were edited; execute answers it with the rollback.
CriticalInterrupted ==
  /\ pc = "critical" /\ "interrupt" \in Events
  /\ EditAll
  /\ Rollback(HeadTree, "interrupted")

CriticalRefused ==
  /\ pc = "critical" /\ "refuse" \in Events
  /\ Rollback(HeadTree, "aborted")
  /\ UNCHANGED <<stateLog, branch, patchRefs>>

CriticalTorn ==
  /\ pc = "critical" /\ "torn" \in Events
  /\ \E P \in SUBSET txn.touched, s, b \in BOOLEAN : Torn(P, s, b) /\ EditReferences(P, s, b)
  /\ wd' = IF CheckoutOk(wd, HeadTree, Tree(stk.head))
              THEN CheckedOut(wd, HeadTree, Tree(stk.head)) ELSE wd
  /\ End("torn")

\* The process is killed: anywhere, or between two reference edits.
Crash ==
  /\ pc # "idle" /\ "crash" \in Events
  /\ \/ UNCHANGED <<stateLog, branch, patchRefs>>
     \/ /\ pc = "critical"
        /\ \E P \in SUBSET txn.touched, s, b \in BOOLEAN :
             Torn(P, s, b) /\ EditReferences(P, s, b)
  /\ End("crashed")
  /\ UNCHANGED wd
-----------------------------------------------------------------------------
User == EditFile \/ ResolveConflicts \/ GitCommit \/ GitReset

Open == OpenStack \/ RefuseMismatch

Closure ==
  \/ Pop \/ Delete \/ Push \/ PushSetTree \/ New \/ AddUnapplied \/ Update
  \/ Reorder \/ Hide \/ Unhide \/ Rename \/ Commit \/ Uncommit \/ Repair
  \/ Reset \/ ResetSome \/ BodyFails \/ BodyReturns

Steps ==
  \/ OpenTempIndex \/ CloseTempIndex \/ PushTrivially \/ PushApplied \/ PushHalts
  \/ PushMerged \/ PushConflicts \/ AssignLists \/ MoveBase

Execute ==
  \/ NewAppliedPanics \/ ExecuteReturnsError \/ ExecuteStarts \/ ExecuteChecksOut \/ ExecuteCheckoutFails
  \/ CriticalSucceeds \/ CriticalInterrupted \/ CriticalRefused \/ CriticalTorn \/ Crash

Next == User \/ Open \/ Closure \/ Steps \/ Execute

Spec == Init /\ [][Next]_vars
-----------------------------------------------------------------------------
(* Properties. *)

\* Every stack state that was ever installed puts every patch in exactly one
\* of the applied, unapplied and hidden lists, once, and has a commit for
\* exactly those: whatever sequence of methods produced it, and wherever a
\* halt cut that sequence short.
ListsPartitionPatches == \A i \in 1..Len(stateLog) : Partitioned(stateLog[i])

\* In every installed state the applied patches are a chain of commits, each
\* the parent of the next one: the stack is a piece of branch history.
AppliedPatchesChained == \A i \in 1..Len(stateLog) : Chained(stateLog[i])

\* The assertions of the transaction code: at the start of execute() a patch
\* the transaction deletes is a patch of the opened stack and one it sets is in
\* one of its lists; at the end of reorder_patches() the applied patches are
\* the requested ones; and when commit_patches() moves the base the patches to
\* commit are the bottommost ones.
AssertionsHold ==
  /\ pc = "execute" =>
       \A n \in txn.touched :
         IF HasPatch(txn, n) THEN n \in Existing ELSE HasPatch(stk.state, n)
  /\ Doing("lists") => txn.applied = Head(todo).names
  /\ Doing("base") => IsPrefixOf(Head(todo).names, txn.applied)

\* Between commands the patch references are those of the stack state, unless
\* the last command was killed or its reference transaction failed halfway.
\* from_branch() repairs them when that happened (ensure_patch_refs).
PatchRefsFollowState ==
  pc = "body" \/ (pc = "idle" /\ outcome \notin {"torn", "crashed"}) =>
    patchRefs = State.patches

\* A step of StGit never overwrites a file with changes that are not in the
\* index, unless the command was told to discard changes; this includes the
\* checkouts in the middle of a push and the ones that roll back.
LocalChangesKept ==
  [][pc # "idle" /\ ~opts.discard =>
       \A f \in Dirty(wd) \ wd.unmerged : wd'.work[f] = wd.work[f]]_vars

\* The step that ends a transaction in one of the ways in `how'.
Ends(how) == pc # "idle" /\ pc' = "idle" /\ outcome' \in how

\* "command aborted (all changes rolled back)": references, index and worktree
\* are as they were when the command started, except that a modification of
\* the branch by git may have been logged in the stack state.  Local changes
\* may be there, but not staged ones.  (Not after a conflict: see AllOrNothing.)
RollbackRestores ==
  [][/\ Ends({"aborted"}) /\ err # "conflict" /\ ~opts.discard
     /\ snap.wd.index = Tree(snap.branch)
     => /\ branch' = snap.branch
        /\ State' = [snap.state EXCEPT !.head = State'.head]
        /\ State'.head \in {snap.state.head, branch'}
        /\ wd' = snap.wd]_vars

\* A push that stops at a conflict: the patch being pushed goes on top of the patch
\* that was the topmost one, and the transaction's head with it; nothing that
\* execute() does afterwards changes lists, index or worktree; and the state that
\* is installed ends with that patch, the branch at its commit and the conflict in
\* the index for the user.  A command that discards changes loses the conflict:
\* `reset --hard' of single patches pushes, and its final checkout removes it.
ConflictLeftToUser ==
  [][/\ err # "conflict" /\ err' = "conflict" =>
          /\ txn'.applied = Append(txn.applied, Pushed)
          /\ txn'.head = txn'.patches[Pushed] /\ Parent(txn'.head) = Top(txn)
     /\ err = "conflict" /\ pc # "idle" /\ pc' # "idle" => txn' = txn /\ (opts.discard \/ wd' = wd)
     /\ Ends({"conflict"}) =>
          /\ State'.applied = txn.applied /\ State'.head = txn.head
          /\ State'.head = StateTop(State)'
          /\ opts.set_head => branch' = State'.head
          /\ opts.discard \/ (wd' = wd /\ wd.unmerged # {})]_vars

\* A command that uses the worktree and starts on a clean one leaves it clean,
\* at the tree of the new branch head.
CleanStaysClean ==
  [][/\ Ends({"ok", "halted"}) /\ UsesWorktree
     /\ snap.wd = ReadTreeCheckoutHard(Tree(snap.branch))
     => wd' = ReadTreeCheckoutHard(Tree(branch'))]_vars

\* Between commands, when nobody but StGit moved the branch, it is where the
\* stack state says, and that is the topmost applied patch.
HeadIsTop ==
  pc = "idle" /\ outcome \notin {"torn", "crashed"} =>
    branch = State.head /\ State.head = StateTop(State)

\* A branch position that StGit did not make is in the log before a command
\* moves the branch away from it, so that undo can bring it back.
ExternalHeadLogged ==
  [][Ends({"ok", "halted", "conflict"}) =>
       \E i \in 1..Len(stateLog') : stateLog'[i].head = snap.branch]_vars
-----------------------------------------------------------------------------
(* What the documentation says and the code does not always do: each of    *)
(* these has a run that shows the disagreement.                            *)

\* "the stack, working tree, and index will either successfully transition to
\* their new state or fallback to their starting state" (module documentation
\* of stack::transaction), for a command that starts on a clean worktree.
AllOrNothing ==
  [][/\ Ends({"ok", "halted", "aborted", "error", "interrupted"})
     /\ snap.state.head = snap.branch
     /\ snap.wd = ReadTreeCheckoutHard(Tree(snap.branch))
     => \/ State' = NewState /\ wd' = ReadTreeCheckoutHard(Tree(branch'))
        \/ State' = snap.state /\ branch' = snap.branch /\ wd' = snap.wd]_vars

\* "the patch's diff is applied to the topmost patch's tree" (push_tree on what
\* a normal push does): a push that goes on gives the patch the merged tree.
PushedTreeIsMerge ==
  [][CanPush /\ NeedsMerge /\ pc' = "body" =>
       Tree(txn'.patches[Pushed]) = MergeTree(OldParent, NewParent, Tree(OldCommit))]_vars
=============================================================================
