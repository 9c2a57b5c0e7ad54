# StGit's stack in TLA+

StGit keeps a stack of patches on top of a git branch. Every command that
changes the stack does it in one or several *stack transactions*
(`src/src/stack/transaction/`), which promise to be all-or-nothing across three
things that git changes separately: the references, the index and the worktree.
This project models that mechanism, the log of stack states that it writes, with
two processes and a garbage collection at work, undo and redo, what the commands
make of their arguments, the commands that are more than one transaction, the
branches and their old stack formats, and the texts that StGit writes and reads
back. TLC checks all of it on small instances. TLAPS proves, for every size, the
properties of the transaction (lists, commits, references, index and worktree), of the
commands of several transactions, of the state log with several processes, of the
branches, and that the log with its messages implements the abstract history of undo and
redo.

## The system

| component | state | operations | interacts with |
|---|---|---|---|
| stack state (`stack/state.rs`) | head, applied/unapplied/hidden lists, patch commits, previous state | `commit`, `advance_head`, `top` | one commit per state under `refs/stacks/<branch>` |
| stack (`stack/stack.rs`) | the state, the branch head, the base | `from_branch`, `ensure_patch_refs`, `check_head_top_mismatch`, `log_external_mods`, `initialize`, `rename` | references of git |
| stack transaction (`stack/transaction/`) | new lists, `updated_patches`, `updated_head`, `updated_base`, `current_tree_id`, options | the methods a command's closure calls, `execute` | references, index, worktree |
| git layer (`stupid/`) | temporary index files | `read-tree`, `apply --3way`, `write-tree`, `merge-recursive`, `status` | git subprocesses |
| signals (`signal.rs`) | two flags | `setup`, `critical` | the critical section of `execute` |
| commands (`cmd/*.rs`) | none | choose patches and options, then one transaction | stack, transaction |
| refresh, rebase, pull, sync, import, spill, fold (`cmd/`) | the stash, a temporary patch, a plan | several transactions with git commands between them | stack, transaction, index, worktree |
| patch names, ranges, revisions (`patch/`) | none | parsing and resolving | commands |
| patch editing (`patch/edit/`), export | a text in a file | write, edit, read back | commands, editor, hooks |
| branch commands, upgrade (`cmd/branch/`, `stack/upgrade.rs`) | references and configuration sections | create, clone, rename, delete, upgrade | references |

What is hard here: a push merges in the *real* worktree long before the
references change; a closure can halt in the middle of a compound operation
(reorder, commit) and what it has reached is installed; the references are
changed one after the other; ctrl-c is held off and then delivered as an error;
users commit and reset with plain git between commands; the state that a check
reads may have been brought up to date just before; two processes may open the
same stack; commands of several steps stop between any two of them, and the user
goes on from there; texts are written by one piece of code and read by another.
What makes each component correct:

* transaction methods: every patch in exactly one list, a commit for exactly the
  listed patches, applied patches a chain of commits, no assertion fails;
* `execute`: either everything changes or nothing, local changes survive, a
  conflict is where the user can resolve it;
* stack: patch references follow the state, also after a crash; a branch position
  that git made is logged before it is left and is not lost silently;
* state log: every logged state can be read, whoever wrote in between and whatever
  was collected;
* undo and redo: they move in the past that the user had;
* commands of several steps: what the user changed is never lost, the stack is good
  after every step, the command comes to an end, and a finished one has done what
  it says;
* branches: no patch is lost, no stack without a branch, a protected stack stays, an
  interrupted upgrade is completed by whoever comes next;
* names and texts: two pieces of code that read or write the same thing agree.

`PROJECT.json` lists the hazards with the line of each and the properties that
cover it.

## The modules

* `GitModel` – trees, commits, three-way merge, and the checkout and merge
  primitives. A commit *is* its first-parent history (a sequence of tree and
  author/message), so equal histories are equal commits and the parent is the
  prefix. A tree is a function from files to contents. Merge commits do not exist
  in the model. Timestamps are left out: two commits that differ only in their
  dates are one commit here.
* `StackOps` – the methods of `StackTransaction` as operators on a record. The
  record's `patches` is the stack's patch map with `updated_patches` laid over it
  and `touched` the set of names in `updated_patches`.
* `StackTransaction` – the state machine: repository (log of stack states, branch,
  patch references, index and worktree) and one process. Its variable `pc` follows
  the code: `body` (the closure runs), `execute` (start of `execute()`, external
  modifications are logged), `checkout`, `critical`, `idle`. A closure is any
  sequence of method calls allowed by the command's options. Methods that call
  others (`reorder_patches`, `hide_patches`, `commit_patches`, `delete_patches` with
  the push afterwards, `reset_to_state_partially`) put the calls they still have to
  make on `todo`, so that a halt can cut them short at every patch. `push_patch` is
  split by how the tree of the patch comes about (trivially, in the temporary index,
  by a merge in the worktree, by a conflict) and carries the temporary index with
  it. `repair` is the whole command on a linear history.
* `MCStackTransaction` – the instances: initial stacks and the option sets of the
  commands.
* `UndoHistory` – what undo and redo promise: a past that commands extend and undo
  goes back into, and a list of undos that redo takes back.
* `UndoLog` – what the code keeps instead: a chain of state commits, where only the
  message of a commit ("undo 2") tells what was undone. `find_undo_state` is a
  recursive function over the chain (`FindFrom` is one round of its loop), with the numbers of the command line as
  `isize` and `usize` of `Width` bits. A stack state is a number with a branch head,
  since undo, redo, reset and `log --clear` only choose among states; what restoring
  one does is in `StackTransaction`. A command is two steps, the closure (which
  looks its target up) and `execute()` (which first logs what git did).
* `MCUndoLog` – its instances.
* `PatchRanges` – how a command line names patches: locators with offsets, what a
  text that could be a name means in a given stack (`Disambiguate`), and ranges of
  locators, plain and contiguous. A stack is three lists of names, positions count
  from 0. Parsing is left out: the constant `Readings` says for each text that is a
  valid patch name what else the parser could make of it.
* `Commands` – fifteen commands (push, pop, goto, float, sink, hide, unhide, delete,
  commit, clean, squash, new, rename, uncommit, pick) as functions from a stack, the
  state of index and worktree and the arguments to a result: how the command ends,
  the new lists, and what became of index and worktree. The lists are those of a
  transaction that is not halted; the halts are in `StackTransaction`. `Uniquify` and
  `Collides` are the treatment of names; `Folded` is a name in lower case and
  `NextName` the name with its number incremented. A command that is refused changes
  nothing, so the actions are the results with outcome `done`.
* `MCCommands` – the instance: five names, of which "A" collides with "a", "2" is also
  an index, "a+1" also the patch above "a", and "a-1" the name that follows "a".
* `Revisions` – the same texts read as revisions (`stg diff -r`, `pick`, `show`), which
  a second piece of code resolves, to a commit of the stack or its base.
* `PatchNames` – names as sequences of characters, where words such as "patch" or
  ".lock" or ".diff" and whole words count as one: `PatchName::make`, `validate`, and the parser of
  names in `patch/parse/name.rs`.
* `PatchEdit` – `EditBuilder::edit`: where name, author, message and diff come from, the
  text that the editor shows and what is read back of it, the hook, and the outcome. A
  text is a sequence of lines, a line has a kind (text, comment, header, cut line, diff)
  and words.
* `Exchange` – the file that export writes and what import makes of a file.
  `PatchNames`, `PatchEdit` and `Exchange` have no state of their own: they extend
  `Commands`, whose stack the names are made unique against.
* `StateLog` – state commits as git objects: the tree (a stack state), the parents that
  keep its commits alive, pruned and put into bundles of `MaxParents`, the simplified
  commit that `stg log` walks; two processes, each at the grain of its reads and of the
  edits of single references, with a lock for each reference: `execute` locks all that it
  edits and releases each with its edit, `ensure_patch_refs` reads and edits one patch
  reference after the other, in between the edits of another process too, and fails where
  one is locked or was changed; a garbage collection that may come at any moment.
* `MCStateLog` – adds the symmetry of processes and names.
* `Transact` – a whole transaction as one step: the operators of `StackOps` with the
  temporary index, the merge in the worktree, the checkout and the errors, passed on
  as a value.
* `Workflows` – rebase (also `--merged`, `--nopush`, `--autostash`, `--interactive`), pull in its
  three ways, refresh, edit, spill, fold (also `--threeway`, `--reject`, `--base`), import
  (also `--3way`, `--reject`, `--edit`, `--ignore`, `--replace`, a series) and sync. A step is one
  transaction of `Transact` or one git command; the user edits files and resolves conflicts
  between commands, and the process may be killed between any two steps. An editor that
  shows a diff may give back another one (`EditedTrees`), another name (`EditedNames`), or
  fail: in import, when the diff is in index and worktree already, and in the edits of an
  interactive rebase, whose squash can change the name.
* `MCWorkflows` – two stacks: one whose unapplied patch conflicts, one whose patches
  change the same file; upstream commits with and without a conflict or with a patch merged, and
  one tree, other than all of these, that a diff may be edited to.
* `Branches` – `stg branch` and `stg init` and the upgrade of the formats 2, 3 and 4: which
  branches there are, their stacks in any format, patch references and configuration,
  one update at a time; a branch of format 1 is refused (`Unhandled`). Two configuration
  sections of one name are read as one (`Merged`).
* `MCBranches` – two branches and a free name, with a stack of each format
  and a format that is not handled.
* `StackOpsProofs`, `StackTransactionProofs`, `StackChainProofs` –
  the proofs about `StackTransaction`: lists and references, the history of commits, index
  and worktree.
* `StateLogProofs`, `UndoLogProofs`, `BranchesProofs`, `WorkflowsProofs` – those about the
  modules of these names. `Iteration` has what the proofs share: induction over an
  interval.

Some inputs lead to results that contradict what StGit says elsewhere (see below). In
`Workflows` and `Branches` the constant `Doubtful` names the ones that are let in: nothing
in the passing runs, one of them in the run that shows it. `UndoAfterGit` in `UndoLog` and
`PicksAtOnce` in `Commands` do the same for theirs.

Places where the model is wider than the code: patch arguments of methods are any
lists of distinct names, the closure may call methods in any order, and a diff may
fail to apply in the temporary index although a real merge would resolve it (git
refuses for reasons below the level of files). Properties hold for all of that.
Places where callers restrict a method are kept as guards: `update_patch` is called
for the topmost or an unapplied patch with the old parent (sync is the command that does
not keep to this; the run `sync_parent` is about it), `delete_patches` and
`rename_patch` for patches of the opened stack, `rename_patch` with a free name,
and nothing follows a `reset_to_state`.

The environment: a user edits a file (one at a time), resolves conflicts, commits
or resets with plain git; the closure fails (`body`); the reference transaction is
refused (`refuse`) or fails halfway (`torn`); one ctrl-c in the critical section
(`interrupt`); a kill anywhere, also between two reference edits (`crash`).

## The runs

The runs of `StackTransaction` use two files, three contents, four patch names. Two files are what it
takes for a diff to be partly in conflict, three contents for a three-way conflict,
and four names for three patches and a new one. `MaxOps` bounds the method calls of
a closure, `MaxPush` the length of a list argument, `MaxLog` the length of the state
log at which no command starts any more, `MaxDepth` the length of a history. Because
of `MaxLog` behaviours end, so the runs do not check deadlock.

Passing:

* `methods` – every sequence of two method calls on two initial stacks, followed by
  `execute`, without faults: `TypeOK`, `ListsPartitionPatches`,
  `AppliedPatchesChained`, `AssertionsHold`, `HeadIsTop`.
* `faults` – nine commands (`reset --hard` among them) against local changes and all faults, and the next
  command after them: `PatchRefsFollowState`, `LocalChangesKept`,
  `RollbackRestores`, `ConflictLeftToUser` (the patch whose push conflicts comes on top of the
  former topmost one, is the head, and is what the installed state ends with, the unmerged
  files untouched by the rest of `execute`), `CleanStaysClean`. Two commands in a row
  are enough for a fault and the recovery from it.
* `external` – seven commands after plain git commits and resets, two commands in a
  row, where the references may be refused: `AppliedPatchesChained`, `ExternalHeadLogged`.
  One method call with one patch (`MaxOps`, `MaxPush`) is enough here: what matters is
  where the branch was when the command opened the stack.
* `statelog` – two processes, two patches, four state commits beside the first, bundles
  of two parents, one kill, plain git commits and a collection of what is unreachable:
  `LoggedStatesReadable`, `InstalledStatesStayLogged`, `SimplifiedLogAgrees`,
  `OneCommandHeals`. Two processes and three commands are one process overtaken by another
  and a third command that finds the result; the fourth write is the log entry for
  commits of plain git, to which a reset can go back; two parents per commit make a bundle
  necessary with the second patch (the code's limit is 16). Behaviours end at the
  bounds, so this run does not check deadlock.
* `undo` – commands, resets, undos and redos by one or two steps, aborted ones,
  cleared logs, git commits and resets, on a log of up to seven states (an undo, a
  redo, an undo of that redo, and a redo again, with states before them):
  `ConsecutiveUndosGoBack`, `RedoFollowsUndo`, and `ImplementsHistory`, the refinement of
  `UndoHistory` with `past` and `undone` read off the chain. The numbers are below
  `2^(Width - 1)`, as the ones people type are: a `redo -n` above the largest `isize` is
  cast and negated to a positive number (`RedoSteps`), and `redo` then undoes. In this
  run the user does not undo or redo right after plain git moved the branch.
* `commands` – every sequence of the fifteen commands on stacks of up to three patches:
  `NoCollisions` (names stay different, ignoring case); `OthersStayPut` (patches that a
  command does not name keep their list and order although they are popped and
  pushed); `SinkPlaces` (next to the target, in the order given, from wherever the
  patches come); `LocatorsAgree` (all ways to write a patch); `RevisionsAgree` (a text
  read as a revision and as a locator, a range of either); `EditedNamesFree` (whatever
  is typed into the editor or given in a file, for every command that edits). Three
  patches put one on each side of a target or a boundary. The properties compare the
  results of commands from every reachable stack, so one command per state is enough
  for each of them; sequences matter for the names and for the stacks that can come
  about. Properties of texts, which depend on no stack, are evaluated once:
  `MadeNamesValid` and `ParsersAgree` for all texts of up to a few characters,
  `UntouchedEditKeeps` and `ExportImportKeeps` for messages with blank lines, comments,
  header-like lines, trailing blanks and indentation in all places.
* `workflows` – two commands with one edit of the user and one kill: `TypeOK`,
  `StackStaysSound`, `WorkKept`, `RebaseDone`, `RefreshDone`, `CleanWorktreeFollows`,
  `CommandEnds`. Two commands are one that stops or is killed in the middle and one that
  goes on from what it left. Deadlock is checked: a running command always has a next
  step.
* `branches` – three commands and one kill on five repositories: `PatchesStayReachable`,
  `NoOrphanStacks`, `ProtectedStacksStay`, `UpgradeConverges`. Three commands are one that
  is killed, one that finds what it left, and one after that. Deadlock is checked.

Liveness and fairness. `UpgradeConverges` is a leads-to property under `WF_vars(Step)`: a
process that was started goes on until it ends or is killed, because nothing in these
commands waits for anybody; no fairness is assumed of the user or of kills.
`CommandEnds` states the end of the commands of `Workflows` as a variant that every step
decreases, which needs no fairness at all and shows more than that they end. In the
other modules the end of a command is bounded by construction, and nothing is stated.

Disagreements between documentation and code, each a run that TLC must refute:

| run | property | what happens |
|---|---|---|
| `interrupted` | `AllOrNothing` | ctrl-c in the critical section: references new, worktree rolled back |
| `stale_index` | `PushedTreeIsMerge` | the temporary index is taken for clean after a successful apply |
| `sync_parent` | `PatchesAreTopmostCommits` | sync of an applied patch makes it a child of its own old commit |
| `clone_existing` | `ProtectedStacksStay` | clone onto the name of a protected branch replaces its stack |

## What the models show beside that

Met while modelling and, where a module contains them, excluded from the passing
runs by a constant or by the wording of a property; they have no run of their own.

Transactions:

* A closure that fails with an ordinary error after a push has merged in the worktree
  is returned at `stack/transaction/mod.rs:152`, before there is a rollback.
* The mismatch check in `execute` runs after `log_external_mods` has made the state
  match, so it cannot fail, and `stg reset` of single patches, which has no check of its
  own, executes on a moved branch. In the same way `check_head_top_mismatch` no longer
  notices a git commit after an `stg undo` that aborted at its checkout.
* `reset --hard` of single patches ends with a hard checkout also when a push halted at
  a conflict: the conflict is reported and wiped (the exception for `discard` in
  `ConflictLeftToUser`).
* `stg repair` after a reset to an unapplied patch whose old parent was refreshed since:
  the commit to make a patch of lies below a patch, and the assertion in `new_applied`
  ends the process (`NewAppliedPanics`). The same assertion ends `stg new`, refresh and
  import when an earlier command logged what plain git did and then failed: the logged
  head agrees with the branch, so `check_head_top_mismatch` passes, but it is not the
  topmost patch (in `StateLog` a way for `OpenFails`).
* `stg undo` looks its target up before `execute` logs what plain git did; the next
  `stg undo` then restores the same state once more (`UndoAfterGit`).

Commands:

* `stg pick` of two commits with the same subject gives both the same name
  (`pick.rs:265`, `PicksAtOnce`).
* `import --ignore` and `--replace` of a name that is in another list than the one they look
  at list the patch twice ("import again"), and so does a `hide` of a hidden patch in an
  interactive rebase ("hide hidden").
* A squash in an interactive rebase that cannot be merged halts with the branch moved
  and the worktree left behind (an exception in `CleanWorktreeFollows`).
* sync merges into index and worktree behind the back of its transaction (`sync.rs:263`),
  which still takes the tree of the old head to be checked out. With `p` and `q` unapplied,
  `q` taking back what `p` does, and only `p` on the other branch, `stg sync` of both ends
  well, and the file of `p` in index and worktree is not the one of the new head (another
  exception in `CleanWorktreeFollows`; the proof of `CleanWorktreesFollow` led to it,
  and TLC finds it on that stack when the exception is left out).
* `import --edit --diff` where the diff is changed in the editor: the patch gets the edited
  tree (`edit/mod.rs:492-503`), and the transaction runs without index and worktree
  (`import.rs:664`), so the command ends well and both still have the diff as it was read
  (the third exception in `CleanWorktreeFollows`). An editor that fails leaves the diff in
  index and worktree without a patch.
* A refresh of a lower patch with an edit that takes back what an upper patch changed
  in the same file loses that edit without a word: it is no change to the lower patch,
  and the push of the upper one brings the old content back (the exception in
  `RefreshDone`).
* `stg diff -r u..` with an unapplied `u` ends at the topmost patch, `stg pick u..` at the last
  unapplied one.
* `sink --keep` is read with `contains_id`, so local changes are never checked there; only
  the checkout can refuse.

Branches:

* Rename onto a branch that exists moves the configuration and the stack reference
  before `git branch --move` refuses ("rename existing"). A killed rename leaves a stack
  reference under the new name that makes every later try fail.
* The protection is read from a snapshot of the configuration taken when the process
  starts: the one that the upgrade from format 2 has just written is not seen by a
  delete or a cleanup in the same process ("protected format 2").
* A stack of format 4 whose state is the first one (`Previous: None`) is taken for a
  corrupt one (`upgrade.rs:170`) and cannot be opened. (`first` in `Stores`; the instances
  leave it out.)
* An upgrade from format 4 that is killed between its two steps leaves the old
  reference, from which a stack that was cleaned up later comes back.
* Renaming a branch onto the name of its deleted parent makes it its own parent; a
  delete then takes it for the branch to go to, and `HEAD` is left unborn.
* `create` takes branch and stack back when the checkout fails, but not the parent in the
  configuration, and takes nothing back when setting the upstream fails. It takes back the branch and then
  the stack reference; a kill in between leaves an orphan stack, and so does a failed
  deletion of the reference, which is not reported (`create.rs:166-168`; not in the model).
* Renaming a branch onto a name that has a configuration section already leaves two
  sections of that name.
* `write_local_config` truncates the configuration of the repository and writes it in
  place; a kill in between loses it. (A configuration update is one step here.)

Names and texts:

* `PatchName::make` panics when it shortens a name right after a word that ends in
  ".lock" (the exception in `MadeNamesValid`). A made name such as "a.-b" becomes another
  one when it is made again.
* A message that contains the cut line is cut by an edit that touches nothing, and its
  comment lines are dropped. A message that was typed is lost when the commit-msg hook
  fails (`edit/mod.rs:531` says so).
* `stg squash -f` ignores the name in the file.
* A subject like "date: ..." is taken for a header by import, a line of dashes ends the
  message, its first line loses its indentation, and the date of the author is not
  exported (`Mailable` has what is left out of `ExportImportKeeps`).

`RollbackRestores` is what does hold of the rollback: it excludes a closure that
halted at a conflict (when the references are then refused, the checkout back may
find the tree it wants already current and do nothing, so the conflict stays although
"all changes rolled back" is printed) and `discard_changes`, and it speaks of
commands that start without staged changes, because `read-tree -m` accepts an index
entry that already is the target and the way back then loses that it was staged.

## The proofs

A theorem holds for every set of files, contents, names, branches and processes, every
initial state and every bound that the assumptions of the module allow; those only give
the constants their types and say that the initial stacks are good. Where a theorem
needs more, the hypothesis is a definition in front of it and stands in its `ASSUME`.

| module | theorem | states | hypothesis |
|---|---|---|---|
| `StackTransactionProofs` | `TypeCorrect` | `[]TypeOK` | |
| | `StatesPartitioned` | `[]ListsPartitionPatches` | |
| | `NoAssertionFails` | `[]AssertionsHold` | |
| | `PatchRefsCorrect` | `[]PatchRefsFollowState` | |
| `StackChainProofs` | `StackIsHistory` | `[]AppliedPatchesChained` | |
| | `BranchIsTop` | `[]HeadIsTop` | `OnlyStGit` |
| | `ExternalHeadsLogged` | `ExternalHeadLogged` | |
| | `LocalChangesSurvive` | `LocalChangesKept` | |
| | `CleanWorktreeStays` | `CleanStaysClean` | |
| | `AbortedRestores` | `RollbackRestores` | `UncommitAlone` |
| | `ConflictStays` | `ConflictLeftToUser` | |
| `StateLogProofs` | `LogReadable` | `[]LoggedStatesReadable` | |
| | `InstalledStatesStay` | `[]InstalledStatesStayLogged` | |
| | `SimplifiedLog` | `[]SimplifiedLogAgrees` | |
| | `CommandHeals` | `OneCommandHeals` | |
| `UndoLogProofs` | `UndosGoBack` | `[]ConsecutiveUndosGoBack` | `NoUndoAfterGit`, `SmallRedo` |
| | `RedosFollowUndos` | `[]RedoFollowsUndo` | the same |
| | `LogImplementsHistory` | `ImplementsHistory` | the same |
| `BranchesProofs` | `StacksHaveBranches` | `[]NoOrphanStacks` | `NoOrphanAtStart` |
| | `ProtectedStay` | `ProtectedStacksStay` | `NothingUnchecked` |
| | `PatchesReachable` | `[]PatchesStayReachable` | `NothingUnchecked`, `ReachableAtStart` |
| `WorkflowsProofs` | `CommandsEnd` | `CommandEnds` | |
| | `CommandsTyped` | `[]TypeOK` | `Doubtful = {}` |
| | `CommandsKeepStackSound` | `[]StackStaysSound` | the same |
| | `RebasesKeepPromise` | `[]RebaseDone` | the same |
| | `CleanWorktreesFollow` | `[]CleanWorktreeFollows` | the same |

The hypotheses. `UncommitAlone`: a command that does not set the head calls `uncommit` and
nothing else, which is so of the one command that has `set_head(false)`
(`cmd/uncommit.rs`). `OnlyStGit` adds that plain git does not move the branch and that no
reference transaction is torn or killed halfway: then branch and state really differ, until
the next command or `stg repair`. `NoUndoAfterGit`, `NothingUnchecked` and `Doubtful = {}`
leave out the inputs that the constants `UndoAfterGit` and `Doubtful` let in (see above; the
properties fail with them). `InputsAssumption` of `Workflows` gives its inputs their types;
it also says that a pull has a commit to pull and one policy, and that the subjects of a
series are not among the names that are made to tell patches apart. `SmallRedo`: the numbers of redo are below `2^(Width - 1)`.
`NoOrphanAtStart` and `ReachableAtStart`: the initial repositories are in order. All of them
hold of the constants of the run that checks the property (`OnlyStGit` of `methods`).

**Lists and references.** The properties speak of installed states; the inductive
invariant `IInv` has to speak of the transaction that will be installed. It adds `WF`: the
open transaction has its lists partitioned, a parent for every patch commit, and
`updated_patches` that agrees with the opened stack (a name it removes is a patch there, a
name it does not touch has the commit it has there). And because a method can halt at
every patch it pushes, it adds `Pending`: the calls still to be made fit the lists as they
are *now* – the patches to push are distinct and not applied, and the applied list with
them appended is the one that the assertion at the end of `reorder_patches` or the base
move of `commit_patches` expects. `OpenedState` says that nobody else moves the stack
reference while a command runs, `RefsFollow` is the property about the patch references,
strengthened to every point of a command. `StackOpsProofs` has the lemmas this needs:
sequences (`Keep`, `Drop`, `Below`, `From`, `NumCommon`), and for each method that it keeps a
transaction well formed.

**History.** `ChainInv` adds to `IInv` that the open transaction is linked between any two
method calls, each applied patch the parent of the next one, also where a compound
operation was cut short; that the lowest patch stands on the base is only true until the
first call and is needed there, for `uncommit` and `repair`, which go down from the base.
`HeadInv` adds what the head of the transaction may be (fixed to the topmost patch by a
conflict or a reset, and never while calls are pending) and, for `uncommit`, that it is
where the branch was.

**Index and worktree.** `Moved` says file by file how the worktree follows the tree that the
transaction believes to be checked out: a clean file has the content of that tree, a file
with local changes still has them, and the tree has there what the index had. A checkout
and a merge that git allows preserve this, so the way back can be undone file by file.
`Stopped` says that after a conflict the head is the conflicting patch, the topmost one, and
its tree the current one, so that the last checkout has nothing to do. The patch keeps
whatever tree the merge used as its own side: it is empty unless the sides were swapped
(`transaction/mod.rs:1032-1033`), and `ConflictStays` says nothing of that.

**State log.** `Inv` says that object ids ascend along parents, and that there is a set of
state commits, closed under `prev`, with every state that a reference or the memory of a
process can still lead to; each of them is readable, reaches its head, its patches and its
predecessor through its parents (also the ones bundled or pruned, since what is pruned is
reachable from the predecessor), and has the simplified entry as its first parent. A
collection keeps what is reachable, so the set survives it. For the writers: only one
process holds the lock of the stack reference, and until it has written the reference, that
is what it was compared with (`Exclusive`, `Owned`). `Healing` follows a command that nobody interfered with through
its steps, from one patch reference to the next. The lemmas before it say what the three recursive functions compute.

**Undo and redo.** `Inv` of `UndoLogProofs` says that at every entry of the log there is a
list of the entries that can be undone to, ascending, and one of the entries that can be
redone to, each made of those of the entry before: a command appends to the first and
empties the second, an undo of n cuts n off the first and appends to the second, a redo
the other way round. `FindLists` shows that `find_undo_state` counts from the end of one of
them, `PastLists` and `UndoneLists` that the refinement mapping reads off their states; the
open command carries the entry it found. Every step is then a step of `UndoHistory` or
leaves it alone: opening and aborting a command changes nothing, `log --clear` forgets,
logging what git did and `execute` are work, an undo or a redo.

**Branches.** `StateInv` ties the step of the running command to what the repository has
for its branch (`Found`). `OrphanInv` allows a stack without a branch only to the clone or
renaming at work and to the `create` that is about to take its stack back, `NameFree` that the new name stays free until then, `ProtectInv` that a
protected stack is not past the check of the protection. `ReachInv` says that every patch
is in the stack of a branch, and in one *other* than the command's wherever the command
may do without its own (`Dispensable`), so that each of its deletions can be the last step
before a kill.

**Commands of several transactions.** That the stack is sound after every step is not
inductive: a command goes on with the names and the commit that it put aside in an earlier
step. `IInv` of `WorkflowsProofs` adds `Fits`, which says for each step what they are worth:
the patches to push are not applied, the temporary patch of a refresh is on top, the lines
of a plan name distinct patches that are there, the names left to import are free or in the
list where they are looked for. A transaction is a value that recursive functions pass on
from patch to patch; `Ready` says of such a value that it can be executed at any moment,
whatever error it carries, and the lemmas of `StackOpsProofs` show, with the induction of
`Iteration` along each function, that pushing, absorbing, squashing and merging keep it.
`RebaseInv` adds how far a rebase has come (`OnTheWay`). `CleanInv` adds, for a command that
started on a clean worktree, that index and worktree are the branch between its steps
(`Following`), and within a transaction the tree that it takes to be checked out
(`InStep`); `Trails` says of each method that it keeps that. The merges of sync do
not: there only the last patch decides, and neither does the edited diff of an import; hence
the exceptions in the property. `CommandsEnd` needs none of this, only the form of the
command record and of the loops.

`IInv` was checked with TLC on the constants of the three passing runs of
`StackTransaction` before it was proved; the invariants with an existential quantifier over
lists or sets of objects are not for TLC.

Model-checked only:

* `UpgradeConverges`: liveness under fairness is out of the prover's reach.
* `WorkKept` and `RefreshDone` of `Workflows`: both follow the content of single files through
  all merges of a command. Of the worktree, `CleanWorktreesFollow` and the theorems about
  `StackTransaction` are what is proved.
* `Commands` and the modules that extend it (`PatchEdit`, `Exchange`): the properties compare
  functions on lists and texts that are defined by folds and recursion over the data; what
  such a function computes for every input needs induction over data.
* Everything that is refuted.

## Not modelled

Merge commits; signing, dates and encodings of commits; which editor or pager is run;
untracked files, file modes and submodules; the output parsing of `stupid/`; mail,
completion, aliases and the commands that only read, which change nothing. Of the
commands: `--branch`, `new --refresh`, `pick --fold` and `--update`, the series file of float,
`uncommit --to`; refresh with a renaming or a changed message (the editing itself is
`PatchEdit`) and its pre-commit hook; mailboxes, archives and
URLs of import, `sync --series` (`sync.rs:287-342`), templates of export other than the default one; `branch --describe` and
the upstream configuration of a branch. `Workflows` has one process: two at the same
time are in `StateLog`, where a command is a choice of new lists.
An update of a single reference or configuration file does not fail halfway, and the
deletions that the code does not check (`create.rs:166`) do not fail. `PatchRanges` has the
readings of a text as a commit id, but no text of the instance has one, so that the runs
do not reach them.

## Plan

1. Done: `GitModel`, `StackOps`, `StackTransaction`, their proofs; `UndoLog` and the
   refinement of `UndoHistory`; `PatchRanges` and `Commands`.
2. Done: `StateLog` with two processes, `Transact` and `Workflows`, `Branches` with the
   upgrade, `Revisions`, `PatchNames`, `PatchEdit`, `Exchange`.
3. Done: the proofs of `StackTransaction`, `StateLog`, `UndoLog`, `Branches` and `Workflows`
   above.
4. Left: `WorkKept` and `RefreshDone`, file by file along the functions of `Transact`, as
   `Moved` does it for `StackTransaction`; `AtomicStack`, an abstract stack that changes in
   one step, implemented by `StackTransaction` without faults.
