------------------------------ MODULE Workflows ------------------------------
(***************************************************************************)
(* The commands that are more than one transaction: rebase and pull (pop,  *)
(* a git command, push, with local changes in the stash), refresh with its *)
(* temporary patch, sync, import of a series, spill; and the ones that     *)
(* work on index and worktree beside a transaction: fold, edit.            *)
(*                                                                         *)
(* A step is one transaction (module Transact) or one git command.  The    *)
(* process may be killed between any two of them, the user may edit files  *)
(* and resolve conflicts between commands, and goes on with any command.   *)
(***************************************************************************)
EXTENDS Transact

CONSTANTS InitStates,   \* the stack states a behaviour may start from
          Targets,      \* commits for --base, and whose trees a patch may be edited to
          RefPatches,   \* sync: the commits of patches on the other branch
          Series,       \* import: sequences of [name, from, to], `to' and `from' trees
          RebaseArgs,   \* rebase and pull: pairs of flags and target, NoCommit for the base
          TempNames,    \* refresh-temp, refresh-temp-1, ...
          NewNames,     \* names that imports and edits may end up with
          Doubtful,     \* inputs that are let in, a subset of AllDoubtful
          MaxPlan,      \* bound: lines of an interactive rebase
          MaxPlans,     \* bound: interactive rebases that get a plan
          MaxCommands,  \* bound: commands
          MaxEdits,     \* bound: edits of the user
          MaxKills      \* bound: kills

\* Inputs that a command takes although it should not; the README has each of them.
AllDoubtful == {"sync applied",  \* sync of a patch that is applied already
                "import again",  \* import --ignore, --replace of a name in another list
                "hide hidden"}   \* rebase --interactive: `hide' for a hidden patch

ASSUME DoubtfulAssumption == Doubtful \subseteq AllDoubtful

\* A behaviour starts from a sound stack.  pull needs a commit to pull and has one
\* policy; imports have names of their own besides the ones that are made to tell
\* them apart.
ASSUME InputsAssumption ==
  /\ \A s \in InitStates : s \in States /\ Partitioned(s) /\ Chained(s) /\ s.head = StateTop(s)
  /\ Targets \subseteq Commits
  /\ \A n \in DOMAIN RefPatches : RefPatches[n] \in Commits /\ HasParent(RefPatches[n])
  /\ \A args \in RebaseArgs : /\ args[2] \in MaybeCommits
                              /\ args[1] \cap {"pull", "fetch"} # {} => args[2] # NoCommit
                              /\ ~({"pull", "fetch"} \subseteq args[1])
  /\ Series \subseteq Seq([name : Names, from : Trees, to : Trees])
  /\ \A s \in Series : \A i \in DOMAIN s : s[i].name \notin Elems(NewNames)
  /\ TempNames \in Seq(Names) /\ NewNames \in Seq(Names) /\ NoDuplicates(NewNames)
  /\ MaxPlan \in Nat

VARIABLES
  repo,    \* stack state, branch, index and worktree
  stash,   \* refs/stash: entries of [base, work], the newest first
  cmd,     \* the running command
  last,    \* the last command, if nothing happened since: its name and its end
  was,     \* history: repo and stash when the command started, or as the user left them
  mine,    \* history: what the user changed files to, until a commit has it
  count    \* how much of each bound is used up

vars == <<repo, stash, cmd, last, was, mine, count>>

NoCmd == [name |-> "none", pc |-> "idle", flags |-> {}, names |-> <<>>, target |-> NoCommit,
          stashed |-> FALSE, plan |-> <<>>, at |-> 1]

NoLast == [name |-> "none", how |-> "none", cmd |-> NoCmd]

\* The actions of an interactive rebase; a squash may be a fixup, which differs in
\* the message of the patch.
Acts == {"keep", "edit", "squash", "hide", "delete"}

Init ==
  /\ \E s \in InitStates :
       repo = [state |-> s, branch |-> s.head, wd |-> ReadTreeCheckoutHard(Tree(s.head))]
  /\ stash = <<>> /\ cmd = NoCmd /\ last = NoLast /\ was = [repo |-> repo, stash |-> stash]
  /\ mine = {}
  /\ count = [commands |-> 0, edits |-> 0, kills |-> 0, plans |-> 0]

Idle == cmd.pc = "idle"

TypeOK ==
  /\ repo.state \in States /\ repo.branch \in Commits /\ repo.wd \in Workdirs
  /\ stash \in Seq([base : Trees, work : Trees])
  /\ cmd.at \in 1..(MaxPlan + 1) /\ cmd.target \in MaybeCommits /\ cmd.names \in Seq(Names)
  /\ mine \subseteq Files \X Contents
  /\ last.how \in {"none", "ok", "halt", "conflict", "aborted", "error", "killed"}

Listed == Elems(AllPatches(repo.state))

Free(names) == Drop(names, Listed)

Changed(w) == {f \in Files : w.index[f] # Tree(repo.branch)[f] \/ w.work[f] # w.index[f]} \cup w.unmerged

\* check_index_and_worktree_clean and check_head_top_mismatch.
Clean == Changed(repo.wd) = {}

Mismatch == repo.state.applied # <<>> /\ repo.state.head # repo.branch

Base == BaseOf(repo.state, repo.branch)

Uses(what) == count' = [count EXCEPT ![what] = @ + 1]

\* A command starts.  One that refuses its arguments changes nothing: its guards
\* are all there is of that.
CanStart == Idle /\ count.commands < MaxCommands /\ ~Mismatch

Holds(tree, e) == tree[e[1]] = e[2]

Recorded(e) == Holds(Tree(repo.branch), e) \/ \E n \in Listed : Holds(Tree(repo.state.patches[n]), e)

Starts(c) ==
  /\ cmd' = c /\ Uses("commands") /\ last' = NoLast
  /\ was' = [repo |-> repo, stash |-> stash]
  /\ mine' = {e \in mine : ~Recorded(e)}

\* The running command c ends.
Ends(c, how) ==
  /\ cmd' = NoCmd
  /\ last' = [name |-> c.name, how |-> how,
              cmd |-> IF how \in {"ok", "halt"} THEN [c EXCEPT !.pc = "idle", !.plan = <<>>, !.at = 1] ELSE NoCmd]

\* The command c executes transaction x and goes on as `next', if that was ok.
Transacts(c, x, next) ==
  LET e == Execute(x)
  IN  /\ repo' = e.r
      /\ IF e.how = "ok" THEN cmd' = next /\ last' = last ELSE Ends(c, e.how)

\* The same for its last transaction.
Concludes(c, x) == LET e == Execute(x) IN repo' = e.r /\ Ends(c, e.how)

Within(o) == Setup(repo, o)

PushOptions == [InWorktree EXCEPT !.push_conflicts = "halt" \notin cmd.flags]
-----------------------------------------------------------------------------
(* The user. *)

EditFile ==
  /\ Idle /\ count.edits < MaxEdits /\ Uses("edits")
  /\ \E f \in Files \ repo.wd.unmerged, v \in Contents, staged \in BOOLEAN :
       /\ v # repo.wd.work[f]
       /\ repo' = [repo EXCEPT !.wd.work[f] = v, !.wd.index[f] = IF staged THEN v ELSE @]
       /\ mine' = {e \in mine : e[1] # f} \cup ({<<f, v>>} \ {<<f, Tree(repo.branch)[f]>>})
  /\ last' = NoLast /\ was' = [repo |-> repo', stash |-> stash]
  /\ UNCHANGED <<stash, cmd>>

\* The conflicts are resolved, for the content the file has by now, and added.
ResolveConflicts ==
  /\ Idle /\ repo.wd.unmerged # {}
  /\ repo' = [repo EXCEPT !.wd.unmerged = {},
                          !.wd.index = [f \in Files |-> IF f \in repo.wd.unmerged
                                                          THEN repo.wd.work[f] ELSE @[f]]]
  /\ mine' = {e \in mine : e[1] \notin repo.wd.unmerged}
  /\ last' = NoLast /\ was' = [repo |-> repo', stash |-> stash]
  /\ UNCHANGED <<stash, cmd, count>>

\* The process is killed between two of its steps.
Kill ==
  /\ ~Idle /\ count.kills < MaxKills /\ Uses("kills")
  /\ Ends(cmd, "killed")
  /\ UNCHANGED <<repo, stash, was, mine>>
-----------------------------------------------------------------------------
(* rebase and pull. *)

\* With --autostash local changes go to the stash; git does not stash conflicts.
RebaseStart ==
  /\ CanStart
  /\ \E args \in RebaseArgs :
     LET flags  == args[1]
         target == IF args[2] = NoCommit THEN Base ELSE args[2]
     IN
       /\ flags \cap {"pull", "fetch"} = {}
       /\ "interactive" \in flags \/ target # Base
       /\ Clean \/ ("autostash" \in flags /\ repo.wd.unmerged = {})
       /\ Starts([NoCmd EXCEPT !.name = "rebase", !.pc = "pop", !.flags = flags,
                               !.names = repo.state.applied, !.target = target,
                               !.stashed = ~Clean])
  /\ IF Clean THEN UNCHANGED <<repo, stash>>
     ELSE /\ stash' = <<[base |-> Tree(repo.branch), work |-> repo.wd.work]>> \o stash
          /\ repo' = [repo EXCEPT !.wd = ReadTreeCheckoutHard(Tree(repo.branch))]

\* The policies pull, and rebase or fetch-rebase, which move the base alike.
PullStart ==
  /\ CanStart /\ Clean
  /\ \E args \in RebaseArgs :
       /\ args[1] \cap {"pull", "fetch"} # {}
       /\ Starts([NoCmd EXCEPT !.name = "pull", !.pc = "pop", !.flags = args[1],
                               !.names = repo.state.applied, !.target = args[2]])
  /\ UNCHANGED <<repo, stash>>

Pop ==
  /\ cmd.pc = "pop"
  /\ LET x == Within(InWorktree)
     IN  Transacts(cmd, With(x, PopPatches(x.t, Elems(cmd.names))), [cmd EXCEPT !.pc = "git"])
  /\ UNCHANGED <<stash, was, mine, count>>

\* Mutation of UserRebase: the worktree is left where it was.
UserRebaseSoft ==
  /\ cmd.pc = "git" /\ "pull" \notin cmd.flags
  /\ repo' = [repo EXCEPT !.branch = cmd.target, !.wd.index = Tree(cmd.target)]
  /\ cmd' = [cmd EXCEPT !.pc = "reopen"] /\ last' = last
  /\ UNCHANGED <<stash, was, mine, count>>

\* user_rebase: `git reset --hard', which may fail.
UserRebase ==
  /\ cmd.pc = "git" /\ "pull" \notin cmd.flags
  /\ \/ /\ repo' = [repo EXCEPT !.branch = cmd.target,
                                !.wd = ReadTreeCheckoutHard(Tree(cmd.target))]
        /\ cmd' = [cmd EXCEPT !.pc = "reopen"] /\ last' = last
     \/ Ends(cmd, "error") /\ UNCHANGED repo
  /\ UNCHANGED <<stash, was, mine, count>>

\* The newest commit that both have.
MergeBase(a, b) == SubSeq(a, 1, NumCommon(a, b))

\* user_pull: `git pull' moves the branch forward, merges, or stops at a conflict.
UserPull ==
  /\ cmd.pc = "git" /\ "pull" \in cmd.flags
  /\ LET head == repo.branch
         base == Tree(MergeBase(head, cmd.target))
         tree == MergeTree(base, Tree(head), Tree(cmd.target))
         moved(c) == /\ repo' = [repo EXCEPT !.branch = c, !.wd = ReadTreeCheckoutHard(Tree(c))]
                     /\ cmd' = [cmd EXCEPT !.pc = "reopen"] /\ last' = last
     IN  IF IsPrefixOf(cmd.target, head) THEN moved(head)
         ELSE IF IsPrefixOf(head, cmd.target) THEN moved(cmd.target)
         ELSE IF ConflictFiles(base, Tree(head), Tree(cmd.target)) = {}
           THEN moved(MkCommit(head, tree, Meta(cmd.target)))
         ELSE /\ repo' = [repo EXCEPT !.wd = MergeRecursive(@, base, Tree(head), Tree(cmd.target))]
              /\ Ends(cmd, "conflict")
  /\ UNCHANGED <<stash, was, mine, count>>

\* What follows the push, or the decision not to push.
Finishes(c) == IF c.stashed THEN cmd' = [c EXCEPT !.pc = "unstash"] /\ last' = last ELSE Ends(c, "ok")

\* The stack is opened again, and the new head logged.
Reopen ==
  /\ cmd.pc = "reopen"
  /\ repo' = [repo EXCEPT !.state.head = repo.branch]
  /\ IF "interactive" \in cmd.flags /\ AllPatches(repo.state) # <<>>
       THEN cmd' = [cmd EXCEPT !.pc = "plan"] /\ last' = last
     ELSE IF cmd.flags \cap {"interactive", "nopush"} = {}
       THEN cmd' = [cmd EXCEPT !.pc = "push"] /\ last' = last
     ELSE Finishes(cmd)
  /\ UNCHANGED <<stash, was, mine, count>>

\* The last transaction, which pushes; the stash is popped if all went well.
Pushes(names) ==
  LET e == Execute(PushPatches(Within(PushOptions), names, "merged" \in cmd.flags))
  IN  repo' = e.r /\ IF e.how = "ok" THEN Finishes(cmd) ELSE Ends(cmd, e.how)

\* Mutation of PushBack: the patches are pushed in the order they came off.
PushBackReversed ==
  /\ cmd.pc = "push"
  /\ Pushes([i \in DOMAIN cmd.names |-> cmd.names[Len(cmd.names) + 1 - i]])
  /\ UNCHANGED <<stash, was, mine, count>>

PushBack ==
  /\ cmd.pc = "push"
  /\ Pushes(cmd.names)
  /\ UNCHANGED <<stash, was, mine, count>>

\* Mutation of Unstash: the entry is dropped although there are conflicts.
UnstashDropped ==
  /\ cmd.pc = "unstash"
  /\ LET s == Head(stash)
         t == repo.wd.index
         w == MergeTree(s.base, t, s.work)
     IN  /\ repo' = [repo EXCEPT !.wd.work = w]
         /\ stash' = Tail(stash) /\ Ends(cmd, "ok")
  /\ UNCHANGED <<was, mine, count>>

\* `git stash pop': on a conflict the entry stays.
Unstash ==
  /\ cmd.pc = "unstash"
  /\ LET s == Head(stash)
         t == repo.wd.index
         w == MergeTree(s.base, t, s.work)
         c == ConflictFiles(s.base, t, s.work)
     IN  IF c = {}
           THEN repo' = [repo EXCEPT !.wd.work = w] /\ stash' = Tail(stash) /\ Ends(cmd, "ok")
           ELSE repo' = [repo EXCEPT !.wd = MergeRecursive(@, s.base, t, s.work)]
                  /\ UNCHANGED stash /\ Ends(cmd, "conflict")
  /\ UNCHANGED <<was, mine, count>>
-----------------------------------------------------------------------------
(* rebase --interactive: interactive_pushback. *)

\* The lines that parse_instructions and validate_instructions let through: known
\* names, each once, those above the APPLY_LINE to be applied.
Instructions(names, acts, above) ==
  [i \in DOMAIN names |-> [name |-> names[i], act |-> acts[i], apply |-> i <= above]]

Plan ==
  /\ cmd.pc = "plan"
  /\ \/ \E k \in 0..MaxPlan : \E names \in [1..k -> Listed], acts \in [1..k -> Acts], above \in 0..k :
          /\ NoDuplicates(names)
          /\ "hide hidden" \in Doubtful \/
               \A i \in 1..k : acts[i] = "hide" => names[i] \notin Elems(repo.state.hidden)
          /\ cmd' = [cmd EXCEPT !.pc = "instruction", !.plan = Instructions(names, acts, above), !.at = 1]
          /\ last' = last
          /\ count.plans < MaxPlans /\ Uses("plans")
     \/ Ends(cmd, "error") /\ UNCHANGED count
  /\ UNCHANGED <<repo, stash, was, mine>>

Line == cmd.plan[cmd.at]

AtLine(acts) == cmd.pc = "instruction" /\ cmd.at <= Len(cmd.plan) /\ Line.act \in acts

\* The names on the lines from here on that have the same action as this one.
Batch ==
  LET last_ == CHOOSE j \in cmd.at..Len(cmd.plan) :
                 /\ \A i \in cmd.at..j : cmd.plan[i].act = Line.act
                 /\ j = Len(cmd.plan) \/ cmd.plan[j + 1].act # Line.act
  IN  [i \in 1..(last_ - cmd.at + 1) |-> cmd.plan[cmd.at + i - 1].name]

\* The plan without the lines of the batch.
Remaining == SubSeq(cmd.plan, 1, cmd.at - 1) \o SubSeq(cmd.plan, cmd.at + Len(Batch), Len(cmd.plan))

\* Mutation of KeepLine: the loop goes on by two lines.
KeepLineTwo ==
  /\ AtLine({"keep"})
  /\ cmd' = [cmd EXCEPT !.at = @ + 2]
  /\ UNCHANGED <<repo, stash, last, was, mine, count>>

KeepLine ==
  /\ AtLine({"keep"})
  /\ cmd' = [cmd EXCEPT !.at = @ + 1]
  /\ UNCHANGED <<repo, stash, last, was, mine, count>>

\* Mutation of DeleteLines: the lines stay in the list that is worked on.
DeleteLinesAgain ==
  /\ AtLine({"delete"})
  /\ LET x == Within(NoWorktree)
     IN  Transacts(cmd, With(x, DeletePatches(x.t, Elems(Batch))), cmd)
  /\ mine' = {}
  /\ UNCHANGED <<stash, was, count>>

DeleteLines ==
  /\ AtLine({"delete"})
  /\ LET x == Within(NoWorktree)
     IN  Transacts(cmd, With(x, DeletePatches(x.t, Elems(Batch))), [cmd EXCEPT !.plan = Remaining])
  /\ mine' = {}
  /\ UNCHANGED <<stash, was, count>>

HideLines ==
  /\ AtLine({"hide"})
  /\ LET x == Within(NoWorktree)
     IN  Transacts(cmd, With(x, HideUnapplied(x.t, Batch)), [cmd EXCEPT !.plan = Remaining])
  /\ UNCHANGED <<stash, was, mine, count>>

\* The trees an editor may leave behind that shows the diff to `tree'.
EditedTrees(tree) == {tree} \cup {Tree(c) : c \in Targets}

\* The patch gets another name, another message, another diff, or none of these; the
\* user may leave the editor with something that does not apply.
EditLine ==
  /\ AtLine({"edit"})
  /\ \/ \E name \in {Line.name} \cup Elems(Free(NewNames)), meta \in Metas,
          tree \in EditedTrees(Tree(repo.state.patches[Line.name])) :
          LET x == Within(NoWorktree)
              c == x.t.patches[Line.name]
              t == IF name = Line.name THEN x.t ELSE RenamePatch(x.t, Line.name, name)
              u == IF meta = Meta(c) /\ tree = Tree(c) THEN t
                   ELSE UpdatePatch(t, name, MkCommit(Parent(c), tree, meta))
          IN  /\ Transacts(cmd, With(x, u),
                           [cmd EXCEPT !.plan[cmd.at] = [@ EXCEPT !.act = "keep", !.name = name],
                                       !.at = @ + 1])
              /\ mine' = IF tree = Tree(c) THEN mine ELSE {}
     \/ Ends(cmd, "error") /\ UNCHANGED <<repo, mine>>
  /\ UNCHANGED <<stash, was, count>>

\* try_squash: the diffs of the patches on the tree of the first one.
TrySquash(t, names) ==
  LET sum[k \in 0..(Len(names) - 1)] ==
        IF k = 0 THEN [ok |-> TRUE, tree |-> Tree(t.patches[names[1]])]
        ELSE LET c == t.patches[names[k + 1]]
                 p == Tree(Parent(c))
             IN  [ok   |-> sum[k - 1].ok /\ ApplyClean(p, sum[k - 1].tree, Tree(c)),
                  tree |-> MergeTree(p, sum[k - 1].tree, Tree(c))]
  IN  sum[Len(names) - 1]

\* squash() without pushing the new patch, which is called `name'.
Squash(x, names, name, meta) ==
  LET joined(t) == NewUnapplied(DeletePatches(t, Elems(names)), name,
                                MkCommit(Parent(t.patches[names[1]]), TrySquash(t, names).tree, meta), 0)
      pushed == PushPatches(With(x, PopPatches(x.t, Elems(names))), names, FALSE)
  IN  IF TrySquash(x.t, names).ok THEN With(x, joined(x.t))
      ELSE IF pushed.err # "none" THEN pushed
      ELSE IF TrySquash(pushed.t, names).ok THEN With(pushed, joined(pushed.t))
      ELSE Fail(pushed, "error")

\* The editor starts with the name of the patch before and may leave any that is
\* free, or of a patch that is squashed; or it fails.  A first line has no patch
\* before it.
SquashLines ==
  /\ AtLine({"squash"})
  /\ \/ /\ cmd.at > 1
        /\ LET names == <<cmd.plan[cmd.at - 1].name>> \o Batch
           IN  \E name \in Elems(names) \cup Elems(Free(NewNames)), meta \in Metas :
                 Transacts(cmd, Squash(Within(NoWorktree), names, name, meta),
                           [cmd EXCEPT !.plan = [Remaining EXCEPT ![cmd.at - 1] =
                              [name |-> name, act |-> "keep", apply |-> Line.apply]]])
     \/ Ends(cmd, "error") /\ UNCHANGED repo
  /\ mine' = {}
  /\ UNCHANGED <<stash, was, count>>

\* All instructions are carried out: what is above the APPLY_LINE is pushed.
PushPlanned ==
  /\ cmd.pc = "instruction" /\ cmd.at > Len(cmd.plan)
  /\ LET names == [i \in DOMAIN cmd.plan |-> cmd.plan[i].name]
     IN  Pushes(Keep(names, {l.name : l \in {m \in Elems(cmd.plan) : m.apply}}))
  /\ UNCHANGED <<stash, was, mine, count>>

Rebasing ==
  \/ Pop \/ UserRebase \/ UserPull \/ Reopen \/ PushBack \/ Unstash
  \/ Plan \/ KeepLine \/ DeleteLines \/ HideLines \/ EditLine \/ SquashLines \/ PushPlanned
-----------------------------------------------------------------------------
(* refresh. *)

RefreshModes == {"all", "force", "index", "update", "paths"}

\* With --update, or for given paths, the tree is made in a temporary index.
PathLimiting(mode) == mode \in {"update", "paths"}

\* determine_refresh_paths: the changed files, of P or of patch n if they are limited.
RefreshPaths(n, mode, P) ==
  LET c == repo.state.patches[n]
  IN  CASE mode = "index"  -> {}
        [] mode = "update" -> {f \in Changed(repo.wd) : Tree(c)[f] # Tree(Parent(c))[f]}
        [] mode = "paths"  -> Changed(repo.wd) \cap P
        [] OTHER           -> Changed(repo.wd)

\* Its checks: no conflicts in these files, and unless forced all changes that were
\* looked at are in the index or all are in the worktree.
RefreshAllowed(paths, mode, P) ==
  LET w    == repo.wd
      seen == IF mode = "paths" THEN Changed(w) \cap P ELSE Changed(w)
  IN  /\ paths \cap w.unmerged = {}
      /\ mode \in {"all", "update", "paths"} =>
           \/ \A f \in seen : w.index[f] = Tree(repo.branch)[f]
           \/ \A f \in seen : w.work[f] = w.index[f]
      /\ ~PathLimiting(mode) => w.unmerged = {}

\* write_tree: `over' with the files of the worktree.
Updated(over, paths) == [f \in Files |-> IF f \in paths THEN repo.wd.work[f] ELSE over[f]]

RefreshTree(paths, mode) ==
  Updated(IF PathLimiting(mode) THEN Tree(repo.branch) ELSE repo.wd.index, paths)

RefreshStart ==
  /\ CanStart /\ Free(TempNames) # <<>>
  /\ \E n \in Elems(repo.state.applied \o repo.state.unapplied), mode \in RefreshModes, P \in SUBSET Files :
       LET paths == RefreshPaths(n, mode, P)
       IN  /\ mode # "paths" => P = {}
           /\ RefreshAllowed(paths, mode, P)
           /\ repo' = [repo EXCEPT !.wd.index = Updated(@, paths)]
           /\ Starts([NoCmd EXCEPT !.name = "refresh", !.pc = "temp", !.names = <<n, Free(TempNames)[1]>>,
                !.target = MkCommit(repo.branch, RefreshTree(paths, mode), Meta(repo.state.patches[n]))])
  /\ UNCHANGED stash

\* The first transaction: the temporary patch goes on top.
RefreshTemp ==
  /\ cmd.pc = "temp"
  /\ LET x == Within(NoWorktree)
     IN  Transacts(cmd, With(x, NewApplied(x.t, cmd.names[2], cmd.target)),
                   [cmd EXCEPT !.pc = "absorb"])
  /\ UNCHANGED <<stash, was, mine, count>>

\* The patches above n.
Above(t, n) == LET a == From(t.applied, {n}) IN SubSeq(a, 2, Len(a))

\* Mutation of AbsorbApplied: the patches above are not pushed again.
AbsorbAndLeave(x, n, temp) ==
  LET above  == Above(x.t, n)
      onTop  == IF Len(above) = 1 THEN x
                ELSE PushPatches(With(x, PopPatches(x.t, Elems(above))), <<temp>>, FALSE)
      c      == onTop.t.patches[n]
  IN  With(onTop, UpdatePatch(DeletePatches(onTop.t, {temp}), n,
                              MkCommit(Parent(c), Tree(onTop.t.patches[temp]), Meta(c))))

\* The temporary patch is pushed onto n, and its tree becomes the one of n.
AbsorbApplied(x, n, temp) ==
  LET above  == Above(x.t, n)
      onTop  == IF Len(above) = 1 THEN x
                ELSE PushPatches(With(x, PopPatches(x.t, Elems(above))), <<temp>>, FALSE)
      c      == onTop.t.patches[n]
      merged == With(onTop, UpdatePatch(DeletePatches(onTop.t, {temp}), n,
                                        MkCommit(Parent(c), Tree(onTop.t.patches[temp]), Meta(c))))
  IN  PushPatches(merged, SubSeq(above, 1, Len(above) - 1), FALSE)

\* Its diff is applied to the tree of n; if that fails it stays as a patch.
AbsorbUnapplied(x, n, temp) ==
  LET t    == PopPatches(x.t, {temp})
      c    == t.patches[n]
      base == Tree(Parent(t.patches[temp]))
      tree == Tree(t.patches[temp])
  IN  IF ApplyClean(base, Tree(c), tree)
        THEN With(x, DeletePatches(UpdatePatch(t, n,
                       MkCommit(Parent(c), MergeTree(base, Tree(c), tree), Meta(c))), {temp}))
        ELSE With(x, t)

RefreshAbsorb ==
  /\ cmd.pc = "absorb"
  /\ LET x == Within(InWorktree)
     IN  Concludes(cmd, IF cmd.names[1] \in Elems(x.t.applied)
                          THEN AbsorbApplied(x, cmd.names[1], cmd.names[2])
                          ELSE AbsorbUnapplied(x, cmd.names[1], cmd.names[2]))
  /\ UNCHANGED <<stash, was, mine, count>>
-----------------------------------------------------------------------------
(* edit, spill, fold. *)

\* The transaction of edit: the patch n becomes the commit c called `name'.  With
\* --set-tree the patches above keep their trees, else they are merged.
EditPatch(x, n, name, c, way) ==
  LET above == IF n \in Elems(x.t.applied) THEN Above(x.t, n) ELSE <<>>
      t     == PopPatches(x.t, Elems(above))
      named == IF name = n THEN t ELSE RenamePatch(t, n, name)
      y     == With(x, IF c = x.t.patches[n] THEN named ELSE UpdatePatch(named, name, c))
  IN  IF way = "set-tree" THEN PushTreePatches(y, above) ELSE PushPatches(y, above, FALSE)

\* edit: a new message, name or tree for any patch.
Edit ==
  /\ CanStart
  /\ \E n \in Listed, meta \in Metas, tree \in Targets, way \in {"message", "diff", "set-tree"} :
       \E name \in {n} \cup Elems(Free(NewNames)) :
         LET x   == Within([InWorktree EXCEPT !.conflicts = "allow"])
             c   == x.t.patches[n]
             new == MkCommit(Parent(c), IF way = "message" THEN Tree(c) ELSE Tree(tree), meta)
         IN  /\ name # n \/ new # c
             /\ was' = [repo |-> repo, stash |-> stash] /\ Uses("commands")
             /\ Concludes([NoCmd EXCEPT !.name = "edit"], EditPatch(x, n, name, new, way))
             /\ mine' = IF way = "message" THEN mine ELSE {}
  /\ UNCHANGED stash

\* spill: the topmost patch loses its changes, of some files or of all; the index
\* and the worktree keep them.
SpillStart ==
  /\ CanStart /\ repo.state.applied # <<>>
  /\ repo.wd.unmerged = {} /\ repo.wd.index = Tree(repo.branch)
  /\ \E P \in (SUBSET Files) \ {{}}, flags \in SUBSET {"reset"} :
       LET n    == repo.state.applied[Len(repo.state.applied)]
           x    == Within(NoWorktree)
           c    == x.t.patches[n]
           tree == [f \in Files |-> IF f \in P THEN Tree(Parent(c))[f] ELSE Tree(c)[f]]
           e    == Execute(With(x, UpdatePatch(x.t, n, MkCommit(Parent(c), tree, Meta(c)))))
       IN  /\ repo' = e.r
           /\ Starts([NoCmd EXCEPT !.name = "spill", !.pc = "spilled", !.flags = flags])
  /\ UNCHANGED stash

\* With --reset the index follows.
SpillReset ==
  /\ cmd.pc = "spilled"
  /\ repo' = IF "reset" \in cmd.flags THEN [repo EXCEPT !.wd.index = Tree(repo.branch)] ELSE repo
  /\ Ends(cmd, "ok")
  /\ UNCHANGED <<stash, was, mine, count>>

\* `git apply' of the diff d: the files that it fits are changed.
Applied(tree, d) == MergeTree(d.from, tree, d.to)

Diffs == UNION {Elems(s) : s \in Series}

\* fold: a diff goes to index and worktree; with --threeway it is applied to the
\* parent of the topmost patch, with --base to the commit given, and merged.  With
\* --reject the files that it fits are changed, else it has to fit all of them.
Fold ==
  /\ CanStart /\ Clean /\ repo.state.applied # <<>>
  /\ \E d \in Diffs, reject \in BOOLEAN,
        on \in {repo.branch, Parent(StateTop(repo.state))} \cup Targets :
       LET head == Tree(repo.branch)
           base == Tree(on)
           ok   == PlainApplyClean(base, d.from, d.to)
           m    == MergeRecursive(ReadTreeCheckoutHard(head), base, head, Applied(base, d))
           run  == [NoCmd EXCEPT !.name = "fold"]
       IN  /\ was' = [repo |-> repo, stash |-> stash] /\ Uses("commands")
           /\ IF ok \/ reject
                THEN /\ repo' = [repo EXCEPT !.wd = m]
                     /\ Ends(run, IF ok /\ m.unmerged = {} THEN "ok" ELSE "conflict")
                ELSE Ends(run, "error") /\ UNCHANGED repo
  /\ UNCHANGED <<stash, mine>>
-----------------------------------------------------------------------------
(* import: one patch of the series after the other. *)

\* Series whose names are not in another list already, where that goes wrong, and
\* for which the names of the model suffice.
Admitted(series, flags) ==
  LET names == [i \in DOMAIN series |-> series[i].name]
      S     == Elems(names)
  IN  IF "ignore" \in flags THEN "import again" \in Doubtful \/ S \cap Listed \subseteq Elems(repo.state.applied)
      ELSE IF "replace" \in flags
        THEN \/ "import again" \in Doubtful
             \/ NoDuplicates(names) /\ S \cap Listed \subseteq Elems(repo.state.unapplied)
      ELSE NoDuplicates(names) /\ Cardinality(S \cap Listed) <= Len(Free(NewNames))

ImportStart ==
  /\ CanStart /\ Clean
  /\ \E s \in Series, flags \in {{}, {"ignore"}, {"replace"}, {"reject"}, {"3way"}} :
       /\ Admitted(s, flags)
       /\ Starts([NoCmd EXCEPT !.name = "import", !.pc = "apply", !.flags = flags, !.plan = s])
  /\ UNCHANGED <<repo, stash>>

Entry == cmd.plan[1]

\* The name is made unique, unless --ignore or --replace is given.
ImportName ==
  IF cmd.flags \cap {"ignore", "replace"} # {} THEN Entry.name ELSE Free(<<Entry.name>> \o NewNames)[1]

Skipped == "ignore" \in cmd.flags /\ Entry.name \in Elems(repo.state.applied)

\* create_patch up to the editor: the diff goes to index and worktree.  With --3way
\* it is merged, and conflicts are left there; with --reject the files that it fits
\* are changed.
ImportApply ==
  /\ cmd.pc = "apply"
  /\ IF cmd.plan = <<>> THEN Ends(cmd, "ok") /\ UNCHANGED repo
     ELSE IF Skipped THEN cmd' = [cmd EXCEPT !.plan = Tail(@)] /\ UNCHANGED <<repo, last>>
     ELSE LET w  == repo.wd.index
              ok == IF "3way" \in cmd.flags THEN ApplyClean(Entry.from, w, Entry.to)
                    ELSE PlainApplyClean(w, Entry.from, Entry.to)
          IN  IF ok \/ "reject" \in cmd.flags
                THEN /\ repo' = [repo EXCEPT !.wd = ReadTreeCheckoutHard(Applied(w, Entry))]
                     /\ cmd' = [cmd EXCEPT !.pc = "create", !.flags = IF ok THEN @ ELSE @ \cup {"rejected"}]
                     /\ last' = last
                ELSE /\ repo' = IF "3way" \in cmd.flags
                                  THEN [repo EXCEPT !.wd = MergeRecursive(@, Entry.from, w, Entry.to)]
                                  ELSE repo
                     /\ Ends(cmd, "error")
  /\ UNCHANGED <<stash, was, mine, count>>

\* The names that the editor may leave: the one it was given, or a free one.  (A
\* bound: enough of them remain for the rest of the series.)
EditedNames ==
  {ImportName} \cup
    {n \in Elems(Free(NewNames)) :
       \/ cmd.flags \cap {"ignore", "replace"} # {}
       \/ Cardinality({cmd.plan[i].name : i \in 2..Len(cmd.plan)} \cap Listed) < Len(Free(NewNames))}

\* Mutation of ImportCreate: the patch that is to be replaced stays.
ImportBeside ==
  /\ cmd.pc = "create"
  /\ \E name \in EditedNames, tree \in EditedTrees(repo.wd.index), meta \in Metas :
       LET x == Within(NoWorktree)
           c == MkCommit(repo.branch, tree, meta)
       IN  Transacts(cmd, With(x, NewApplied(x.t, name, c)),
                     [cmd EXCEPT !.pc = "apply", !.plan = Tail(@)])
  /\ UNCHANGED <<stash, was, mine, count>>

\* The editor, for name, message and with --diff the tree, and the transaction, which
\* leaves index and worktree alone; then the end, if the diff was rejected in part.
\* The editor or the commit-msg hook may fail.
ImportCreate ==
  /\ cmd.pc = "create"
  /\ \/ \E name \in EditedNames, tree \in EditedTrees(repo.wd.index), meta \in Metas :
          LET x == Within(NoWorktree)
              c == MkCommit(repo.branch, tree, meta)
              t == IF "replace" \in cmd.flags /\ name \in Elems(x.t.unapplied)
                     THEN DeletePatches(x.t, {name}) ELSE x.t
              y == With(x, NewApplied(t, name, c))
              flags == IF tree = repo.wd.index THEN cmd.flags ELSE cmd.flags \cup {"edited"}
          IN  IF "rejected" \in cmd.flags
                THEN repo' = Execute(y).r /\ Ends(cmd, "conflict")
                ELSE Transacts(cmd, y, [cmd EXCEPT !.pc = "apply", !.plan = Tail(@), !.flags = flags])
     \/ Ends(cmd, "error") /\ UNCHANGED repo
  /\ UNCHANGED <<stash, was, mine, count>>
-----------------------------------------------------------------------------
(* sync --ref-branch. *)

\* Contiguous lists of patches, on one side of the stack top.
Ranges ==
  UNION {{SubSeq(s, i, j) : i, j \in 1..Len(s)} : s \in {repo.state.applied, repo.state.unapplied}} \ {<<>>}

SyncStart ==
  /\ CanStart /\ Clean
  /\ \E names \in Ranges :
       LET common == Keep(names, DOMAIN RefPatches)
           first  == common[1]
           above  == IF first \in Elems(repo.state.applied) THEN Above(repo.state, first) ELSE <<>>
           pushed == IF first \in Elems(repo.state.applied) THEN <<first>> ELSE <<>>
       IN  /\ common # <<>>
           /\ pushed = <<>> \/ "sync applied" \in Doubtful
           /\ Starts([NoCmd EXCEPT !.name = "sync", !.pc = "sync pop", !.flags = Elems(common),
                        !.names = pushed \o above \o Keep(names, Elems(repo.state.unapplied))])
  /\ UNCHANGED <<repo, stash>>

SyncPop ==
  /\ cmd.pc = "sync pop"
  /\ LET x == Within(InWorktree)
         S == Elems(x.t.applied) \cap Elems(Tail(cmd.names))
     IN  Transacts(cmd, With(x, PopPatches(x.t, S)), [cmd EXCEPT !.pc = "sync"])
  /\ UNCHANGED <<stash, was, mine, count>>

\* One turn of the closure's loop: push n, merge with the other branch's patch in
\* the worktree, and commit on what was on top at the start of the turn.
SyncOne(x, n) ==
  LET up   == IF n \in Elems(x.t.applied) THEN x ELSE PushPatches(x, <<n>>, FALSE)
      c    == up.t.patches[n]
      ref  == RefPatches[n]
      from == Tree(x.r.branch)
      out  == ReadTreeCheckout(up.wd, from, Tree(c))
      base == Tree(Parent(ref))
      m    == MergeRecursive(out, base, Tree(c), Tree(ref))
  IN  IF up.err # "none" \/ n \notin cmd.flags THEN up
      ELSE IF ~ReadTreeOk(up.wd, from, Tree(c)) THEN Fail(up, "error")
      ELSE IF ~MergeRecursiveOk(out, base, Tree(c), Tree(ref)) THEN Fail([up EXCEPT !.wd = out], "error")
      ELSE IF m.unmerged # {} THEN Fail([up EXCEPT !.wd = m], "error")
      ELSE IF m.index = Tree(c) THEN [up EXCEPT !.wd = m]
      ELSE With([up EXCEPT !.wd = m], UpdatePatch(up.t, n, MkCommit(Top(x.t), m.index, Meta(c))))

\* The whole loop.
SyncAll(x, names) ==
  LET sync[k \in 0..Len(names)] == IF k = 0 THEN x ELSE SyncOne(sync[k - 1], names[k])
  IN  sync[Len(names)]

Sync ==
  /\ cmd.pc = "sync"
  /\ Concludes(cmd, SyncAll(Within(InWorktree), cmd.names))
  /\ mine' = {}
  /\ UNCHANGED <<stash, was, count>>
-----------------------------------------------------------------------------
User == EditFile \/ ResolveConflicts

Start == RebaseStart \/ PullStart \/ RefreshStart \/ Edit \/ SpillStart \/ Fold \/ ImportStart \/ SyncStart

\* The steps of a command that has started.
Proceed ==
  \/ Rebasing \/ RefreshTemp \/ RefreshAbsorb \/ SpillReset
  \/ ImportApply \/ ImportCreate \/ SyncPop \/ Sync

\* The user need not do anything; a command that runs has to have a next step.
Rest == Idle /\ UNCHANGED vars

Next == User \/ Rest \/ Start \/ Proceed \/ Kill

Spec == Init /\ [][Next]_vars
-----------------------------------------------------------------------------
(* Properties. *)

\* "The topmost (most recent) commits of a branch are given names. Such a named
\* commit is called a 'patch'" (Documentation/stg.txt): the applied patches are a
\* chain of commits that ends at the head of the stack.
PatchesAreTopmostCommits ==
  Chained(repo.state) /\ (Idle /\ ~Mismatch => repo.state.head = StateTop(repo.state))

\* After every step of every command each patch is in one list once, and the
\* applied ones are the topmost commits: also where a command was killed or stopped
\* between its transactions and another one went on from there.
StackStaysSound == Partitioned(repo.state) /\ PatchesAreTopmostCommits

\* What the user has put into a file is never lost by a command, however it ends or
\* is killed: it is in the worktree, in the stash, in a patch or in the branch, or
\* in a conflict that waits for the user.  (Plans and edits that replace or delete
\* a patch are taken to be meant.)
WorkKept ==
  \A e \in mine :
    \/ Holds(repo.wd.work, e) \/ e[1] \in repo.wd.unmerged
    \/ \E i \in DOMAIN stash : Holds(stash[i].work, e)
    \/ Recorded(e)

Done(names, how) == Idle /\ last.name \in names /\ last.how \in how

\* A rebase or pull that ends well and pushes has the same patches applied in the
\* same order, a base that contains the target, an empty or untouched stash and the
\* user's local changes where they were.
RebaseDone ==
  Done({"rebase", "pull"}, {"ok"}) /\ last.cmd.flags \cap {"interactive", "nopush"} = {} =>
    /\ repo.state.applied = was.repo.state.applied
    /\ repo.state.unapplied = was.repo.state.unapplied
    /\ IF last.name = "rebase" THEN Base = last.cmd.target
       ELSE last.cmd.flags \cap {"fetch"} # {} => Base = last.cmd.target
    /\ stash = was.stash
    /\ \A f \in Files : was.repo.wd.work[f] # Tree(was.repo.branch)[f] => repo.wd.work[f] = was.repo.wd.work[f]

\* The files that a patch above n changes.
FilesAbove(state, n) ==
  {f \in Files : \E m \in Elems(Above(state, n)) :
     Tree(state.patches[m])[f] # Tree(Parent(state.patches[m]))[f]}

\* A refresh that ends well leaves no temporary patch or has said so: all patches
\* are in the lists they were in, and when the patch is an applied one then branch
\* and worktree have what was to be recorded, however far below the top the change
\* went.  (Not in a file that a patch above changes as well: there an edit that
\* takes the other patch's change back is no change to the lower patch, and pushing
\* the other one again brings the old content back.)
RefreshDone ==
  Done({"refresh"}, {"ok"}) =>
    LET s == repo.state
        b == was.repo.state
        n == last.cmd.names[1]
    IN  \/ /\ n \in Elems(b.unapplied)
           /\ s = [b EXCEPT !.head = s.head, !.unapplied = <<last.cmd.names[2]>> \o @, !.patches[last.cmd.names[2]] = last.cmd.target]
        \/ /\ s.applied = b.applied /\ s.unapplied = b.unapplied /\ s.hidden = b.hidden
           /\ n \in Elems(b.applied) => \A f \in Files \ FilesAbove(b, n) :
                repo.wd.work[f] = was.repo.wd.work[f] /\ Tree(repo.branch)[f] = Tree(last.cmd.target)[f]

\* A command that starts on a clean worktree and does not report a conflict or an
\* error leaves a clean one, also when it stops early with patches left to push.
\* (Except where an interactive rebase halts in a squash: that transaction moves the
\* branch and leaves the worktree behind.  And except for a sync that goes on, or
\* halts, with patches the other branch does not have: its transaction does not know
\* of the trees that sync has merged in the worktree, and where such a patch takes a
\* file back to what the old head had, the checkout leaves the merged content there.
\* And except for an import whose diff is changed in the editor: the patch gets the
\* edited tree, and index and worktree keep the diff as it was read.)
CleanWorktreeFollows ==
  /\ Done({"rebase", "pull", "refresh", "edit", "import", "sync"}, {"ok", "halt"})
  /\ was.repo.wd = ReadTreeCheckoutHard(Tree(was.repo.branch))
  /\ last.how = "halt" => last.name # "sync" /\ "interactive" \notin last.cmd.flags
  /\ last.name = "sync" => last.cmd.names[Len(last.cmd.names)] \in last.cmd.flags
  /\ last.name = "import" => "edited" \notin last.cmd.flags
  => repo.wd = ReadTreeCheckoutHard(Tree(repo.branch))

\* A bound on the steps that the command c still takes.
StepsLeft(c) ==
  CASE c.pc = "idle"        -> 0
    [] c.pc \in {"absorb", "spilled", "sync", "unstash"} -> 1
    [] c.pc \in {"temp", "sync pop", "push"} -> 2
    [] c.pc = "instruction" -> 3 + Len(c.plan) - c.at
    [] c.pc = "plan"        -> 3 + MaxPlan
    [] c.pc = "reopen"      -> 4 + MaxPlan
    [] c.pc = "git"         -> 5 + MaxPlan
    [] c.pc = "pop"         -> 6 + MaxPlan
    [] c.pc = "create"      -> 2 * Len(c.plan)
    [] c.pc = "apply"       -> 2 * Len(c.plan) + 1

\* Every command that starts comes to an end: each of its steps brings it nearer,
\* those of the loop over the instructions of an interactive rebase included, which
\* removes and replaces lines as it goes.  (That a running command has a next step
\* is what the check for deadlocks shows.)
CommandEnds == [][~Idle => StepsLeft(cmd') < StepsLeft(cmd)]_vars
=============================================================================
