--------------------------- MODULE WorkflowsProofs ---------------------------
(***************************************************************************)
(* The commands of Workflows, for every value of its constants without the *)
(* inputs that Doubtful lets in: each step of a command brings it nearer   *)
(* to its end; after every step the stack is sound, also where a command   *)
(* was killed or stopped between its transactions and another one went on  *)
(* from there; a rebase or pull that ended well did what it promises; and  *)
(* a command that starts on a clean worktree leaves a clean one.           *)
(*                                                                         *)
(* That the stack is sound is not inductive: a command goes on, after      *)
(* another process might have looked at the repository, with the names and *)
(* the commit that it put aside.  Fits says what they are worth at each of *)
(* its steps: the patches it will push are not applied, the temporary      *)
(* patch is on top, the lines of the plan name distinct patches that are   *)
(* there, the names left to import are free.  OnTheWay says, for a rebase, *)
(* how far it is: which patches are still to be pushed, and that the       *)
(* branch is where the rebase took it.  Following says the same of the     *)
(* worktree: between its steps the command leaves index and worktree at    *)
(* the branch, except where an import has yet to commit them; within a     *)
(* transaction they are at the tree it takes to be checked out, InStep,    *)
(* which every method keeps, Trails.                                       *)
(***************************************************************************)
EXTENDS Workflows, StackOpsProofs, Iteration

CmdFields == {"name", "pc", "flags", "names", "target", "stashed", "plan", "at"}

Pcs == {"idle", "pop", "git", "reopen", "push", "unstash", "plan", "instruction",
        "temp", "absorb", "spilled", "apply", "create", "sync pop", "sync"}

IsSeq(s) == \E S : s \in Seq(S)

\* The running command is a record of its fields, at one of its steps.
CmdForm ==
  /\ cmd = [f \in CmdFields |-> cmd[f]]
  /\ cmd.pc \in Pcs

\* With CmdForm, what the bound on the steps that are left needs: how the loops
\* over the instructions of a plan and over the patches of a series stand.
Loops ==
  /\ cmd.pc \in {"instruction", "apply", "create"} => IsSeq(cmd.plan)
  /\ cmd.pc = "instruction" => Len(cmd.plan) <= MaxPlan /\ cmd.at \in 1..(Len(cmd.plan) + 1)
  /\ cmd.pc = "create" => cmd.plan # <<>>
-----------------------------------------------------------------------------
Repos == [state : States, branch : Commits, wd : Workdirs]

\* The applied patches, if there are any, end at the branch.
OnTop(r) == r.state.applied # <<>> => r.state.head = r.branch /\ r.branch = StateTop(r.state)

Sound(r) == r \in Repos /\ Good(r.state) /\ Linked(r.state) /\ OnTop(r)

StashEntries == [base : Trees, work : Trees]

Lines == [name : Names, act : Acts, apply : BOOLEAN]

Entries == [name : Names, from : Trees, to : Trees]

Hows == {"none", "ok", "halt", "conflict", "aborted", "error", "killed"}

\* The instructions name distinct patches that are there, and none hides a patch
\* that is hidden.
PlanFits(plan, s) ==
  /\ plan \in Seq(Lines)
  /\ \A i, j \in 1..Len(plan) : plan[i].name = plan[j].name => i = j
  /\ \A i \in 1..Len(plan) : /\ plan[i].name \in InLists(s)
                             /\ plan[i].act = "hide" => plan[i].name \notin Elems(s.hidden)

SeriesNames(plan) == [i \in 1..Len(plan) |-> plan[i].name]

\* The patches left to import can have their names, or there are others for them.
ImportFits(plan, flags, s) ==
  /\ plan \in Seq(Entries)
  /\ \A i \in 1..Len(plan) : plan[i].name \notin Elems(NewNames)
  /\ LET S == Elems(SeriesNames(plan))
     IN  IF "ignore" \in flags THEN S \cap InLists(s) \subseteq Elems(s.applied)
         ELSE /\ NoDuplicates(SeriesNames(plan))
              /\ IF "replace" \in flags THEN S \cap InLists(s) \subseteq Elems(s.unapplied)
                 ELSE Cardinality(S \cap InLists(s)) <= Cardinality(Elems(NewNames) \ InLists(s))

\* What the running command has put aside fits the repository as it is now.
Fits(c, r) ==
  LET s == r.state
  IN  /\ c.pc \in {"pop", "git", "reopen", "push"} => c.target \in Commits
      /\ c.pc = "pop" => c.names = s.applied
      /\ c.pc \in {"git", "reopen", "push", "plan", "instruction"} => s.applied = <<>>
      /\ c.pc \in {"git", "reopen", "push", "sync pop", "sync"} => Pushable(s, c.names)
      /\ c.pc = "instruction" => PlanFits(c.plan, s)
      /\ c.pc \in {"temp", "absorb"} =>
           /\ Len(c.names) = 2 /\ c.names[1] # c.names[2]
           /\ c.names[1] \in Elems(s.applied) \cup Elems(s.unapplied)
      /\ c.pc = "temp" => /\ c.names[2] \notin InLists(s)
                          /\ c.target \in Commits /\ HasParent(c.target) /\ Parent(c.target) = r.branch
      /\ c.pc = "absorb" => s.applied # <<>> /\ c.names[2] = s.applied[Len(s.applied)]
      /\ c.pc \in {"apply", "create"} => ImportFits(c.plan, c.flags, s)
      /\ c.pc = "create" => /\ c.plan # <<>>
                            /\ "ignore" \in c.flags => c.plan[1].name \notin Elems(s.applied)
      /\ c.pc \in {"sync pop", "sync"} => c.flags \subseteq DOMAIN RefPatches

\* The inductive invariant.
IInv ==
  /\ Sound(repo)
  /\ stash \in Seq(StashEntries)
  /\ CmdForm /\ Loops
  /\ cmd.at \in 1..(MaxPlan + 1) /\ cmd.target \in MaybeCommits /\ cmd.names \in Seq(Names)
  /\ cmd.stashed => stash # <<>>
  /\ cmd.pc = "unstash" => cmd.stashed
  /\ Fits(cmd, repo)
  /\ mine \subseteq Files \X Contents
  /\ last.how \in Hows
-----------------------------------------------------------------------------
(* The steps of a command. *)

\* A record of the fields of a command.
Form(c) == c = [f \in CmdFields |-> c[f]]

\* The command goes on at q, with the same plan and the same place in it.
GoesTo(q) == Form(cmd') /\ cmd'.pc = q /\ cmd'.plan = cmd.plan /\ cmd'.at = cmd.at

\* No command runs.
LEMMA NoCmdForm == Form(NoCmd) /\ NoCmd.pc = "idle" /\ StepsLeft(NoCmd) = 0
BY DEF Form, CmdFields, NoCmd, StepsLeft

\* A command that ends is no longer there.
LEMMA EndsForm ==
  ASSUME NEW c, NEW how, Ends(c, how)
  PROVE  cmd' = NoCmd /\ last'.how = how
BY DEF Ends

\* A transaction lets the command go on or ends it.
LEMMA TransactsForm ==
  ASSUME NEW c, NEW x, NEW next, Transacts(c, x, next)
  PROVE  /\ repo' = Execute(x).r
         /\ \/ Execute(x).how = "ok" /\ cmd' = next /\ last' = last
            \/ Execute(x).how # "ok" /\ cmd' = NoCmd /\ last'.how = Execute(x).how
BY EndsForm DEF Transacts

\* The step that follows when only the program counter changes.
LEMMA GoesToForm ==
  ASSUME CmdForm, NEW q, cmd' = [cmd EXCEPT !.pc = q]
  PROVE  GoesTo(q)
BY DEF CmdForm, GoesTo, Form, CmdFields

\* How many steps are left, by where the command is.
LEMMA StepsFrom ==
  ASSUME NEW c
  PROVE  /\ c.pc = "idle" => StepsLeft(c) = 0
         /\ c.pc \in {"absorb", "spilled", "sync", "unstash"} => StepsLeft(c) = 1
         /\ c.pc \in {"temp", "sync pop", "push"} => StepsLeft(c) = 2
         /\ c.pc = "instruction" => StepsLeft(c) = 3 + Len(c.plan) - c.at
         /\ c.pc = "plan"        => StepsLeft(c) = 3 + MaxPlan
         /\ c.pc = "reopen"      => StepsLeft(c) = 4 + MaxPlan
         /\ c.pc = "git"         => StepsLeft(c) = 5 + MaxPlan
         /\ c.pc = "pop"         => StepsLeft(c) = 6 + MaxPlan
         /\ c.pc = "create"      => StepsLeft(c) = 2 * Len(c.plan)
         /\ c.pc = "apply"       => StepsLeft(c) = 2 * Len(c.plan) + 1
BY DEF StepsLeft

\* The lengths that count.
LEMMA SeqLength ==
  ASSUME NEW s, IsSeq(s)
  PROVE  /\ Len(s) \in Nat /\ DOMAIN s = 1..Len(s) /\ s = <<>> <=> Len(s) = 0
         /\ s # <<>> => IsSeq(Tail(s)) /\ Len(Tail(s)) = Len(s) - 1
<1>1. PICK S : s \in Seq(S)
  BY DEF IsSeq
<1>2. s # <<>> => Tail(s) \in Seq(S) /\ Len(Tail(s)) = Len(s) - 1
  BY <1>1
<1> QED BY <1>1, <1>2 DEF IsSeq

\* A command that runs has at least one step left.
LEMMA StepsPositive ==
  ASSUME CmdForm, Loops, ~Idle
  PROVE  StepsLeft(cmd) > 0
<1>1. MaxPlan \in Nat
  BY InputsAssumption
<1>2. ASSUME cmd.pc = "instruction" PROVE StepsLeft(cmd) > 0
  <2>1. Len(cmd.plan) \in Nat /\ cmd.at \in 1..(Len(cmd.plan) + 1)
    BY <1>2, SeqLength DEF Loops
  <2>2. StepsLeft(cmd) = 3 + Len(cmd.plan) - cmd.at
    BY <1>2, StepsFrom
  <2> QED BY <2>1, <2>2
<1>3. ASSUME cmd.pc = "create" PROVE StepsLeft(cmd) > 0
  <2>1. Len(cmd.plan) \in Nat /\ Len(cmd.plan) # 0
    BY <1>3, SeqLength DEF Loops
  <2>2. StepsLeft(cmd) = 2 * Len(cmd.plan)
    BY <1>3, StepsFrom
  <2> QED BY <2>1, <2>2
<1>4. ASSUME cmd.pc = "apply" PROVE StepsLeft(cmd) > 0
  <2>1. Len(cmd.plan) \in Nat
    BY <1>4, SeqLength DEF Loops
  <2>2. StepsLeft(cmd) = 2 * Len(cmd.plan) + 1
    BY <1>4, StepsFrom
  <2> QED BY <2>1, <2>2
<1>5. ASSUME cmd.pc \in {"absorb", "spilled", "sync", "unstash", "temp", "sync pop", "push", "plan",
                         "reopen", "git", "pop"}
      PROVE  StepsLeft(cmd) > 0
  <2>1. StepsLeft(cmd) \in {1, 2, 3 + MaxPlan, 4 + MaxPlan, 5 + MaxPlan, 6 + MaxPlan}
    BY <1>5, StepsFrom
  <2> QED BY <1>1, <2>1
<1> QED BY <1>2, <1>3, <1>4, <1>5 DEF CmdForm, Pcs, Idle

\* The steps that follow each other outside of the loops.
Follow(p, q) ==
  \/ p = "pop" /\ q = "git"
  \/ p = "git" /\ q = "reopen"
  \/ p = "reopen" /\ q \in {"plan", "push", "unstash"}
  \/ p = "push" /\ q = "unstash"
  \/ p = "temp" /\ q = "absorb"
  \/ p = "sync pop" /\ q = "sync"

LEMMA StepsDown ==
  ASSUME NEW c, NEW d, Follow(c.pc, d.pc)
  PROVE  StepsLeft(d) < StepsLeft(c)
<1>1. MaxPlan \in Nat
  BY InputsAssumption
<1>2. \/ StepsLeft(c) = 6 + MaxPlan /\ StepsLeft(d) = 5 + MaxPlan
      \/ StepsLeft(c) = 5 + MaxPlan /\ StepsLeft(d) = 4 + MaxPlan
      \/ StepsLeft(c) = 4 + MaxPlan /\ StepsLeft(d) \in {3 + MaxPlan, 2, 1}
      \/ StepsLeft(c) = 2 /\ StepsLeft(d) = 1
  BY StepsFrom DEF Follow
<1> QED BY <1>1, <1>2

\* What every step of a running command does.
Progress == CmdForm' /\ Loops' /\ StepsLeft(cmd') < StepsLeft(cmd)

\* A step that ends the command.
LEMMA ProgressEnd ==
  ASSUME CmdForm, Loops, ~Idle, cmd' = NoCmd
  PROVE  Progress
<1>1. CmdForm' /\ Loops'
  BY NoCmdForm DEF CmdForm, Loops, Form, Pcs
<1>2. StepsLeft(cmd') = 0
  BY NoCmdForm
<1> QED BY <1>1, <1>2, StepsPositive DEF Progress

\* A step that goes on to a step outside the loops.
LEMMA ProgressTo ==
  ASSUME CmdForm, Loops, NEW q \in Pcs \ {"instruction", "apply", "create"}, GoesTo(q),
         StepsLeft(cmd') < StepsLeft(cmd)
  PROVE  Progress
BY DEF Progress, CmdForm, Loops, GoesTo, Form

\* The lines of the batch: from this one to line j.
BatchTo(j) ==
  /\ j \in cmd.at..Len(cmd.plan)
  /\ \A i \in cmd.at..j : cmd.plan[i].act = Line.act
  /\ Batch = [i \in 1..(j - cmd.at + 1) |-> cmd.plan[cmd.at + i - 1].name]
  /\ Len(Batch) = j - cmd.at + 1
  /\ Remaining = SubSeq(cmd.plan, 1, cmd.at - 1) \o SubSeq(cmd.plan, j + 1, Len(cmd.plan))

\* The loop that gathers the lines with the same action as this one finds some.
LEMMA BatchFacts ==
  ASSUME Loops, NEW A, AtLine(A)
  PROVE  \E j : BatchTo(j)
<1>1. PICK n : n = Len(cmd.plan)
  OBVIOUS
<1>2. n \in Nat /\ cmd.at \in 1..n
  BY <1>1, SeqLength DEF AtLine, Loops
<1>3. PICK P : P = {j \in 1..n : j >= cmd.at /\ (j = n \/ cmd.plan[j + 1].act # Line.act)}
  OBVIOUS
<1>4. n \in P /\ P \in SUBSET (1..n)
  BY <1>2, <1>3
<1>5. PICK m \in P : \A i \in P : m <= i
  BY <1>2, <1>4, FirstPosition
<1>6. m \in cmd.at..n
  BY <1>2, <1>3, <1>5
<1>7. ASSUME NEW i \in cmd.at..m PROVE cmd.plan[i].act = Line.act
  <2>1. CASE i = cmd.at
    BY <2>1 DEF Line
  <2>2. CASE i # cmd.at
    <3>1. i - 1 \in 1..n /\ i - 1 >= cmd.at /\ i - 1 < m /\ i - 1 # n /\ (i - 1) + 1 = i
      BY <1>2, <1>6, <2>2
    <3>2. i - 1 \notin P
      BY <1>2, <1>5, <1>6, <3>1
    <3> QED BY <1>3, <3>1, <3>2
  <2> QED BY <2>1, <2>2
<1> DEFINE IsEnd(j) == /\ \A i \in cmd.at..j : cmd.plan[i].act = Line.act
                       /\ j = n \/ cmd.plan[j + 1].act # Line.act
<1>8. IsEnd(m)
  BY <1>3, <1>5, <1>7
<1>9. PICK j : j = CHOOSE k \in cmd.at..n : IsEnd(k)
  OBVIOUS
<1>10. j \in cmd.at..n /\ IsEnd(j)
  <2> HIDE DEF IsEnd
  <2> QED BY <1>6, <1>8, <1>9
<1>11. Batch = [i \in 1..(j - cmd.at + 1) |-> cmd.plan[cmd.at + i - 1].name]
  BY <1>1, <1>9 DEF Batch
<1>12. Len(Batch) = j - cmd.at + 1 /\ cmd.at + Len(Batch) = j + 1
  <2>1. j - cmd.at + 1 \in Nat
    BY <1>2, <1>10
  <2> QED BY <1>2, <1>10, <1>11, <2>1
<1>13. Remaining = SubSeq(cmd.plan, 1, cmd.at - 1) \o SubSeq(cmd.plan, j + 1, Len(cmd.plan))
  BY <1>12 DEF Remaining
<1> QED BY <1>1, <1>10, <1>11, <1>12, <1>13 DEF BatchTo

\* The plan without the batch, line by line.
LEMMA RemainingFacts ==
  ASSUME NEW S, cmd.plan \in Seq(S), cmd.at \in 1..Len(cmd.plan), NEW j, BatchTo(j)
  PROVE  /\ Remaining \in Seq(S) /\ Len(Remaining) = Len(cmd.plan) - (j - cmd.at + 1)
         /\ \A i \in 1..Len(Remaining) :
              Remaining[i] = cmd.plan[IF i < cmd.at THEN i ELSE i + (j - cmd.at + 1)]
<1>1. PICK p, n, k : p = cmd.plan /\ n = Len(cmd.plan) /\ k = cmd.at
  OBVIOUS
<1>2. p \in Seq(S) /\ n = Len(p) /\ n \in Nat /\ k \in 1..n /\ j \in k..n
  BY <1>1 DEF BatchTo
<1>3. PICK lo : lo = SubSeq(p, 1, k - 1)
  OBVIOUS
<1>4. lo \in Seq(S) /\ Len(lo) = k - 1 /\ \A i \in 1..(k - 1) : lo[i] = p[i]
  BY <1>2, <1>3
<1>5. PICK hi : hi = SubSeq(p, j + 1, n)
  OBVIOUS
<1>6. hi \in Seq(S) /\ Len(hi) = n - j /\ \A i \in 1..(n - j) : hi[i] = p[j + i]
  BY <1>2, <1>5
<1>7. PICK r : r = lo \o hi
  OBVIOUS
<1>8. /\ r \in Seq(S) /\ Len(r) = (k - 1) + (n - j)
      /\ \A i \in 1..Len(r) : r[i] = IF i <= k - 1 THEN lo[i] ELSE hi[i - (k - 1)]
  <2>1. lo \in Seq(S) /\ hi \in Seq(S)
    BY <1>4, <1>6
  <2>2. /\ r \in Seq(S) /\ Len(r) = Len(lo) + Len(hi)
        /\ \A i \in 1..(Len(lo) + Len(hi)) : r[i] = IF i <= Len(lo) THEN lo[i] ELSE hi[i - Len(lo)]
    BY ONLY <1>7, <2>1
  <2> QED BY <1>4, <1>6, <2>2
<1>9. ASSUME NEW i \in 1..Len(r) PROVE r[i] = p[IF i < k THEN i ELSE i + (j - k + 1)]
  <2>1. CASE i < k
    BY <1>2, <1>4, <1>8, <2>1
  <2>2. CASE i >= k
    <3>1. i - (k - 1) \in 1..(n - j) /\ j + (i - (k - 1)) = i + (j - k + 1)
      BY <1>2, <1>8, <2>2
    <3>2. r[i] = hi[i - (k - 1)]
      BY <1>2, <1>8, <2>2
    <3> QED BY <1>2, <1>6, <2>2, <3>1, <3>2
  <2> QED BY <1>2, <2>1, <2>2
<1>10. r = Remaining
  BY <1>1, <1>3, <1>5, <1>7 DEF BatchTo
<1> QED BY <1>1, <1>2, <1>8, <1>9, <1>10, SMTT(30)

\* What follows a push.
LEMMA FinishesForm ==
  ASSUME NEW c, Finishes(c)
  PROVE  \/ c.stashed /\ cmd' = [c EXCEPT !.pc = "unstash"] /\ last' = last
         \/ cmd' = NoCmd /\ last'.how = "ok"
BY EndsForm DEF Finishes

LEMMA PushesForm ==
  ASSUME NEW names, Pushes(names)
  PROVE  LET e == Execute(PushPatches(Within(PushOptions), names, "merged" \in cmd.flags))
         IN  /\ repo' = e.r
             /\ \/ e.how = "ok" /\ Finishes(cmd)
                \/ e.how # "ok" /\ cmd' = NoCmd /\ last'.how = e.how
<1>1. PICK e : e = Execute(PushPatches(Within(PushOptions), names, "merged" \in cmd.flags))
  OBVIOUS
<1>2. repo' = e.r /\ IF e.how = "ok" THEN Finishes(cmd) ELSE Ends(cmd, e.how)
  BY <1>1 DEF Pushes
<1> QED BY <1>1, <1>2, EndsForm

\* The steps of rebase and pull outside of the instructions.
LEMMA ProgressRebase ==
  ASSUME CmdForm, Loops,
         Pop \/ UserRebase \/ UserPull \/ Reopen \/ PushBack \/ Unstash
  PROVE  Progress
<1> DEFINE To(q) == cmd' = NoCmd \/ cmd' = [cmd EXCEPT !.pc = q]
<1>1. CASE Pop
  <2>1. cmd.pc = "pop" /\ ~Idle
    BY <1>1 DEF Pop, Idle
  <2>2. To("git")
    BY <1>1, TransactsForm DEF Pop
  <2>3. GoesTo("git") => StepsLeft(cmd') < StepsLeft(cmd)
    BY <2>1, StepsDown DEF GoesTo, Follow
  <2> QED BY <2>1, <2>2, <2>3, GoesToForm, ProgressEnd, ProgressTo DEF Pcs
<1>2. CASE UserRebase \/ UserPull
  <2>1. cmd.pc = "git" /\ ~Idle
    BY <1>2 DEF UserRebase, UserPull, Idle
  <2>2. To("reopen")
    <3>1. CASE UserRebase
      BY <3>1, EndsForm DEF UserRebase
    <3>2. CASE UserPull
      BY <3>2, EndsForm DEF UserPull
    <3> QED BY <1>2, <3>1, <3>2
  <2>3. GoesTo("reopen") => StepsLeft(cmd') < StepsLeft(cmd)
    BY <2>1, StepsDown DEF GoesTo, Follow
  <2> QED BY <2>1, <2>2, <2>3, GoesToForm, ProgressEnd, ProgressTo DEF Pcs
<1>3. CASE Reopen
  <2>1. cmd.pc = "reopen" /\ ~Idle
    BY <1>3 DEF Reopen, Idle
  <2>2. To("plan") \/ To("push") \/ To("unstash")
    BY <1>3, FinishesForm DEF Reopen
  <2>3. GoesTo("plan") \/ GoesTo("push") \/ GoesTo("unstash") => StepsLeft(cmd') < StepsLeft(cmd)
    BY <2>1, StepsDown DEF GoesTo, Follow
  <2> QED BY <2>1, <2>2, <2>3, GoesToForm, ProgressEnd, ProgressTo DEF Pcs
<1>4. CASE PushBack
  <2>1. cmd.pc = "push" /\ ~Idle
    BY <1>4 DEF PushBack, Idle
  <2>2. To("unstash")
    BY <1>4, FinishesForm, PushesForm DEF PushBack
  <2>3. GoesTo("unstash") => StepsLeft(cmd') < StepsLeft(cmd)
    BY <2>1, StepsDown DEF GoesTo, Follow
  <2> QED BY <2>1, <2>2, <2>3, GoesToForm, ProgressEnd, ProgressTo DEF Pcs
<1>5. CASE Unstash
  <2>1. cmd.pc = "unstash" /\ ~Idle
    BY <1>5 DEF Unstash, Idle
  <2>2. cmd' = NoCmd
    BY <1>5, EndsForm DEF Unstash
  <2> QED BY <2>1, <2>2, ProgressEnd
<1> QED BY <1>1, <1>2, <1>3, <1>4, <1>5

\* The loop goes on with a shorter plan, or at the next line.
LEMMA ProgressLoop ==
  ASSUME CmdForm, Loops, cmd.pc = "instruction", cmd.at \in 1..Len(cmd.plan),
         Form(cmd'), cmd'.pc = "instruction", IsSeq(cmd'.plan),
         \/ Len(cmd'.plan) < Len(cmd.plan) /\ cmd'.at = cmd.at /\ cmd.at <= Len(cmd'.plan) + 1
         \/ Len(cmd'.plan) = Len(cmd.plan) /\ cmd'.at = cmd.at + 1
  PROVE  Progress
<1>1. Len(cmd.plan) \in Nat /\ Len(cmd'.plan) \in Nat /\ MaxPlan \in Nat /\ Len(cmd.plan) <= MaxPlan
  BY SeqLength, InputsAssumption DEF Loops
<1>2. Len(cmd'.plan) <= MaxPlan /\ cmd'.at \in 1..(Len(cmd'.plan) + 1)
  BY <1>1
<1>3. CmdForm' /\ Loops'
  BY <1>2 DEF CmdForm, Form, Loops, Pcs
<1>4. StepsLeft(cmd) = 3 + Len(cmd.plan) - cmd.at /\ StepsLeft(cmd') = 3 + Len(cmd'.plan) - cmd'.at
  BY StepsFrom
<1>5. StepsLeft(cmd') < StepsLeft(cmd)
  <2>1. CASE Len(cmd'.plan) < Len(cmd.plan) /\ cmd'.at = cmd.at /\ cmd.at <= Len(cmd'.plan) + 1
    BY <1>1, <1>4, <2>1
  <2>2. CASE Len(cmd'.plan) = Len(cmd.plan) /\ cmd'.at = cmd.at + 1
    BY <1>1, <1>4, <2>2
  <2> QED BY <2>1, <2>2
<1> QED BY <1>3, <1>5 DEF Progress

\* The lines of a plan.
LEMMA InstructionsSeq ==
  ASSUME NEW k \in Nat, NEW names, DOMAIN names = 1..k, NEW acts, NEW above,
         NEW plan, plan = Instructions(names, acts, above)
  PROVE  /\ IsSeq(plan) /\ Len(plan) = k
         /\ \A i \in 1..k : plan[i] = [name |-> names[i], act |-> acts[i], apply |-> i <= above]
<1>1. PICK S : S = {[name |-> names[i], act |-> acts[i], apply |-> i <= above] : i \in 1..k}
  OBVIOUS
<1>2. plan = [i \in 1..k |-> [name |-> names[i], act |-> acts[i], apply |-> i <= above]]
  BY DEF Instructions
<1>3. plan \in [1..k -> S]
  BY <1>1, <1>2
<1>4. plan \in Seq(S) /\ Len(plan) = k
  BY <1>3
<1> QED BY <1>2, <1>4 DEF IsSeq

LEMMA ProgressPlan ==
  ASSUME CmdForm, Loops, Plan
  PROVE  Progress
<1>1. cmd.pc = "plan" /\ ~Idle /\ MaxPlan \in Nat
  BY InputsAssumption DEF Plan, Idle
<1>2. CASE cmd' = NoCmd
  BY <1>1, <1>2, ProgressEnd
<1>3. ASSUME NEW k \in 0..MaxPlan, NEW names \in [1..k -> Listed], NEW acts, NEW above,
             cmd' = [cmd EXCEPT !.pc = "instruction", !.plan = Instructions(names, acts, above), !.at = 1]
      PROVE  Progress
  <2>1. PICK plan : plan = Instructions(names, acts, above)
    OBVIOUS
  <2>2. Form(cmd') /\ cmd'.pc = "instruction" /\ cmd'.plan = plan /\ cmd'.at = 1
    BY <1>3, <2>1 DEF CmdForm, Form, CmdFields
  <2>3. k \in Nat /\ DOMAIN names = 1..k
    BY <1>1
  <2>4. IsSeq(plan) /\ Len(plan) = k /\ Len(plan) <= MaxPlan /\ 1 \in 1..(Len(plan) + 1)
    BY <1>1, <2>1, <2>3, InstructionsSeq
  <2>5. CmdForm' /\ Loops'
    BY <2>2, <2>4 DEF CmdForm, Form, Loops, Pcs
  <2>6. StepsLeft(cmd) = 3 + MaxPlan /\ StepsLeft(cmd') = 3 + Len(cmd'.plan) - cmd'.at
    BY <1>1, <2>2, StepsFrom
  <2>7. StepsLeft(cmd') < StepsLeft(cmd)
    BY <1>1, <2>2, <2>3, <2>4, <2>6
  <2> QED BY <2>5, <2>7 DEF Progress
<1>4. \/ cmd' = NoCmd
      \/ \E k \in 0..MaxPlan : \E names \in [1..k -> Listed] : \E acts, above :
           cmd' = [cmd EXCEPT !.pc = "instruction", !.plan = Instructions(names, acts, above), !.at = 1]
  BY EndsForm DEF Plan
<1> QED BY <1>2, <1>3, <1>4

\* The lines before this one are left when the batch is taken out.
LEMMA RemainingLength ==
  ASSUME Loops, NEW A, AtLine(A)
  PROVE  /\ IsSeq(Remaining) /\ Len(Remaining) < Len(cmd.plan) /\ cmd.at <= Len(Remaining) + 1
         /\ cmd.at \in 1..Len(cmd.plan) /\ Len(cmd.plan) \in Nat /\ Len(Remaining) \in Nat
<1>1. PICK S : cmd.plan \in Seq(S)
  BY DEF AtLine, Loops, IsSeq
<1>2. Len(cmd.plan) \in Nat /\ cmd.at \in 1..Len(cmd.plan)
  BY <1>1 DEF AtLine, Loops
<1>3. PICK j : BatchTo(j)
  BY BatchFacts
<1>4. Remaining \in Seq(S) /\ Len(Remaining) = Len(cmd.plan) - (j - cmd.at + 1)
  BY <1>1, <1>2, <1>3, RemainingFacts
<1>5. j \in cmd.at..Len(cmd.plan)
  BY <1>3 DEF BatchTo
<1> QED BY <1>2, <1>4, <1>5 DEF IsSeq

\* A list with another entry in one place.
Replaced(s, k, l, r) == r = [s EXCEPT ![k] = l]

LEMMA ReplacedSeq ==
  ASSUME NEW s, IsSeq(s), NEW k, NEW l, NEW r, Replaced(s, k, l, r)
  PROVE  /\ IsSeq(r) /\ Len(r) = Len(s)
         /\ \A i \in 1..Len(s) : r[i] = IF i = k THEN l ELSE s[i]
<1>1. PICK S : s \in Seq(S)
  BY DEF IsSeq
<1>2. Len(s) \in Nat /\ s \in [1..Len(s) -> S]
  BY <1>1
<1>3. r \in [1..Len(s) -> S \cup {l}] /\ \A i \in 1..Len(s) : r[i] = IF i = k THEN l ELSE s[i]
  BY <1>2 DEF Replaced
<1>4. r \in Seq(S \cup {l}) /\ Len(r) = Len(s)
  BY <1>2, <1>3
<1> QED BY <1>3, <1>4 DEF IsSeq

\* The loop over the instructions of an interactive rebase.
LEMMA ProgressLines ==
  ASSUME CmdForm, Loops,
         KeepLine \/ DeleteLines \/ HideLines \/ EditLine \/ SquashLines \/ PushPlanned
  PROVE  Progress
<1>1. cmd.pc = "instruction" /\ ~Idle
  BY DEF KeepLine, DeleteLines, HideLines, EditLine, SquashLines, PushPlanned, AtLine, Idle
<1>2. CASE cmd' = NoCmd
  BY <1>1, <1>2, ProgressEnd
<1>3. CASE KeepLine
  <2>1. AtLine({"keep"}) /\ cmd' = [cmd EXCEPT !.at = @ + 1]
    BY <1>3 DEF KeepLine
  <2>2. Form(cmd') /\ cmd'.pc = "instruction" /\ cmd'.plan = cmd.plan /\ cmd'.at = cmd.at + 1
    BY <1>1, <2>1 DEF CmdForm, Form, CmdFields
  <2>3. cmd.at \in 1..Len(cmd.plan) /\ IsSeq(cmd.plan)
    BY <1>1, <2>1, RemainingLength DEF Loops
  <2> QED BY <1>1, <2>2, <2>3, ProgressLoop
<1>4. CASE DeleteLines \/ HideLines
  <2>1. PICK A : AtLine(A)
    BY <1>4 DEF DeleteLines, HideLines
  <2>2. cmd' = NoCmd \/ cmd' = [cmd EXCEPT !.plan = Remaining]
    BY <1>4, TransactsForm DEF DeleteLines, HideLines
  <2>3. ASSUME cmd' = [cmd EXCEPT !.plan = Remaining]
        PROVE  Form(cmd') /\ cmd'.pc = "instruction" /\ cmd'.plan = Remaining /\ cmd'.at = cmd.at
    BY <1>1, <2>3 DEF CmdForm, Form, CmdFields
  <2> QED BY <1>1, <1>2, <2>1, <2>2, <2>3, RemainingLength, ProgressLoop
<1>5. CASE EditLine
  <2>1. AtLine({"edit"})
    BY <1>5 DEF EditLine
  <2> DEFINE Goes(name) == [cmd EXCEPT !.plan[cmd.at] = [@ EXCEPT !.act = "keep", !.name = name],
                                       !.at = @ + 1]
  <2>2. cmd' = NoCmd \/ \E name : cmd' = Goes(name)
    <3>1. Ends(cmd, "error") \/ \E name, x : Transacts(cmd, x, Goes(name))
      BY <1>5, Zenon DEF EditLine
    <3> HIDE DEF Goes
    <3> QED BY <3>1, TransactsForm, EndsForm
  <2>3. ASSUME NEW name, cmd' = Goes(name) PROVE Progress
    <3>1. PICK l : l = [cmd.plan[cmd.at] EXCEPT !.act = "keep", !.name = name]
      OBVIOUS
    <3>2. Form(cmd') /\ cmd'.pc = "instruction" /\ cmd'.plan = [cmd.plan EXCEPT ![cmd.at] = l]
            /\ cmd'.at = cmd.at + 1
      BY <1>1, <2>3, <3>1 DEF CmdForm, Form, CmdFields
    <3>3. IsSeq(cmd.plan)
      BY <1>1 DEF Loops
    <3>4. IsSeq(cmd'.plan) /\ Len(cmd'.plan) = Len(cmd.plan)
      <4>1. Replaced(cmd.plan, cmd.at, l, cmd'.plan)
        BY <3>2 DEF Replaced
      <4> QED BY <3>3, <4>1, ReplacedSeq
    <3> QED BY <1>1, <2>1, <3>2, <3>4, RemainingLength, ProgressLoop
  <2> QED BY <1>2, <2>2, <2>3
<1>6. CASE SquashLines
  <2>1. AtLine({"squash"})
    BY <1>6 DEF SquashLines
  <2>2. cmd' = NoCmd \/ \E l : cmd' = [cmd EXCEPT !.plan = [Remaining EXCEPT ![cmd.at - 1] = l]]
    <3>1. Ends(cmd, "error")
            \/ \E x, l : Transacts(cmd, x, [cmd EXCEPT !.plan = [Remaining EXCEPT ![cmd.at - 1] = l]])
      BY <1>6, Zenon DEF SquashLines
    <3>2. ASSUME NEW x, NEW l, Transacts(cmd, x, [cmd EXCEPT !.plan = [Remaining EXCEPT ![cmd.at - 1] = l]])
          PROVE  cmd' = NoCmd \/ cmd' = [cmd EXCEPT !.plan = [Remaining EXCEPT ![cmd.at - 1] = l]]
      BY <3>2, TransactsForm
    <3> QED BY <3>1, <3>2, EndsForm, Zenon
  <2>3. ASSUME NEW l, cmd' = [cmd EXCEPT !.plan = [Remaining EXCEPT ![cmd.at - 1] = l]]
        PROVE  Progress
    <3>1. Form(cmd') /\ cmd'.pc = "instruction" /\ cmd'.plan = [Remaining EXCEPT ![cmd.at - 1] = l]
            /\ cmd'.at = cmd.at
      BY <1>1, <2>3 DEF CmdForm, Form, CmdFields
    <3>2. IsSeq(Remaining)
      BY <2>1, RemainingLength
    <3>3. IsSeq(cmd'.plan) /\ Len(cmd'.plan) = Len(Remaining)
      <4>1. Replaced(Remaining, cmd.at - 1, l, cmd'.plan)
        BY <3>1 DEF Replaced
      <4> QED BY <3>2, <4>1, ReplacedSeq
    <3> QED BY <1>1, <2>1, <3>1, <3>3, RemainingLength, ProgressLoop
  <2> QED BY <1>2, <2>2, <2>3
<1>7. CASE PushPlanned
  <2>1. cmd' = NoCmd \/ cmd' = [cmd EXCEPT !.pc = "unstash"]
    BY <1>7, PushesForm, FinishesForm DEF PushPlanned
  <2>2. GoesTo("unstash") => StepsLeft(cmd') < StepsLeft(cmd)
    <3>1. Len(cmd.plan) \in Nat /\ cmd.at \in 1..(Len(cmd.plan) + 1)
      BY <1>1, SeqLength DEF Loops
    <3>2. GoesTo("unstash") => StepsLeft(cmd') = 1 /\ StepsLeft(cmd) = 3 + Len(cmd.plan) - cmd.at
      BY <1>1, StepsFrom DEF GoesTo
    <3> QED BY <3>1, <3>2
  <2> QED BY <1>2, <2>1, <2>2, GoesToForm, ProgressTo DEF Pcs
<1> QED BY <1>3, <1>4, <1>5, <1>6, <1>7

LEMMA ConcludesForm ==
  ASSUME NEW c, NEW x, Concludes(c, x)
  PROVE  repo' = Execute(x).r /\ cmd' = NoCmd /\ last'.how = Execute(x).how
BY EndsForm DEF Concludes

\* The loop over the patches of a series.
LEMMA ProgressImport ==
  ASSUME CmdForm, Loops, ImportApply \/ ImportCreate
  PROVE  Progress
<1>1. ~Idle /\ cmd.pc \in {"apply", "create"} /\ IsSeq(cmd.plan)
  BY DEF ImportApply, ImportCreate, Idle, Loops
<1>2. CASE cmd' = NoCmd
  BY <1>1, <1>2, ProgressEnd
<1>3. Len(cmd.plan) \in Nat /\ (cmd.plan # <<>> => IsSeq(Tail(cmd.plan)) /\ Len(Tail(cmd.plan)) = Len(cmd.plan) - 1)
  BY <1>1, SeqLength
<1>4. ASSUME cmd.plan # <<>>, Form(cmd'), cmd'.pc = "apply", cmd'.plan = Tail(cmd.plan)
      PROVE  Progress
  <2>1. CmdForm' /\ Loops'
    BY <1>3, <1>4 DEF CmdForm, Form, Loops, Pcs
  <2>2. /\ StepsLeft(cmd') = 2 * Len(cmd'.plan) + 1
        /\ StepsLeft(cmd) = 2 * Len(cmd.plan) \/ StepsLeft(cmd) = 2 * Len(cmd.plan) + 1
    BY <1>1, <1>4, StepsFrom
  <2>3. StepsLeft(cmd') < StepsLeft(cmd)
    BY <1>3, <1>4, <2>2
  <2> QED BY <2>1, <2>3 DEF Progress
<1>5. CASE ImportCreate
  <2>1. cmd.pc = "create" /\ cmd.plan # <<>>
    BY <1>5 DEF ImportCreate, Loops
  <2>2. cmd' = NoCmd \/ \E flags : cmd' = [cmd EXCEPT !.pc = "apply", !.plan = Tail(@), !.flags = flags]
    <3>1. \/ \E how : Ends(cmd, how)
          \/ \E x, flags : Transacts(cmd, x, [cmd EXCEPT !.pc = "apply", !.plan = Tail(@), !.flags = flags])
      BY <1>5, Zenon DEF ImportCreate
    <3>2. ASSUME NEW x, NEW flags,
                 Transacts(cmd, x, [cmd EXCEPT !.pc = "apply", !.plan = Tail(@), !.flags = flags])
          PROVE  cmd' = NoCmd \/ cmd' = [cmd EXCEPT !.pc = "apply", !.plan = Tail(@), !.flags = flags]
      BY <3>2, TransactsForm
    <3> QED BY <3>1, <3>2, EndsForm, Zenon
  <2>3. ASSUME NEW flags, cmd' = [cmd EXCEPT !.pc = "apply", !.plan = Tail(@), !.flags = flags] PROVE Progress
    BY <1>4, <2>1, <2>3 DEF CmdForm, Form, CmdFields
  <2> QED BY <1>2, <2>2, <2>3
<1>6. CASE ImportApply
  <2>1. cmd.pc = "apply"
    BY <1>6 DEF ImportApply
  <2>2. \/ cmd' = NoCmd
        \/ cmd.plan # <<>> /\ cmd' = [cmd EXCEPT !.plan = Tail(@)]
        \/ cmd.plan # <<>> /\ \E flags : cmd' = [cmd EXCEPT !.pc = "create", !.flags = flags]
    BY <1>6, EndsForm DEF ImportApply
  <2>3. ASSUME cmd.plan # <<>>, cmd' = [cmd EXCEPT !.plan = Tail(@)] PROVE Progress
    BY <1>4, <2>1, <2>3 DEF CmdForm, Form, CmdFields
  <2>4. ASSUME cmd.plan # <<>>, NEW flags, cmd' = [cmd EXCEPT !.pc = "create", !.flags = flags]
        PROVE  Progress
    <3>1. Form(cmd') /\ cmd'.pc = "create" /\ cmd'.plan = cmd.plan
      BY <2>4 DEF CmdForm, Form, CmdFields
    <3>2. CmdForm' /\ Loops'
      BY <1>1, <2>4, <3>1 DEF CmdForm, Form, Loops, Pcs
    <3>3. StepsLeft(cmd') = 2 * Len(cmd.plan) /\ StepsLeft(cmd) = 2 * Len(cmd.plan) + 1
      BY <2>1, <3>1, StepsFrom
    <3>4. StepsLeft(cmd') < StepsLeft(cmd)
      BY <1>3, <3>3
    <3> QED BY <3>2, <3>4 DEF Progress
  <2> QED BY <1>2, <2>2, <2>3, <2>4
<1> QED BY <1>5, <1>6

\* refresh, spill, sync, and a kill.
LEMMA ProgressOthers ==
  ASSUME CmdForm, Loops,
         RefreshTemp \/ RefreshAbsorb \/ SpillReset \/ SyncPop \/ Sync \/ Kill
  PROVE  Progress
<1>1. ~Idle
  BY DEF RefreshTemp, RefreshAbsorb, SpillReset, SyncPop, Sync, Kill, Idle
<1>2. CASE cmd' = NoCmd
  BY <1>1, <1>2, ProgressEnd
<1>3. CASE RefreshTemp
  <2>1. cmd.pc = "temp" /\ (cmd' = NoCmd \/ cmd' = [cmd EXCEPT !.pc = "absorb"])
    BY <1>3, TransactsForm DEF RefreshTemp
  <2>2. GoesTo("absorb") => StepsLeft(cmd') < StepsLeft(cmd)
    BY <2>1, StepsDown DEF GoesTo, Follow
  <2> QED BY <1>2, <2>1, <2>2, GoesToForm, ProgressTo DEF Pcs
<1>4. CASE SyncPop
  <2>1. cmd.pc = "sync pop" /\ (cmd' = NoCmd \/ cmd' = [cmd EXCEPT !.pc = "sync"])
    BY <1>4, TransactsForm DEF SyncPop
  <2>2. GoesTo("sync") => StepsLeft(cmd') < StepsLeft(cmd)
    BY <2>1, StepsDown DEF GoesTo, Follow
  <2> QED BY <1>2, <2>1, <2>2, GoesToForm, ProgressTo DEF Pcs
<1>5. CASE RefreshAbsorb \/ SpillReset \/ Sync \/ Kill
  <2>1. cmd' = NoCmd
    BY <1>5, EndsForm, ConcludesForm DEF RefreshAbsorb, SpillReset, Sync, Kill
  <2> QED BY <1>2, <2>1
<1> QED BY <1>3, <1>4, <1>5

\* A command that starts is at its first step.
LEMMA StartForm ==
  ASSUME CmdForm, Start
  PROVE  CmdForm' /\ Loops'
<1>1. ASSUME NEW q \in {"pop", "temp", "spilled", "sync pop"}, Form(cmd'), cmd'.pc = q
      PROVE  CmdForm' /\ Loops'
  BY <1>1 DEF CmdForm, Form, Loops, Pcs
<1>2. CASE RebaseStart
  <2>1. PICK flags, names, target, stashed :
          cmd' = [NoCmd EXCEPT !.name = "rebase", !.pc = "pop", !.flags = flags,
                               !.names = names, !.target = target, !.stashed = stashed]
    <3>1. PICK args, target :
            Starts([NoCmd EXCEPT !.name = "rebase", !.pc = "pop", !.flags = args[1],
                                 !.names = repo.state.applied, !.target = target, !.stashed = ~Clean])
      BY <1>2, Zenon DEF RebaseStart
    <3> QED BY <3>1, Zenon DEF Starts
  <2> QED BY <1>1, <2>1 DEF NoCmd, Form, CmdFields
<1>3. CASE PullStart
  <2>1. PICK flags, names, target :
          cmd' = [NoCmd EXCEPT !.name = "pull", !.pc = "pop", !.flags = flags,
                               !.names = names, !.target = target]
    BY <1>3 DEF PullStart, Starts
  <2> QED BY <1>1, <2>1 DEF NoCmd, Form, CmdFields
<1>4. CASE RefreshStart
  <2>1. PICK names, target :
          cmd' = [NoCmd EXCEPT !.name = "refresh", !.pc = "temp", !.names = names, !.target = target]
    BY <1>4, Zenon DEF RefreshStart, Starts
  <2> QED BY <1>1, <2>1 DEF NoCmd, Form, CmdFields
<1>5. CASE SpillStart
  <2>1. PICK flags : cmd' = [NoCmd EXCEPT !.name = "spill", !.pc = "spilled", !.flags = flags]
    BY <1>5, Zenon DEF SpillStart, Starts
  <2> QED BY <1>1, <2>1 DEF NoCmd, Form, CmdFields
<1>6. CASE SyncStart
  <2>1. PICK flags, names :
          cmd' = [NoCmd EXCEPT !.name = "sync", !.pc = "sync pop", !.flags = flags, !.names = names]
    BY <1>6, Zenon DEF SyncStart, Starts
  <2> QED BY <1>1, <2>1 DEF NoCmd, Form, CmdFields
<1>7. CASE ImportStart
  <2>1. PICK s \in Series : \E flags :
          cmd' = [NoCmd EXCEPT !.name = "import", !.pc = "apply", !.flags = flags, !.plan = s]
    BY <1>7 DEF ImportStart, Starts
  <2>2. Form(cmd') /\ cmd'.pc = "apply" /\ cmd'.plan = s
    BY <2>1 DEF NoCmd, Form, CmdFields
  <2>3. IsSeq(s)
    BY InputsAssumption DEF IsSeq
  <2> QED BY <2>2, <2>3 DEF CmdForm, Form, Loops, Pcs
<1>8. CASE Edit \/ Fold
  <2>1. cmd' = NoCmd
    <3>1. CASE Edit
      <4>1. \E run, x : Concludes(run, x)
        BY <3>1, Zenon DEF Edit
      <4> QED BY <4>1, ConcludesForm
    <3>2. CASE Fold
      <4>1. \E run, how : Ends(run, how)
        BY <3>2 DEF Fold
      <4> QED BY <4>1, EndsForm
    <3> QED BY <1>8, <3>1, <3>2
  <2> QED BY <2>1, NoCmdForm DEF CmdForm, Form, Loops, Pcs
<1> QED BY <1>2, <1>3, <1>4, <1>5, <1>6, <1>7, <1>8 DEF Start

LEMMA StartsIdle ==
  ASSUME User \/ Start \/ Rest
  PROVE  Idle
BY DEF User, Start, Rest, EditFile, ResolveConflicts, CanStart, RebaseStart, PullStart, RefreshStart,
       Edit, SpillStart, Fold, ImportStart, SyncStart

\* A step of a command that runs, or a kill.
LEMMA ProgressSteps ==
  ASSUME CmdForm, Loops, Proceed \/ Kill
  PROVE  Progress
BY ProgressRebase, ProgressPlan, ProgressLines, ProgressImport, ProgressOthers DEF Proceed, Rebasing

LEMMA LoopsNext ==
  ASSUME CmdForm, Loops, [Next]_vars
  PROVE  /\ CmdForm' /\ Loops'
         /\ [~Idle => StepsLeft(cmd') < StepsLeft(cmd)]_vars
<1>1. CASE cmd' = cmd /\ (UNCHANGED vars \/ User \/ Rest)
  BY <1>1, StartsIdle DEF CmdForm, Loops
<1>2. CASE User \/ Rest
  BY <1>1, <1>2 DEF User, Rest, EditFile, ResolveConflicts, vars
<1>3. CASE Start
  BY <1>3, StartForm, StartsIdle
<1>4. CASE Proceed \/ Kill
  BY <1>4, ProgressSteps DEF Progress
<1>5. CASE UNCHANGED vars
  BY <1>1, <1>5 DEF vars
<1> QED BY <1>2, <1>3, <1>4, <1>5 DEF Next

\* Every step of a running command brings it nearer to its end, whatever patches
\* and conflicts it meets, and however an interactive plan or a series is worked
\* off: the bound on the steps that are left goes down.
THEOREM CommandsEnd == Spec => CommandEnds
<1>1. Init => CmdForm /\ Loops
  BY NoCmdForm DEF Init, CmdForm, Form, Loops, Pcs
<1>2. CmdForm /\ Loops /\ [Next]_vars =>
        CmdForm' /\ Loops' /\ [~Idle => StepsLeft(cmd') < StepsLeft(cmd)]_vars
  BY LoopsNext
<1> QED BY <1>1, <1>2, PTL DEF Spec, CommandEnds
-----------------------------------------------------------------------------
(* A transaction as a whole. *)

Errs == {"none", "halt", "conflict", "error"}

Xacts == [t : Transactions, r : Repos, wd : Workdirs, err : Errs, o : Options]

\* The head is set by a push that stops at a conflict, and by nothing else.
HeadSet(x) == x.t.head # NoCommit => x.err = "conflict" /\ x.t.applied # <<>> /\ x.t.head = Top(x.t)

\* The transaction can be executed at any time.
Ready(x) ==
  /\ x \in Xacts /\ Sound(x.r)
  /\ WF(x.t, x.r.state.patches) /\ Linked(x.t)
  /\ HeadSet(x)

\* The repository has the lists and commits of the transaction, and the branch is on
\* its top.
Committed(t, r) ==
  /\ r.state.applied = t.applied /\ r.state.unapplied = t.unapplied /\ r.state.hidden = t.hidden
  /\ r.state.patches = t.patches /\ r.branch = Top(t)

LEMMA CheckedOutType ==
  ASSUME NEW w \in Workdirs, NEW from \in Trees, NEW to \in Trees
  PROVE  CheckedOut(w, from, to) \in Workdirs
BY WorkdirTypes DEF CheckedOut

\* Where the closure's error is an ordinary one nothing but files changes; a checkout
\* that fails leaves the new head in the log; else the transaction's state is there.
LEMMA ExecuteCases ==
  ASSUME NEW x, x \in Xacts, Good(x.t), NEW e, e = Execute(x)
  PROVE  \/ /\ x.err = "error" /\ e.how = "error"
            /\ e.r = [x.r EXCEPT !.wd = x.wd]
         \/ /\ e.how = "aborted" /\ e.r.wd \in Workdirs /\ e.r.branch = x.r.branch
            /\ e.r = [x.r EXCEPT !.state = [x.r.state EXCEPT !.head = x.r.branch], !.wd = e.r.wd]
         \/ /\ x.err # "error" /\ e.how = IF x.err = "none" THEN "ok" ELSE x.err
            /\ e.r.wd \in Workdirs
            /\ e.r = [state |-> [head |-> TransHead(x.t), applied |-> x.t.applied,
                                 unapplied |-> x.t.unapplied, hidden |-> x.t.hidden,
                                 patches |-> x.t.patches],
                      branch |-> TransHead(x.t), wd |-> e.r.wd]
<1> DEFINE head == TransHead(x.t)
           here == x.t.tree
           back == Tree(x.r.branch)
           kept == [x.r.state EXCEPT !.head = x.r.branch]
           new  == [head |-> head, applied |-> x.t.applied, unapplied |-> x.t.unapplied,
                    hidden |-> x.t.hidden, patches |-> x.t.patches]
           ok   == ~x.o.iw \/ CheckoutOk(x.wd, here, Tree(head), x.t.conflicts)
           undone == IF CheckoutOk(x.wd, here, back, x.t.conflicts) THEN CheckedOut(x.wd, here, back) ELSE x.wd
           done == IF x.o.iw THEN CheckedOut(x.wd, here, Tree(head)) ELSE x.wd
<1>1. e = IF x.err = "error" THEN [r |-> [x.r EXCEPT !.wd = x.wd], how |-> "error"]
          ELSE IF ~ok THEN [r |-> [x.r EXCEPT !.state = kept, !.wd = undone], how |-> "aborted"]
          ELSE [r |-> [state |-> new, branch |-> head, wd |-> done],
                how |-> IF x.err = "none" THEN "ok" ELSE x.err]
  BY DEF Execute
<1>2. x.wd \in Workdirs /\ x.r \in Repos
  BY DEF Xacts
<1>3. undone \in Workdirs /\ done \in Workdirs
  <2>1. x.t \in Transactions /\ here \in Trees /\ x.r.branch \in Commits
    BY <1>2 DEF Xacts, Transactions, Repos
  <2>2. Tree(head) \in Trees /\ back \in Trees
    BY <2>1, TopType, CommitTypes
  <2> HIDE DEF head, back, here
  <2>3. CheckedOut(x.wd, here, Tree(head)) \in Workdirs /\ CheckedOut(x.wd, here, back) \in Workdirs
    BY <1>2, <2>1, <2>2, CheckedOutType
  <2> QED BY <1>2, <2>3 DEF undone, done
<1> HIDE DEF ok, undone, done, kept, new, head
<1>4. CASE x.err = "error"
  BY <1>1, <1>4
<1>5. CASE x.err # "error" /\ ~ok
  <2>1. e.how = "aborted" /\ e.r = [x.r EXCEPT !.state = kept, !.wd = undone]
    BY <1>1, <1>5
  <2>2. e.r.wd = undone /\ e.r.branch = x.r.branch
    BY <1>2, <2>1 DEF Repos
  <2> QED BY <1>3, <2>1, <2>2 DEF kept
<1>6. CASE x.err # "error" /\ ok
  <2>1. /\ e.how = IF x.err = "none" THEN "ok" ELSE x.err
        /\ e.r = [state |-> new, branch |-> head, wd |-> done]
    BY <1>1, <1>6
  <2>2. e.r.wd = done
    BY <2>1
  <2> QED BY <1>3, <1>6, <2>1, <2>2 DEF new, head
<1> QED BY <1>4, <1>5, <1>6

\* Only the stack's head and the worktree differ from a sound repository.
Elsewhere(r, w, v) ==
  v = [r EXCEPT !.wd = w] \/ v = [r EXCEPT !.state = [r.state EXCEPT !.head = r.branch], !.wd = w]

LEMMA SoundElsewhere ==
  ASSUME NEW r, Sound(r), NEW w \in Workdirs, NEW v, Elsewhere(r, w, v)
  PROVE  /\ Sound(v) /\ v.branch = r.branch /\ v.wd = w
         /\ v.state.applied = r.state.applied /\ v.state.unapplied = r.state.unapplied
         /\ v.state.hidden = r.state.hidden /\ v.state.patches = r.state.patches
<1>1. r \in Repos /\ r.state \in States /\ r.branch \in Commits
  BY DEF Sound, Repos
<1>2. PICK k : k = [r.state EXCEPT !.head = r.branch]
  OBVIOUS
<1>3. /\ k \in States /\ k.head = r.branch /\ k.applied = r.state.applied /\ k.unapplied = r.state.unapplied
      /\ k.hidden = r.state.hidden /\ k.patches = r.state.patches
  BY <1>1, <1>2 DEF States
<1>4. v = [r EXCEPT !.wd = w] \/ v = [r EXCEPT !.state = k, !.wd = w]
  BY <1>2 DEF Elsewhere
<1>5. /\ v \in Repos /\ v.branch = r.branch /\ v.wd = w /\ (v.state = k \/ v.state = r.state)
  BY <1>1, <1>3, <1>4 DEF Repos
<1>6. /\ v.state.applied = r.state.applied /\ v.state.unapplied = r.state.unapplied
      /\ v.state.hidden = r.state.hidden /\ v.state.patches = r.state.patches
  BY <1>3, <1>5
<1>7. Good(v.state)
  BY <1>6 DEF Sound, Good, InLists, HasPatch
<1>8. Linked(v.state)
  BY <1>6 DEF Sound, Linked
<1>9. OnTop(v)
  <2>1. v.state.applied # <<>> => StateTop(v.state) = StateTop(r.state)
    BY <1>6 DEF StateTop, TopOf
  <2> QED BY <1>3, <1>5, <1>6, <2>1 DEF Sound, OnTop
<1> QED BY <1>5, <1>6, <1>7, <1>8, <1>9 DEF Sound

\* execute() leaves a sound repository, however the closure ended.
LEMMA ExecuteSound ==
  ASSUME NEW x, Ready(x), NEW e, e = Execute(x)
  PROVE  /\ Sound(e.r) /\ e.how \in {"ok", "halt", "conflict", "aborted", "error"}
         /\ e.how = "ok" => x.err = "none" /\ Committed(x.t, e.r)
<1>1. /\ x \in Xacts /\ Sound(x.r) /\ x.t \in Transactions /\ Good(x.t) /\ Linked(x.t) /\ HeadSet(x)
      /\ x.wd \in Workdirs /\ x.err \in Errs
  BY DEF Ready, WF, Xacts
<1>2. CASE x.err = "error" /\ e.how = "error" /\ e.r = [x.r EXCEPT !.wd = x.wd]
  <2>1. Elsewhere(x.r, x.wd, e.r)
    BY <1>2 DEF Elsewhere
  <2> QED BY <1>1, <1>2, <2>1, SoundElsewhere
<1>3. CASE /\ e.how = "aborted" /\ e.r.wd \in Workdirs
           /\ e.r = [x.r EXCEPT !.state = [x.r.state EXCEPT !.head = x.r.branch], !.wd = e.r.wd]
  <2>1. Elsewhere(x.r, e.r.wd, e.r)
    BY <1>3 DEF Elsewhere
  <2> QED BY <1>1, <1>3, <2>1, SoundElsewhere
<1>4. ASSUME x.err # "error", e.how = IF x.err = "none" THEN "ok" ELSE x.err, e.r.wd \in Workdirs,
             e.r = [state |-> [head |-> TransHead(x.t), applied |-> x.t.applied,
                                 unapplied |-> x.t.unapplied, hidden |-> x.t.hidden,
                                 patches |-> x.t.patches],
                      branch |-> TransHead(x.t), wd |-> e.r.wd]
      PROVE  /\ Sound(e.r) /\ e.how \in {"ok", "halt", "conflict", "aborted", "error"}
             /\ e.how = "ok" => x.err = "none" /\ Committed(x.t, e.r)
  <2>1. PICK s, w, h, t : s = e.r.state /\ w = e.r.wd /\ h = TransHead(x.t) /\ t = x.t
    OBVIOUS
  <2>2. /\ e.r = [state |-> s, branch |-> h, wd |-> w]
        /\ s = [head |-> h, applied |-> t.applied, unapplied |-> t.unapplied, hidden |-> t.hidden,
                patches |-> t.patches]
    BY <1>4, <2>1
  <2>3. h \in Commits
    BY <1>1, <2>1, TopType
  <2>4. s \in States
    BY <1>1, <2>1, <2>2, <2>3 DEF States, Transactions
  <2>5. e.r \in Repos
    BY <1>4, <2>1, <2>2, <2>3, <2>4 DEF Repos
  <2>6. Good(s) /\ Linked(s)
    BY <1>1, <2>1, <2>2 DEF Good, Linked, InLists, HasPatch
  <2>7. t.applied # <<>> => h = Top(t) /\ StateTop(s) = Top(t)
    BY <1>1, <2>1, <2>2 DEF HeadSet, TransHead, Top, StateTop, TopOf
  <2>8. OnTop(e.r)
    BY <2>2, <2>7 DEF OnTop
  <2>9. x.err = "none" => h = Top(t)
    BY <1>1, <2>1 DEF HeadSet, TransHead
  <2>10. e.how = "ok" => x.err = "none"
    BY <1>1, <1>4 DEF Errs
  <2> QED BY <1>1, <1>4, <2>1, <2>2, <2>5, <2>6, <2>8, <2>9, <2>10 DEF Sound, Committed, Errs
<1> QED BY <1>1, <1>2, <1>3, <1>4, ExecuteCases

\* What setup_transaction() gives the closure.
Opened(x, r) ==
  /\ Ready(x) /\ x.r = r /\ x.err = "none"
  /\ x.t.applied = r.state.applied /\ x.t.unapplied = r.state.unapplied /\ x.t.hidden = r.state.hidden
  /\ x.t.patches = r.state.patches /\ Top(x.t) = r.branch /\ x.t.head = NoCommit
  /\ x.t.tree = Tree(r.branch) /\ x.wd = r.wd

LEMMA SetupReady ==
  ASSUME NEW r, Sound(r), NEW o \in Options, NEW x, x = Setup(r, o)
  PROVE  Opened(x, r)
<1>1. r \in Repos /\ r.state \in States /\ r.branch \in Commits /\ r.wd \in Workdirs
  BY DEF Sound, Repos
<1>2. o.conflicts \in ConflictModes
  BY DEF Options, ConflictModes
<1>3. PICK t : t = Begin(r.state, r.branch, o.conflicts)
  OBVIOUS
<1>4. WF(t, r.state.patches) /\ Linked(t)
  BY <1>1, <1>2, <1>3, BeginOK, BeginLinked DEF Sound
<1>5. /\ t.applied = r.state.applied /\ t.unapplied = r.state.unapplied /\ t.hidden = r.state.hidden
      /\ t.patches = r.state.patches /\ t.head = NoCommit /\ t.base = BaseOf(r.state, r.branch)
      /\ t.tree = Tree(r.branch)
  BY <1>3 DEF Begin
<1>6. Top(t) = r.branch
  BY <1>5 DEF Top, TopOf, BaseOf, Sound, OnTop, StateTop
<1>7. x = [t |-> t, r |-> r, wd |-> r.wd, err |-> "none", o |-> o]
  BY <1>3 DEF Setup
<1>8. x \in Xacts /\ x.t = t /\ x.r = r /\ x.err = "none" /\ x.wd = r.wd
  BY <1>1, <1>4, <1>7 DEF Xacts, Errs, WF
<1> QED BY <1>4, <1>5, <1>6, <1>8 DEF Opened, Ready, HeadSet

\* The options of the commands.
LEMMA OptionTypes ==
  /\ NoWorktree \in Options /\ InWorktree \in Options
  /\ [InWorktree EXCEPT !.conflicts = "allow"] \in Options
  /\ \A b \in BOOLEAN : [InWorktree EXCEPT !.push_conflicts = b] \in Options
BY DEF NoWorktree, InWorktree, Options

\* A method that cannot fail.
LEMMA WithReady ==
  ASSUME NEW x, Ready(x), NEW t, x.err = "none" => WF(t, x.r.state.patches) /\ Linked(t) /\ t.head = NoCommit,
         NEW y, y = With(x, t)
  PROVE  /\ Ready(y) /\ y.r = x.r /\ y.err = x.err /\ y.o = x.o /\ y.wd = x.wd
         /\ x.err = "none" => y.t = t
         /\ x.err # "none" => y = x
<1>1. CASE x.err # "none"
  BY <1>1 DEF With
<1>2. CASE x.err = "none"
  <2>1. y = [x EXCEPT !.t = t] /\ x \in Xacts /\ t \in Transactions
    BY <1>2 DEF With, Ready, WF
  <2>2. y \in Xacts /\ y.t = t /\ y.r = x.r /\ y.err = x.err /\ y.o = x.o /\ y.wd = x.wd
    BY <2>1 DEF Xacts
  <2> QED BY <1>2, <2>2 DEF Ready, HeadSet
<1> QED BY <1>1, <1>2
-----------------------------------------------------------------------------
(* push_patch and push_patches. *)

Temps == [known : BOOLEAN, id : Trees, index : Trees, broken : BOOLEAN, merged : SUBSET Names]

\* The transaction v is t with n pushed.
Up(t, n, v) ==
  /\ Raised(t, n, v) /\ v.unapplied = Drop(t.unapplied, {n})
  /\ v.base = t.base /\ Parent(v.patches[n]) = Top(t)
  /\ \A m \in Names \ {n} : v.patches[m] = t.patches[m]

\* Index and worktree are one tree.
Whole(w) == w = ReadTreeCheckoutHard(w.index)

\* Until there is a conflict or an error they are one tree, and the one that the
\* transaction takes to be checked out.
Neat(x) == x.err \in {"none", "halt"} => Whole(x.wd)

InStep(x) == x.err \in {"none", "halt"} => x.wd = ReadTreeCheckoutHard(x.t.tree)

\* What a method may make of index and worktree.
Trails(x, y) ==
  /\ Neat(x) => Neat(y)
  /\ InStep(x) => InStep(y)
  /\ ~x.o.iw => y.wd = x.wd

\* n is pushed, or the push has stopped.
PushResult(x, n, y) ==
  /\ Ready(y) /\ y.r = x.r /\ y.o = x.o /\ Trails(x, y)
  /\ y.err = "none" => Up(x.t, n, y.t)

\* The three ways a push_patch can end.
PushedTo(x, n, tree, cur, w, y) ==
  y = [x EXCEPT !.t = [PushPatch(x.t, n, tree) EXCEPT !.tree = cur], !.wd = w]

HaltedAt(x, cur, w, y) == y = [x EXCEPT !.t.tree = cur, !.wd = w, !.err = "halt"]

StoppedAt(x, n, tree, w, y) ==
  LET u == PushPatch(x.t, n, tree)
  IN  y = [x EXCEPT !.t = [u EXCEPT !.tree = tree, !.conflicts = "allow", !.head = u.patches[n]],
                    !.wd = w, !.err = "conflict"]

\* u is what a push of n makes of the transaction.
Lifts(x, n, tree, u) ==
  /\ Ready(x) /\ n \in Elems(x.t.unapplied) \cup Elems(x.t.hidden) /\ tree \in Trees
  /\ PushedAs(x.t, n, tree, u)

LEMMA UpOK ==
  ASSUME NEW x, NEW n, NEW tree, NEW u, Lifts(x, n, tree, u)
  PROVE  /\ WF(u, x.r.state.patches) /\ Linked(u) /\ Up(x.t, n, u) /\ u.head = x.t.head
         /\ Top(u) = u.patches[n] /\ u.applied # <<>> /\ u.patches[n] \in MaybeCommits
<1> USE DEF Lifts
<1>1. WF(x.t, x.r.state.patches) /\ Linked(x.t)
  BY DEF Ready
<1>2. WF(u, x.r.state.patches) /\ Raised(x.t, n, u)
  BY <1>1, PushPatchOK
<1>3. /\ Parent(u.patches[n]) = Top(x.t) /\ Kept(x.t, u) /\ u.base = x.t.base
      /\ \A m \in Names \ {n} : u.patches[m] = x.t.patches[m]
  <2>1. PICK t, p : t = x.t /\ p = x.r.state.patches
    OBVIOUS
  <2>2. /\ Parent(u.patches[n]) = Top(t) /\ Kept(t, u) /\ u.base = t.base
        /\ \A m \in Names \ {n} : u.patches[m] = t.patches[m]
    <3>1. WF(t, p) /\ PushedAs(t, n, tree, u) /\ n \in Elems(t.unapplied) \cup Elems(t.hidden)
      BY <1>1, <2>1
    <3> QED BY <3>1, PushParent
  <2> QED BY <2>1, <2>2
<1>4. Linked(u) /\ Top(u) = u.patches[n] /\ u.applied # <<>>
  BY <1>1, PushLinked
<1>5. u.patches[n] \in MaybeCommits
  <2>1. x.t.unapplied \in Seq(Names) /\ x.t.hidden \in Seq(Names) /\ u.patches \in PatchMaps
    BY <1>1, <1>2 DEF WF, Transactions
  <2>2. n \in Names
    BY <2>1, ElemsIff
  <2> QED BY <2>1, <2>2 DEF PatchMaps
<1>6. u.unapplied = Drop(x.t.unapplied, {n})
  <2>1. PICK t : t = x.t
    OBVIOUS
  <2>2. t \in Transactions /\ PushedAs(t, n, tree, u)
    BY <1>1, <2>1 DEF WF
  <2>3. \E c : u = Raise(t, n) \/ u = Raise(SetPatch(t, n, c), n)
    BY ONLY <2>2 DEF PushedAs, PushTree, PushPatch
  <2> QED BY <2>1, <2>2, <2>3 DEF Raise, SetPatch, Transactions
<1> QED BY <1>2, <1>3, <1>4, <1>5, <1>6 DEF Up, Kept

\* The trees of a push are those it is given.
LEMMA PushTreeTree ==
  ASSUME NEW t \in Transactions, NEW n
  PROVE  PushTree(t, n).tree = t.tree
BY DEF PushTree, Raise, SetPatch, Transactions

LEMMA PushedToFields ==
  ASSUME NEW x, NEW n, NEW tree, NEW cur, NEW w, NEW y, PushedTo(x, n, tree, cur, w, y),
         x \in Xacts, x.err = "none"
  PROVE  y.err = "none" /\ y.wd = w /\ y.t.tree = cur
<1>1. PICK u : u = PushPatch(x.t, n, tree)
  OBVIOUS
<1>2. "tree" \in DOMAIN u
  BY <1>1 DEF PushPatch, Raise, SetPatch, Xacts, Transactions
<1>3. y = [x EXCEPT !.t = [u EXCEPT !.tree = cur], !.wd = w]
  BY <1>1 DEF PushedTo
<1> QED BY <1>2, <1>3 DEF Xacts

LEMMA PushedToOK ==
  ASSUME NEW x, Ready(x), x.err = "none", NEW n \in Elems(x.t.unapplied) \cup Elems(x.t.hidden),
         NEW tree \in Trees, NEW cur \in Trees, NEW w \in Workdirs, NEW y, PushedTo(x, n, tree, cur, w, y),
         Trails(x, y)
  PROVE  PushResult(x, n, y)
<1>1. PICK u : u = PushPatch(x.t, n, tree)
  OBVIOUS
<1>2. /\ WF(u, x.r.state.patches) /\ Linked(u) /\ Up(x.t, n, u) /\ u.head = NoCommit /\ u \in Transactions
  <2>1. PushedAs(x.t, n, tree, u)
    BY <1>1 DEF PushedAs
  <2>2. Lifts(x, n, tree, u)
    BY <2>1 DEF Lifts
  <2> QED BY <2>2, UpOK DEF WF, Ready, HeadSet
<1>3. PICK v : v = [u EXCEPT !.tree = cur]
  OBVIOUS
<1>4. v.head = NoCommit /\ v.base = u.base /\ Retreed(u, cur, v)
  BY <1>2, <1>3 DEF Transactions, Retreed
<1>5. WF(v, x.r.state.patches) /\ SameLists(u, v) /\ Linked(v)
  BY <1>2, <1>4, RetreeOK, RetreeLinked
<1>6. Up(x.t, n, v)
  <2>1. InLists(v) = InLists(u)
    BY <1>5 DEF SameLists, InLists
  <2> QED BY <1>2, <1>4, <1>5, <2>1 DEF Up, Raised, SameLists
<1>7. y = [x EXCEPT !.t = v, !.wd = w] /\ x \in Xacts /\ v \in Transactions
  BY <1>1, <1>3, <1>5 DEF PushedTo, Ready, WF
<1>8. y \in Xacts /\ y.t = v /\ y.r = x.r /\ y.o = x.o /\ y.err = "none"
  BY <1>7 DEF Xacts
<1> QED BY <1>4, <1>5, <1>6, <1>8 DEF PushResult, Ready, HeadSet

LEMMA HaltedAtOK ==
  ASSUME NEW x, Ready(x), x.err = "none", NEW n, NEW cur \in Trees, NEW w \in Workdirs,
         NEW y, HaltedAt(x, cur, w, y), Trails(x, y)
  PROVE  PushResult(x, n, y)
<1>1. PICK v : v = [x.t EXCEPT !.tree = cur]
  OBVIOUS
<1>2. WF(x.t, x.r.state.patches) /\ Linked(x.t) /\ Retreed(x.t, cur, v) /\ x.t.head = NoCommit
        /\ x.t \in Transactions
  BY <1>1 DEF Ready, Retreed, HeadSet, WF
<1>3. WF(v, x.r.state.patches) /\ Linked(v) /\ v.head = NoCommit
  BY <1>1, <1>2, RetreeOK, RetreeLinked DEF Transactions
<1>4. y = [x EXCEPT !.t = v, !.wd = w, !.err = "halt"] /\ x \in Xacts /\ v \in Transactions
  BY <1>1, <1>3 DEF HaltedAt, Ready, WF
<1>5. y \in Xacts /\ y.t = v /\ y.r = x.r /\ y.o = x.o /\ y.err = "halt"
  BY <1>4 DEF Xacts, Errs
<1> QED BY <1>3, <1>5 DEF PushResult, Ready, HeadSet

LEMMA StoppedAtOK ==
  ASSUME NEW x, Ready(x), x.err = "none", NEW n \in Elems(x.t.unapplied) \cup Elems(x.t.hidden),
         NEW tree \in Trees, NEW w \in Workdirs, NEW y, StoppedAt(x, n, tree, w, y), x.o.iw
  PROVE  PushResult(x, n, y)
<1>1. PICK u : u = PushPatch(x.t, n, tree)
  OBVIOUS
<1>2. /\ WF(u, x.r.state.patches) /\ Linked(u) /\ Top(u) = u.patches[n] /\ u.applied # <<>>
      /\ u.patches[n] \in MaybeCommits /\ u \in Transactions
  <2>1. PushedAs(x.t, n, tree, u)
    BY <1>1 DEF PushedAs
  <2>2. Lifts(x, n, tree, u)
    BY <2>1 DEF Lifts
  <2> QED BY <2>2, UpOK DEF WF
<1>3. PICK v : v = [u EXCEPT !.tree = tree, !.conflicts = "allow", !.head = u.patches[n]]
  OBVIOUS
<1>4. v.head = u.patches[n] /\ Retreed(u, tree, v)
  BY <1>2, <1>3 DEF Transactions, Retreed, ConflictModes
<1>5. WF(v, x.r.state.patches) /\ Linked(v) /\ v.applied = u.applied /\ Top(v) = Top(u)
  BY <1>2, <1>4, RetreeOK, RetreeLinked
<1>6. y = [x EXCEPT !.t = v, !.wd = w, !.err = "conflict"] /\ x \in Xacts /\ v \in Transactions
  BY <1>1, <1>3, <1>5 DEF StoppedAt, Ready, WF
<1>7. y \in Xacts /\ y.t = v /\ y.r = x.r /\ y.o = x.o /\ y.err = "conflict"
  BY <1>6 DEF Xacts, Errs
<1>8. Trails(x, y)
  BY <1>7 DEF Trails, Neat, InStep
<1> QED BY <1>2, <1>4, <1>5, <1>7, <1>8 DEF PushResult, Ready, HeadSet

\* What a checkout and a merge make of an index and a worktree that are one tree.
LEMMA CheckoutWhole ==
  ASSUME NEW w \in Workdirs, NEW from \in Trees, NEW to \in Trees, NEW v, v = ReadTreeCheckout(w, from, to)
  PROVE  /\ Whole(w) => Whole(v)
         /\ w = ReadTreeCheckoutHard(from) => v = ReadTreeCheckoutHard(to)
<1>1. /\ v \in Workdirs /\ v.index \in Trees /\ v.work \in Trees /\ v.unmerged = w.unmerged
      /\ \A f \in Files : /\ v.index[f] = IF from[f] = to[f] THEN w.index[f] ELSE to[f]
                          /\ v.work[f] = IF from[f] = to[f] \/ w.index[f] = to[f] THEN w.work[f] ELSE to[f]
  BY CheckoutFields DEF Workdirs
<1>2. ASSUME Whole(w) PROVE Whole(v)
  <2>1. w.work = w.index /\ w.unmerged = {}
    BY <1>2 DEF Whole, ReadTreeCheckoutHard
  <2>2. \A f \in Files : v.work[f] = v.index[f]
    BY <1>1, <2>1
  <2>3. v.work = v.index
    BY <1>1, <2>2 DEF Trees
  <2> QED BY <1>1, <2>1, <2>3 DEF Whole, ReadTreeCheckoutHard, Workdirs
<1>3. ASSUME w = ReadTreeCheckoutHard(from) PROVE v = ReadTreeCheckoutHard(to)
  <2>1. w.work = from /\ w.index = from /\ w.unmerged = {}
    BY <1>3 DEF ReadTreeCheckoutHard
  <2>2. \A f \in Files : v.work[f] = to[f] /\ v.index[f] = to[f]
    BY <1>1, <2>1
  <2>3. v.work = to /\ v.index = to
    BY <1>1, <2>2 DEF Trees
  <2> QED BY <1>1, <2>1, <2>3 DEF ReadTreeCheckoutHard, Workdirs
<1> QED BY <1>2, <1>3

LEMMA MergeWhole ==
  ASSUME NEW w \in Workdirs, Whole(w), NEW base \in Trees, NEW ours \in Trees, NEW theirs \in Trees,
         MergeRecursiveOk(w, base, ours, theirs),
         NEW v, v = MergeRecursive(w, base, ours, theirs), v.unmerged = {}
  PROVE  Whole(v)
<1>1. PICK m : m = MergeTree(base, ours, theirs)
  OBVIOUS
<1>2. /\ v.index = m /\ v \in Workdirs
      /\ v.work = [f \in Files |-> IF m[f] = ours[f] THEN w.work[f] ELSE m[f]]
  BY <1>1, WorkdirTypes DEF MergeRecursive
<1>3. w.work = ours
  BY DEF Whole, ReadTreeCheckoutHard, MergeRecursiveOk
<1>4. v.work \in Trees /\ m \in Trees /\ \A f \in Files : v.work[f] = m[f]
  BY <1>2, <1>3 DEF Workdirs
<1>5. v.work = m
  BY <1>4 DEF Trees
<1> QED BY <1>2, <1>5 DEF Whole, ReadTreeCheckoutHard, Workdirs

\* The transaction takes for checked out what is: so it is one tree.
LEMMA InStepNeat ==
  ASSUME NEW x, InStep(x)
  PROVE  Neat(x)
BY DEF InStep, Neat, Whole, ReadTreeCheckoutHard

\* push_patch, with the temporary index of push_patches.
LEMMA PushOneOK ==
  ASSUME NEW y, Ready(y.x), y.temp \in Temps, y.x.err = "none",
         NEW n \in Elems(y.x.t.unapplied) \cup Elems(y.x.t.hidden), NEW z, z = PushOne(y, n)
  PROVE  z = [x |-> z.x, temp |-> z.temp] /\ z.temp \in Temps /\ PushResult(y.x, n, z.x)
<1> DEFINE x     == y.x
           t     == x.t
           c     == t.patches[n]
           old   == Tree(Parent(c))
           new   == Tree(Top(t))
           swap  == y.temp.known /\ y.temp.id = Tree(c)
           ours  == IF swap THEN Tree(c) ELSE new
           their == IF swap THEN new ELSE Tree(c)
           held  == y.temp.known /\ y.temp.id = ours
           index == IF held THEN y.temp.index ELSE ours
           tree  == MergeTree(old, index, their)
           spent == [y.temp EXCEPT !.known = TRUE, !.id = ours, !.broken = TRUE]
           used  == [y.temp EXCEPT !.known = TRUE, !.id = ours, !.index = tree, !.broken = FALSE]
           out   == ReadTreeCheckout(x.wd, t.tree, ours)
           m     == MergeRecursive(out, old, ours, their)
           as(u, w, cur, temp) ==
             [x |-> [x EXCEPT !.t = [PushPatch(t, n, u) EXCEPT !.tree = cur], !.wd = w], temp |-> temp]
           halt(w, cur) == [x |-> [x EXCEPT !.t.tree = cur, !.wd = w, !.err = "halt"], temp |-> spent]
           stop  == [x |-> [x EXCEPT !.t = [PushPatch(t, n, ours) EXCEPT !.tree = ours, !.conflicts = "allow",
                                              !.head = PushPatch(t, n, ours).patches[n]],
                                     !.wd = m, !.err = "conflict"],
                     temp |-> spent]
<1>1. \/ z = as(new, x.wd, t.tree, y.temp)
      \/ z = as(Tree(c), x.wd, t.tree, y.temp)
      \/ z = as(tree, x.wd, t.tree, used)
      \/ z = halt(x.wd, t.tree)
      \/ x.o.iw /\ z = halt(out, ours)
      \/ /\ x.o.iw /\ MergeRecursiveOk(out, old, ours, their) /\ m.unmerged = {}
         /\ z = as(m.index, m, m.index, spent)
      \/ x.o.iw /\ z = stop
  <2>1. CASE ~(x.o.iw /\ x.o.push_conflicts /\ ReadTreeOk(x.wd, t.tree, ours))
    BY <2>1, ZenonT(40) DEF PushOne
  <2>2. CASE x.o.iw /\ x.o.push_conflicts /\ ReadTreeOk(x.wd, t.tree, ours)
    <3>1. \/ z = as(new, x.wd, t.tree, y.temp)
          \/ z = as(Tree(c), x.wd, t.tree, y.temp)
          \/ z = as(tree, x.wd, t.tree, used)
          \/ z = halt(out, ours)
          \/ /\ MergeRecursiveOk(out, old, ours, their) /\ m.unmerged = {}
             /\ z = as(m.index, m, m.index, spent)
          \/ z = stop
      BY <2>2, ZenonT(60) DEF PushOne
    <3> HIDE DEF as, halt, stop
    <3> QED BY <2>2, <3>1
  <2> QED BY ONLY <2>1, <2>2
<1>2. /\ x.wd \in Workdirs /\ t.tree \in Trees /\ t \in Transactions /\ Good(t) /\ n \in Names
      /\ n \in InLists(t) /\ t.patches \in PatchMaps
  BY ElemsIff DEF Ready, Xacts, WF, Transactions, InLists
<1>3. old \in Trees /\ new \in Trees /\ Tree(c) \in Trees
  BY <1>2, PatchCommit, TopType, CommitTypes
<1> HIDE DEF old, new, c, swap
<1>4. ours \in Trees /\ their \in Trees
  BY <1>3
<1> HIDE DEF ours, their, held
<1>5. index \in Trees
  BY <1>4 DEF Temps
<1> HIDE DEF index
<1>6. tree \in Trees
  BY <1>2, <1>3, <1>4, <1>5, WorkdirTypes
<1> HIDE DEF tree
<1>7. spent \in Temps /\ used \in Temps
  BY <1>4, <1>6 DEF Temps
<1>8. out \in Workdirs
  BY <1>2, <1>4, WorkdirTypes
<1>8a. /\ Whole(x.wd) => Whole(out)
       /\ x.wd = ReadTreeCheckoutHard(t.tree) => out = ReadTreeCheckoutHard(ours)
  BY <1>2, <1>4, CheckoutWhole
<1> HIDE DEF out
<1>9. m \in Workdirs
  BY <1>3, <1>4, <1>8, WorkdirTypes
<1>10. m.index \in Trees
  BY <1>9 DEF Workdirs
<1>10a. MergeRecursiveOk(out, old, ours, their) /\ m.unmerged = {} /\ Whole(x.wd) => Whole(m)
  BY <1>3, <1>4, <1>8, <1>8a, MergeWhole
<1> HIDE DEF m, spent, used, t
<1>10b. InStep(x) => Whole(x.wd) /\ x.wd = ReadTreeCheckoutHard(t.tree)
  BY InStepNeat DEF InStep, Neat, t
<1>11. ASSUME NEW u \in Trees, NEW w \in Workdirs, NEW cur \in Trees, NEW temp \in Temps,
              z = as(u, w, cur, temp),
              Whole(x.wd) => Whole(w),
              InStep(x) => w = ReadTreeCheckoutHard(cur),
              ~x.o.iw => w = x.wd
       PROVE  z = [x |-> z.x, temp |-> z.temp] /\ z.temp \in Temps /\ PushResult(y.x, n, z.x)
  <2>1. z.temp = temp /\ PushedTo(y.x, n, u, cur, w, z.x) /\ z = [x |-> z.x, temp |-> z.temp]
    BY <1>11 DEF PushedTo, t
  <2>2. z.x.err = "none" /\ z.x.wd = w /\ z.x.t.tree = cur
    BY <2>1, PushedToFields DEF Ready
  <2>3. Trails(x, z.x)
    BY <1>11, <2>2 DEF Trails, Neat, InStep
  <2> QED BY <2>1, <2>3, PushedToOK
<1>12. ASSUME NEW w \in Workdirs, NEW cur \in Trees, z = halt(w, cur),
              Whole(x.wd) => Whole(w),
              InStep(x) => w = ReadTreeCheckoutHard(cur),
              ~x.o.iw => w = x.wd
       PROVE  z = [x |-> z.x, temp |-> z.temp] /\ z.temp \in Temps /\ PushResult(y.x, n, z.x)
  <2>1. z.temp = spent /\ HaltedAt(y.x, cur, w, z.x) /\ z = [x |-> z.x, temp |-> z.temp]
    BY <1>12 DEF HaltedAt
  <2>2. z.x.wd = w /\ z.x.t.tree = cur
    BY <2>1 DEF HaltedAt, Ready, Xacts, Transactions
  <2>3. Trails(x, z.x)
    BY <1>12, <2>2 DEF Trails, Neat, InStep
  <2> QED BY <1>7, <2>1, <2>3, HaltedAtOK
<1>13. ASSUME x.o.iw /\ z = stop
       PROVE  z = [x |-> z.x, temp |-> z.temp] /\ z.temp \in Temps /\ PushResult(y.x, n, z.x)
  <2>1. z.temp = spent /\ StoppedAt(y.x, n, ours, m, z.x) /\ z = [x |-> z.x, temp |-> z.temp]
    BY <1>13 DEF StoppedAt, t
  <2> QED BY <1>4, <1>7, <1>9, <1>13, <2>1, StoppedAtOK
<1>14. CASE x.o.iw /\ z = halt(out, ours)
  BY <1>4, <1>8, <1>8a, <1>10b, <1>12, <1>14
<1>15. CASE /\ x.o.iw /\ MergeRecursiveOk(out, old, ours, their) /\ m.unmerged = {}
            /\ z = as(m.index, m, m.index, spent)
  <2>1. Whole(x.wd) => Whole(m)
    BY <1>10a, <1>15
  <2>2. InStep(x) => m = ReadTreeCheckoutHard(m.index)
    BY <1>10b, <2>1 DEF Whole
  <2> QED BY <1>7, <1>9, <1>10, <1>11, <1>15, <2>1, <2>2
<1> HIDE DEF as, halt, stop
<1> QED BY <1>1, <1>2, <1>3, <1>4, <1>6, <1>7, <1>10b, <1>11, <1>12, <1>13, <1>14, <1>15

\* y is x with the patches of `done' pushed, or has stopped on the way.
PushAll(x, done, y) ==
  /\ Ready(y) /\ y.r = x.r /\ y.o = x.o /\ Trails(x, y)
  /\ y.err = "none" =>
       /\ x.err = "none"
       /\ y.t.applied = x.t.applied \o done
       /\ Elems(y.t.unapplied) = Elems(x.t.unapplied) \ Elems(done)
       /\ Elems(y.t.hidden) = Elems(x.t.hidden) \ Elems(done)
       /\ InLists(y.t) = InLists(x.t) /\ y.t.base = x.t.base
       /\ \A m \in Names \ Elems(done) : y.t.patches[m] = x.t.patches[m]
       /\ \A r \in Seq(Names) : x.t.unapplied = done \o r => y.t.unapplied = r
       /\ Based(x.t) => Based(y.t)

LEMMA PushAllNone ==
  ASSUME NEW x, Ready(x)
  PROVE  PushAll(x, <<>>, x)
<1>1. x.t.applied \in Seq(Names)
  BY DEF Ready, Xacts, Transactions
<1>2. x.t.applied \o <<>> = x.t.applied
  BY <1>1
<1>3. \A r \in Seq(Names) : <<>> \o r = r
  OBVIOUS
<1> QED BY <1>2, <1>3, NoElems DEF PushAll, Trails

\* A list with one more at its end.
Longer(a, d, n, e) == a \o e = Append(a \o d, n) /\ Elems(e) = Elems(d) \cup {n}

LEMMA OneMore ==
  ASSUME NEW a \in Seq(Names), NEW d \in Seq(Names), NEW n \in Names, NEW e, e = Append(d, n)
  PROVE  e \in Seq(Names) /\ Longer(a, d, n, e)
<1>1. e \in Seq(Names) /\ Elems(e) = Elems(d) \cup {n}
  BY AppendElems
<1>2. PICK l, r : l = a \o e /\ r = Append(a \o d, n)
  OBVIOUS
<1>3. PICK b : b = a \o d
  OBVIOUS
<1>4. b \in Seq(Names) /\ Len(b) = Len(a) + Len(d)
  BY <1>3
<1>5. r \in Seq(Names) /\ Len(r) = Len(a) + Len(d) + 1 /\ r[Len(a) + Len(d) + 1] = n
        /\ \A i \in 1..(Len(a) + Len(d)) : r[i] = b[i]
  BY <1>2, <1>3, <1>4
<1>6. Len(e) = Len(d) + 1 /\ e[Len(d) + 1] = n /\ \A i \in 1..Len(d) : e[i] = d[i]
  OBVIOUS
<1>7. l \in Seq(Names) /\ Len(l) = Len(a) + Len(e)
        /\ \A i \in 1..(Len(a) + Len(e)) : l[i] = IF i <= Len(a) THEN a[i] ELSE e[i - Len(a)]
  BY ONLY <1>1, <1>2, a \in Seq(Names)
<1>8. \A i \in 1..(Len(a) + Len(d)) : b[i] = IF i <= Len(a) THEN a[i] ELSE d[i - Len(a)]
  BY <1>3
<1>9. Len(l) = Len(r) /\ Len(a) \in Nat /\ Len(d) \in Nat
  BY <1>5, <1>6, <1>7
<1>10. ASSUME NEW i \in 1..Len(l) PROVE l[i] = r[i]
  <2>1. CASE i <= Len(a)
    <3>1. i \in 1..(Len(a) + Len(d)) /\ i \in 1..(Len(a) + Len(e))
      BY <1>6, <1>9, <2>1
    <3> QED BY <1>5, <1>7, <1>8, <2>1, <3>1
  <2>2. CASE i > Len(a) /\ i <= Len(a) + Len(d)
    <3>1. i - Len(a) \in 1..Len(d) /\ i \in 1..(Len(a) + Len(d)) /\ i \in 1..(Len(a) + Len(e))
      BY <1>6, <1>7, <1>9, <2>2
    <3>2. l[i] = e[i - Len(a)] /\ r[i] = b[i] /\ b[i] = d[i - Len(a)]
      BY <1>5, <1>7, <1>8, <1>9, <2>2, <3>1
    <3> QED BY <1>6, <3>1, <3>2
  <2>3. CASE i = Len(a) + Len(d) + 1
    <3>1. i - Len(a) = Len(d) + 1 /\ i \in 1..(Len(a) + Len(e)) /\ ~(i <= Len(a))
      BY <1>6, <1>7, <1>9, <2>3
    <3>2. l[i] = e[i - Len(a)]
      BY <1>7, <3>1
    <3> QED BY <1>5, <1>6, <2>3, <3>1, <3>2
  <2>4. Len(l) = Len(a) + Len(d) + 1
    BY <1>6, <1>7, <1>9
  <2> QED BY <1>9, <2>1, <2>2, <2>3, <2>4
<1>11. l = r
  BY <1>5, <1>7, <1>9, <1>10
<1> QED BY <1>1, <1>2, <1>11 DEF Longer

LEMMA AppendMoves ==
  ASSUME NEW d \in Seq(Names), NEW r \in Seq(Names), NEW n \in Names, NEW e, e = Append(d, n),
         NEW s, s = <<n>> \o r
  PROVE  e \o r = d \o s
BY AppendConcat

\* The lowest patch stays on the base when one more is pushed.
BasedMore(t, n, v) ==
  /\ t.applied \in Seq(Names) /\ n \notin Elems(t.applied)
  /\ Based(t) /\ Parent(v.patches[n]) = Top(t) /\ v.base = t.base
  /\ v.applied = Append(t.applied, n)
  /\ \A m \in Names \ {n} : v.patches[m] = t.patches[m]

LEMMA BasedAppend ==
  ASSUME NEW t, NEW n \in Names, NEW v, BasedMore(t, n, v)
  PROVE  Based(v)
<1> USE DEF BasedMore
<1>1. CASE t.applied = <<>>
  <2>1. Append(t.applied, n)[1] = n
    BY <1>1
  <2> QED BY <1>1, <2>1 DEF Based, Top, TopOf
<1>2. CASE t.applied # <<>>
  <2>1. PICK a, b : a = t.applied /\ b = Append(a, n)
    OBVIOUS
  <2>2. a \in Seq(Names) /\ 1 \in 1..Len(a) /\ b[1] = a[1]
    BY <1>2, <2>1
  <2>3. a[1] \in Elems(a) /\ a[1] \in Names
    BY <2>2, ElemsIff
  <2>4. b[1] \in Names \ {n}
    BY <2>1, <2>2, <2>3
  <2> QED BY <1>2, <2>1, <2>2, <2>4 DEF Based
<1> QED BY <1>1, <1>2

\* One more patch of the list.
LEMMA PushAllMore ==
  ASSUME NEW x, Ready(x), NEW d \in Seq(Names), NEW y, PushAll(x, d, y), y.err = "none",
         NEW n, n \notin Elems(d), NEW e, e = Append(d, n),
         n \in Elems(x.t.unapplied) \cup Elems(x.t.hidden), NEW z, PushResult(y, n, z)
  PROVE  PushAll(x, e, z)
<1>1. x.t.applied \in Seq(Names) /\ x.t.unapplied \in Seq(Names) /\ x.t.hidden \in Seq(Names)
  BY DEF Ready, Xacts, Transactions
<1>2. n \in Names
  BY <1>1, ElemsIff
<1>3. PICK a : a = x.t.applied
  OBVIOUS
<1>4. a \o e = Append(a \o d, n) /\ Elems(e) = Elems(d) \cup {n}
  <2>1. a \in Seq(Names)
    BY <1>1, <1>3
  <2>2. Longer(a, d, n, e)
    BY <1>2, <2>1, OneMore
  <2> QED BY <2>2 DEF Longer
<1>5. /\ y.t.applied = a \o d /\ x.err = "none" /\ y.r = x.r /\ y.o = x.o
      /\ Elems(y.t.unapplied) = Elems(x.t.unapplied) \ Elems(d)
      /\ Elems(y.t.hidden) = Elems(x.t.hidden) \ Elems(d)
      /\ InLists(y.t) = InLists(x.t) /\ y.t.base = x.t.base
      /\ \A m \in Names \ Elems(d) : y.t.patches[m] = x.t.patches[m]
      /\ \A r \in Seq(Names) : x.t.unapplied = d \o r => y.t.unapplied = r
      /\ Based(x.t) => Based(y.t)
  BY <1>3 DEF PushAll
<1>6. Ready(z) /\ z.r = x.r /\ z.o = x.o /\ Trails(x, z)
  BY <1>5 DEF PushResult, PushAll, Trails
<1>7. ASSUME z.err = "none"
      PROVE  /\ z.t.applied = x.t.applied \o e
             /\ Elems(z.t.unapplied) = Elems(x.t.unapplied) \ Elems(e)
             /\ Elems(z.t.hidden) = Elems(x.t.hidden) \ Elems(e)
             /\ InLists(z.t) = InLists(x.t) /\ z.t.base = x.t.base
             /\ \A m \in Names \ Elems(e) : z.t.patches[m] = x.t.patches[m]
             /\ \A r \in Seq(Names) : x.t.unapplied = e \o r => z.t.unapplied = r
             /\ Based(x.t) => Based(z.t)
  <2>1. Up(y.t, n, z.t)
    BY <1>7 DEF PushResult
  <2>2. z.t.applied = Append(y.t.applied, n)
    BY <2>1 DEF Up, Raised
  <2>3. /\ Elems(z.t.unapplied) = Elems(y.t.unapplied) \ {n} /\ Elems(z.t.hidden) = Elems(y.t.hidden) \ {n}
        /\ InLists(z.t) = InLists(y.t) /\ z.t.base = y.t.base
        /\ \A m \in Names \ {n} : z.t.patches[m] = y.t.patches[m]
    BY <2>1 DEF Up, Raised
  <2>4. z.t.applied = x.t.applied \o e
    BY <1>3, <1>4, <1>5, <2>2
  <2>5. /\ Elems(z.t.unapplied) = Elems(x.t.unapplied) \ Elems(e)
        /\ Elems(z.t.hidden) = Elems(x.t.hidden) \ Elems(e)
    BY <1>4, <1>5, <2>3
  <2>6. y.t \in Transactions /\ Good(y.t)
    BY DEF PushAll, Ready, WF
  <2>7. ASSUME NEW r \in Seq(Names), x.t.unapplied = e \o r PROVE z.t.unapplied = r
    <3>1. PICK s : s = <<n>> \o r
      OBVIOUS
    <3>2. s \in Seq(Names)
      BY <1>2, <3>1
    <3>3. e \o r = d \o s
      BY ONLY <1>2, <3>1, d \in Seq(Names), r \in Seq(Names), e = Append(d, n), AppendMoves
    <3>4. y.t.unapplied = s
      BY <1>5, <2>7, <3>2, <3>3
    <3>5. NoDuplicates(s)
      BY <2>6, <3>4 DEF Good, Distinct3
    <3>6. Drop(s, {n}) = r
      BY ONLY <1>2, <3>1, <3>5, r \in Seq(Names), DropFirst
    <3> QED BY <2>1, <3>4, <3>6 DEF Up
  <2>8. ASSUME Based(x.t) PROVE Based(z.t)
    <3>1. Based(y.t) /\ Parent(z.t.patches[n]) = Top(y.t) /\ z.t.base = y.t.base
      BY <1>5, <2>1, <2>8 DEF Up
    <3>2. y.t.applied \in Seq(Names) /\ n \notin Elems(y.t.applied)
      <4>1. n \in Elems(y.t.unapplied) \cup Elems(y.t.hidden)
        BY <1>5
      <4> QED BY <2>6, <4>1 DEF Transactions, Good, Distinct3
    <3>3. BasedMore(y.t, n, z.t)
      BY <2>2, <2>3, <3>1, <3>2 DEF BasedMore
    <3> QED BY ONLY <1>2, <3>3, BasedAppend
  <2> QED BY <1>4, <1>5, <2>3, <2>4, <2>5, <2>7, <2>8
<1> QED BY <1>5, <1>6, <1>7 DEF PushAll

\* The part of a list that is done.
LEMMA Prefixes ==
  ASSUME NEW s \in Seq(Names), NoDuplicates(s), NEW k \in 1..Len(s)
  PROVE  /\ SubSeq(s, 1, k - 1) \in Seq(Names)
         /\ SubSeq(s, 1, k) = Append(SubSeq(s, 1, k - 1), s[k])
         /\ s[k] \notin Elems(SubSeq(s, 1, k - 1)) /\ s[k] \in Elems(s)
<1>1. PICK d : d = SubSeq(s, 1, k - 1)
  OBVIOUS
<1>2. d \in Seq(Names) /\ Len(d) = k - 1 /\ \A i \in 1..(k - 1) : d[i] = s[i]
  BY <1>1
<1>3. PICK e : e = SubSeq(s, 1, k)
  OBVIOUS
<1>4. e \in Seq(Names) /\ Len(e) = k /\ \A i \in 1..k : e[i] = s[i]
  BY <1>3
<1>5. PICK f : f = Append(d, s[k])
  OBVIOUS
<1>6. f \in Seq(Names) /\ Len(f) = k /\ f[k] = s[k] /\ \A i \in 1..(k - 1) : f[i] = d[i]
  BY <1>2, <1>5
<1>7. e = f
  BY <1>2, <1>4, <1>6
<1>8. s[k] \notin Elems(d) /\ s[k] \in Elems(s)
  BY <1>2, ElemsIff, NoDupIff
<1> QED BY <1>1, <1>2, <1>3, <1>5, <1>7, <1>8
Pairs == [x : Xacts, temp : Temps]

\* The temporary index that push_patches starts with.
LEMMA TempIndexType ==
  ASSUME NEW x, Ready(x), NEW names \in Seq(Names), NEW merged \in BOOLEAN
  PROVE  TempIndex(x, names, merged) \in Temps
<1>1. Tree(x.r.branch) \in Trees
  BY CommitTypes DEF Ready, Xacts, Repos
<1>2. PICK tree : tree = Tree(x.r.branch)
  OBVIOUS
<1>3. CheckMerged(x.t, tree, names) \subseteq Elems(names)
  BY DEF CheckMerged
<1>4. PICK m : m = IF merged THEN CheckMerged(x.t, tree, names) ELSE {}
  OBVIOUS
<1>5. m \in SUBSET Names
  BY <1>3, <1>4, ElemsIff
<1>6. TempIndex(x, names, merged) =
        [known |-> merged /\ m = {}, id |-> tree, index |-> tree, broken |-> FALSE, merged |-> m]
  BY <1>2, <1>4, Zenon DEF TempIndex
<1> QED BY <1>1, <1>2, <1>5, <1>6 DEF Temps

\* One turn of the loop of push_patches.
LEMMA PushTurn ==
  ASSUME NEW x, Ready(x), NEW names \in Seq(Names), x.err = "none" => Pushable(x.t, names),
         NEW k \in 1..Len(names), NEW y \in Pairs, PushAll(x, SubSeq(names, 1, k - 1), y.x)
  PROVE  PushOne(y, names[k]) \in Pairs /\ PushAll(x, SubSeq(names, 1, k), PushOne(y, names[k]).x)
<1>1. PICK n, z, d, e : /\ n = names[k] /\ z = PushOne(y, n)
                        /\ d = SubSeq(names, 1, k - 1) /\ e = SubSeq(names, 1, k)
  OBVIOUS
<1>2. y.x \in Xacts /\ y.temp \in Temps /\ PushAll(x, d, y.x) /\ Ready(y.x)
  BY <1>1 DEF Pairs, PushAll
<1>3. CASE y.x.err # "none"
  <2>1. z = y
    BY <1>1, <1>3 DEF PushOne
  <2>2. PushAll(x, e, y.x)
    BY <1>2, <1>3 DEF PushAll
  <2> QED BY <1>1, <2>1, <2>2
<1>4. CASE y.x.err = "none"
  <2>1. NoDuplicates(names) /\ Elems(names) \subseteq Elems(x.t.unapplied) \cup Elems(x.t.hidden)
    BY <1>2, <1>4 DEF PushAll, Pushable
  <2>2. d \in Seq(Names) /\ e = Append(d, n) /\ n \notin Elems(d) /\ n \in Elems(names)
    BY <1>1, <2>1, Prefixes
  <2>3. n \in Elems(y.x.t.unapplied) \cup Elems(y.x.t.hidden)
    BY <1>2, <1>4, <2>1, <2>2 DEF PushAll
  <2>4. z = [x |-> z.x, temp |-> z.temp] /\ z.temp \in Temps /\ PushResult(y.x, n, z.x)
    BY <1>1, <1>2, <1>4, <2>3, PushOneOK
  <2>5. PushAll(x, e, z.x)
    BY <1>2, <1>4, <2>1, <2>2, <2>4, PushAllMore
  <2>6. z.x \in Xacts
    BY <2>4 DEF PushResult, Ready
  <2>7. z \in Pairs
    BY <2>4, <2>6 DEF Pairs
  <2> QED BY <1>1, <2>5, <2>7
<1> QED BY <1>3, <1>4

\* push_patches, for lists of any length.
LEMMA PushPatchesOK ==
  ASSUME NEW x, Ready(x), NEW names \in Seq(Names), x.err = "none" => Pushable(x.t, names),
         NEW merged \in BOOLEAN
  PROVE  PushAll(x, names, PushPatches(x, names, merged))
<1> DEFINE a == [x |-> x, temp |-> TempIndex(x, names, merged)]
           IsRun(f) == f = [k \in 0..Len(names) |-> IF k = 0 THEN a ELSE PushOne(f[k - 1], names[k])]
<1>1. PICK n : n = Len(names)
  OBVIOUS
<1>2. PICK g : g = CHOOSE f : IsRun(f)
  OBVIOUS
<1>3. PushPatches(x, names, merged) = g[n].x
  BY <1>1, <1>2, Zenon DEF PushPatches
<1>4. PICK V : V = [k \in 0..n |-> {y \in Pairs : PushAll(x, SubSeq(names, 1, k), y.x)}]
  OBVIOUS
<1>5. PICK step : step = [k \in 1..n |-> [y \in V[k - 1] |-> PushOne(y, names[k])]]
  OBVIOUS
<1>6. n \in Nat /\ SubSeq(names, 1, 0) = <<>> /\ SubSeq(names, 1, n) = names
  BY <1>1
<1>7. a \in V[0]
  <2>1. a \in Pairs /\ a.x = x
    BY TempIndexType DEF Pairs, Ready
  <2> HIDE DEF a
  <2> QED BY <1>4, <1>6, <2>1, PushAllNone
<1>8. ASSUME NEW k \in 1..n PROVE step[k] \in [V[k - 1] -> V[k]]
  <2>1. k - 1 \in 0..n /\ k \in 0..n /\ k \in 1..Len(names)
    BY <1>1, <1>6
  <2>2. ASSUME NEW y \in V[k - 1] PROVE PushOne(y, names[k]) \in V[k]
    <3>1. y \in Pairs /\ PushAll(x, SubSeq(names, 1, k - 1), y.x)
      BY <1>4, <2>1
    <3>2. PushOne(y, names[k]) \in Pairs /\ PushAll(x, SubSeq(names, 1, k), PushOne(y, names[k]).x)
      BY <2>1, <3>1, PushTurn
    <3> QED BY <1>4, <2>1, <3>2
  <2>3. step[k] = [y \in V[k - 1] |-> PushOne(y, names[k])]
    BY <1>5
  <2> QED BY <2>2, <2>3
<1>9. step \in Between(n, V)
  BY <1>5, <1>8 DEF Between
<1>10. PICK h : /\ h = [k \in 0..n |-> h[k]] /\ h[0] = a
                /\ \A k \in 1..n : h[k] = step[k][h[k - 1]]
                /\ \A k \in 0..n : h[k] \in V[k]
  <2> HIDE DEF a
  <2>1. \E f : Runs(n, a, step, f) /\ \A k \in 0..n : f[k] \in V[k]
    BY <1>6, <1>7, <1>9, IteratesWithin
  <2> QED BY <2>1 DEF Runs
<1>11. \A k \in 1..n : h[k] = PushOne(h[k - 1], names[k])
  <2> HIDE DEF a
  <2> TAKE k \in 1..n
  <2>1. k - 1 \in 0..n
    BY <1>6
  <2> QED BY <1>5, <1>10, <2>1
<1>12. IsRun(h)
  <2>1. \A k \in 0..n : k # 0 => k \in 1..n
    BY <1>6
  <2>2. \A k \in 0..n : h[k] = IF k = 0 THEN a ELSE PushOne(h[k - 1], names[k])
    BY <1>10, <1>11, <2>1, Zenon
  <2> QED BY <1>1, <1>10, <2>2, Zenon
<1>13. IsRun(g)
  <2> HIDE DEF IsRun
  <2> QED BY <1>2, <1>12, Zenon
<1>14. g[0] = a /\ \A k \in 1..n : g[k] = PushOne(g[k - 1], names[k])
  <2>1. 0 \in 0..n /\ \A k \in 1..n : k \in 0..n /\ k # 0
    BY <1>6
  <2> QED BY <1>1, <1>13, <2>1, Zenon
<1> HIDE DEF IsRun, a
<1>15. \A k \in 0..n : g[k] \in V[k]
  <2>1. \A k \in 1..n : g[k - 1] \in V[k - 1] => g[k] = step[k][g[k - 1]]
    BY <1>5, <1>14
  <2> QED BY <1>6, <1>7, <1>9, <1>14, <2>1, StaysWithin
<1>16. g[n] \in V[n]
  BY <1>6, <1>15
<1> QED BY <1>3, <1>4, <1>6, <1>16

\* One turn of the loop of push_tree_patches.
LEMMA TreeTurn ==
  ASSUME NEW x, Ready(x), NEW names \in Seq(Names), x.err = "none" => Pushable(x.t, names),
         NEW k \in 1..Len(names), NEW y, PushAll(x, SubSeq(names, 1, k - 1), y)
  PROVE  PushAll(x, SubSeq(names, 1, k), With(y, PushTree(y.t, names[k])))
<1>1. PICK n, u, z, d, e : /\ n = names[k] /\ u = PushTree(y.t, n) /\ z = With(y, u)
                           /\ d = SubSeq(names, 1, k - 1) /\ e = SubSeq(names, 1, k)
  OBVIOUS
<1>2. PushAll(x, d, y) /\ Ready(y)
  BY <1>1 DEF PushAll
<1>3. CASE y.err # "none"
  <2>1. z = y
    BY <1>1, <1>3 DEF With
  <2>2. PushAll(x, e, y)
    BY <1>2, <1>3 DEF PushAll
  <2> QED BY <1>1, <2>1, <2>2
<1>4. CASE y.err = "none"
  <2>1. NoDuplicates(names) /\ Elems(names) \subseteq Elems(x.t.unapplied) \cup Elems(x.t.hidden)
    BY <1>2, <1>4 DEF PushAll, Pushable
  <2>2. d \in Seq(Names) /\ e = Append(d, n) /\ n \notin Elems(d) /\ n \in Elems(names)
    BY <1>1, <2>1, Prefixes
  <2>3. n \in Elems(y.t.unapplied) \cup Elems(y.t.hidden)
    BY <1>2, <1>4, <2>1, <2>2 DEF PushAll
  <2>4. Tree(y.r.branch) \in Trees
    BY <1>2, CommitTypes DEF Ready, Xacts, Repos
  <2>5. /\ WF(u, y.r.state.patches) /\ Linked(u) /\ Up(y.t, n, u) /\ u.head = y.t.head
    <3>1. PICK tree : tree \in Trees
      BY <2>4
    <3>2. PushedAs(y.t, n, tree, u)
      BY <1>1 DEF PushedAs
    <3>3. Lifts(y, n, tree, u)
      BY <1>2, <2>3, <3>1, <3>2 DEF Lifts
    <3> QED BY ONLY <3>3, UpOK
  <2>6. u.head = NoCommit
    BY <1>2, <1>4, <2>5 DEF Ready, HeadSet
  <2>7. Ready(z) /\ z.r = y.r /\ z.o = y.o /\ z.t = u /\ z.wd = y.wd /\ z.err = y.err
    <3>1. y.err = "none" => WF(u, y.r.state.patches) /\ Linked(u) /\ u.head = NoCommit
      BY <2>5, <2>6
    <3>2. Ready(y) /\ z = With(y, u)
      BY <1>1, <1>2
    <3> QED BY ONLY <1>4, <3>1, <3>2, WithReady
  <2>8. PushResult(y, n, z)
    <3>1. u.tree = y.t.tree
      BY <1>1, <1>2, PushTreeTree DEF Ready, WF
    <3>2. Trails(y, z)
      BY <2>7, <3>1 DEF Trails, Neat, InStep
    <3> QED BY <2>5, <2>7, <3>2 DEF PushResult
  <2>9. PushAll(x, e, z)
    BY <1>2, <1>4, <2>1, <2>2, <2>8, PushAllMore
  <2> QED BY <1>1, <2>9
<1> QED BY <1>3, <1>4

\* push_tree_patches, for lists of any length.
LEMMA PushTreePatchesOK ==
  ASSUME NEW x, Ready(x), NEW names \in Seq(Names), x.err = "none" => Pushable(x.t, names)
  PROVE  PushAll(x, names, PushTreePatches(x, names))
<1> DEFINE IsRun(f) == f = [k \in 0..Len(names) |->
                              IF k = 0 THEN x ELSE With(f[k - 1], PushTree(f[k - 1].t, names[k]))]
<1>1. PICK n : n = Len(names)
  OBVIOUS
<1>2. PICK g : g = CHOOSE f : IsRun(f)
  OBVIOUS
<1>3. PushTreePatches(x, names) = g[n]
  BY <1>1, <1>2, Zenon DEF PushTreePatches
<1>4. PICK V : V = [k \in 0..n |-> {y \in Xacts : PushAll(x, SubSeq(names, 1, k), y)}]
  OBVIOUS
<1>5. PICK step : step = [k \in 1..n |-> [y \in V[k - 1] |-> With(y, PushTree(y.t, names[k]))]]
  OBVIOUS
<1>6. n \in Nat /\ SubSeq(names, 1, 0) = <<>> /\ SubSeq(names, 1, n) = names
  BY <1>1
<1>7. x \in V[0]
  BY <1>4, <1>6, PushAllNone DEF Ready
<1>8. ASSUME NEW k \in 1..n PROVE step[k] \in [V[k - 1] -> V[k]]
  <2>1. k - 1 \in 0..n /\ k \in 0..n /\ k \in 1..Len(names)
    BY <1>1, <1>6
  <2>2. ASSUME NEW y \in V[k - 1] PROVE With(y, PushTree(y.t, names[k])) \in V[k]
    <3>1. PushAll(x, SubSeq(names, 1, k - 1), y)
      BY <1>4, <2>1
    <3>2. PushAll(x, SubSeq(names, 1, k), With(y, PushTree(y.t, names[k])))
      BY <2>1, <3>1, TreeTurn
    <3>3. With(y, PushTree(y.t, names[k])) \in Xacts
      BY <3>2 DEF PushAll, Ready
    <3> QED BY <1>4, <2>1, <3>2, <3>3
  <2>3. step[k] = [y \in V[k - 1] |-> With(y, PushTree(y.t, names[k]))]
    BY <1>5
  <2> QED BY <2>2, <2>3
<1>9. step \in Between(n, V)
  BY <1>5, <1>8 DEF Between
<1>10. PICK h : /\ h = [k \in 0..n |-> h[k]] /\ h[0] = x
                /\ \A k \in 1..n : h[k] = step[k][h[k - 1]]
                /\ \A k \in 0..n : h[k] \in V[k]
  <2>1. \E f : Runs(n, x, step, f) /\ \A k \in 0..n : f[k] \in V[k]
    BY <1>6, <1>7, <1>9, IteratesWithin
  <2> QED BY <2>1 DEF Runs
<1>11. \A k \in 1..n : h[k] = With(h[k - 1], PushTree(h[k - 1].t, names[k]))
  <2> TAKE k \in 1..n
  <2>1. k - 1 \in 0..n
    BY <1>6
  <2> QED BY <1>5, <1>10, <2>1
<1>12. IsRun(h)
  <2>1. \A k \in 0..n : k # 0 => k \in 1..n
    BY <1>6
  <2>2. \A k \in 0..n : h[k] = IF k = 0 THEN x ELSE With(h[k - 1], PushTree(h[k - 1].t, names[k]))
    BY <1>10, <1>11, <2>1, Zenon
  <2> QED BY <1>1, <1>10, <2>2, Zenon
<1>13. IsRun(g)
  <2> HIDE DEF IsRun
  <2> QED BY <1>2, <1>12, Zenon
<1>14. g[0] = x /\ \A k \in 1..n : g[k] = With(g[k - 1], PushTree(g[k - 1].t, names[k]))
  <2>1. 0 \in 0..n /\ \A k \in 1..n : k \in 0..n /\ k # 0
    BY <1>6
  <2> QED BY <1>1, <1>13, <2>1, Zenon
<1> HIDE DEF IsRun
<1>15. \A k \in 0..n : g[k] \in V[k]
  <2>1. \A k \in 1..n : g[k - 1] \in V[k - 1] => g[k] = step[k][g[k - 1]]
    BY <1>5, <1>14
  <2> QED BY <1>6, <1>7, <1>9, <1>14, <2>1, StaysWithin
<1>16. g[n] \in V[n]
  BY <1>6, <1>15
<1>17. PushAll(x, SubSeq(names, 1, n), g[n])
  BY <1>4, <1>6, <1>16
<1> QED BY <1>3, <1>6, <1>17

-----------------------------------------------------------------------------
(* The inductive step, by how a step ends. *)

\* A command that has ended leaves nothing to fit.
LEMMA EndIInv ==
  ASSUME IInv, cmd' = NoCmd, Sound(repo'), stash' \in Seq(StashEntries),
         mine' \subseteq Files \X Contents, last'.how \in Hows
  PROVE  IInv'
<1>1. /\ cmd'.pc = "idle" /\ cmd'.at = 1 /\ cmd'.target = NoCommit /\ cmd'.names = <<>>
      /\ cmd'.stashed = FALSE
  BY DEF NoCmd
<1>2. CmdForm' /\ Loops'
  BY <1>1, NoCmdForm DEF CmdForm, Form, Loops, Pcs
<1>3. Fits(cmd', repo')
  BY <1>1 DEF Fits
<1>4. 1 \in 1..(MaxPlan + 1)
  BY InputsAssumption
<1> QED BY <1>1, <1>2, <1>3, <1>4, NoCommitType, NoElems DEF IInv

\* The command goes on with what it has put aside.
Carries ==
  /\ cmd'.names = cmd.names /\ cmd'.target = cmd.target /\ cmd'.stashed = cmd.stashed
  /\ cmd'.at = cmd.at \/ cmd'.pc = "instruction"
  /\ cmd'.pc = "unstash" => cmd.stashed

LEMMA GoIInv ==
  ASSUME IInv, Progress, Carries, Sound(repo'), stash' = stash, mine' \subseteq Files \X Contents,
         last' = last, Fits(cmd', repo')
  PROVE  IInv'
<1>1. CmdForm' /\ Loops'
  BY DEF Progress
<1>2. cmd'.at \in 1..(MaxPlan + 1)
  <2>1. CASE cmd'.at = cmd.at
    BY <2>1 DEF IInv
  <2>2. CASE cmd'.pc = "instruction"
    <3>1. IsSeq(cmd'.plan) /\ Len(cmd'.plan) <= MaxPlan /\ cmd'.at \in 1..(Len(cmd'.plan) + 1)
      BY <1>1, <2>2 DEF Loops
    <3>2. Len(cmd'.plan) \in Nat
      BY <3>1, SeqLength
    <3> QED BY <3>1, <3>2, InputsAssumption
  <2> QED BY <2>1, <2>2 DEF Carries
<1> QED BY <1>1, <1>2 DEF IInv, Carries

\* The transaction x is executed, and the command goes on or ends.
LEMMA TransactIInv ==
  ASSUME IInv, Progress, NEW x, Ready(x), NEW next, Transacts(cmd, x, next),
         stash' = stash, mine' \subseteq Files \X Contents,
         cmd' = next => Carries,
         x.err = "none" /\ Committed(x.t, repo') /\ cmd' = next => Fits(cmd', repo')
  PROVE  IInv'
<1>1. PICK e : e = Execute(x)
  OBVIOUS
<1>2. /\ Sound(e.r) /\ e.how \in {"ok", "halt", "conflict", "aborted", "error"}
      /\ e.how = "ok" => x.err = "none" /\ Committed(x.t, e.r)
  BY <1>1, ExecuteSound
<1>3. /\ repo' = e.r
      /\ \/ e.how = "ok" /\ cmd' = next /\ last' = last
         \/ e.how # "ok" /\ cmd' = NoCmd /\ last'.how = e.how
  BY <1>1, TransactsForm
<1>4. CASE e.how = "ok"
  BY <1>2, <1>3, <1>4, GoIInv
<1>5. CASE e.how # "ok"
  BY <1>2, <1>3, <1>5, EndIInv DEF IInv, Hows
<1> QED BY <1>4, <1>5

LEMMA ConcludeIInv ==
  ASSUME IInv, NEW c, NEW x, Ready(x), Concludes(c, x), stash' = stash, mine' \subseteq Files \X Contents
  PROVE  IInv'
<1>1. PICK e : e = Execute(x)
  OBVIOUS
<1>2. Sound(e.r) /\ e.how \in {"ok", "halt", "conflict", "aborted", "error"}
  BY <1>1, ExecuteSound
<1>3. repo' = e.r /\ cmd' = NoCmd /\ last'.how = e.how
  BY <1>1, ConcludesForm
<1> QED BY <1>2, <1>3, EndIInv DEF IInv, Hows

\* What is common to all steps.
LEMMA IInvFacts ==
  ASSUME IInv
  PROVE  /\ Sound(repo) /\ repo \in Repos /\ repo.state \in States /\ repo.branch \in Commits
         /\ repo.wd \in Workdirs /\ stash \in Seq(StashEntries) /\ CmdForm /\ Loops /\ Fits(cmd, repo)
         /\ Tree(repo.branch) \in Trees /\ mine \subseteq Files \X Contents /\ last.how \in Hows
         /\ repo.wd.index \in Trees /\ repo.wd.work \in Trees /\ repo.wd.unmerged \subseteq Files
<1>1. Sound(repo) /\ repo \in Repos
  BY DEF IInv, Sound
<1>2. repo.state \in States /\ repo.branch \in Commits /\ repo.wd \in Workdirs
  BY <1>1 DEF Repos
<1> QED BY <1>1, <1>2, CommitTypes DEF IInv, Workdirs

\* The worktree changes and nothing else.
Rewd(r, w, v) == v = [r EXCEPT !.wd = w]

LEMMA RewdSound ==
  ASSUME NEW r, Sound(r), NEW w \in Workdirs, NEW v, Rewd(r, w, v)
  PROVE  Sound(v) /\ v.branch = r.branch /\ v.wd = w /\ v.state = r.state
<1>1. Elsewhere(r, w, v)
  BY DEF Rewd, Elsewhere
<1>2. v.state = r.state
  BY DEF Rewd, Sound, Repos
<1> QED BY <1>1, <1>2, SoundElsewhere

\* The branch moves while no patch is applied.
Moved(r, b, w, v) == v = [r EXCEPT !.branch = b, !.wd = w]

LEMMA MovedSound ==
  ASSUME NEW r, Sound(r), r.state.applied = <<>>, NEW b \in Commits, NEW w \in Workdirs,
         NEW v, Moved(r, b, w, v)
  PROVE  Sound(v) /\ v.state = r.state
BY DEF Moved, Sound, Repos, OnTop

\* What the user does.
LEMMA UserIInv ==
  ASSUME IInv, EditFile \/ ResolveConflicts
  PROVE  IInv'
<1>1. cmd' = cmd /\ stash' = stash /\ last' = NoLast
  BY DEF EditFile, ResolveConflicts
<1>2. Idle
  BY DEF EditFile, ResolveConflicts
<1>3. ASSUME NEW w \in Workdirs, Rewd(repo, w, repo'), mine' \subseteq Files \X Contents
      PROVE  IInv'
  <2>1. Sound(repo')
    BY <1>3, IInvFacts, RewdSound
  <2>2. CmdForm' /\ Loops' /\ Fits(cmd', repo')
    BY <1>1, <1>2 DEF IInv, CmdForm, Loops, Fits, Idle
  <2>3. last'.how \in Hows
    BY <1>1 DEF NoLast, Hows
  <2> QED BY <1>1, <1>3, <2>1, <2>2, <2>3 DEF IInv
<1>4. CASE EditFile
  <2>1. PICK f \in Files, v \in Contents, staged \in BOOLEAN :
          /\ repo' = [repo EXCEPT !.wd.work[f] = v, !.wd.index[f] = IF staged THEN v ELSE @]
          /\ mine' = {e \in mine : e[1] # f} \cup ({<<f, v>>} \ {<<f, Tree(repo.branch)[f]>>})
    BY <1>4 DEF EditFile
  <2>2. PICK u : u = [repo.wd.work EXCEPT ![f] = v]
    OBVIOUS
  <2>3. PICK i : i = [repo.wd.index EXCEPT ![f] = IF staged THEN v ELSE @]
    OBVIOUS
  <2>4. u \in Trees /\ i \in Trees
    BY <2>2, <2>3, IInvFacts DEF Trees
  <2>5. PICK w : w = [repo.wd EXCEPT !.work = u, !.index = i]
    OBVIOUS
  <2>6. w \in Workdirs
    BY <2>4, <2>5, IInvFacts DEF Workdirs
  <2>7. Rewd(repo, w, repo')
    BY <2>1, <2>2, <2>3, <2>5, IInvFacts DEF Rewd, Workdirs, Repos
  <2>8. mine' \subseteq Files \X Contents
    BY <2>1, IInvFacts
  <2> QED BY <1>3, <2>6, <2>7, <2>8
<1>5. CASE ResolveConflicts
  <2>1. PICK i : i = [f \in Files |-> IF f \in repo.wd.unmerged THEN repo.wd.work[f] ELSE repo.wd.index[f]]
    OBVIOUS
  <2>2. i \in Trees
    BY <2>1, IInvFacts DEF Trees
  <2>3. PICK w : w = [repo.wd EXCEPT !.unmerged = {}, !.index = i]
    OBVIOUS
  <2>4. w \in Workdirs
    BY <2>2, <2>3, IInvFacts DEF Workdirs
  <2>5. Rewd(repo, w, repo')
    BY <1>5, <2>1, <2>3, IInvFacts DEF ResolveConflicts, Rewd, Workdirs, Repos
  <2>6. mine' \subseteq Files \X Contents
    BY <1>5, IInvFacts DEF ResolveConflicts
  <2> QED BY <1>3, <2>4, <2>5, <2>6
<1> QED BY <1>4, <1>5

LEMMA KillIInv ==
  ASSUME IInv, Kill
  PROVE  IInv'
BY EndIInv, EndsForm, IInvFacts DEF Kill, Hows

LEMMA SpillResetIInv ==
  ASSUME IInv, SpillReset
  PROVE  IInv'
<1>1. cmd' = NoCmd /\ last'.how = "ok" /\ stash' = stash /\ mine' = mine
  BY EndsForm DEF SpillReset
<1>2. Sound(repo')
  <2>1. CASE repo' = repo
    BY <2>1, IInvFacts
  <2>2. CASE repo' = [repo EXCEPT !.wd.index = Tree(repo.branch)]
    <3>1. PICK w : w = [repo.wd EXCEPT !.index = Tree(repo.branch)]
      OBVIOUS
    <3>2. w \in Workdirs /\ Rewd(repo, w, repo')
      BY <2>2, <3>1, IInvFacts DEF Workdirs, Rewd
    <3> QED BY <3>2, IInvFacts, RewdSound
  <2> QED BY <2>1, <2>2 DEF SpillReset
<1> QED BY <1>1, <1>2, IInvFacts, EndIInv DEF Hows

LEMMA Proceeds ==
  ASSUME IInv, Proceed
  PROVE  Progress
BY IInvFacts, ProgressSteps

\* Only the program counter changes.
LEMMA PcStep ==
  ASSUME CmdForm, NEW q, cmd' = [cmd EXCEPT !.pc = q]
  PROVE  /\ cmd'.pc = q /\ cmd'.name = cmd.name /\ cmd'.flags = cmd.flags /\ cmd'.names = cmd.names
         /\ cmd'.target = cmd.target /\ cmd'.stashed = cmd.stashed /\ cmd'.plan = cmd.plan
         /\ cmd'.at = cmd.at
BY DEF CmdForm, CmdFields

\* A merge gives trees, whatever the base is.
LEMMA MergeTypes ==
  ASSUME NEW w \in Workdirs, NEW base, NEW ours \in Trees, NEW theirs \in Trees
  PROVE  /\ MergeTree(base, ours, theirs) \in Trees
         /\ MergeRecursive(w, base, ours, theirs) \in Workdirs
<1>1. MergeTree(base, ours, theirs) \in Trees
  BY DEF MergeTree, Trees
<1>2. PICK m : m = MergeTree(base, ours, theirs)
  OBVIOUS
<1>3. w.work \in Trees
  BY DEF Workdirs
<1>4. [f \in Files |-> IF m[f] = ours[f] THEN w.work[f] ELSE m[f]] \in Trees
  BY <1>1, <1>2, <1>3 DEF Trees
<1>5. ConflictFiles(base, ours, theirs) \in SUBSET Files
  BY DEF ConflictFiles
<1> QED BY <1>1, <1>2, <1>4, <1>5 DEF MergeRecursive, Workdirs

\* git reset --hard, and git pull.
LEMMA UserGitIInv ==
  ASSUME IInv, UserRebase \/ UserPull
  PROVE  IInv'
<1>1. cmd.pc = "git" /\ stash' = stash /\ mine' = mine
  BY DEF UserRebase, UserPull
<1>2. repo.state.applied = <<>> /\ cmd.target \in Commits /\ Pushable(repo.state, cmd.names)
  BY <1>1, IInvFacts DEF Fits
<1>3. Tree(cmd.target) \in Trees /\ Meta(cmd.target) \in Metas
  BY <1>2, CommitTypes
<1>4. ASSUME NEW b \in Commits, Moved(repo, b, ReadTreeCheckoutHard(Tree(b)), repo'),
             cmd' = [cmd EXCEPT !.pc = "reopen"], last' = last
      PROVE  IInv'
  <2>1. PICK w : w = ReadTreeCheckoutHard(Tree(b))
    OBVIOUS
  <2>2. w \in Workdirs
    BY <2>1, CommitTypes DEF ReadTreeCheckoutHard, Workdirs
  <2>3. Sound(repo') /\ repo'.state = repo.state
    BY <1>2, <1>4, <2>1, <2>2, IInvFacts, MovedSound
  <2>4. Progress
    BY Proceeds DEF Proceed, Rebasing
  <2>5. cmd'.pc = "reopen" /\ cmd'.names = cmd.names /\ cmd'.target = cmd.target /\ Carries
    BY <1>4, IInvFacts, PcStep DEF Carries
  <2>6. Fits(cmd', repo')
    BY <1>2, <2>3, <2>5 DEF Fits
  <2> QED BY <1>1, <1>4, <2>3, <2>4, <2>5, <2>6, IInvFacts, GoIInv
<1>5. CASE UserRebase
  <2>1. CASE /\ repo' = [repo EXCEPT !.branch = cmd.target, !.wd = ReadTreeCheckoutHard(Tree(cmd.target))]
             /\ cmd' = [cmd EXCEPT !.pc = "reopen"] /\ last' = last
    <3>1. Moved(repo, cmd.target, ReadTreeCheckoutHard(Tree(cmd.target)), repo')
      BY <2>1 DEF Moved
    <3> QED BY <1>2, <1>4, <2>1, <3>1
  <2>2. CASE Ends(cmd, "error") /\ UNCHANGED repo
    BY <1>1, <2>2, EndsForm, EndIInv, IInvFacts DEF Hows
  <2> QED BY <1>5, <2>1, <2>2 DEF UserRebase
<1>6. CASE UserPull
  <2> DEFINE head == repo.branch
             base == Tree(MergeBase(head, cmd.target))
             tree == MergeTree(base, Tree(head), Tree(cmd.target))
             made == MkCommit(head, tree, Meta(cmd.target))
             moved(c) == /\ repo' = [repo EXCEPT !.branch = c, !.wd = ReadTreeCheckoutHard(Tree(c))]
                         /\ cmd' = [cmd EXCEPT !.pc = "reopen"] /\ last' = last
             m    == MergeRecursive(repo.wd, base, Tree(head), Tree(cmd.target))
  <2>1. \/ moved(head) \/ moved(cmd.target) \/ moved(made)
        \/ repo' = [repo EXCEPT !.wd = m] /\ Ends(cmd, "conflict")
    BY <1>6 DEF UserPull
  <2>2. head \in Commits /\ Tree(head) \in Trees /\ repo.wd \in Workdirs
    BY IInvFacts
  <2> HIDE DEF base
  <2>3. tree \in Trees /\ m \in Workdirs
    BY <1>3, <2>2, MergeTypes
  <2> HIDE DEF tree, m
  <2>4. made \in Commits
    BY <1>3, <2>2, <2>3, CommitTypes
  <2> HIDE DEF made
  <2>5. ASSUME NEW c \in Commits, moved(c) PROVE IInv'
    <3>1. Moved(repo, c, ReadTreeCheckoutHard(Tree(c)), repo')
      BY <2>5 DEF Moved
    <3> QED BY <1>4, <2>5, <3>1
  <2>6. CASE repo' = [repo EXCEPT !.wd = m] /\ Ends(cmd, "conflict")
    <3>1. Rewd(repo, m, repo')
      BY <2>6 DEF Rewd
    <3>2. Sound(repo')
      BY <2>3, <3>1, IInvFacts, RewdSound
    <3> QED BY <1>1, <2>6, <3>2, EndsForm, EndIInv, IInvFacts DEF Hows
  <2> HIDE DEF moved, head
  <2> QED BY <1>2, <2>1, <2>2, <2>4, <2>5, <2>6 DEF head
<1> QED BY <1>5, <1>6

\* The end of a rebase, or the way to it.
LEMMA FinishesIInv ==
  ASSUME IInv, Progress, Finishes(cmd), Sound(repo'), stash' = stash, mine' = mine
  PROVE  IInv'
<1>1. CASE cmd.stashed /\ cmd' = [cmd EXCEPT !.pc = "unstash"] /\ last' = last
  <2>1. cmd'.pc = "unstash" /\ Carries
    BY <1>1, IInvFacts, PcStep DEF Carries
  <2>2. Fits(cmd', repo')
    BY <2>1 DEF Fits
  <2> QED BY <1>1, <2>1, <2>2, IInvFacts, GoIInv
<1>2. CASE Ends(cmd, "ok")
  BY <1>2, EndsForm, EndIInv, IInvFacts DEF Hows
<1> QED BY <1>1, <1>2 DEF Finishes

LEMMA ReopenIInv ==
  ASSUME IInv, Reopen
  PROVE  IInv'
<1>1. cmd.pc = "reopen" /\ stash' = stash /\ mine' = mine
  BY DEF Reopen
<1>2. repo.state.applied = <<>> /\ cmd.target \in Commits /\ Pushable(repo.state, cmd.names)
  BY <1>1, IInvFacts DEF Fits
<1>3. /\ Sound(repo') /\ repo'.state.applied = <<>> /\ repo'.state.unapplied = repo.state.unapplied
      /\ repo'.state.hidden = repo.state.hidden
  <2>1. PICK w : w = repo.wd
    OBVIOUS
  <2>2. repo' = [repo EXCEPT !.state = [repo.state EXCEPT !.head = repo.branch]]
    BY DEF Reopen
  <2>3. Elsewhere(repo, w, repo')
    BY <2>1, <2>2, IInvFacts DEF Elsewhere, Repos
  <2> QED BY <1>2, <2>1, <2>3, IInvFacts, SoundElsewhere
<1>4. Pushable(repo'.state, cmd.names)
  BY <1>2, <1>3 DEF Pushable
<1>5. Progress
  BY Proceeds DEF Proceed, Rebasing
<1>6. ASSUME NEW q \in {"plan", "push"}, cmd' = [cmd EXCEPT !.pc = q], last' = last
      PROVE  IInv'
  <2>1. cmd'.pc = q /\ cmd'.names = cmd.names /\ cmd'.target = cmd.target /\ Carries
    BY <1>6, IInvFacts, PcStep DEF Carries
  <2>2. Fits(cmd', repo')
    BY <1>2, <1>3, <1>4, <1>6, <2>1 DEF Fits
  <2> QED BY <1>1, <1>3, <1>5, <1>6, <2>1, <2>2, IInvFacts, GoIInv
<1>7. CASE Finishes(cmd)
  BY <1>1, <1>3, <1>5, <1>7, FinishesIInv
<1> QED BY <1>6, <1>7 DEF Reopen

LEMMA UnstashIInv ==
  ASSUME IInv, Unstash
  PROVE  IInv'
<1>1. stash # <<>> /\ stash \in Seq(StashEntries)
  BY DEF Unstash, IInv
<1>2. PICK s : s = Head(stash)
  OBVIOUS
<1>3. s \in StashEntries /\ Tail(stash) \in Seq(StashEntries)
  BY <1>1, <1>2
<1>4. s.base \in Trees /\ s.work \in Trees
  BY <1>3 DEF StashEntries
<1> DEFINE t == repo.wd.index
           w == MergeTree(s.base, t, s.work)
           m == MergeRecursive(repo.wd, s.base, t, s.work)
<1>5. \/ repo' = [repo EXCEPT !.wd.work = w] /\ stash' = Tail(stash) /\ Ends(cmd, "ok")
      \/ repo' = [repo EXCEPT !.wd = m] /\ stash' = stash /\ Ends(cmd, "conflict")
  BY <1>2 DEF Unstash
<1>6. w \in Trees /\ m \in Workdirs
  BY <1>4, IInvFacts, MergeTypes
<1> HIDE DEF w, m
<1>7. PICK d : d = [repo.wd EXCEPT !.work = w]
  OBVIOUS
<1>8. d \in Workdirs
  BY <1>6, <1>7, IInvFacts DEF Workdirs
<1>9. Rewd(repo, d, repo') \/ Rewd(repo, m, repo')
  BY <1>5, <1>7 DEF Rewd
<1>10. Sound(repo')
  BY <1>6, <1>8, <1>9, IInvFacts, RewdSound
<1>11. cmd' = NoCmd /\ last'.how \in Hows
  BY <1>5, EndsForm DEF Hows
<1>12. mine' = mine
  BY DEF Unstash
<1> QED BY <1>1, <1>3, <1>5, <1>10, <1>11, <1>12, IInvFacts, EndIInv

LEMMA KeepLineIInv ==
  ASSUME IInv, KeepLine
  PROVE  IInv'
<1>1. Progress
  BY Proceeds DEF Proceed, Rebasing
<1>2. cmd.pc = "instruction" /\ cmd' = [cmd EXCEPT !.at = @ + 1]
  BY DEF KeepLine, AtLine
<1>3. /\ cmd'.pc = cmd.pc /\ cmd'.names = cmd.names /\ cmd'.target = cmd.target
      /\ cmd'.stashed = cmd.stashed /\ cmd'.plan = cmd.plan
  BY <1>2, IInvFacts DEF CmdForm, CmdFields
<1>4. Carries
  BY <1>2, <1>3 DEF Carries
<1>5. repo' = repo /\ stash' = stash /\ last' = last /\ mine' = mine
  BY DEF KeepLine
<1>6. Fits(cmd', repo')
  BY <1>2, <1>3, <1>5, IInvFacts DEF Fits
<1> QED BY <1>1, <1>4, <1>5, <1>6, IInvFacts, GoIInv
-----------------------------------------------------------------------------
(* The steps that are a transaction. *)

LEMMA WithinOpened ==
  ASSUME IInv, NEW o \in Options, NEW x, x = Within(o)
  PROVE  Opened(x, repo)
BY IInvFacts, SetupReady DEF Within

LEMMA WithOpened ==
  ASSUME NEW x, NEW r, Opened(x, r), NEW t, WF(t, r.state.patches), Linked(t), t.head = NoCommit,
         NEW y, y = With(x, t)
  PROVE  Ready(y) /\ y.t = t /\ y.err = "none" /\ y.r = r /\ y.o = x.o /\ y.wd = x.wd
<1>1. Ready(x) /\ x.r = r /\ x.err = "none"
  BY DEF Opened
<1>2. x.err = "none" => WF(t, x.r.state.patches) /\ Linked(t) /\ t.head = NoCommit
  BY <1>1
<1> QED BY <1>1, <1>2, WithReady

LEMMA OpenedFacts ==
  ASSUME NEW x, NEW r, Opened(x, r)
  PROVE  /\ WF(x.t, r.state.patches) /\ Linked(x.t) /\ x.t.head = NoCommit /\ x.t \in Transactions
         /\ InLists(x.t) = InLists(r.state) /\ Good(x.t) /\ Good(r.state) /\ r \in Repos
         /\ r.state \in States
         /\ r.state.applied \in Seq(Names) /\ r.state.unapplied \in Seq(Names)
         /\ r.state.hidden \in Seq(Names) /\ r.state.patches \in PatchMaps
<1>1. Ready(x) /\ x.r = r
  BY DEF Opened
<1>2. WF(x.t, r.state.patches) /\ Linked(x.t) /\ Sound(r)
  BY <1>1 DEF Ready
<1>3. r.state \in States
  BY <1>2 DEF Sound, Repos
<1> QED BY <1>1, <1>2, <1>3 DEF Opened, WF, InLists, States, Sound

LEMMA NoneListed ==
  ASSUME NEW s \in Seq(Names), Elems(s) = {}
  PROVE  s = <<>>
BY ElemsIff

\* pop_patches first.
LEMMA PopOpened ==
  ASSUME NEW x, NEW r, Opened(x, r), NEW S, NEW t, t = PopPatches(x.t, S)
  PROVE  /\ WF(t, r.state.patches) /\ Linked(t) /\ t.head = NoCommit /\ t.patches = r.state.patches
         /\ InLists(t) = InLists(r.state) /\ t.applied = Below(r.state.applied, S)
         /\ t.hidden = r.state.hidden
         /\ Elems(t.unapplied) = Elems(From(r.state.applied, S)) \cup Elems(r.state.unapplied)
<1>1. /\ WF(x.t, r.state.patches) /\ Linked(x.t) /\ x.t.head = NoCommit /\ x.t \in Transactions
      /\ InLists(x.t) = InLists(r.state)
  BY OpenedFacts
<1>2. /\ x.t.applied = r.state.applied /\ x.t.unapplied = r.state.unapplied
      /\ x.t.hidden = r.state.hidden /\ x.t.patches = r.state.patches
  BY DEF Opened
<1>3. /\ WF(t, r.state.patches) /\ InLists(t) = InLists(x.t) /\ t.patches = x.t.patches
      /\ t.applied = Below(x.t.applied, S) /\ t.hidden = x.t.hidden
      /\ Elems(t.unapplied) = Elems(From(x.t.applied, S)) \cup Elems(x.t.unapplied)
  BY <1>1, PopOK
<1>4. Linked(t) /\ t.head = x.t.head
  BY <1>1, PopLinked DEF Kept
<1> QED BY <1>1, <1>2, <1>3, <1>4

LEMMA PopTree ==
  ASSUME NEW t \in Transactions, NEW S
  PROVE  PopPatches(t, S).tree = t.tree /\ PopPatches(t, S).base = t.base
BY DEF PopPatches, Transactions

LEMMA PopIInv ==
  ASSUME IInv, Pop
  PROVE  IInv'
<1>1. PICK x, t, y : x = Within(InWorktree) /\ t = PopPatches(x.t, Elems(cmd.names)) /\ y = With(x, t)
  OBVIOUS
<1>2. cmd.pc = "pop" /\ Transacts(cmd, y, [cmd EXCEPT !.pc = "git"]) /\ stash' = stash /\ mine' = mine
  BY <1>1 DEF Pop
<1>3. Opened(x, repo)
  BY <1>1, WithinOpened, OptionTypes
<1>4. /\ WF(t, repo.state.patches) /\ Linked(t) /\ t.head = NoCommit
      /\ t.applied = Below(repo.state.applied, Elems(cmd.names)) /\ t.hidden = repo.state.hidden
      /\ Elems(t.unapplied) = Elems(From(repo.state.applied, Elems(cmd.names))) \cup Elems(repo.state.unapplied)
  BY <1>1, <1>3, PopOpened
<1>5. Ready(y) /\ y.t = t
  BY <1>1, <1>3, <1>4, WithOpened
<1>6. cmd.names = repo.state.applied /\ cmd.target \in Commits
  BY <1>2, IInvFacts DEF Fits
<1>7. repo.state.applied \in Seq(Names) /\ NoDuplicates(repo.state.applied)
  BY <1>3, OpenedFacts DEF Good, Distinct3
<1>8. t.applied = <<>>
  <2>1. PICK a : a = repo.state.applied
    OBVIOUS
  <2>2. Below(a, Elems(a)) \in Seq(Names) /\ Elems(Below(a, Elems(a))) = {}
    BY <1>7, <2>1, BelowFrom
  <2> QED BY <1>4, <1>6, <2>1, <2>2, NoneListed
<1>9. Elems(cmd.names) \subseteq Elems(t.unapplied)
  <2>1. PICK a : a = repo.state.applied
    OBVIOUS
  <2>2. /\ Elems(Below(a, Elems(a))) \cap Elems(a) = {}
        /\ Elems(a) = Elems(Below(a, Elems(a))) \cup Elems(From(a, Elems(a)))
    BY <1>7, <2>1, BelowFrom
  <2> QED BY <1>4, <1>6, <2>1, <2>2
<1>10. Progress
  BY Proceeds DEF Proceed, Rebasing
<1>11. ASSUME cmd' = [cmd EXCEPT !.pc = "git"]
       PROVE  Carries /\ (Committed(y.t, repo') => Fits(cmd', repo'))
  <2>1. cmd'.pc = "git" /\ cmd'.names = cmd.names /\ cmd'.target = cmd.target /\ Carries
    BY <1>11, IInvFacts, PcStep DEF Carries
  <2>2. Committed(t, repo') => repo'.state.applied = <<>> /\ Pushable(repo'.state, cmd.names)
    BY <1>6, <1>7, <1>8, <1>9 DEF Committed, Pushable
  <2> QED BY <1>5, <1>6, <2>1, <2>2 DEF Fits
<1> QED BY <1>2, <1>5, <1>10, <1>11, IInvFacts, TransactIInv

LEMMA PushOptionsType == PushOptions \in Options
BY OptionTypes DEF PushOptions

\* The push that ends a rebase.
LEMMA PushesIInv ==
  ASSUME IInv, Progress, NEW names \in Seq(Names), Pushable(repo.state, names), Pushes(names),
         stash' = stash, mine' = mine
  PROVE  IInv'
<1>1. PICK x, m, y, e : /\ x = Within(PushOptions) /\ m = ("merged" \in cmd.flags)
                        /\ y = PushPatches(x, names, m) /\ e = Execute(y)
  OBVIOUS
<1>2. Opened(x, repo) /\ m \in BOOLEAN
  BY <1>1, WithinOpened, PushOptionsType
<1>3. Ready(x) /\ Pushable(x.t, names)
  BY <1>2 DEF Opened, Pushable
<1>4. Ready(y)
  BY <1>1, <1>2, <1>3, PushPatchesOK DEF PushAll
<1>5. Sound(e.r) /\ e.how \in {"ok", "halt", "conflict", "aborted", "error"}
  BY <1>1, <1>4, ExecuteSound
<1>6. /\ repo' = e.r
      /\ \/ e.how = "ok" /\ Finishes(cmd)
         \/ e.how # "ok" /\ cmd' = NoCmd /\ last'.how = e.how
  BY <1>1, PushesForm
<1>7. CASE Finishes(cmd)
  BY <1>5, <1>6, <1>7, FinishesIInv
<1>8. CASE cmd' = NoCmd /\ last'.how = e.how
  BY <1>5, <1>6, <1>8, IInvFacts, EndIInv DEF Hows
<1> QED BY <1>6, <1>7, <1>8

LEMMA PushBackIInv ==
  ASSUME IInv, PushBack
  PROVE  IInv'
<1>1. cmd.pc = "push" /\ Pushes(cmd.names) /\ stash' = stash /\ mine' = mine
  BY DEF PushBack
<1>2. Pushable(repo.state, cmd.names) /\ cmd.names \in Seq(Names)
  BY <1>1, IInvFacts DEF Fits, IInv
<1>3. Progress
  BY Proceeds DEF Proceed, Rebasing
<1> QED BY <1>1, <1>2, <1>3, PushesIInv

LEMMA SyncPopIInv ==
  ASSUME IInv, SyncPop
  PROVE  IInv'
<1>1. PICK x, S, t, y : /\ x = Within(InWorktree) /\ S = Elems(x.t.applied) \cap Elems(Tail(cmd.names))
                        /\ t = PopPatches(x.t, S) /\ y = With(x, t)
  OBVIOUS
<1>2. cmd.pc = "sync pop" /\ Transacts(cmd, y, [cmd EXCEPT !.pc = "sync"]) /\ stash' = stash /\ mine' = mine
  BY <1>1 DEF SyncPop
<1>3. Opened(x, repo)
  BY <1>1, WithinOpened, OptionTypes
<1>4. /\ WF(t, repo.state.patches) /\ Linked(t) /\ t.head = NoCommit /\ t.hidden = repo.state.hidden
      /\ Elems(repo.state.unapplied) \subseteq Elems(t.unapplied)
  BY <1>1, <1>3, PopOpened
<1>5. Ready(y) /\ y.t = t
  BY <1>1, <1>3, <1>4, WithOpened
<1>6. Pushable(repo.state, cmd.names) /\ cmd.flags \subseteq DOMAIN RefPatches
  BY <1>2, IInvFacts DEF Fits
<1>7. Progress
  BY Proceeds DEF Proceed
<1>8. ASSUME cmd' = [cmd EXCEPT !.pc = "sync"]
      PROVE  Carries /\ (Committed(y.t, repo') => Fits(cmd', repo'))
  <2>1. cmd'.pc = "sync" /\ cmd'.names = cmd.names /\ cmd'.flags = cmd.flags /\ Carries
    BY <1>8, IInvFacts, PcStep DEF Carries
  <2>2. Committed(t, repo') => Pushable(repo'.state, cmd.names)
    BY <1>4, <1>6 DEF Committed, Pushable
  <2> QED BY <1>5, <1>6, <2>1, <2>2 DEF Fits
<1> QED BY <1>2, <1>5, <1>7, <1>8, IInvFacts, TransactIInv

LEMMA LastOfAppend ==
  ASSUME NEW s \in Seq(Names), NEW n \in Names, NEW a, a = Append(s, n)
  PROVE  a # <<>> /\ a[Len(a)] = n
OBVIOUS

LEMMA NewAppliedFields ==
  ASSUME NEW t \in Transactions, NEW n, NEW c, NEW v, v = NewApplied(t, n, c)
  PROVE  v.applied = Append(t.applied, n) /\ v.unapplied = t.unapplied /\ v.hidden = t.hidden
BY DEF NewApplied, SetPatch, Transactions

LEMMA RefreshTempIInv ==
  ASSUME IInv, RefreshTemp
  PROVE  IInv'
<1>1. PICK x, n, c, t, y : /\ x = Within(NoWorktree) /\ n = cmd.names[2] /\ c = cmd.target
                           /\ t = NewApplied(x.t, n, c) /\ y = With(x, t)
  OBVIOUS
<1>2. cmd.pc = "temp" /\ Transacts(cmd, y, [cmd EXCEPT !.pc = "absorb"]) /\ stash' = stash /\ mine' = mine
  BY <1>1 DEF RefreshTemp
<1>3. /\ Len(cmd.names) = 2 /\ cmd.names[1] # n /\ n \notin InLists(repo.state)
      /\ cmd.names[1] \in Elems(repo.state.applied) \cup Elems(repo.state.unapplied)
      /\ c \in Commits /\ HasParent(c) /\ Parent(c) = repo.branch
  BY <1>1, <1>2, IInvFacts DEF Fits
<1>4. n \in Names
  BY <1>1, <1>3 DEF IInv
<1>5. Opened(x, repo)
  BY <1>1, WithinOpened, OptionTypes
<1>6. /\ WF(x.t, repo.state.patches) /\ Linked(x.t) /\ x.t.head = NoCommit /\ x.t \in Transactions
      /\ InLists(x.t) = InLists(repo.state) /\ x.t.applied = repo.state.applied
      /\ x.t.unapplied = repo.state.unapplied /\ Top(x.t) = repo.branch
      /\ repo.state.applied \in Seq(Names)
  BY <1>5, OpenedFacts DEF Opened
<1>7. WF(t, repo.state.patches)
  BY <1>1, <1>3, <1>4, <1>6, NewAppliedOK
<1>8. Linked(t) /\ t.head = NoCommit
  <2>1. n \notin Elems(x.t.applied)
    BY <1>3, <1>6 DEF InLists
  <2> QED BY <1>1, <1>3, <1>4, <1>6, <2>1, NewLinked DEF Kept
<1>9. Ready(y) /\ y.t = t
  BY <1>1, <1>5, <1>7, <1>8, WithOpened
<1>10. /\ t.applied = Append(repo.state.applied, n) /\ t.unapplied = repo.state.unapplied
  <2>1. PICK u : u = x.t
    OBVIOUS
  <2>2. u \in Transactions /\ t = NewApplied(u, n, c)
    BY <1>1, <1>6, <2>1
  <2>3. t.applied = Append(u.applied, n) /\ t.unapplied = u.unapplied
    BY ONLY <2>2, NewAppliedFields
  <2> QED BY <1>6, <2>1, <2>3
<1>11. /\ t.applied # <<>> /\ t.applied[Len(t.applied)] = n
       /\ Elems(t.applied) = Elems(repo.state.applied) \cup {n}
  BY <1>4, <1>6, <1>10, LastOfAppend, AppendElems
<1>12. Progress
  BY Proceeds DEF Proceed
<1>13. ASSUME cmd' = [cmd EXCEPT !.pc = "absorb"]
       PROVE  Carries /\ (Committed(y.t, repo') => Fits(cmd', repo'))
  <2>1. cmd'.pc = "absorb" /\ cmd'.names = cmd.names /\ Carries
    BY <1>13, IInvFacts, PcStep DEF Carries
  <2>2. Committed(t, repo') =>
          /\ repo'.state.applied # <<>> /\ cmd.names[2] = repo'.state.applied[Len(repo'.state.applied)]
          /\ cmd.names[1] \in Elems(repo'.state.applied) \cup Elems(repo'.state.unapplied)
    BY <1>1, <1>3, <1>10, <1>11 DEF Committed
  <2>3. Committed(t, repo') => Fits(cmd', repo')
    BY <1>1, <1>3, <2>1, <2>2 DEF Fits
  <2> QED BY <1>9, <2>1, <2>3
<1> QED BY <1>2, <1>9, <1>12, <1>13, IInvFacts, TransactIInv
-----------------------------------------------------------------------------
(* The instructions of an interactive rebase. *)

LEMMA ListedIs ==
  ASSUME IInv
  PROVE  Listed = InLists(repo.state) /\ InLists(repo.state) \subseteq Names
<1>1. repo.state \in States
  BY IInvFacts
<1>2. /\ repo.state.applied \in Seq(Names) /\ repo.state.unapplied \in Seq(Names)
      /\ repo.state.hidden \in Seq(Names)
  BY <1>1 DEF States
<1> QED BY <1>2, AllPatchesElems, ElemsIff DEF Listed, InLists

LEMMA PlanIInv ==
  ASSUME Doubtful = {}, IInv, Plan
  PROVE  IInv'
<1>1. cmd.pc = "plan" /\ repo' = repo /\ stash' = stash /\ mine' = mine
  BY DEF Plan
<1>2. repo.state.applied = <<>>
  BY <1>1, IInvFacts DEF Fits
<1>3. CASE Ends(cmd, "error")
  BY <1>1, <1>3, EndsForm, IInvFacts, EndIInv DEF Hows
<1>4. ASSUME NEW k \in 0..MaxPlan, NEW names \in [1..k -> Listed], NEW acts \in [1..k -> Acts],
             NEW above \in 0..k, NoDuplicates(names),
             \A i \in 1..k : acts[i] = "hide" => names[i] \notin Elems(repo.state.hidden),
             cmd' = [cmd EXCEPT !.pc = "instruction", !.plan = Instructions(names, acts, above), !.at = 1],
             last' = last
      PROVE  IInv'
  <2>1. PICK plan : plan = Instructions(names, acts, above)
    OBVIOUS
  <2>2. k \in Nat /\ DOMAIN names = 1..k
    BY InputsAssumption
  <2>3. /\ IsSeq(plan) /\ Len(plan) = k
        /\ \A i \in 1..k : plan[i] = [name |-> names[i], act |-> acts[i], apply |-> i <= above]
    <3>1. IsSeq(plan) /\ Len(plan) = k
      BY <2>1, <2>2, InstructionsSeq
    <3> QED BY <2>1, <2>2, <3>1 DEF Instructions
  <2>4. \A i \in 1..k : names[i] \in InLists(repo.state) /\ names[i] \in Names
    BY ListedIs
  <2>5. \A i \in 1..k : plan[i] \in Lines /\ plan[i].name = names[i] /\ plan[i].act = acts[i]
    <3> TAKE i \in 1..k
    <3>1. PICK n, a, b : n = names[i] /\ a = acts[i] /\ b = (i <= above)
      OBVIOUS
    <3>2. n \in Names /\ a \in Acts /\ b \in BOOLEAN
      BY <2>4, <3>1
    <3>3. plan[i] = [name |-> n, act |-> a, apply |-> b]
      BY <2>3, <3>1, Zenon
    <3>4. plan[i] \in Lines /\ plan[i].name = n /\ plan[i].act = a
      BY <3>2, <3>3 DEF Lines
    <3> QED BY <3>1, <3>4
  <2>6. plan \in Seq(Lines)
    <3>1. PICK T : plan \in Seq(T)
      BY <2>3 DEF IsSeq
    <3>2. plan \in [1..k -> Lines]
      BY <2>3, <2>5, <3>1
    <3> QED BY <2>2, <3>2
  <2>7. \A i, j \in 1..k : names[i] = names[j] => i = j
    BY <1>4, <2>2 DEF NoDuplicates
  <2>8. PlanFits(plan, repo.state)
    BY <1>4, <2>3, <2>4, <2>5, <2>6, <2>7 DEF PlanFits
  <2>9. /\ cmd'.pc = "instruction" /\ cmd'.names = cmd.names /\ cmd'.target = cmd.target
        /\ cmd'.stashed = cmd.stashed /\ cmd'.plan = plan
    BY <1>4, <2>1, IInvFacts DEF CmdForm, CmdFields
  <2>10. Carries
    BY <2>9 DEF Carries
  <2>11. Fits(cmd', repo')
    BY <1>1, <1>2, <2>8, <2>9 DEF Fits
  <2>12. Progress
    BY Proceeds DEF Proceed, Rebasing
  <2> QED BY <1>1, <1>4, <2>10, <2>11, <2>12, IInvFacts, GoIInv
<1> QED BY <1>3, <1>4 DEF Plan

\* The lines of a plan that fits.
LEMMA PlanFacts ==
  ASSUME NEW plan, NEW s, PlanFits(plan, s), InLists(s) \subseteq Names,
         NEW names, names = [i \in DOMAIN plan |-> plan[i].name]
  PROVE  /\ plan \in Seq(Lines) /\ names \in Seq(Names) /\ NoDuplicates(names)
         /\ Elems(names) \subseteq InLists(s)
<1>1. plan \in Seq(Lines) /\ DOMAIN plan = 1..Len(plan) /\ Len(plan) \in Nat
  BY DEF PlanFits
<1>2. \A i \in 1..Len(plan) : names[i] = plan[i].name /\ names[i] \in Names
  BY <1>1 DEF PlanFits
<1>3. names \in [1..Len(plan) -> Names]
  BY <1>1, <1>2
<1>4. names \in Seq(Names) /\ Len(names) = Len(plan)
  BY <1>1, <1>3
<1>5. NoDuplicates(names)
  BY <1>2, <1>4, NoDupIff DEF PlanFits
<1>6. Elems(names) \subseteq InLists(s)
  <2>1. \A i \in 1..Len(names) : names[i] \in InLists(s)
    BY <1>2, <1>4 DEF PlanFits
  <2> QED BY <1>4, <2>1, ElemsIff
<1> QED BY <1>1, <1>4, <1>5, <1>6

LEMMA PushPlannedIInv ==
  ASSUME IInv, PushPlanned
  PROVE  IInv'
<1>1. PICK names, S : /\ names = [i \in DOMAIN cmd.plan |-> cmd.plan[i].name]
                      /\ S = {l.name : l \in {m \in Elems(cmd.plan) : m.apply}}
  OBVIOUS
<1>2. cmd.pc = "instruction" /\ Pushes(Keep(names, S)) /\ stash' = stash /\ mine' = mine
  BY <1>1 DEF PushPlanned
<1>3. repo.state.applied = <<>> /\ PlanFits(cmd.plan, repo.state)
  BY <1>2, IInvFacts DEF Fits
<1>4. names \in Seq(Names) /\ NoDuplicates(names) /\ Elems(names) \subseteq InLists(repo.state)
  BY <1>1, <1>3, ListedIs, PlanFacts
<1>5. PICK r : r = Keep(names, S)
  OBVIOUS
<1>6. r \in Seq(Names) /\ NoDuplicates(r) /\ Elems(r) \subseteq InLists(repo.state)
  BY <1>4, <1>5, KeepElems
<1>7. Pushable(repo.state, r)
  BY <1>3, <1>6, NoElems DEF Pushable, InLists
<1>8. Progress
  BY Proceeds DEF Proceed, Rebasing
<1> QED BY <1>2, <1>5, <1>6, <1>7, <1>8, PushesIInv

\* The batch and what remains have no name in common.
LEMMA BatchFits ==
  ASSUME Loops, NEW A, AtLine(A), NEW s, InLists(s) \subseteq Names, PlanFits(cmd.plan, s)
  PROVE  /\ Batch \in Seq(Names) /\ NoDuplicates(Batch) /\ Elems(Batch) \subseteq InLists(s)
         /\ Batch # <<>> /\ Len(Batch) \in Nat
         /\ Line.act = "hide" => Elems(Batch) \cap Elems(s.hidden) = {}
         /\ \A i \in 1..(cmd.at - 1) : cmd.plan[i].name \notin Elems(Batch)
         /\ \A i \in 1..Len(Remaining) : Remaining[i].name \notin Elems(Batch)
         /\ \A v : /\ InLists(s) \ Elems(Batch) \subseteq InLists(v)
                   /\ Elems(v.hidden) \subseteq Elems(s.hidden) \cup Elems(Batch)
                   => PlanFits(Remaining, v)
<1>1. PICK p, n, k : p = cmd.plan /\ n = Len(p) /\ k = cmd.at
  OBVIOUS
<1>2. p \in Seq(Lines) /\ n \in Nat /\ k \in 1..n
  BY <1>1 DEF PlanFits, AtLine, Loops
<1>3. PICK j : BatchTo(j)
  BY BatchFacts
<1>4. /\ j \in k..n /\ \A i \in k..j : p[i].act = Line.act
      /\ Batch = [i \in 1..(j - k + 1) |-> p[k + i - 1].name]
  BY <1>1, <1>3 DEF BatchTo
<1>5. PICK m, b : m = j - k + 1 /\ b = Batch
  OBVIOUS
<1>6. m \in 1..n /\ b = [i \in 1..m |-> p[k + i - 1].name]
  BY <1>2, <1>4, <1>5
<1>7. \A i \in 1..n : p[i].name \in InLists(s) /\ p[i].name \in Names
  BY <1>1 DEF PlanFits
<1>8. \A i \in 1..m : k + i - 1 \in k..j /\ k + i - 1 \in 1..n
  BY <1>2, <1>4, <1>5, <1>6
<1>9. b \in [1..m -> Names] /\ \A i \in 1..m : b[i] = p[k + i - 1].name
  BY <1>6, <1>7, <1>8
<1>10. b \in Seq(Names) /\ Len(b) = m
  <2>1. m \in Nat
    BY <1>2, <1>6
  <2> QED BY <1>9, <2>1
<1>11. \A x : x \in Elems(b) <=> \E i \in k..j : p[i].name = x
  <2>1. \A x : x \in Elems(b) <=> \E i \in 1..m : b[i] = x
    BY <1>10, ElemsIff
  <2>2. \A i \in k..j : i - k + 1 \in 1..m /\ k + (i - k + 1) - 1 = i
    BY <1>2, <1>4, <1>5
  <2> QED BY <1>8, <1>9, <2>1, <2>2
<1>12. \A i, l \in 1..n : p[i].name = p[l].name => i = l
  BY <1>1 DEF PlanFits
<1>13. NoDuplicates(b)
  <2>1. ASSUME NEW i \in 1..m, NEW l \in 1..m, b[i] = b[l] PROVE i = l
    <3>1. k + i - 1 = k + l - 1
      BY <1>8, <1>9, <1>12, <2>1
    <3> QED BY <1>2, <1>6, <3>1
  <2> QED BY <1>10, <2>1, NoDupIff
<1>14. Elems(b) \subseteq InLists(s)
  <2>1. \A i \in k..j : i \in 1..n
    BY <1>2, <1>4
  <2> QED BY <1>7, <1>11, <2>1
<1>15. Line.act = "hide" => Elems(b) \cap Elems(s.hidden) = {}
  <2>1. \A i \in k..j : i \in 1..n
    BY <1>2, <1>4
  <2> QED BY <1>1, <1>4, <1>11, <2>1 DEF PlanFits
<1>16. \A i \in 1..(k - 1) : p[i].name \notin Elems(b)
  <2>1. \A i \in 1..(k - 1) : i \in 1..n /\ \A l \in k..j : l \in 1..n /\ l # i
    BY <1>2, <1>4
  <2> QED BY <1>11, <1>12, <2>1
<1>17. PICK r : r = Remaining
  OBVIOUS
<1>18. /\ r \in Seq(Lines) /\ Len(r) = n - m
       /\ \A i \in 1..Len(r) : r[i] = p[IF i < k THEN i ELSE i + m]
  BY <1>1, <1>2, <1>3, <1>5, <1>17, RemainingFacts
<1>19. PICK g : g = [i \in 1..Len(r) |-> IF i < k THEN i ELSE i + m]
  OBVIOUS
<1>20. \A i \in 1..Len(r) : g[i] \in 1..n /\ g[i] \notin k..j /\ r[i] = p[g[i]]
  BY <1>2, <1>4, <1>5, <1>6, <1>18, <1>19
<1>21. ASSUME NEW i \in 1..Len(r), NEW l \in 1..Len(r), g[i] = g[l] PROVE i = l
  <2>1. k \in Int /\ m \in Int /\ m > 0 /\ i \in Int /\ l \in Int
    BY <1>2, <1>6, <1>18
  <2>2. (IF i < k THEN i ELSE i + m) = (IF l < k THEN l ELSE l + m)
    BY <1>19, <1>21
  <2> QED BY <2>1, <2>2
<1>22. \A i \in 1..Len(r) : r[i].name \notin Elems(b)
  <2>1. \A i \in k..j : i \in 1..n
    BY <1>2, <1>4
  <2> QED BY <1>11, <1>12, <1>20, <2>1
<1>23. ASSUME NEW v, InLists(s) \ Elems(b) \subseteq InLists(v),
              Elems(v.hidden) \subseteq Elems(s.hidden) \cup Elems(b)
       PROVE  PlanFits(r, v)
  <2>1. \A i, l \in 1..Len(r) : r[i].name = r[l].name => i = l
    BY <1>12, <1>20, <1>21
  <2>2. \A i \in 1..Len(r) : r[i].name \in InLists(v)
    BY <1>7, <1>20, <1>22, <1>23
  <2>3. \A i \in 1..Len(r) : r[i].act = "hide" => r[i].name \notin Elems(v.hidden)
    <3>1. \A i \in 1..n : p[i].act = "hide" => p[i].name \notin Elems(s.hidden)
      BY <1>1 DEF PlanFits
    <3> QED BY <1>20, <1>22, <1>23, <3>1
  <2> QED BY <1>18, <2>1, <2>2, <2>3 DEF PlanFits
<1>24. b # <<>> /\ Len(b) \in Nat
  BY <1>6, <1>10
<1> QED BY <1>1, <1>5, <1>10, <1>13, <1>14, <1>15, <1>16, <1>17, <1>22, <1>23, <1>24

\* delete_patches of patches that the stack has.
LEMMA DeleteFrom ==
  ASSUME NEW t, NEW p, WF(t, p), Linked(t), NEW S, \A n \in S \cap InLists(t) : p[n] # NoCommit,
         NEW v, v = DeletePatches(t, S)
  PROVE  /\ WF(v, p) /\ Linked(v) /\ v.head = t.head /\ InLists(v) = InLists(t) \ S
         /\ v.applied = Below(t.applied, S) /\ Elems(v.hidden) = Elems(t.hidden) \ S
         /\ Elems(t.unapplied) \ S \subseteq Elems(v.unapplied)
         /\ v.base = t.base
         /\ \A n \in Names \ S : v.patches[n] = t.patches[n]
<1>1. t \in Transactions
  BY DEF WF
<1>2. WF(v, p) /\ InLists(v) = InLists(t) \ S
  BY DeleteOK
<1>3. /\ Linked(v) /\ v.head = t.head /\ v.applied = Below(t.applied, S)
      /\ \A n \in Names \ S : v.patches[n] = t.patches[n]
  BY <1>1, DeleteLinked DEF Kept
<1>4. v.hidden = Drop(t.hidden, S) /\ v.unapplied = Incidental(t, S) \o Drop(t.unapplied, S) /\ v.base = t.base
  BY <1>1 DEF DeletePatches, Transactions
<1>5. t.hidden \in Seq(Names) /\ t.unapplied \in Seq(Names) /\ Incidental(t, S) \in Seq(Names)
  BY <1>1, DeleteOK DEF Transactions
<1>6. Elems(v.hidden) = Elems(t.hidden) \ S
  BY <1>4, <1>5, DropElems
<1>7. Elems(t.unapplied) \ S \subseteq Elems(v.unapplied)
  <2>1. PICK a, b : a = Incidental(t, S) /\ b = Drop(t.unapplied, S)
    OBVIOUS
  <2>2. a \in Seq(Names) /\ b \in Seq(Names) /\ Elems(b) = Elems(t.unapplied) \ S
    BY <1>5, <2>1, DropElems
  <2>3. Elems(a \o b) = Elems(a) \cup Elems(b)
    BY <2>2, ConcatElems
  <2> QED BY <1>4, <2>1, <2>2, <2>3
<1> QED BY <1>2, <1>3, <1>4, <1>6, <1>7

LEMMA BelowNone ==
  ASSUME NEW S
  PROVE  Below(<<>>, S) = <<>>
<1>1. PICK s : s = <<>>
  OBVIOUS
<1>2. s \in Seq(Names) /\ Elems(s) = {}
  BY <1>1, NoElems
<1>3. Below(s, S) \in Seq(Names) /\ Elems(Below(s, S)) \subseteq Elems(s)
  BY <1>2, BelowFrom
<1> QED BY <1>1, <1>2, <1>3, NoneListed

\* The plan that is left after a batch.
LEMMA PlanStep ==
  ASSUME CmdForm, cmd.pc = "instruction", NEW plan, cmd' = [cmd EXCEPT !.plan = plan]
  PROVE  /\ Carries /\ cmd'.pc = "instruction" /\ cmd'.plan = plan
         /\ \A r : r.state.applied = <<>> /\ PlanFits(plan, r.state) => Fits(cmd', r)
<1>1. /\ cmd'.pc = "instruction" /\ cmd'.names = cmd.names /\ cmd'.target = cmd.target
      /\ cmd'.stashed = cmd.stashed /\ cmd'.plan = plan /\ cmd'.at = cmd.at
  BY DEF CmdForm, CmdFields
<1>2. Carries
  BY <1>1 DEF Carries
<1>3. ASSUME NEW r, r.state.applied = <<>>, PlanFits(plan, r.state) PROVE Fits(cmd', r)
  BY <1>1, <1>3 DEF Fits
<1> QED BY <1>1, <1>2, <1>3

LEMMA DeleteLinesIInv ==
  ASSUME IInv, DeleteLines
  PROVE  IInv'
<1>1. PICK x, S, t, y : /\ x = Within(NoWorktree) /\ S = Elems(Batch)
                        /\ t = DeletePatches(x.t, S) /\ y = With(x, t)
  OBVIOUS
<1>2. /\ AtLine({"delete"}) /\ Transacts(cmd, y, [cmd EXCEPT !.plan = Remaining])
      /\ stash' = stash /\ mine' = {}
  BY <1>1 DEF DeleteLines
<1>3. cmd.pc = "instruction"
  BY <1>2 DEF AtLine
<1>4. repo.state.applied = <<>> /\ PlanFits(cmd.plan, repo.state)
  BY <1>3, IInvFacts DEF Fits
<1>5. /\ S \subseteq InLists(repo.state)
      /\ \A v : /\ InLists(repo.state) \ S \subseteq InLists(v)
                /\ Elems(v.hidden) \subseteq Elems(repo.state.hidden) \cup S
                => PlanFits(Remaining, v)
  <2>1. Loops /\ InLists(repo.state) \subseteq Names
    BY IInvFacts, ListedIs
  <2> QED BY <1>1, <1>2, <1>4, <2>1, BatchFits
<1>6. Opened(x, repo)
  BY <1>1, WithinOpened, OptionTypes
<1>7. /\ WF(x.t, repo.state.patches) /\ Linked(x.t) /\ x.t.head = NoCommit
      /\ InLists(x.t) = InLists(repo.state) /\ x.t.applied = <<>> /\ x.t.hidden = repo.state.hidden
      /\ Good(repo.state)
  BY <1>4, <1>6, OpenedFacts DEF Opened
<1>8. \A n \in S \cap InLists(x.t) : repo.state.patches[n] # NoCommit
  BY <1>7, ListedIs DEF Good, HasPatch
<1>9. /\ WF(t, repo.state.patches) /\ Linked(t) /\ t.head = NoCommit
      /\ InLists(t) = InLists(repo.state) \ S
      /\ t.applied = <<>> /\ Elems(t.hidden) \subseteq Elems(repo.state.hidden)
  BY <1>1, <1>7, <1>8, DeleteFrom, BelowNone
<1>10. Ready(y) /\ y.t = t
  BY <1>1, <1>6, <1>9, WithOpened
<1>11. Progress
  BY Proceeds DEF Proceed, Rebasing
<1>12. ASSUME cmd' = [cmd EXCEPT !.plan = Remaining]
       PROVE  Carries /\ (Committed(y.t, repo') => Fits(cmd', repo'))
  <2>1. Committed(t, repo') => repo'.state.applied = <<>> /\ PlanFits(Remaining, repo'.state)
    BY <1>5, <1>9 DEF Committed, InLists
  <2> QED BY <1>3, <1>10, <1>12, <2>1, IInvFacts, PlanStep
<1>13. mine' \subseteq Files \X Contents
  BY <1>2
<1> QED BY <1>2, <1>10, <1>11, <1>12, <1>13, TransactIInv

\* hide_patches of patches that are not applied.
LEMMA HideOK ==
  ASSUME NEW t, NEW p, WF(t, p), Linked(t), NEW names \in Seq(Names), NoDuplicates(names),
         Elems(names) \subseteq Elems(t.unapplied), NEW v, v = HideUnapplied(t, names)
  PROVE  /\ WF(v, p) /\ Linked(v) /\ v.head = t.head /\ InLists(v) = InLists(t)
         /\ v.applied = t.applied /\ Elems(v.hidden) = Elems(t.hidden) \cup Elems(names)
<1>1. /\ t \in Transactions /\ t.applied \in Seq(Names) /\ t.unapplied \in Seq(Names)
      /\ t.hidden \in Seq(Names) /\ Distinct3(t.applied, t.unapplied, t.hidden)
  BY DEF WF, Transactions, Good
<1>2. PICK a, u, h : a = t.applied /\ u = Drop(t.unapplied, Elems(names)) /\ h = names \o t.hidden
  OBVIOUS
<1>3. u \in Seq(Names) /\ NoDuplicates(u) /\ Elems(u) = Elems(t.unapplied) \ Elems(names)
  BY <1>1, <1>2, DropElems DEF Distinct3
<1>4. /\ h \in Seq(Names) /\ Elems(h) = Elems(names) \cup Elems(t.hidden)
  BY <1>1, <1>2, ConcatElems
<1>5. NoDuplicates(h)
  <2>1. PICK d : d = t.hidden
    OBVIOUS
  <2>2. d \in Seq(Names) /\ NoDuplicates(d) /\ Elems(names) \cap Elems(d) = {}
    BY <1>1, <2>1 DEF Distinct3
  <2> QED BY <1>2, <2>1, <2>2, ConcatNoDup
<1>6. Distinct3(a, u, h)
  BY <1>1, <1>2, <1>3, <1>4, <1>5 DEF Distinct3
<1>7. v = [t EXCEPT !.applied = a, !.unapplied = u, !.hidden = h]
  BY <1>1, <1>2 DEF HideUnapplied, Transactions
<1>8. /\ v.applied = a /\ v.unapplied = u /\ v.hidden = h /\ v.patches = t.patches /\ v.head = t.head
      /\ v.touched = t.touched /\ v \in Transactions
  BY <1>1, <1>2, <1>3, <1>4, <1>7 DEF Transactions
<1>9. Elems(a) \cup Elems(u) \cup Elems(h) = InLists(t)
  BY <1>2, <1>3, <1>4 DEF InLists
<1>10. InLists(v) = InLists(t) /\ Distinct3(v.applied, v.unapplied, v.hidden)
  BY <1>6, <1>8, <1>9 DEF InLists
<1>11. Linked(v)
  BY <1>1, <1>2, <1>8, SameLinked
<1>12. WF(v, p)
  BY <1>8, <1>10, RelistOK
<1> QED BY <1>2, <1>4, <1>8, <1>10, <1>11, <1>12

LEMMA HideLinesIInv ==
  ASSUME IInv, HideLines
  PROVE  IInv'
<1>1. PICK x, b, t, y : x = Within(NoWorktree) /\ b = Batch /\ t = HideUnapplied(x.t, b) /\ y = With(x, t)
  OBVIOUS
<1>2. /\ AtLine({"hide"}) /\ Transacts(cmd, y, [cmd EXCEPT !.plan = Remaining])
      /\ stash' = stash /\ mine' = mine
  BY <1>1 DEF HideLines
<1>3. cmd.pc = "instruction" /\ Line.act = "hide"
  BY <1>2 DEF AtLine
<1>4. repo.state.applied = <<>> /\ PlanFits(cmd.plan, repo.state)
  BY <1>3, IInvFacts DEF Fits
<1>5. /\ b \in Seq(Names) /\ NoDuplicates(b) /\ Elems(b) \subseteq InLists(repo.state)
      /\ Elems(b) \cap Elems(repo.state.hidden) = {}
      /\ \A v : /\ InLists(repo.state) \ Elems(b) \subseteq InLists(v)
                /\ Elems(v.hidden) \subseteq Elems(repo.state.hidden) \cup Elems(b)
                => PlanFits(Remaining, v)
  <2>1. Loops /\ InLists(repo.state) \subseteq Names
    BY IInvFacts, ListedIs
  <2> QED BY <1>1, <1>2, <1>3, <1>4, <2>1, BatchFits
<1>6. Opened(x, repo)
  BY <1>1, WithinOpened, OptionTypes
<1>7. /\ WF(x.t, repo.state.patches) /\ Linked(x.t) /\ x.t.head = NoCommit
      /\ InLists(x.t) = InLists(repo.state) /\ x.t.applied = <<>> /\ x.t.hidden = repo.state.hidden
      /\ x.t.unapplied = repo.state.unapplied
  BY <1>4, <1>6, OpenedFacts DEF Opened
<1>8. Elems(b) \subseteq Elems(x.t.unapplied)
  BY <1>4, <1>5, <1>7, NoElems DEF InLists
<1>9. /\ WF(t, repo.state.patches) /\ Linked(t) /\ t.head = NoCommit /\ InLists(t) = InLists(repo.state)
      /\ t.applied = <<>> /\ Elems(t.hidden) = Elems(repo.state.hidden) \cup Elems(b)
  BY <1>1, <1>5, <1>7, <1>8, HideOK
<1>10. Ready(y) /\ y.t = t
  BY <1>1, <1>6, <1>9, WithOpened
<1>11. Progress
  BY Proceeds DEF Proceed, Rebasing
<1>12. ASSUME cmd' = [cmd EXCEPT !.plan = Remaining]
       PROVE  Carries /\ (Committed(y.t, repo') => Fits(cmd', repo'))
  <2>1. Committed(t, repo') => repo'.state.applied = <<>> /\ PlanFits(Remaining, repo'.state)
    BY <1>5, <1>9 DEF Committed, InLists
  <2> QED BY <1>3, <1>10, <1>12, <2>1, IInvFacts, PlanStep
<1> QED BY <1>2, <1>10, <1>11, <1>12, IInvFacts, TransactIInv

LEMMA RenameFields ==
  ASSUME NEW t \in Transactions, NEW n \in Names, NEW name \in Names, n # name,
         NEW v, v = RenamePatch(t, n, name)
  PROVE  /\ v.applied = Renamed(t.applied, n, name) /\ v.unapplied = Renamed(t.unapplied, n, name)
         /\ v.hidden = Renamed(t.hidden, n, name) /\ v.head = t.head /\ v.base = t.base
         /\ v.patches[name] = t.patches[n]
<1>1. PICK f : f = [Forget(t.patches, {n}) EXCEPT ![name] = t.patches[n]]
  OBVIOUS
<1>2. f[name] = t.patches[n]
  BY <1>1 DEF Forget
<1>3. v = [t EXCEPT !.applied = Renamed(t.applied, n, name),
                    !.unapplied = Renamed(t.unapplied, n, name),
                    !.hidden = Renamed(t.hidden, n, name),
                    !.patches = f,
                    !.touched = t.touched \cup {n, name}]
  BY <1>1 DEF RenamePatch
<1> QED BY <1>2, <1>3 DEF Transactions

LEMMA SetPatchFields ==
  ASSUME NEW t \in Transactions, NEW n, NEW c, NEW v, v = SetPatch(t, n, c)
  PROVE  /\ v.applied = t.applied /\ v.unapplied = t.unapplied /\ v.hidden = t.hidden
         /\ v.head = t.head /\ v.base = t.base
BY DEF SetPatch, Transactions

\* The patch n becomes the commit c called `name', or is only renamed.
Edited(t, n, name, c, v) ==
  LET u == IF name = n THEN t ELSE RenamePatch(t, n, name)
  IN  v = u \/ v = UpdatePatch(u, name, c)

\* It is the topmost one or not applied, the name is free, and the parent is the same.
Editable(t, p, n, name, c) ==
  /\ WF(t, p) /\ Linked(t) /\ n \in InLists(t) /\ p[n] # NoCommit
  /\ n \in Elems(t.applied) => n = t.applied[Len(t.applied)]
  /\ name \in Names /\ (name = n \/ name \notin InLists(t))
  /\ c \in Commits /\ HasParent(c) /\ Parent(c) = Parent(t.patches[n])

LEMMA EditedOK ==
  ASSUME NEW t, NEW p, NEW n, NEW name, NEW c, Editable(t, p, n, name, c), NEW v, Edited(t, n, name, c, v)
  PROVE  /\ WF(v, p) /\ Linked(v) /\ v.head = t.head /\ InLists(v) = (InLists(t) \ {n}) \cup {name}
         /\ Elems(t.unapplied) \ {n} \subseteq Elems(v.unapplied)
         /\ Elems(v.hidden) \subseteq Elems(t.hidden) \cup {name}
         /\ t.applied = <<>> => v.applied = <<>>
<1> USE DEF Editable
<1>1. /\ t \in Transactions /\ Distinct3(t.applied, t.unapplied, t.hidden)
      /\ t.applied \in Seq(Names) /\ t.unapplied \in Seq(Names) /\ t.hidden \in Seq(Names)
  BY DEF WF, Good, Transactions
<1>2. n \in Names
  BY <1>1, ElemsIff DEF InLists
<1>3. PICK u : u = IF name = n THEN t ELSE RenamePatch(t, n, name)
  OBVIOUS
<1>4. /\ WF(u, p) /\ Linked(u) /\ u.head = t.head /\ InLists(u) = (InLists(t) \ {n}) \cup {name}
      /\ Elems(t.unapplied) \ {n} \subseteq Elems(u.unapplied)
      /\ Elems(u.hidden) \subseteq Elems(t.hidden) \cup {name}
      /\ t.applied = <<>> => u.applied = <<>>
      /\ u.patches[name] = t.patches[n]
      /\ name \in Elems(u.applied) => name = u.applied[Len(u.applied)]
  <2>1. CASE name = n
    BY <1>3, <2>1
  <2>2. CASE name # n
    <3>1. u = RenamePatch(t, n, name) /\ name \notin InLists(t)
      BY <1>3, <2>2
    <3>2. /\ u.applied = Renamed(t.applied, n, name) /\ u.unapplied = Renamed(t.unapplied, n, name)
          /\ u.hidden = Renamed(t.hidden, n, name) /\ u.head = t.head /\ u.patches[name] = t.patches[n]
      BY <1>1, <1>2, <2>2, <3>1, RenameFields
    <3>3. WF(u, p)
      BY <3>1, RenameOK
    <3>4. Linked(u)
      <4>1. name \notin Elems(t.applied)
        BY <3>1 DEF InLists
      <4> QED BY <1>1, <1>2, <3>1, <4>1, RenameLinked
    <3>5. /\ Elems(u.applied) = IF n \in Elems(t.applied) THEN (Elems(t.applied) \ {n}) \cup {name} ELSE Elems(t.applied)
          /\ Elems(u.unapplied) = IF n \in Elems(t.unapplied) THEN (Elems(t.unapplied) \ {n}) \cup {name} ELSE Elems(t.unapplied)
          /\ Elems(u.hidden) = IF n \in Elems(t.hidden) THEN (Elems(t.hidden) \ {n}) \cup {name} ELSE Elems(t.hidden)
          /\ u.applied \in Seq(Names)
      <4>1. ASSUME NEW s \in Seq(Names)
            PROVE  /\ Renamed(s, n, name) \in Seq(Names)
                   /\ Elems(Renamed(s, n, name)) = IF n \in Elems(s) THEN (Elems(s) \ {n}) \cup {name} ELSE Elems(s)
        BY <1>2, RenamedElems
      <4> QED BY <1>1, <3>2, <4>1
    <3>6. InLists(u) = (InLists(t) \ {n}) \cup {name}
      BY <3>5 DEF InLists
    <3>7. t.applied = <<>> => u.applied = <<>>
      BY <3>5, NoElems, NoneListed
    <3>8. name \in Elems(u.applied) => name = u.applied[Len(u.applied)]
      <4>1. SUFFICES ASSUME name \in Elems(u.applied) PROVE name = u.applied[Len(u.applied)]
        OBVIOUS
      <4>2. n \in Elems(t.applied) /\ n = t.applied[Len(t.applied)]
        BY <3>1, <3>5, <4>1 DEF InLists
      <4>3. DOMAIN u.applied = DOMAIN t.applied /\ Len(t.applied) \in DOMAIN t.applied
        BY <1>1, <3>2, <4>2, ElemsIff DEF Renamed
      <4>4. Len(u.applied) = Len(t.applied)
        BY <1>1, <3>5, <4>3
      <4> QED BY <3>2, <4>2, <4>3, <4>4 DEF Renamed
    <3> QED BY <3>2, <3>3, <3>4, <3>5, <3>6, <3>7, <3>8
  <2> QED BY <2>1, <2>2
<1>5. CASE v = u
  BY <1>4, <1>5
<1>6. CASE v = UpdatePatch(u, name, c)
  <2>1. v = SetPatch(u, name, c)
    BY <1>6 DEF UpdatePatch
  <2>2. u \in Transactions /\ NoDuplicates(u.applied) /\ name \in InLists(u)
    BY <1>4 DEF WF, Good, Distinct3
  <2>3. WF(v, p) /\ InLists(v) = InLists(u)
    BY <1>4, <2>1, <2>2, SetPatchOK
  <2>4. Parent(c) = Parent(u.patches[name])
    BY <1>4
  <2>5. Linked(v)
    BY <1>4, <1>6, <2>2, <2>4, UpdateLinked
  <2>6. v.applied = u.applied /\ v.unapplied = u.unapplied /\ v.hidden = u.hidden /\ v.head = u.head
    BY <2>1, <2>2, SetPatchFields
  <2> QED BY <1>4, <2>3, <2>5, <2>6
<1> QED BY <1>3, <1>5, <1>6 DEF Edited

\* A plan with another name for one of its lines, that no other line has.
LEMMA RenamedPlan ==
  ASSUME NEW plan, NEW s, PlanFits(plan, s), NEW k \in 1..Len(plan), NEW name \in Names,
         \A i \in 1..Len(plan) : i # k => plan[i].name # name,
         NEW l \in Lines, l.name = name, l.act = "keep",
         NEW r, Replaced(plan, k, l, r), NEW v, name \in InLists(v),
         \A i \in 1..Len(plan) : i # k => plan[i].name \in InLists(v),
         Elems(v.hidden) \subseteq Elems(s.hidden) \cup {name}
  PROVE  PlanFits(r, v)
<1>1. plan \in Seq(Lines) /\ IsSeq(plan)
  BY DEF PlanFits, IsSeq
<1>2. PICK n : n = Len(plan)
  OBVIOUS
<1>3. n \in Nat /\ k \in 1..n
  BY <1>1, <1>2
<1>4. IsSeq(r) /\ Len(r) = n /\ \A i \in 1..n : r[i] = IF i = k THEN l ELSE plan[i]
  BY <1>1, <1>2, ReplacedSeq
<1>5. r \in Seq(Lines)
  <2>1. PICK T : r \in Seq(T)
    BY <1>4 DEF IsSeq
  <2>2. r \in [1..n -> Lines]
    BY <1>1, <1>2, <1>4, <2>1
  <2> QED BY <1>3, <2>2
<1>6. /\ \A i, j \in 1..n : plan[i].name = plan[j].name => i = j
      /\ \A i \in 1..n : plan[i].act = "hide" => plan[i].name \notin Elems(s.hidden)
  BY <1>2 DEF PlanFits
<1>7. \A i \in 1..n : i # k => plan[i].name # name /\ plan[i].name \in InLists(v)
  BY <1>2
<1>8. \A i, j \in 1..n : r[i].name = r[j].name => i = j
  BY <1>4, <1>6, <1>7
<1>9. \A i \in 1..n : r[i].name \in InLists(v)
  BY <1>4, <1>7
<1>10. \A i \in 1..n : r[i].act = "hide" => r[i].name \notin Elems(v.hidden)
  BY <1>4, <1>6, <1>7
<1> QED BY <1>4, <1>5, <1>8, <1>9, <1>10 DEF PlanFits

LEMMA FreeNames ==
  ASSUME IInv
  PROVE  Elems(Free(NewNames)) = Elems(NewNames) \ InLists(repo.state) /\ Elems(NewNames) \subseteq Names
<1>1. NewNames \in Seq(Names)
  BY InputsAssumption
<1> QED BY <1>1, DropElems, ElemsIff, ListedIs DEF Free

\* The trees that an editor leaves.
LEMMA EditedTreesType ==
  ASSUME NEW tree \in Trees
  PROVE  EditedTrees(tree) \subseteq Trees
<1>1. \A c \in Targets : Tree(c) \in Trees
  BY InputsAssumption, CommitTypes
<1> QED BY <1>1 DEF EditedTrees

LEMMA EditLineIInv ==
  ASSUME IInv, EditLine
  PROVE  IInv'
<1>1. AtLine({"edit"}) /\ stash' = stash /\ mine' \subseteq Files \X Contents
  <2>1. AtLine({"edit"}) /\ stash' = stash
    BY DEF EditLine
  <2>2. mine' = mine \/ mine' = {}
    BY Zenon DEF EditLine
  <2> QED BY <2>1, <2>2, IInvFacts
<1>2. cmd.pc = "instruction"
  BY <1>1 DEF AtLine
<1>3. repo.state.applied = <<>> /\ PlanFits(cmd.plan, repo.state)
  BY <1>2, IInvFacts DEF Fits
<1>4. cmd.at \in 1..Len(cmd.plan)
  BY <1>1, IInvFacts, RemainingLength
<1>5. CASE Ends(cmd, "error") /\ UNCHANGED repo
  BY <1>1, <1>5, EndsForm, IInvFacts, EndIInv DEF Hows
<1>6. PICK n : n = Line.name
  OBVIOUS
<1>7. n \in InLists(repo.state) /\ n \in Names /\ n = cmd.plan[cmd.at].name
  BY <1>3, <1>4, <1>6, ListedIs DEF PlanFits, Line
<1>7a. EditedTrees(Tree(repo.state.patches[n])) \subseteq Trees
  <2>1. PICK s : s = repo.state
    OBVIOUS
  <2>2. Good(s) /\ s.patches \in PatchMaps /\ n \in InLists(s)
    BY <1>7, <2>1, IInvFacts DEF Sound, States
  <2>3. Tree(s.patches[n]) \in Trees
    BY <1>7, <2>2, PatchCommit, CommitTypes
  <2> QED BY <2>1, <2>3, EditedTreesType
<1>8. ASSUME NEW name \in {n} \cup Elems(Free(NewNames)), NEW meta \in Metas, NEW tree \in Trees, NEW x, x = Within(NoWorktree),
             NEW c, c = x.t.patches[n], NEW new, new = MkCommit(Parent(c), tree, meta),
             NEW u, Edited(x.t, n, name, new, u), NEW y, y = With(x, u),
             Transacts(cmd, y, [cmd EXCEPT !.plan[cmd.at] = [@ EXCEPT !.act = "keep", !.name = name],
                                           !.at = @ + 1])
      PROVE  IInv'
  <2>1. name \in Names /\ (name = n \/ name \notin InLists(repo.state))
    <3>1. NewNames \in Seq(Names)
      BY InputsAssumption
    <3>2. Elems(Free(NewNames)) = Elems(NewNames) \ InLists(repo.state) /\ Elems(NewNames) \subseteq Names
      BY <3>1, DropElems, ElemsIff, ListedIs DEF Free
    <3> QED BY <1>7, <3>2
  <2>2. Opened(x, repo)
    BY <1>8, WithinOpened, OptionTypes
  <2>3. /\ WF(x.t, repo.state.patches) /\ Linked(x.t) /\ x.t.head = NoCommit /\ Good(x.t)
        /\ InLists(x.t) = InLists(repo.state) /\ x.t.applied = <<>> /\ x.t.hidden = repo.state.hidden
        /\ x.t.patches = repo.state.patches /\ x.t.patches \in PatchMaps /\ Good(repo.state)
    BY <1>3, <2>2, OpenedFacts DEF Opened
  <2>4. c \in Commits /\ HasParent(c) /\ Parent(c) \in Commits
    BY <1>7, <1>8, <2>3, PatchCommit
  <2>5. new \in Commits /\ HasParent(new) /\ Parent(new) = Parent(x.t.patches[n])
    <3>1. PICK up : up = Parent(c)
      OBVIOUS
    <3>2. up \in Commits /\ new = MkCommit(up, tree, meta)
      BY <1>8, <2>4, <3>1
    <3>3. new \in Commits /\ HasParent(new)
      BY <3>2, CommitTypes
    <3>4. Parent(new) = up
      BY <3>2, ParentOfNew
    <3> QED BY <1>8, <3>1, <3>3, <3>4
  <2>6. repo.state.patches[n] # NoCommit /\ n \notin Elems(x.t.applied)
    BY <1>7, <2>3, NoElems DEF Good, HasPatch
  <2>7. /\ WF(u, repo.state.patches) /\ Linked(u) /\ u.head = NoCommit /\ u.applied = <<>>
        /\ InLists(u) = (InLists(repo.state) \ {n}) \cup {name}
        /\ Elems(u.hidden) \subseteq Elems(repo.state.hidden) \cup {name}
    <3>1. PICK t, p : t = x.t /\ p = repo.state.patches
      OBVIOUS
    <3>2. Editable(t, p, n, name, new) /\ Edited(t, n, name, new, u)
      BY <1>7, <1>8, <2>1, <2>3, <2>5, <2>6, <3>1 DEF Editable
    <3>3. /\ WF(u, p) /\ Linked(u) /\ u.head = t.head /\ InLists(u) = (InLists(t) \ {n}) \cup {name}
          /\ Elems(u.hidden) \subseteq Elems(t.hidden) \cup {name}
          /\ t.applied = <<>> => u.applied = <<>>
      BY ONLY <3>2, EditedOK
    <3> QED BY <2>3, <3>1, <3>3
  <2>8. Ready(y) /\ y.t = u
    BY <1>8, <2>2, <2>7, WithOpened
  <2>9. Progress
    BY Proceeds DEF Proceed, Rebasing
  <2>10. PICK next : next = [cmd EXCEPT !.plan[cmd.at] = [@ EXCEPT !.act = "keep", !.name = name], !.at = @ + 1]
    OBVIOUS
  <2>11. ASSUME cmd' = next
         PROVE  Carries /\ (Committed(u, repo') => Fits(cmd', repo'))
    <3>1. PICK l : l = [cmd.plan[cmd.at] EXCEPT !.act = "keep", !.name = name]
      OBVIOUS
    <3>2. cmd.plan[cmd.at] \in Lines
      BY <1>3, <1>4 DEF PlanFits
    <3>3. l \in Lines /\ l.name = name /\ l.act = "keep"
      BY <2>1, <3>1, <3>2 DEF Lines, Acts
    <3>4. PICK r : r = [cmd.plan EXCEPT ![cmd.at] = l]
      OBVIOUS
    <3>5. /\ cmd'.pc = "instruction" /\ cmd'.names = cmd.names /\ cmd'.target = cmd.target
          /\ cmd'.stashed = cmd.stashed /\ cmd'.plan = r
      BY <1>2, <2>10, <2>11, <3>1, <3>4, IInvFacts DEF CmdForm, CmdFields
    <3>6. Carries
      BY <3>5 DEF Carries
    <3>7. Replaced(cmd.plan, cmd.at, l, r)
      BY <3>4 DEF Replaced
    <3>8. Committed(u, repo') => /\ InLists(repo'.state) = (InLists(repo.state) \ {n}) \cup {name}
                                 /\ Elems(repo'.state.hidden) \subseteq Elems(repo.state.hidden) \cup {name}
                                 /\ repo'.state.applied = <<>>
      BY <2>7 DEF Committed, InLists
    <3>9. Committed(u, repo') => PlanFits(r, repo'.state)
      <4>1. PICK plan, s, k, v : plan = cmd.plan /\ s = repo.state /\ k = cmd.at /\ v = repo'.state
        OBVIOUS
      <4>2. PlanFits(plan, s) /\ k \in 1..Len(plan) /\ plan[k].name = n /\ Replaced(plan, k, l, r)
        BY <1>3, <1>4, <1>7, <3>7, <4>1
      <4>3. \A i \in 1..Len(plan) : i # k => plan[i].name \in InLists(s) \ {n}
        BY <4>2 DEF PlanFits
      <4>4. \A i \in 1..Len(plan) : i # k => plan[i].name # name
        BY <2>1, <4>1, <4>3
      <4>5. ASSUME Committed(u, repo')
            PROVE  /\ name \in InLists(v) /\ \A i \in 1..Len(plan) : i # k => plan[i].name \in InLists(v)
                   /\ Elems(v.hidden) \subseteq Elems(s.hidden) \cup {name}
        BY <3>8, <4>1, <4>3, <4>5
      <4>6. Committed(u, repo') => PlanFits(r, v)
        BY <2>1, <3>3, <4>2, <4>4, <4>5, RenamedPlan
      <4> QED BY <4>1, <4>6
    <3>10. Committed(u, repo') => Fits(cmd', repo')
      BY <3>5, <3>8, <3>9 DEF Fits
    <3> QED BY <3>6, <3>10
  <2> QED BY <1>1, <1>8, <2>8, <2>9, <2>10, <2>11, IInvFacts, TransactIInv
<1>9. \/ Ends(cmd, "error") /\ UNCHANGED repo
      \/ \E name \in {n} \cup Elems(Free(NewNames)), meta \in Metas,
            tree \in EditedTrees(Tree(repo.state.patches[n])) : \E x, c, new, u, y :
           /\ x = Within(NoWorktree) /\ c = x.t.patches[n] /\ new = MkCommit(Parent(c), tree, meta)
           /\ Edited(x.t, n, name, new, u) /\ y = With(x, u)
           /\ Transacts(cmd, y, [cmd EXCEPT !.plan[cmd.at] = [@ EXCEPT !.act = "keep", !.name = name],
                                            !.at = @ + 1])
  BY <1>6, Zenon DEF EditLine, Edited
<1>10. \A tree \in EditedTrees(Tree(repo.state.patches[n])) : tree \in Trees
  BY <1>7a
<1> QED BY <1>5, <1>8, <1>9, <1>10, ZenonT(40)
-----------------------------------------------------------------------------
(* Squashing. *)

Sums == [ok : BOOLEAN, tree : Trees]

\* One more diff on the tree so far.
SumStep(t, n, y) ==
  LET c == t.patches[n]
      p == Tree(Parent(c))
  IN  [ok |-> y.ok /\ ApplyClean(p, y.tree, Tree(c)), tree |-> MergeTree(p, y.tree, Tree(c))]

LEMMA SumStepType ==
  ASSUME NEW t, Good(t), t.patches \in PatchMaps, NEW n \in InLists(t), n \in Names, NEW y \in Sums
  PROVE  SumStep(t, n, y) \in Sums
<1>1. PICK c, p : c = t.patches[n] /\ p = Tree(Parent(c))
  OBVIOUS
<1>2. c \in Commits /\ Tree(c) \in Trees
  BY <1>1, PatchCommit, CommitTypes
<1>3. PICK b, u : b = (y.ok /\ ApplyClean(p, y.tree, Tree(c))) /\ u = MergeTree(p, y.tree, Tree(c))
  OBVIOUS
<1>4. b \in BOOLEAN
  BY <1>3 DEF Sums
<1>5. y.tree \in Trees
  BY DEF Sums
<1>6. u \in Trees
  BY <1>2, <1>3, <1>5 DEF MergeTree, Trees
<1>7. SumStep(t, n, y) = [ok |-> b, tree |-> u]
  BY <1>1, <1>3, Zenon DEF SumStep
<1> QED BY <1>4, <1>6, <1>7 DEF Sums

\* try_squash gives a tree, for lists of any length.
LEMMA TrySquashType ==
  ASSUME NEW t, Good(t), t.patches \in PatchMaps, NEW names \in Seq(Names), names # <<>>,
         Elems(names) \subseteq InLists(t)
  PROVE  TrySquash(t, names).tree \in Trees
<1> DEFINE a == [ok |-> TRUE, tree |-> Tree(t.patches[names[1]])]
           IsRun(f) == f = [k \in 0..(Len(names) - 1) |->
                              IF k = 0 THEN a
                              ELSE LET c == t.patches[names[k + 1]]
                                       p == Tree(Parent(c))
                                   IN  [ok   |-> f[k - 1].ok /\ ApplyClean(p, f[k - 1].tree, Tree(c)),
                                        tree |-> MergeTree(p, f[k - 1].tree, Tree(c))]]
<1>1. PICK n : n = Len(names) - 1
  OBVIOUS
<1>2. PICK g : g = CHOOSE f : IsRun(f)
  OBVIOUS
<1>3. TrySquash(t, names) = g[n]
  BY <1>1, <1>2, Zenon DEF TrySquash
<1>4. n \in Nat /\ Len(names) = n + 1 /\ \A k \in 0..n : k + 1 \in 1..Len(names)
  BY <1>1
<1>5. \A k \in 0..n : names[k + 1] \in Names /\ names[k + 1] \in InLists(t)
  BY <1>4, ElemsIff
<1>6. a \in Sums
  <2>1. PICK c : c = t.patches[names[1]]
    OBVIOUS
  <2>2. Tree(c) \in Trees
    <3>1. names[1] \in Names /\ names[1] \in InLists(t)
      BY <1>4, <1>5
    <3> QED BY <2>1, <3>1, PatchCommit, CommitTypes
  <2> QED BY <2>1, <2>2 DEF Sums
<1> HIDE DEF a
<1>7. PICK V : V = [k \in 0..n |-> Sums]
  OBVIOUS
<1>8. PICK step : step = [k \in 1..n |-> [y \in V[k - 1] |-> SumStep(t, names[k + 1], y)]]
  OBVIOUS
<1>9. step \in Between(n, V)
  <2>1. ASSUME NEW k \in 1..n PROVE step[k] \in [V[k - 1] -> V[k]]
    <3>1. k - 1 \in 0..n /\ k \in 0..n
      BY <1>4
    <3>2. V[k - 1] = Sums /\ V[k] = Sums
      BY <1>7, <3>1
    <3>3. \A y \in Sums : SumStep(t, names[k + 1], y) \in Sums
      BY <1>5, <3>1, SumStepType
    <3>4. step[k] = [y \in Sums |-> SumStep(t, names[k + 1], y)]
      BY <1>8, <3>2
    <3> QED BY <3>2, <3>3, <3>4
  <2> QED BY <1>8, <2>1 DEF Between
<1>10. a \in V[0]
  BY <1>4, <1>6, <1>7
<1>11. PICK h : /\ h = [k \in 0..n |-> h[k]] /\ h[0] = a
                /\ \A k \in 1..n : h[k] = step[k][h[k - 1]]
                /\ \A k \in 0..n : h[k] \in V[k]
  <2>1. \E f : Runs(n, a, step, f) /\ \A k \in 0..n : f[k] \in V[k]
    BY <1>4, <1>9, <1>10, IteratesWithin
  <2> QED BY <2>1 DEF Runs
<1>12. \A k \in 1..n : h[k] = SumStep(t, names[k + 1], h[k - 1])
  <2> TAKE k \in 1..n
  <2>1. k - 1 \in 0..n
    BY <1>4
  <2> QED BY <1>8, <1>11, <2>1
<1>13. IsRun(h)
  <2>1. \A k \in 0..n : k # 0 => k \in 1..n
    BY <1>4
  <2>2. \A k \in 0..n : h[k] = IF k = 0 THEN a ELSE SumStep(t, names[k + 1], h[k - 1])
    BY <1>11, <1>12, <2>1, Zenon
  <2> QED BY <1>1, <1>11, <2>2, Zenon DEF SumStep
<1>14. IsRun(g)
  <2> HIDE DEF IsRun
  <2> QED BY <1>2, <1>13, Zenon
<1>15. g[0] = a /\ \A k \in 1..n : g[k] = SumStep(t, names[k + 1], g[k - 1])
  <2>1. 0 \in 0..n /\ \A k \in 1..n : k \in 0..n /\ k # 0
    BY <1>4
  <2> QED BY <1>1, <1>14, <2>1, Zenon DEF SumStep
<1> HIDE DEF IsRun
<1>16. \A k \in 0..n : g[k] \in V[k]
  <2>1. \A k \in 1..n : g[k - 1] \in V[k - 1] => g[k] = step[k][g[k - 1]]
    BY <1>8, <1>15
  <2> QED BY <1>4, <1>9, <1>10, <1>15, <2>1, StaysWithin
<1>17. g[n] \in Sums
  BY <1>4, <1>7, <1>16
<1> QED BY <1>3, <1>17 DEF Sums

\* The patches of S become one, n, which is not applied.
Joins(t, S, n, c, v) == v = NewUnapplied(DeletePatches(t, S), n, c, 0)

Joinable(t, p, S, n, c) ==
  /\ WF(t, p) /\ Linked(t) /\ n \in Names /\ (n \in S \/ n \notin InLists(t)) /\ c \in Commits /\ HasParent(c)
  /\ \A m \in S \cap InLists(t) : p[m] # NoCommit

LEMMA JoinsOK ==
  ASSUME NEW t, NEW p, NEW S, NEW n, NEW c, Joinable(t, p, S, n, c), NEW v, Joins(t, S, n, c, v)
  PROVE  /\ WF(v, p) /\ Linked(v) /\ v.head = t.head /\ InLists(v) = (InLists(t) \ S) \cup {n}
         /\ v.applied = Below(t.applied, S) /\ Elems(v.hidden) \subseteq Elems(t.hidden)
         /\ v.base = t.base
<1>0. /\ WF(t, p) /\ Linked(t) /\ n \in Names /\ (n \in S \/ n \notin InLists(t)) /\ c \in Commits /\ HasParent(c)
      /\ \A m \in S \cap InLists(t) : p[m] # NoCommit
  BY DEF Joinable
<1>1. PICK d : d = DeletePatches(t, S)
  OBVIOUS
<1>2. /\ WF(d, p) /\ Linked(d) /\ d.head = t.head /\ InLists(d) = InLists(t) \ S
      /\ d.applied = Below(t.applied, S) /\ Elems(d.hidden) = Elems(t.hidden) \ S /\ d.base = t.base
  BY <1>0, <1>1, DeleteFrom
<1>3. d \in Transactions /\ n \notin InLists(d) /\ n \notin Elems(d.applied) /\ Good(d)
  BY <1>0, <1>2 DEF WF, InLists
<1>4. v = NewUnapplied(d, n, c, 0)
  BY <1>1 DEF Joins
<1>5. WF(v, p)
  <2>1. PICK pos : pos = 0
    OBVIOUS
  <2>2. pos \in 0..Len(d.unapplied)
    BY <1>3, <2>1 DEF Transactions
  <2>3. v = NewUnapplied(d, n, c, pos)
    BY <1>4, <2>1
  <2> QED BY <1>0, <1>2, <1>3, <2>2, <2>3, NewUnappliedOK
<1>6. Linked(v) /\ v.head = d.head
  BY <1>0, <1>2, <1>3, <1>4, NewUnappliedLinked DEF Kept
<1>7. /\ v.applied = d.applied /\ v.hidden = d.hidden /\ v.patches = [d.patches EXCEPT ![n] = c]
      /\ v.base = d.base
  <2>1. PICK w : w = SetPatch(d, n, c)
    OBVIOUS
  <2>2. /\ w.applied = d.applied /\ w.hidden = d.hidden /\ w.patches = [d.patches EXCEPT ![n] = c]
        /\ w.base = d.base
    BY <1>3, <2>1 DEF SetPatch, Transactions
  <2>3. \E u : v = [w EXCEPT !.unapplied = u]
    BY <1>4, <2>1 DEF NewUnapplied
  <2>4. v.applied = w.applied /\ v.hidden = w.hidden /\ v.patches = w.patches /\ v.base = w.base
    BY <2>3
  <2> QED BY <2>2, <2>4
<1>8. InLists(v) = InLists(d) \cup {n}
  <2>1. Good(v) /\ v \in Transactions
    BY <1>5 DEF WF
  <2>2. InLists(v) \subseteq Names /\ InLists(d) \subseteq Names
    BY <1>3, <2>1, ElemsIff DEF InLists, Transactions
  <2>3. d.patches \in [Names -> MaybeCommits] /\ c # NoCommit
    BY <1>0, <1>3, CommitTypes DEF Transactions, PatchMaps
  <2>4. \A m \in Names : v.patches[m] = IF m = n THEN c ELSE d.patches[m]
    BY <1>0, <1>7, <2>3
  <2>5. \A m \in Names : (v.patches[m] # NoCommit <=> m \in InLists(v)) /\ (d.patches[m] # NoCommit <=> m \in InLists(d))
    BY <1>3, <2>1 DEF Good, HasPatch
  <2>6. \A m \in Names : m \in InLists(v) <=> m \in InLists(d) \cup {n}
    BY <1>0, <2>3, <2>4, <2>5
  <2> QED BY <1>0, <2>2, <2>6
<1> QED BY <1>0, <1>2, <1>5, <1>6, <1>7, <1>8

LEMMA FailReady ==
  ASSUME NEW x, Ready(x), NEW y, y = Fail(x, "error")
  PROVE  /\ Ready(y) /\ y.r = x.r /\ y.o = x.o /\ y.err # "none"
         /\ x.err = "none" => y.err = "error"
<1>1. CASE x.err # "none"
  BY <1>1 DEF Fail
<1>2. CASE x.err = "none"
  <2>1. y = [x EXCEPT !.err = "error"] /\ x \in Xacts
    BY <1>2 DEF Fail, Ready
  <2>2. y \in Xacts /\ y.t = x.t /\ y.r = x.r /\ y.o = x.o /\ y.err = "error"
    BY <2>1 DEF Xacts, Errs
  <2> QED BY <1>2, <2>2 DEF Ready, HeadSet
<1> QED BY <1>1, <1>2

\* No patch is applied, and one called `name' stands for all of the names.
Squashed(r, o, names, name, y) ==
  /\ Ready(y) /\ y.r = r /\ y.o = o
  /\ ~o.iw => y.wd = r.wd
  /\ y.err = "none" => /\ y.t.applied = <<>> /\ Elems(y.t.hidden) \subseteq Elems(r.state.hidden)
                       /\ y.t.base = r.branch
                       /\ InLists(y.t) = (InLists(r.state) \ Elems(names)) \cup {name}

\* The two places where squash() makes the new patch.
LEMMA SquashedInto ==
  ASSUME NEW r, NEW x, Ready(x), x.r = r, x.err = "none", NEW names \in Seq(Names), names # <<>>,
         Elems(names) \subseteq InLists(r.state), InLists(x.t) = InLists(r.state),
         Elems(x.t.hidden) \subseteq Elems(r.state.hidden), Elems(x.t.applied) \subseteq Elems(names),
         ~x.o.iw => x.wd = r.wd, x.t.base = r.branch,
         NEW meta \in Metas, NEW name \in Names, name \in Elems(names) \/ name \notin InLists(r.state), NEW v,
         v = NewUnapplied(DeletePatches(x.t, Elems(names)), name,
                          MkCommit(Parent(x.t.patches[names[1]]), TrySquash(x.t, names).tree, meta), 0),
         NEW y, y = With(x, v)
  PROVE  Squashed(r, x.o, names, name, y)
<1>1. PICK S, n, c, t, p : /\ S = Elems(names) /\ n = name /\ t = x.t /\ p = r.state.patches
                           /\ c = MkCommit(Parent(x.t.patches[names[1]]), TrySquash(x.t, names).tree, meta)
  OBVIOUS
<1>2. /\ WF(t, p) /\ Linked(t) /\ Good(t) /\ t.patches \in PatchMaps /\ t.head = NoCommit
      /\ Good(r.state) /\ t.applied \in Seq(Names)
  BY <1>1 DEF Ready, WF, Transactions, HeadSet, Sound
<1>3. /\ n \in Names /\ (n \in S \/ n \notin InLists(t))
      /\ names[1] \in Names /\ names[1] \in InLists(t)
  BY <1>1, ElemsIff
<1>4. c \in Commits /\ HasParent(c)
  <2>1. Parent(t.patches[names[1]]) \in Commits
    BY <1>2, <1>3, PatchCommit
  <2>2. TrySquash(t, names).tree \in Trees
    BY <1>1, <1>2, TrySquashType
  <2> QED BY <1>1, <2>1, <2>2, CommitTypes
<1>5. \A m \in S \cap InLists(t) : p[m] # NoCommit
  <2>1. S \subseteq Names
    BY <1>1, ElemsIff
  <2> QED BY <1>1, <1>2, <2>1 DEF Good, HasPatch
<1>6. Joins(t, S, n, c, v)
  BY <1>1, Zenon DEF Joins
<1>7. /\ WF(v, p) /\ Linked(v) /\ v.head = t.head /\ InLists(v) = (InLists(t) \ S) \cup {n}
      /\ v.applied = Below(t.applied, S) /\ Elems(v.hidden) \subseteq Elems(t.hidden)
      /\ v.base = t.base
  <2>1. Joinable(t, p, S, n, c)
    BY <1>2, <1>3, <1>4, <1>5 DEF Joinable
  <2> QED BY ONLY <1>6, <2>1, JoinsOK
<1>8. v.applied = <<>>
  <2>1. PICK a : a = t.applied
    OBVIOUS
  <2>2. a \in Seq(Names) /\ Elems(a) \subseteq S
    BY <1>1, <1>2, <2>1
  <2>3. Below(a, S) \in Seq(Names) /\ Elems(Below(a, S)) = {}
    BY <2>2, BelowFrom
  <2> QED BY <1>7, <2>1, <2>3, NoneListed
<1>9. Ready(y) /\ y.r = r /\ y.t = v /\ y.o = x.o /\ y.wd = x.wd
  <2>1. x.err = "none" => WF(v, x.r.state.patches) /\ Linked(v) /\ v.head = NoCommit
    BY <1>1, <1>2, <1>7
  <2> QED BY <2>1, WithReady
<1> QED BY <1>1, <1>7, <1>8, <1>9 DEF Squashed

\* squash(), for any list of patches while none is applied.
LEMMA SquashOK ==
  ASSUME NEW x, NEW r, Opened(x, r), r.state.applied = <<>>, NEW names \in Seq(Names), names # <<>>,
         NoDuplicates(names), Elems(names) \subseteq InLists(r.state),
         NEW name \in Names, name \in Elems(names) \/ name \notin InLists(r.state), NEW meta \in Metas,
         NEW y, y = Squash(x, names, name, meta)
  PROVE  Squashed(r, x.o, names, name, y)
<1>1. PICK t, z, w : /\ t = PopPatches(x.t, Elems(names))
                     /\ z = With(x, t) /\ w = PushPatches(z, names, FALSE)
  OBVIOUS
<1> DEFINE joined(u) == NewUnapplied(DeletePatches(u, Elems(names)), name,
                                     MkCommit(Parent(u.patches[names[1]]), TrySquash(u, names).tree, meta), 0)
<1>2. \/ y = With(x, joined(x.t))
      \/ w.err # "none" /\ y = w
      \/ w.err = "none" /\ y = With(w, joined(w.t))
      \/ w.err = "none" /\ y = Fail(w, "error")
  BY <1>1, Zenon DEF Squash
<1>3. /\ WF(x.t, r.state.patches) /\ InLists(x.t) = InLists(r.state) /\ Good(x.t) /\ x.t.patches \in PatchMaps
      /\ Ready(x) /\ x.r = r /\ x.err = "none" /\ x.t.applied = <<>> /\ x.t.hidden = r.state.hidden
      /\ x.t.unapplied = r.state.unapplied /\ x.wd = r.wd
  BY OpenedFacts DEF Opened
<1>3a. x.t.base = r.branch
  BY <1>3 DEF Opened, Top, TopOf
<1>5. /\ WF(t, r.state.patches) /\ Linked(t) /\ t.head = NoCommit /\ InLists(t) = InLists(r.state)
      /\ t.applied = Below(r.state.applied, Elems(names)) /\ t.hidden = r.state.hidden
  BY <1>1, PopOpened
<1>6. t.applied = <<>>
  BY <1>5, BelowNone
<1>6a. t.base = r.branch
  BY <1>1, <1>3, <1>3a, PopTree DEF WF
<1>7. Ready(z) /\ z.t = t /\ z.r = r /\ z.err = "none" /\ z.o = x.o /\ z.wd = r.wd
  BY <1>1, <1>3, <1>5, WithOpened
<1>8. Pushable(z.t, names)
  BY <1>5, <1>6, <1>7, NoElems DEF Pushable, InLists
<1>9. PushAll(z, names, w)
  BY <1>1, <1>7, <1>8, PushPatchesOK
<1>10. /\ Ready(w) /\ w.r = r /\ w.o = x.o
       /\ ~x.o.iw => w.wd = r.wd
       /\ w.err = "none" => /\ w.t.base = r.branch
                            /\ Elems(w.t.applied) \subseteq Elems(names) /\ InLists(w.t) = InLists(r.state)
                            /\ Elems(w.t.hidden) \subseteq Elems(r.state.hidden)
  <2>1. ASSUME w.err = "none" PROVE w.t.applied = names
    <3>1. w.t.applied = <<>> \o names
      BY <1>6, <1>7, <1>9, <2>1 DEF PushAll
    <3> QED BY <3>1
  <2> QED BY <1>5, <1>6a, <1>7, <1>9, <2>1 DEF PushAll, Trails
<1>11. Elems(x.t.applied) \subseteq Elems(names) /\ Elems(x.t.hidden) \subseteq Elems(r.state.hidden)
  BY <1>3, NoElems
<1>12. CASE y = With(x, joined(x.t))
  <2>1. PICK v : v = joined(x.t)
    OBVIOUS
  <2> QED BY <1>3, <1>3a, <1>11, <1>12, <2>1, SquashedInto
<1>13. CASE w.err = "none" /\ y = With(w, joined(w.t))
  <2>1. PICK v : v = joined(w.t)
    OBVIOUS
  <2> QED BY <1>10, <1>13, <2>1, SquashedInto
<1> HIDE DEF joined
<1>14. CASE w.err # "none" /\ y = w
  BY <1>10, <1>14 DEF Squashed
<1>15. CASE w.err = "none" /\ y = Fail(w, "error")
  <2>1. y = [w EXCEPT !.err = "error"] /\ w \in Xacts
    BY <1>10, <1>15 DEF Fail, Ready
  <2>2. y.wd = w.wd
    BY <2>1 DEF Xacts
  <2> QED BY <1>10, <1>15, <2>2, FailReady DEF Squashed
<1> QED BY <1>2, <1>12, <1>13, <1>14, <1>15

LEMMA SquashLinesIInv ==
  ASSUME IInv, SquashLines
  PROVE  IInv'
<1>1. AtLine({"squash"}) /\ stash' = stash /\ mine' \subseteq Files \X Contents
  BY DEF SquashLines
<1>2. cmd.pc = "instruction" /\ Loops
  BY <1>1, IInvFacts DEF AtLine
<1>3. repo.state.applied = <<>> /\ PlanFits(cmd.plan, repo.state)
  BY <1>2, IInvFacts DEF Fits
<1>4. CASE Ends(cmd, "error") /\ repo' = repo
  BY <1>1, <1>4, EndsForm, IInvFacts, EndIInv DEF Hows
<1>5. ASSUME cmd.at > 1, NEW target, target = cmd.plan[cmd.at - 1].name, NEW b, b = Batch,
             NEW names, names = <<target>> \o b,
             NEW name \in Elems(names) \cup Elems(Free(NewNames)), NEW meta \in Metas,
             NEW l, l = [name |-> name, act |-> "keep", apply |-> Line.apply],
             Transacts(cmd, Squash(Within(NoWorktree), names, name, meta),
                       [cmd EXCEPT !.plan = [Remaining EXCEPT ![cmd.at - 1] = l]])
      PROVE  IInv'
  <2>1. PICK k, x, y, r :
          /\ k = cmd.at - 1 /\ target = cmd.plan[k].name /\ b = Batch /\ names = <<target>> \o b
          /\ x = Within(NoWorktree) /\ y = Squash(x, names, name, meta)
          /\ l = [name |-> name, act |-> "keep", apply |-> Line.apply]
          /\ r = [Remaining EXCEPT ![k] = l]
    BY <1>5
  <2>2. Transacts(cmd, y, [cmd EXCEPT !.plan = r])
    BY <1>5, <2>1
  <2>3. cmd.at \in 1..Len(cmd.plan) /\ Len(cmd.plan) \in Nat
    BY <1>1, <1>3, IInvFacts, RemainingLength DEF PlanFits
  <2>4. k \in 1..(cmd.at - 1) /\ k \in 1..Len(cmd.plan)
    BY <1>5, <2>1, <2>3
  <2>5. /\ b \in Seq(Names) /\ NoDuplicates(b) /\ Elems(b) \subseteq InLists(repo.state)
        /\ \A i \in 1..(cmd.at - 1) : cmd.plan[i].name \notin Elems(b)
        /\ \A i \in 1..Len(Remaining) : Remaining[i].name \notin Elems(b)
        /\ PlanFits(Remaining, repo.state)
    BY <1>1, <1>2, <1>3, <2>1, ListedIs, BatchFits
  <2>6. target \in InLists(repo.state) /\ target \in Names /\ target \notin Elems(b)
    BY <1>3, <2>1, <2>4, <2>5, ListedIs DEF PlanFits
  <2>7. PICK a : a = <<target>>
    OBVIOUS
  <2>8. a \in Seq(Names) /\ Elems(a) = {target} /\ NoDuplicates(a)
    BY <2>6, <2>7, OneElem
  <2>9. /\ names \in Seq(Names) /\ NoDuplicates(names) /\ Elems(names) = {target} \cup Elems(b)
        /\ names # <<>> /\ names[1] = target
    <3>1. names = a \o b
      BY <2>1, <2>7
    <3>2. Elems(a \o b) = Elems(a) \cup Elems(b) /\ NoDuplicates(a \o b)
      BY <2>5, <2>6, <2>8, ConcatElems, ConcatNoDup
    <3>3. names \in Seq(Names) /\ names # <<>> /\ names[1] = target
      BY <2>1, <2>5, <2>6
    <3> QED BY <2>8, <3>1, <3>2, <3>3
  <2>10. Opened(x, repo)
    BY <2>1, WithinOpened, OptionTypes
  <2>10a. name \in Names /\ (name \in Elems(names) \/ name \notin InLists(repo.state))
    BY <1>5, <2>9, FreeNames, ElemsIff
  <2>11. Squashed(repo, x.o, names, name, y)
    BY <1>3, <1>5, <2>1, <2>5, <2>6, <2>9, <2>10, <2>10a, SquashOK
  <2>12. Progress
    BY Proceeds DEF Proceed, Rebasing
  <2>13. ASSUME cmd' = [cmd EXCEPT !.plan = r]
         PROVE  Carries /\ (y.err = "none" /\ Committed(y.t, repo') => Fits(cmd', repo'))
    <3>1. Carries /\ \A q : q.state.applied = <<>> /\ PlanFits(r, q.state) => Fits(cmd', q)
      BY <1>2, <2>13, IInvFacts, PlanStep
    <3>2. ASSUME y.err = "none", Committed(y.t, repo')
          PROVE  repo'.state.applied = <<>> /\ PlanFits(r, repo'.state)
      <4>1. PICK v : v = repo'.state
        OBVIOUS
      <4>2. /\ v.applied = <<>> /\ Elems(v.hidden) \subseteq Elems(repo.state.hidden)
            /\ InLists(v) = (InLists(repo.state) \ Elems(names)) \cup {name}
        BY <2>9, <2>11, <3>2, <4>1 DEF Squashed, Committed, InLists
      <4>3. PICK p, s : p = Remaining /\ s = repo.state
        OBVIOUS
      <4>4. k \in 1..Len(p) /\ p[k] = cmd.plan[k]
        <5>1. PICK j : BatchTo(j)
          BY <1>1, <1>2, BatchFacts
        <5>2. cmd.plan \in Seq(Lines)
          BY <1>3 DEF PlanFits
        <5>3. \A i \in 1..Len(p) : p[i] = cmd.plan[IF i < cmd.at THEN i ELSE i + (j - cmd.at + 1)]
          BY <2>3, <4>3, <5>1, <5>2, RemainingFacts
        <5>4. cmd.at <= Len(p) + 1 /\ Len(p) \in Nat
          BY <1>1, <1>2, <4>3, RemainingLength
        <5>5. k \in 1..Len(p) /\ k < cmd.at
          BY <2>3, <2>4, <5>4
        <5> QED BY <5>3, <5>5
      <4>5. l \in Lines /\ l.name = name /\ l.act = "keep"
        <5>1. PICK ap : ap = Line.apply
          OBVIOUS
        <5>2. Line \in Lines
          BY <1>3, <2>3 DEF PlanFits, Line
        <5>3. ap \in BOOLEAN
          BY <5>1, <5>2 DEF Lines
        <5>4. l = [name |-> name, act |-> "keep", apply |-> ap]
          BY <2>1, <5>1, Zenon
        <5> QED BY <2>10a, <5>3, <5>4 DEF Lines, Acts
      <4>6. Replaced(p, k, l, r)
        BY <2>1, <4>3 DEF Replaced
      <4>7. PlanFits(p, s) /\ target = p[k].name
        BY <2>1, <2>5, <4>3, <4>4
      <4>8. \A i \in 1..Len(p) : i # k => p[i].name \in InLists(s) /\ p[i].name \notin Elems(names)
        <5>1. \A i \in 1..Len(p) : /\ p[i].name \in InLists(s) /\ p[i].name \notin Elems(b)
                                   /\ p[i].name = p[k].name => i = k
          BY <2>5, <4>3, <4>4, <4>7 DEF PlanFits
        <5> QED BY <2>9, <4>7, <5>1
      <4>9. \A i \in 1..Len(p) : i # k => p[i].name \in InLists(v) /\ p[i].name # name
        BY <2>10a, <4>2, <4>3, <4>8
      <4>10. name \in InLists(v) /\ Elems(v.hidden) \subseteq Elems(s.hidden) \cup {name}
        BY <4>2, <4>3
      <4>11. PlanFits(r, v)
        BY <2>10a, <4>4, <4>5, <4>6, <4>7, <4>9, <4>10, RenamedPlan
      <4> QED BY <4>1, <4>2, <4>11
    <3> QED BY <3>1, <3>2
  <2>14. Ready(y)
    BY <2>11 DEF Squashed
  <2> QED BY <1>1, <2>2, <2>12, <2>13, <2>14, TransactIInv
<1>6. \/ Ends(cmd, "error") /\ repo' = repo
      \/ cmd.at > 1 /\ \E target, b, names, l : \E name \in Elems(names) \cup Elems(Free(NewNames)), meta \in Metas :
           /\ target = cmd.plan[cmd.at - 1].name /\ b = Batch /\ names = <<target>> \o b
           /\ l = [name |-> name, act |-> "keep", apply |-> Line.apply]
           /\ Transacts(cmd, Squash(Within(NoWorktree), names, name, meta),
                        [cmd EXCEPT !.plan = [Remaining EXCEPT ![cmd.at - 1] = l]])
  BY Zenon DEF SquashLines
<1> QED BY <1>4, <1>5, <1>6, ZenonT(40)
-----------------------------------------------------------------------------
(* The patches above another one. *)

\* How the applied patches s divide at n.
Divides(s, n, k, q, above) ==
  /\ k \in 1..Len(s) /\ s[k] = n
  /\ q = SubSeq(s, 1, k) /\ above = SubSeq(s, k + 1, Len(s))
  /\ q \in Seq(Names) /\ q # <<>> /\ q[Len(q)] = n
  /\ above \in Seq(Names) /\ NoDuplicates(above) /\ n \notin Elems(above)
  /\ Elems(q) \cap Elems(above) = {} /\ Elems(above) \subseteq Elems(s)
  /\ Below(s, Elems(above)) = q /\ From(s, Elems(above)) = above
  /\ s = q \o above

LEMMA AboveIs ==
  ASSUME NEW t, t.applied \in Seq(Names), NoDuplicates(t.applied), NEW n \in Elems(t.applied),
         NEW above, above = Above(t, n)
  PROVE  \E k, q : Divides(t.applied, n, k, q, above)
<1>1. PICK s : s = t.applied
  OBVIOUS
<1>2. s \in Seq(Names) /\ Len(s) \in Nat /\ \A i, j \in 1..Len(s) : s[i] = s[j] => i = j
  BY <1>1, NoDupIff
<1>3. PICK k \in 1..Len(s) : s[k] = n
  BY <1>1, <1>2, ElemsIff
<1>4. PICK j, S : j = k - 1 /\ S = {n}
  OBVIOUS
<1>5. j \in 0..Len(s) /\ j + 1 = k /\ (\A i \in 1..j : s[i] \notin S) /\ (j < Len(s) => s[j + 1] \in S)
  BY <1>2, <1>3, <1>4
<1>6. From(s, S) = SubSeq(s, j + 1, Len(s))
  BY <1>2, <1>5, BelowIs
<1>7. PICK a : a = From(s, S)
  OBVIOUS
<1>8. a = SubSeq(s, k, Len(s))
  BY <1>5, <1>6, <1>7
<1>9. a \in Seq(Names) /\ Len(a) = Len(s) - k + 1 /\ \A i \in 1..(Len(s) - k + 1) : a[i] = s[k + i - 1]
  BY <1>2, <1>3, <1>8
<1>10. PICK b : b = SubSeq(s, k + 1, Len(s))
  OBVIOUS
<1>11. PICK q : q = SubSeq(s, 1, k)
  OBVIOUS
<1>12. /\ b \in Seq(Names) /\ Len(b) = Len(s) - k /\ \A i \in 1..(Len(s) - k) : b[i] = s[k + i]
       /\ q \in Seq(Names) /\ Len(q) = k /\ (\A i \in 1..k : q[i] = s[i]) /\ s = q \o b
  BY <1>2, <1>3, <1>10, <1>11, SplitSeq
<1>13. above = b
  <2>1. above = SubSeq(a, 2, Len(a))
    BY <1>1, <1>4, <1>7 DEF Above
  <2>2. Len(a) \in Nat /\ Len(a) >= 1
    BY <1>2, <1>3, <1>9
  <2>3. above \in Seq(Names) /\ Len(above) = Len(a) - 1 /\ \A i \in 1..(Len(a) - 1) : above[i] = a[i + 1]
    BY <1>9, <2>1, <2>2
  <2>4. Len(above) = Len(b)
    BY <1>2, <1>9, <1>12, <2>3
  <2>5. \A i \in 1..Len(b) : i \in 1..(Len(a) - 1) /\ i \in 1..(Len(s) - k) /\ i + 1 \in 1..(Len(s) - k + 1)
                             /\ k + (i + 1) - 1 = k + i
    BY <1>2, <1>9, <1>12
  <2>6. ASSUME NEW i \in 1..Len(b) PROVE above[i] = b[i]
    <3>1. PICK l : l = i + 1
      OBVIOUS
    <3>2. above[i] = a[l]
      BY <2>3, <2>5, <3>1
    <3>3. a[l] = s[k + l - 1]
      BY <1>9, <2>5, <3>1
    <3>4. k + l - 1 = k + i
      BY <2>5, <3>1
    <3>5. b[i] = s[k + i]
      BY <1>12, <2>5
    <3> QED BY <3>2, <3>3, <3>4, <3>5
  <2>7. PICK c : c = above
    OBVIOUS
  <2>8. c \in Seq(Names) /\ Len(c) = Len(b) /\ \A i \in 1..Len(b) : c[i] = b[i]
    BY <2>3, <2>4, <2>6, <2>7
  <2>9. c = b
    BY ONLY <2>8, <1>12
  <2> QED BY <2>7, <2>9
<1>14. \A x : x \in Elems(b) <=> \E i \in (k + 1)..Len(s) : s[i] = x
  <2>1. \A x : x \in Elems(b) <=> \E i \in 1..Len(b) : b[i] = x
    BY <1>12, ElemsIff
  <2>2. \A i \in 1..Len(b) : k + i \in (k + 1)..Len(s)
    BY <1>2, <1>3, <1>12
  <2>3. \A i \in (k + 1)..Len(s) : i - k \in 1..Len(b) /\ k + (i - k) = i
    BY <1>2, <1>3, <1>12
  <2>4. \A i \in 1..Len(b) : b[i] = s[k + i]
    BY <1>12
  <2>5. ASSUME NEW x, x \in Elems(b) PROVE \E i \in (k + 1)..Len(s) : s[i] = x
    <3>1. PICK i \in 1..Len(b) : b[i] = x
      BY <2>1, <2>5
    <3> QED BY <2>2, <2>4, <3>1
  <2>6. ASSUME NEW i \in (k + 1)..Len(s) PROVE s[i] \in Elems(b)
    <3>1. PICK l : l = i - k
      OBVIOUS
    <3>2. l \in 1..Len(b) /\ k + l = i
      BY <2>3, <3>1
    <3>3. b[l] = s[i]
      BY <2>4, <3>2
    <3> QED BY <2>1, <3>2, <3>3
  <2> QED BY <2>5, <2>6
<1>15. NoDuplicates(b)
  <2>1. \A i, l \in 1..Len(b) : b[i] = b[l] => i = l
    BY <1>2, <1>3, <1>12
  <2> QED BY <1>12, <2>1, NoDupIff
<1>16. \A i \in 1..k : s[i] \notin Elems(b)
  <2>1. \A i \in 1..k : i \in 1..Len(s) /\ \A l \in (k + 1)..Len(s) : l \in 1..Len(s) /\ l # i
    BY <1>2, <1>3
  <2> QED BY <1>2, <1>14, <2>1
<1>17. n \notin Elems(b) /\ Elems(q) \cap Elems(b) = {}
  <2>1. k \in 1..k
    BY <1>3
  <2>2. \A x \in Elems(q) : \E i \in 1..k : s[i] = x
    BY <1>12, ElemsIff
  <2> QED BY <1>3, <1>16, <2>1, <2>2
<1>18. k < Len(s) => s[k + 1] \in Elems(b)
  <2>1. k < Len(s) => k + 1 \in (k + 1)..Len(s)
    BY <1>2, <1>3
  <2> QED BY <1>14, <2>1
<1>19. Below(s, Elems(b)) = q /\ From(s, Elems(b)) = b
  <2>1. PICK T : T = Elems(b)
    OBVIOUS
  <2>2. k \in 0..Len(s) /\ (\A i \in 1..k : s[i] \notin T) /\ (k < Len(s) => s[k + 1] \in T)
    BY <1>3, <1>16, <1>18, <2>1
  <2>3. Below(s, T) = SubSeq(s, 1, k) /\ From(s, T) = SubSeq(s, k + 1, Len(s))
    BY <1>2, <2>2, BelowIs
  <2> QED BY <1>10, <1>11, <2>1, <2>3
<1>20. q # <<>> /\ q[Len(q)] = n
  BY <1>3, <1>12
<1>21. Elems(b) \subseteq Elems(s)
  <2>1. \A i \in (k + 1)..Len(s) : i \in 1..Len(s)
    BY <1>2, <1>3
  <2> QED BY <1>2, <1>14, <2>1, ElemsIff
<1>22. Divides(s, n, k, q, b)
  BY <1>3, <1>10, <1>11, <1>12, <1>15, <1>17, <1>19, <1>20, <1>21 DEF Divides
<1> QED BY <1>1, <1>13, <1>22

\* The topmost patch goes.
LEMMA BelowTopmost ==
  ASSUME NEW q \in Seq(Names), NEW n \in Names, n \notin Elems(q), NEW s, s = q \o <<n>>
  PROVE  Below(s, {n}) = q /\ Elems(From(s, {n})) = {n}
<1>1. PICK k, S : k = Len(q) /\ S = {n}
  OBVIOUS
<1>2. s \in Seq(Names) /\ Len(s) = k + 1 /\ k \in Nat /\ s[k + 1] = n /\ \A i \in 1..k : s[i] = q[i]
  BY <1>1
<1>3. \A i \in 1..k : s[i] \notin S
  BY <1>1, <1>2, ElemsIff
<1>4. k \in 0..Len(s) /\ (k < Len(s) => s[k + 1] \in S)
  BY <1>1, <1>2
<1>5. Below(s, S) = SubSeq(s, 1, k) /\ From(s, S) = SubSeq(s, k + 1, Len(s))
  BY <1>2, <1>3, <1>4, BelowIs
<1>6. PICK b, f : b = SubSeq(s, 1, k) /\ f = SubSeq(s, k + 1, Len(s))
  OBVIOUS
<1>7. b \in Seq(Names) /\ Len(b) = k /\ \A i \in 1..k : b[i] = s[i]
  BY <1>2, <1>4, <1>6, SplitSeq
<1>8. b = q
  BY ONLY <1>1, <1>2, <1>7, q \in Seq(Names)
<1>9. f \in Seq(Names) /\ Len(f) = 1 /\ f[1] = n
  <2>1. f = SubSeq(s, k + 1, k + 1)
    BY <1>2, <1>6
  <2> QED BY <1>2, <2>1
<1>10. Elems(f) = {n}
  BY <1>9, ElemsIff
<1> QED BY <1>1, <1>5, <1>6, <1>8, <1>10

\* The temporary patch is right above n, which is the topmost one below it, and the
\* others that were above n can be pushed.
Stands(r, n, temp, rest, y) ==
  /\ Ready(y) /\ y.r = r
  /\ y.err = "none" =>
       /\ \E q \in Seq(Names) : /\ y.t.applied = q \o <<temp>> /\ q # <<>> /\ q[Len(q)] = n
                                /\ temp \notin Elems(q)
       /\ InLists(y.t) = InLists(r.state)
       /\ Elems(rest) \subseteq (Elems(y.t.unapplied) \cup Elems(y.t.hidden)) \ {n, temp}

\* n takes over the tree of the temporary patch, which goes.
Merges(y, n, temp, z) ==
  LET c == y.t.patches[n]
  IN  z = With(y, UpdatePatch(DeletePatches(y.t, {temp}), n,
                              MkCommit(Parent(c), Tree(y.t.patches[temp]), Meta(c))))

LEMMA AbsorbMerge ==
  ASSUME NEW r, Good(r.state), NEW n, NEW temp \in InLists(r.state), n \in InLists(r.state), n # temp,
         n \in Names, temp \in Names,
         NEW rest \in Seq(Names), NoDuplicates(rest), NEW y, Stands(r, n, temp, rest, y),
         NEW z, Merges(y, n, temp, z)
  PROVE  Ready(z) /\ (z.err = "none" => Pushable(z.t, rest)) /\ z.o = y.o /\ Trails(y, z)
<1>a. PICK c, tree : c = y.t.patches[n] /\ tree = Tree(y.t.patches[temp])
  OBVIOUS
<1>b. PICK v : v = UpdatePatch(DeletePatches(y.t, {temp}), n, MkCommit(Parent(c), tree, Meta(c)))
  OBVIOUS
<1>c. z = With(y, v)
  BY <1>a, <1>b, Zenon DEF Merges
<1>1. Ready(y) /\ y.r = r
  BY DEF Stands
<1>2. CASE y.err # "none"
  <2>1. z = y
    BY <1>2, <1>c DEF With
  <2> QED BY <1>1, <1>2, <2>1 DEF Trails
<1>3. CASE y.err = "none"
  <2>1. PICK t, p, new, d : /\ t = y.t /\ p = r.state.patches /\ new = MkCommit(Parent(c), tree, Meta(c))
                            /\ d = DeletePatches(t, {temp})
    OBVIOUS
  <2>2. PICK q : /\ q \in Seq(Names) /\ t.applied = q \o <<temp>> /\ q # <<>> /\ q[Len(q)] = n
                 /\ temp \notin Elems(q)
    BY <1>3, <2>1 DEF Stands
  <2>3. /\ InLists(t) = InLists(r.state)
        /\ Elems(rest) \subseteq (Elems(t.unapplied) \cup Elems(t.hidden)) \ {n, temp}
    BY <1>3, <2>1 DEF Stands
  <2>4. WF(t, p) /\ Linked(t) /\ Good(t) /\ t.patches \in PatchMaps /\ t.head = NoCommit
    BY <1>1, <1>3, <2>1 DEF Ready, WF, Transactions, HeadSet
  <2>5. p[temp] # NoCommit /\ p[n] # NoCommit
    BY <2>1 DEF Good, HasPatch
  <2>6. c \in Commits /\ Parent(c) \in Commits /\ tree \in Trees /\ Meta(c) \in Metas
    BY <1>a, <2>1, <2>3, <2>4, PatchCommit, CommitTypes
  <2>7. new \in Commits /\ HasParent(new) /\ Parent(new) = Parent(c)
    <3>1. PICK up, m : up = Parent(c) /\ m = Meta(c)
      OBVIOUS
    <3>2. up \in Commits /\ m \in Metas /\ new = MkCommit(up, tree, m)
      BY <2>1, <2>6, <3>1
    <3>3. new \in Commits /\ HasParent(new)
      BY <2>6, <3>2, CommitTypes
    <3>4. Parent(new) = up
      BY <3>2, ParentOfNew
    <3> QED BY <3>1, <3>3, <3>4
  <2>8. /\ WF(d, p) /\ Linked(d) /\ d.head = NoCommit /\ InLists(d) = InLists(t) \ {temp}
        /\ d.applied = Below(t.applied, {temp}) /\ Elems(d.hidden) = Elems(t.hidden) \ {temp}
        /\ Elems(t.unapplied) \ {temp} \subseteq Elems(d.unapplied)
        /\ \A m \in Names \ {temp} : d.patches[m] = t.patches[m]
    <3>1. PICK S : S = {temp}
      OBVIOUS
    <3>2. \A m \in S \cap InLists(t) : p[m] # NoCommit
      BY <2>5, <3>1
    <3>3. d = DeletePatches(t, S)
      BY <2>1, <3>1
    <3>4. /\ WF(t, p) /\ Linked(t) /\ \A m \in S \cap InLists(t) : p[m] # NoCommit
          /\ d = DeletePatches(t, S)
      BY <2>4, <3>2, <3>3
    <3>5. /\ WF(d, p) /\ Linked(d) /\ d.head = t.head /\ InLists(d) = InLists(t) \ S
          /\ d.applied = Below(t.applied, S)
          /\ Elems(t.unapplied) \ S \subseteq Elems(d.unapplied)
          /\ \A m \in Names \ S : d.patches[m] = t.patches[m]
      BY ONLY <3>4, DeleteFrom
    <3>6. Elems(d.hidden) = Elems(t.hidden) \ S
      BY ONLY <3>4, DeleteFrom
    <3> QED BY <2>4, <3>1, <3>5, <3>6
  <2>9. d.applied = q
    <3>1. PICK s : s = t.applied
      OBVIOUS
    <3>2. Below(s, {temp}) = q
      BY <2>2, <3>1, BelowTopmost
    <3> QED BY <2>8, <3>1, <3>2
  <2>10. Editable(d, p, n, n, new)
    <3>1. n \in InLists(d) /\ n = d.applied[Len(d.applied)] /\ d.patches[n] = c
      BY <1>a, <2>1, <2>2, <2>3, <2>8, <2>9
    <3> QED BY <2>5, <2>7, <2>8, <3>1 DEF Editable
  <2>11. Edited(d, n, n, new, v)
    BY <1>b, <2>1 DEF Edited
  <2>12. /\ WF(v, p) /\ Linked(v) /\ v.head = d.head /\ InLists(v) = (InLists(d) \ {n}) \cup {n}
         /\ Elems(d.unapplied) \ {n} \subseteq Elems(v.unapplied)
    BY ONLY <2>10, <2>11, EditedOK
  <2>13. v.hidden = d.hidden
    <3>1. d \in Transactions
      BY <2>8 DEF WF
    <3>2. v = SetPatch(d, n, new)
      BY <1>b, <2>1 DEF UpdatePatch
    <3> QED BY <3>1, <3>2, SetPatchFields
  <2>14. Ready(z) /\ z.t = v /\ z.o = y.o /\ z.wd = y.wd /\ z.err = "none"
    <3>1. y.err = "none" => WF(v, y.r.state.patches) /\ Linked(v) /\ v.head = NoCommit
      BY <1>1, <2>1, <2>8, <2>12
    <3> QED BY <1>1, <1>3, <1>c, <3>1, WithReady
  <2>15. Elems(rest) \subseteq Elems(v.unapplied) \cup Elems(v.hidden)
    BY <2>3, <2>8, <2>12, <2>13
  <2>16. v.tree = t.tree
    BY <1>b, <2>1, <2>4 DEF WF, UpdatePatch, SetPatch, DeletePatches, Transactions
  <2>17. Trails(y, z)
    BY <1>3, <2>1, <2>14, <2>16 DEF Trails, Neat, InStep
  <2> QED BY <2>14, <2>15, <2>17 DEF Pushable
<1> QED BY <1>2, <1>3

\* A list without its last entry.
LastOff(s, r, n) == s # <<>> /\ r = SubSeq(s, 1, Len(s) - 1) /\ n = s[Len(s)]

LEMMA ButLast ==
  ASSUME NEW s \in Seq(Names), NoDuplicates(s), NEW r, NEW n, LastOff(s, r, n)
  PROVE  /\ r \in Seq(Names) /\ NoDuplicates(r) /\ Elems(r) = Elems(s) \ {n}
         /\ Len(s) = 1 => Elems(r) = {} /\ s = <<n>>
<1>1. PICK k : k = Len(s) - 1
  OBVIOUS
<1>a. s # <<>> /\ r = SubSeq(s, 1, Len(s) - 1) /\ n = s[Len(s)]
  BY DEF LastOff
<1>2. k \in 0..Len(s) /\ Len(s) = k + 1 /\ k \in Nat /\ k + 1 \in 1..Len(s)
  BY <1>1, <1>a
<1>3. r \in Seq(Names) /\ Len(r) = k /\ \A i \in 1..k : r[i] = s[i]
  BY <1>1, <1>2, <1>a, SplitSeq
<1>4. \A i, j \in 1..(k + 1) : s[i] = s[j] => i = j
  BY <1>2, NoDupIff
<1>5. NoDuplicates(r)
  <2>1. \A i, j \in 1..Len(r) : r[i] = r[j] => i = j
    BY <1>2, <1>3, <1>4
  <2> QED BY <1>3, <2>1, NoDupIff
<1>6. \A x : x \in Elems(r) <=> \E i \in 1..k : s[i] = x
  <2>1. \A x : x \in Elems(r) <=> \E i \in 1..Len(r) : r[i] = x
    BY <1>3, ElemsIff
  <2> QED BY <1>3, <2>1
<1>7. \A x : x \in Elems(s) <=> \E i \in 1..(k + 1) : s[i] = x
  BY <1>2, ElemsIff
<1>8. \A i : i \in 1..(k + 1) <=> i \in 1..k \/ i = k + 1
  BY <1>2
<1>9. \A i \in 1..k : i # k + 1
  BY <1>2
<1>10. Elems(r) = Elems(s) \ {s[k + 1]}
  BY <1>4, <1>6, <1>7, <1>8, <1>9
<1>11. ASSUME Len(s) = 1 PROVE Elems(r) = {} /\ s = <<n>>
  <2>1. k = 0
    BY <1>1, <1>11
  <2>2. Elems(r) = {}
    BY <1>6, <2>1
  <2>3. s = <<n>>
    BY <1>11, <1>a
  <2> QED BY <2>2, <2>3
<1> QED BY <1>2, <1>3, <1>5, <1>10, <1>11, <1>a

LEMMA LastAbove ==
  ASSUME NEW s \in Seq(Names), NEW n, NEW k, NEW q, NEW above, Divides(s, n, k, q, above), n # s[Len(s)]
  PROVE  above # <<>> /\ above[Len(above)] = s[Len(s)] /\ s[Len(s)] \in Elems(above) /\ s[Len(s)] \in Names
<1>1. k \in 1..Len(s) /\ s[k] = n /\ above = SubSeq(s, k + 1, Len(s)) /\ above \in Seq(Names)
  BY DEF Divides
<1>2. k \in 0..Len(s) /\ k # Len(s) /\ Len(s) \in Nat
  BY <1>1
<1>3. Len(above) = Len(s) - k /\ \A i \in 1..(Len(s) - k) : above[i] = s[k + i]
  BY <1>1, <1>2, SplitSeq
<1>4. Len(s) - k \in 1..(Len(s) - k) /\ k + (Len(s) - k) = Len(s)
  BY <1>1, <1>2
<1>5. above[Len(above)] = s[Len(s)]
  BY <1>3, <1>4
<1>6. Len(above) \in 1..Len(above) /\ above # <<>>
  BY <1>3, <1>4
<1>7. PICK l, x : l = Len(above) /\ x = s[Len(s)]
  OBVIOUS
<1>8. above[l] = x /\ l \in 1..Len(above)
  BY <1>5, <1>6, <1>7
<1>9. x \in Elems(above) /\ x \in Names
  BY <1>1, <1>8, ElemsIff
<1> QED BY <1>5, <1>6, <1>7, <1>9

LEMMA AbsorbAppliedOK ==
  ASSUME NEW x, NEW r, Opened(x, r), NEW n \in Elems(r.state.applied), NEW temp, n # temp,
         temp = r.state.applied[Len(r.state.applied)], NEW y, y = AbsorbApplied(x, n, temp)
  PROVE  Ready(y) /\ y.o = x.o /\ Trails(x, y)
<1>1. PICK s, above, rest, t, z : /\ s = r.state.applied /\ above = Above(x.t, n)
                            /\ rest = SubSeq(above, 1, Len(above) - 1)
                            /\ t = PopPatches(x.t, Elems(above)) /\ z = With(x, t)
  OBVIOUS
<1>2. PICK onTop : onTop = IF Len(above) = 1 THEN x ELSE PushPatches(z, <<temp>>, FALSE)
  OBVIOUS
<1>3. PICK m : Merges(onTop, n, temp, m)
  BY DEF Merges
<1>4. y = PushPatches(m, rest, FALSE)
  BY <1>1, <1>2, <1>3, Zenon DEF AbsorbApplied, Merges
<1>5. /\ x.t.applied = s /\ s \in Seq(Names) /\ NoDuplicates(s) /\ Good(r.state) /\ Ready(x) /\ x.r = r
      /\ x.err = "none" /\ InLists(x.t) = InLists(r.state) /\ x.t.hidden = r.state.hidden
  <2>1. Ready(x) /\ x.r = r /\ x.err = "none" /\ x.t.applied = s /\ x.t.hidden = r.state.hidden
    BY <1>1 DEF Opened
  <2>2. Good(r.state) /\ InLists(x.t) = InLists(r.state) /\ r.state.applied \in Seq(Names)
    BY OpenedFacts
  <2>3. NoDuplicates(r.state.applied)
    BY <2>2 DEF Good, Distinct3
  <2> QED BY <1>1, <2>1, <2>2, <2>3
<1>6. n \in Elems(s) /\ Elems(s) \subseteq InLists(r.state) /\ Elems(s) \subseteq Names
  BY <1>1, <1>5, ElemsIff DEF InLists
<1>7. PICK k, q : Divides(s, n, k, q, above)
  BY <1>1, <1>5, <1>6, AboveIs
<1>8. above # <<>> /\ above[Len(above)] = temp /\ temp \in Elems(above) /\ temp \in Names
  BY <1>1, <1>5, <1>7, LastAbove
<1>9. /\ q \in Seq(Names) /\ q # <<>> /\ q[Len(q)] = n /\ above \in Seq(Names) /\ NoDuplicates(above)
      /\ n \notin Elems(above) /\ Elems(q) \cap Elems(above) = {} /\ Elems(above) \subseteq Elems(s)
      /\ Below(s, Elems(above)) = q /\ From(s, Elems(above)) = above /\ s = q \o above
  BY <1>7 DEF Divides
<1>10. /\ rest \in Seq(Names) /\ NoDuplicates(rest) /\ Elems(rest) = Elems(above) \ {temp}
       /\ Len(above) = 1 => Elems(rest) = {} /\ above = <<temp>>
  <2>1. LastOff(above, rest, temp)
    BY <1>1, <1>8 DEF LastOff
  <2> QED BY ONLY <1>8, <1>9, <2>1, ButLast
<1>11. Stands(r, n, temp, rest, onTop) /\ onTop.o = x.o /\ Trails(x, onTop)
  <2>1. CASE Len(above) = 1
    <3>1. onTop = x /\ above = <<temp>> /\ Elems(rest) = {}
      BY <1>2, <1>8, <1>10, <2>1
    <3>2. x.t.applied = q \o <<temp>> /\ temp \notin Elems(q)
      BY <1>5, <1>8, <1>9, <3>1
    <3>3. Stands(r, n, temp, rest, onTop)
      BY <1>5, <1>9, <3>1, <3>2 DEF Stands
    <3> QED BY <3>1, <3>3 DEF Trails
  <2>2. CASE Len(above) # 1
    <3>1. /\ WF(t, r.state.patches) /\ Linked(t) /\ t.head = NoCommit /\ InLists(t) = InLists(r.state)
          /\ t.applied = Below(s, Elems(above)) /\ t.hidden = r.state.hidden
          /\ Elems(t.unapplied) = Elems(From(s, Elems(above))) \cup Elems(r.state.unapplied)
      <4>1. PICK S : S = Elems(above)
        OBVIOUS
      <4>2. t = PopPatches(x.t, S)
        BY <1>1, <4>1
      <4>3. /\ WF(t, r.state.patches) /\ Linked(t) /\ t.head = NoCommit /\ InLists(t) = InLists(r.state)
            /\ t.applied = Below(r.state.applied, S) /\ t.hidden = r.state.hidden
            /\ Elems(t.unapplied) = Elems(From(r.state.applied, S)) \cup Elems(r.state.unapplied)
        BY ONLY <4>2, Opened(x, r), PopOpened
      <4> QED BY <1>1, <4>1, <4>3
    <3>2. Ready(z) /\ z.t = t /\ z.r = r /\ z.err = "none" /\ z.o = x.o /\ z.wd = x.wd
      BY <1>1, <3>1, WithOpened
    <3>3. PICK one : one = <<temp>>
      OBVIOUS
    <3>4. one \in Seq(Names) /\ Elems(one) = {temp} /\ NoDuplicates(one)
      BY <1>8, <3>3, OneElem
    <3>5. Pushable(z.t, one)
      BY <1>8, <1>9, <3>1, <3>2, <3>4 DEF Pushable
    <3>6. onTop = PushPatches(z, one, FALSE)
      BY <1>2, <2>2, <3>3
    <3>7. PushAll(z, one, onTop)
      BY <3>2, <3>4, <3>5, <3>6, PushPatchesOK
    <3>8. Ready(onTop) /\ onTop.r = r
      BY <3>2, <3>7 DEF PushAll
    <3>9. ASSUME onTop.err = "none"
          PROVE  /\ onTop.t.applied = q \o <<temp>> /\ InLists(onTop.t) = InLists(r.state)
                 /\ Elems(rest) \subseteq Elems(onTop.t.unapplied) \ {n, temp}
      <4>1. /\ onTop.t.applied = z.t.applied \o one /\ InLists(onTop.t) = InLists(z.t)
            /\ Elems(onTop.t.unapplied) = Elems(z.t.unapplied) \ Elems(one)
        BY <3>7, <3>9 DEF PushAll
      <4> QED BY <1>9, <1>10, <3>1, <3>2, <3>3, <3>4, <4>1
    <3>10. temp \notin Elems(q)
      BY <1>8, <1>9
    <3>11. Stands(r, n, temp, rest, onTop)
      BY <1>9, <3>8, <3>9, <3>10 DEF Stands
    <3>12. t.tree = x.t.tree
      BY <1>1, <1>5, PopTree DEF Ready, WF
    <3>13. Trails(x, onTop) /\ onTop.o = x.o
      BY <1>5, <3>2, <3>7, <3>12 DEF PushAll, Trails, Neat, InStep
    <3> QED BY <3>11, <3>13
  <2> QED BY <2>1, <2>2
<1>12. Ready(m) /\ (m.err = "none" => Pushable(m.t, rest)) /\ m.o = onTop.o /\ Trails(onTop, m)
  <2>1. n \in InLists(r.state) /\ temp \in InLists(r.state) /\ n \in Names /\ temp \in Names
    BY <1>6, <1>8, <1>9
  <2>2. rest \in Seq(Names) /\ NoDuplicates(rest) /\ Good(r.state) /\ n # temp
    BY <1>5, <1>10
  <2> QED BY ONLY <1>3, <1>11, <2>1, <2>2, AbsorbMerge
<1>13. PushAll(m, rest, y)
  BY <1>4, <1>10, <1>12, PushPatchesOK
<1> QED BY <1>11, <1>12, <1>13 DEF PushAll, Trails

LEMMA AbsorbUnappliedOK ==
  ASSUME NEW x, NEW r, Opened(x, r), NEW n \in Elems(r.state.unapplied), NEW temp, n # temp,
         temp \in InLists(r.state), temp \in Names, NEW y, y = AbsorbUnapplied(x, n, temp)
  PROVE  Ready(y) /\ y.o = x.o /\ Trails(x, y)
<1>1. PICK t, p, S : t = PopPatches(x.t, S) /\ p = r.state.patches /\ S = {temp}
  OBVIOUS
<1>2. PICK c, base, tree : c = t.patches[n] /\ base = Tree(Parent(t.patches[temp])) /\ tree = Tree(t.patches[temp])
  OBVIOUS
<1>3. PICK new, u, d : /\ new = MkCommit(Parent(c), MergeTree(base, Tree(c), tree), Meta(c))
                       /\ u = UpdatePatch(t, n, new) /\ d = DeletePatches(u, S)
  OBVIOUS
<1>4. y = With(x, d) \/ y = With(x, t)
  BY <1>1, <1>2, <1>3, Zenon DEF AbsorbUnapplied
<1>5. /\ WF(t, p) /\ Linked(t) /\ t.head = NoCommit /\ t.patches = p /\ InLists(t) = InLists(r.state)
      /\ Elems(r.state.unapplied) \subseteq Elems(t.unapplied)
  BY <1>1, PopOpened
<1>6. Good(t) /\ Good(r.state) /\ t.patches \in PatchMaps /\ r.state.unapplied \in Seq(Names)
  BY <1>5, OpenedFacts DEF WF, Transactions
<1>7. n \in Names /\ n \in InLists(t) /\ temp \in InLists(t) /\ n \notin Elems(t.applied)
  BY <1>5, <1>6, ElemsIff DEF InLists, Good, Distinct3
<1>8. /\ c \in Commits /\ Parent(c) \in Commits /\ Tree(c) \in Trees /\ Meta(c) \in Metas
      /\ tree \in Trees
  BY <1>2, <1>6, <1>7, PatchCommit, CommitTypes
<1>9. new \in Commits /\ HasParent(new) /\ Parent(new) = Parent(c)
  <2>1. PICK up, m, g : up = Parent(c) /\ m = Meta(c) /\ g = MergeTree(base, Tree(c), tree)
    OBVIOUS
  <2>2. g \in Trees
    BY <1>8, <2>1 DEF MergeTree, Trees
  <2>3. up \in Commits /\ m \in Metas /\ new = MkCommit(up, g, m)
    BY <1>3, <1>8, <2>1
  <2>4. new \in Commits /\ HasParent(new)
    BY <2>2, <2>3, CommitTypes
  <2>5. Parent(new) = up
    BY <2>3, ParentOfNew
  <2> QED BY <2>1, <2>4, <2>5
<1>10. p[n] # NoCommit /\ p[temp] # NoCommit
  BY <1>1, <1>5, <1>6, <1>7 DEF Good, HasPatch
<1>11. Editable(t, p, n, n, new)
  BY <1>2, <1>5, <1>7, <1>9, <1>10 DEF Editable
<1>12. Edited(t, n, n, new, u)
  BY <1>3 DEF Edited
<1>13. WF(u, p) /\ Linked(u) /\ u.head = t.head
  BY ONLY <1>11, <1>12, EditedOK
<1>14. WF(d, p) /\ Linked(d) /\ d.head = u.head
  <2>1. \A m \in S \cap InLists(u) : p[m] # NoCommit
    BY <1>1, <1>10
  <2>2. d = DeletePatches(u, S)
    BY <1>3
  <2> QED BY ONLY <1>13, <2>1, <2>2, DeleteFrom
<1>15. ASSUME NEW v, WF(v, p), Linked(v), v.head = NoCommit, y = With(x, v), v.tree = x.t.tree
       PROVE  Ready(y) /\ y.o = x.o /\ Trails(x, y)
  <2>1. Ready(y) /\ y.t = v /\ y.err = "none" /\ y.o = x.o /\ y.wd = x.wd /\ x.err = "none"
    BY <1>1, <1>15, WithOpened DEF Opened
  <2> QED BY <1>15, <2>1 DEF Trails, Neat, InStep
<1>16. t.tree = x.t.tree
  BY <1>1, OpenedFacts, PopTree
<1>17. d.tree = t.tree
  BY <1>3, <1>5 DEF WF, UpdatePatch, SetPatch, DeletePatches, Transactions
<1> QED BY <1>4, <1>5, <1>13, <1>14, <1>15, <1>16, <1>17

LEMMA RefreshAbsorbIInv ==
  ASSUME IInv, RefreshAbsorb
  PROVE  IInv'
<1>1. PICK x, n, temp : x = Within(InWorktree) /\ n = cmd.names[1] /\ temp = cmd.names[2]
  OBVIOUS
<1>2. PICK y : y = IF n \in Elems(x.t.applied) THEN AbsorbApplied(x, n, temp) ELSE AbsorbUnapplied(x, n, temp)
  OBVIOUS
<1>3. cmd.pc = "absorb" /\ Concludes(cmd, y) /\ stash' = stash /\ mine' = mine
  BY <1>1, <1>2 DEF RefreshAbsorb
<1>4. /\ n # temp /\ n \in Elems(repo.state.applied) \cup Elems(repo.state.unapplied)
      /\ repo.state.applied # <<>> /\ temp = repo.state.applied[Len(repo.state.applied)]
  BY <1>1, <1>3, IInvFacts DEF Fits
<1>5. Opened(x, repo)
  BY <1>1, WithinOpened, OptionTypes
<1>6. x.t.applied = repo.state.applied /\ repo.state.applied \in Seq(Names)
  BY <1>5, OpenedFacts DEF Opened
<1>7. temp \in Elems(repo.state.applied) /\ temp \in Names /\ temp \in InLists(repo.state)
  <2>1. PICK s, l : s = repo.state.applied /\ l = Len(s)
    OBVIOUS
  <2>2. s \in Seq(Names) /\ l \in 1..Len(s) /\ s[l] = temp
    BY <1>4, <1>6, <2>1
  <2>3. temp \in Elems(s) /\ temp \in Names
    BY <2>2, ElemsIff
  <2> QED BY <2>1, <2>3 DEF InLists
<1>8. Ready(y)
  <2>1. CASE n \in Elems(repo.state.applied)
    <3>1. y = AbsorbApplied(x, n, temp)
      BY <1>2, <1>6, <2>1
    <3> QED BY <1>4, <1>5, <2>1, <3>1, AbsorbAppliedOK
  <2>2. CASE n \notin Elems(repo.state.applied)
    <3>1. y = AbsorbUnapplied(x, n, temp) /\ n \in Elems(repo.state.unapplied)
      BY <1>2, <1>4, <1>6, <2>2
    <3> QED BY <1>4, <1>5, <1>7, <3>1, AbsorbUnappliedOK
  <2> QED BY <2>1, <2>2
<1> QED BY <1>3, <1>8, IInvFacts, ConcludeIInv
-----------------------------------------------------------------------------
(* Commands that are one transaction, or none. *)

\* edit leaves a transaction that can be executed, whatever the patches above meet.
LEMMA EditPatchOK ==
  ASSUME NEW x, NEW r, Opened(x, r), NEW n \in InLists(r.state), n \in Names, NEW name \in Names,
         name = n \/ name \notin InLists(r.state), NEW c \in Commits, HasParent(c),
         Parent(c) = Parent(r.state.patches[n]), NEW way, NEW y, y = EditPatch(x, n, name, c, way)
  PROVE  Ready(y) /\ y.o = x.o /\ Trails(x, y)
<1>1. PICK above, S, t : /\ above = IF n \in Elems(x.t.applied) THEN Above(x.t, n) ELSE <<>>
                         /\ S = Elems(above) /\ t = PopPatches(x.t, S)
  OBVIOUS
<1>2. PICK v, z : /\ v = (LET named == IF name = n THEN t ELSE RenamePatch(t, n, name)
                          IN  IF c = x.t.patches[n] THEN named ELSE UpdatePatch(named, name, c))
                  /\ z = With(x, v)
  OBVIOUS
<1>3. y = PushTreePatches(z, above) \/ y = PushPatches(z, above, FALSE)
  BY <1>1, <1>2, Zenon DEF EditPatch
<1>4. Edited(t, n, name, c, v)
  BY <1>2 DEF Edited
<1>5. PICK s, p : s = r.state.applied /\ p = r.state.patches
  OBVIOUS
<1>6. /\ x.t.applied = s /\ s \in Seq(Names) /\ NoDuplicates(s) /\ Good(r.state)
  BY <1>5, OpenedFacts DEF Opened, Good, Distinct3
<1>7. /\ WF(t, p) /\ Linked(t) /\ t.head = NoCommit /\ t.patches = p
      /\ InLists(t) = InLists(r.state) /\ t.applied = Below(s, S)
      /\ Elems(From(s, S)) \subseteq Elems(t.unapplied)
  <2>1. t = PopPatches(x.t, S)
    BY <1>1
  <2>2. /\ WF(t, r.state.patches) /\ Linked(t) /\ t.head = NoCommit /\ t.patches = r.state.patches
        /\ InLists(t) = InLists(r.state) /\ t.applied = Below(r.state.applied, S)
        /\ Elems(t.unapplied) = Elems(From(r.state.applied, S)) \cup Elems(r.state.unapplied)
    BY ONLY <2>1, Opened(x, r), PopOpened
  <2> QED BY <1>5, <2>2
<1>8. p[n] # NoCommit
  BY <1>5, <1>6 DEF Good, HasPatch
<1>9. /\ above \in Seq(Names) /\ NoDuplicates(above) /\ n \notin Elems(above)
      /\ Elems(above) \subseteq Elems(t.unapplied)
      /\ n \in Elems(t.applied) => n = t.applied[Len(t.applied)]
  <2>1. CASE n \in Elems(s)
    <3>1. above = Above(x.t, n)
      BY <1>1, <1>6, <2>1
    <3>2. PICK k, q : Divides(s, n, k, q, above)
      BY <1>6, <2>1, <3>1, AboveIs
    <3> QED BY <1>1, <1>7, <3>2 DEF Divides
  <2>2. CASE n \notin Elems(s)
    <3>1. above = <<>> /\ S = {}
      BY <1>1, <1>6, <2>2, NoElems
    <3>2. Elems(Below(s, S)) \subseteq Elems(s)
      BY <1>6, BelowFrom
    <3> QED BY <1>7, <2>2, <3>1, <3>2, NoElems
  <2> QED BY <2>1, <2>2
<1>10. Editable(t, p, n, name, c)
  BY <1>5, <1>7, <1>8, <1>9 DEF Editable
<1>11. WF(v, p) /\ Linked(v) /\ v.head = t.head /\ Elems(t.unapplied) \ {n} \subseteq Elems(v.unapplied)
  BY ONLY <1>4, <1>10, EditedOK
<1>12. Ready(z) /\ z.t = v /\ z.o = x.o /\ z.wd = x.wd /\ z.err = "none" /\ x.err = "none"
  BY <1>2, <1>5, <1>7, <1>11, WithOpened DEF Opened
<1>13. Pushable(z.t, above)
  BY <1>9, <1>11, <1>12 DEF Pushable
<1>14. PushAll(z, above, y)
  BY <1>3, <1>9, <1>12, <1>13, PushPatchesOK, PushTreePatchesOK
<1>15. v.tree = x.t.tree
  <2>1. t \in Transactions /\ t.tree = x.t.tree
    BY <1>1, <1>7, OpenedFacts, PopTree DEF WF
  <2> QED BY <1>2, <2>1 DEF RenamePatch, UpdatePatch, SetPatch, Transactions
<1>16. Trails(x, z)
  BY <1>12, <1>15 DEF Trails, Neat, InStep
<1> QED BY <1>12, <1>14, <1>16 DEF PushAll, Trails

LEMMA EditIInv ==
  ASSUME IInv, Edit
  PROVE  IInv'
<1>a. PICK x, run : x = Within([InWorktree EXCEPT !.conflicts = "allow"]) /\ run = [NoCmd EXCEPT !.name = "edit"]
  OBVIOUS
<1>b. PICK n \in Listed, meta \in Metas, tree \in Targets, way \in {"message", "diff", "set-tree"} :
        \E name \in {n} \cup Elems(Free(NewNames)) :
          LET u == Within([InWorktree EXCEPT !.conflicts = "allow"])
              c == u.t.patches[n]
              new == MkCommit(Parent(c), IF way = "message" THEN Tree(c) ELSE Tree(tree), meta)
          IN  /\ name # n \/ new # c
              /\ was' = [repo |-> repo, stash |-> stash] /\ Uses("commands")
              /\ Concludes([NoCmd EXCEPT !.name = "edit"], EditPatch(u, n, name, new, way))
              /\ mine' = IF way = "message" THEN mine ELSE {}
  BY Zenon DEF Edit
<1>c. PICK c, new : /\ c = x.t.patches[n]
                    /\ new = MkCommit(Parent(c), IF way = "message" THEN Tree(c) ELSE Tree(tree), meta)
  OBVIOUS
<1>d. PICK name : /\ name \in {n} \cup Elems(Free(NewNames))
                  /\ Concludes(run, EditPatch(x, n, name, new, way))
                  /\ mine' = IF way = "message" THEN mine ELSE {}
  BY <1>a, <1>b, <1>c, Zenon
<1>1. PICK y : /\ y = EditPatch(x, n, name, new, way) /\ Concludes(run, y)
               /\ n \in Listed /\ meta \in Metas /\ tree \in Targets
  BY <1>d
<1>2. n \in InLists(repo.state) /\ n \in Names
  BY <1>1, ListedIs
<1>3. name \in Names /\ (name = n \/ name \notin InLists(repo.state))
  BY <1>d, <1>2, FreeNames
<1>4. Opened(x, repo)
  BY <1>a, WithinOpened, OptionTypes
<1>5. Good(repo.state) /\ repo.state.patches \in PatchMaps /\ x.t.patches = repo.state.patches
  BY <1>4, OpenedFacts DEF Opened
<1>6. c \in Commits /\ Parent(c) \in Commits /\ Tree(c) \in Trees /\ c = repo.state.patches[n]
  BY <1>c, <1>2, <1>5, PatchCommit, CommitTypes
<1>7. Tree(tree) \in Trees
  BY <1>1, InputsAssumption, CommitTypes
<1>8. new \in Commits /\ HasParent(new) /\ Parent(new) = Parent(repo.state.patches[n])
  <2>1. PICK up, g : up = Parent(c) /\ g = IF way = "message" THEN Tree(c) ELSE Tree(tree)
    OBVIOUS
  <2>2. up \in Commits /\ g \in Trees /\ new = MkCommit(up, g, meta) /\ meta \in Metas
    BY <1>1, <1>c, <1>6, <1>7, <2>1
  <2>3. new \in Commits /\ HasParent(new)
    BY <2>2, CommitTypes
  <2>4. Parent(new) = up
    BY <2>2, ParentOfNew
  <2> QED BY <1>6, <2>1, <2>3, <2>4
<1>9. Ready(y)
  BY <1>1, <1>2, <1>3, <1>4, <1>8, EditPatchOK
<1>10. stash' = stash /\ mine' \subseteq Files \X Contents
  BY <1>d, IInvFacts DEF Edit
<1> QED BY <1>1, <1>9, <1>10, ConcludeIInv

LEMMA AppliedType ==
  ASSUME NEW tree \in Trees, NEW d, d.to \in Trees
  PROVE  Applied(tree, d) \in Trees
BY DEF Applied, MergeTree, Trees

LEMMA FoldIInv ==
  ASSUME IInv, Fold
  PROVE  IInv'
<1>1. repo.state.applied # <<>> /\ stash' = stash /\ mine' = mine
  BY DEF Fold
<1>2. PICK d \in Diffs, reject \in BOOLEAN, on \in {repo.branch, Parent(StateTop(repo.state))} \cup Targets :
       LET head == Tree(repo.branch)
           base == Tree(on)
           ok   == PlainApplyClean(base, d.from, d.to)
           m    == MergeRecursive(ReadTreeCheckoutHard(head), base, head, Applied(base, d))
           run  == [NoCmd EXCEPT !.name = "fold"]
       IN  \/ Ends(run, "error") /\ UNCHANGED repo
           \/ repo' = [repo EXCEPT !.wd = m] /\ Ends(run, IF ok /\ m.unmerged = {} THEN "ok" ELSE "conflict")
  BY DEF Fold
<1>3. PICK head, base, run : head = Tree(repo.branch) /\ base = Tree(on) /\ run = [NoCmd EXCEPT !.name = "fold"]
  OBVIOUS
<1>4. PICK to, m, w, ok : /\ to = Applied(base, d) /\ ok = PlainApplyClean(base, d.from, d.to)
                          /\ w = ReadTreeCheckoutHard(head) /\ m = MergeRecursive(w, base, head, to)
  OBVIOUS
<1>5. \/ Ends(run, "error") /\ UNCHANGED repo
      \/ repo' = [repo EXCEPT !.wd = m] /\ Ends(run, IF ok /\ m.unmerged = {} THEN "ok" ELSE "conflict")
  BY <1>2, <1>3, <1>4, Zenon
<1>6. d.to \in Trees
  <2>1. PICK s : s \in Series /\ d \in Elems(s)
    BY DEF Diffs
  <2>2. s \in Seq([name : Names, from : Trees, to : Trees])
    BY <2>1, InputsAssumption
  <2>3. PICK T : T = [name : Names, from : Trees, to : Trees]
    OBVIOUS
  <2>4. s \in Seq(T)
    BY <2>2, <2>3
  <2>5. d \in T
    BY <2>1, <2>4 DEF Elems
  <2> QED BY <2>3, <2>5
<1>7. head \in Trees /\ base \in Trees
  <2>1. PICK l, s, n : s = repo.state.applied /\ l = Len(s) /\ n = s[l]
    OBVIOUS
  <2>2. s \in Seq(Names) /\ Good(repo.state) /\ repo.state.patches \in PatchMaps
    BY <2>1, IInvFacts DEF Sound, States
  <2>3. l \in 1..Len(s)
    BY <1>1, <2>1, <2>2
  <2>4. n \in Elems(s) /\ n \in Names
    BY <2>1, <2>2, <2>3, ElemsIff
  <2>5. n \in InLists(repo.state)
    BY <2>1, <2>4 DEF InLists
  <2>6. Parent(repo.state.patches[n]) \in Commits
    BY <2>2, <2>4, <2>5, PatchCommit
  <2>7. StateTop(repo.state) = repo.state.patches[n]
    BY <1>1, <2>1 DEF StateTop, TopOf
  <2>8. repo.branch \in Commits /\ on \in Commits
    BY <1>2, <2>6, <2>7, IInvFacts, InputsAssumption
  <2> QED BY <1>3, <2>8, CommitTypes
<1>8. to \in Trees
  BY <1>4, <1>6, <1>7, AppliedType
<1>9. w \in Workdirs /\ m \in Workdirs
  <2>1. w \in Workdirs
    BY <1>4, <1>7 DEF ReadTreeCheckoutHard, Workdirs
  <2> QED BY <1>4, <1>7, <1>8, <2>1, MergeTypes
<1>10. Sound(repo')
  <2>1. repo' = repo \/ Rewd(repo, m, repo')
    BY <1>5 DEF Rewd
  <2> QED BY <1>9, <2>1, IInvFacts, RewdSound
<1>11. cmd' = NoCmd /\ last'.how \in Hows
  BY <1>5, EndsForm DEF Hows
<1> QED BY <1>1, <1>10, <1>11, IInvFacts, EndIInv
-----------------------------------------------------------------------------
(* The starts of the others. *)

LEMMA StartIInv ==
  ASSUME IInv, Start, NEW c, Starts(c), Sound(repo'), stash' \in Seq(StashEntries),
         c.at = 1, c.target \in MaybeCommits, c.names \in Seq(Names), c.stashed => stash' # <<>>,
         c.pc # "unstash", Fits(c, repo')
  PROVE  IInv'
<1>1. cmd' = c /\ last' = NoLast /\ mine' \subseteq mine
  BY DEF Starts
<1>2. CmdForm' /\ Loops'
  BY IInvFacts, StartForm
<1>3. last'.how \in Hows
  BY <1>1 DEF NoLast, Hows
<1>4. 1 \in 1..(MaxPlan + 1)
  BY InputsAssumption
<1>5. mine' \subseteq Files \X Contents
  BY <1>1, IInvFacts
<1> QED BY <1>1, <1>2, <1>3, <1>4, <1>5 DEF IInv

LEMMA SpillStartIInv ==
  ASSUME IInv, SpillStart
  PROVE  IInv'
<1>1. repo.state.applied # <<>> /\ stash' = stash /\ Start
  BY DEF SpillStart, Start
<1>2. PICK s, n, x, c : /\ s = repo.state.applied /\ n = s[Len(s)] /\ x = Within(NoWorktree)
                        /\ c = x.t.patches[n]
  OBVIOUS
<1>3. PICK P \in (SUBSET Files) \ {{}}, flags \in SUBSET {"reset"} :
        LET m    == repo.state.applied[Len(repo.state.applied)]
            u    == Within(NoWorktree)
            d    == u.t.patches[m]
            tree == [f \in Files |-> IF f \in P THEN Tree(Parent(d))[f] ELSE Tree(d)[f]]
            e    == Execute(With(u, UpdatePatch(u.t, m, MkCommit(Parent(d), tree, Meta(d)))))
        IN  /\ repo' = e.r
            /\ Starts([NoCmd EXCEPT !.name = "spill", !.pc = "spilled", !.flags = flags])
  BY Zenon DEF SpillStart
<1>4. PICK tree, new, v, y, run :
        /\ tree = [f \in Files |-> IF f \in P THEN Tree(Parent(c))[f] ELSE Tree(c)[f]]
        /\ new = MkCommit(Parent(c), tree, Meta(c)) /\ v = UpdatePatch(x.t, n, new) /\ y = With(x, v)
        /\ run = [NoCmd EXCEPT !.name = "spill", !.pc = "spilled", !.flags = flags]
  OBVIOUS
<1>5. repo' = Execute(y).r /\ Starts(run)
  BY <1>2, <1>3, <1>4, Zenon
<1>6. Opened(x, repo)
  BY <1>2, WithinOpened, OptionTypes
<1>7. /\ WF(x.t, repo.state.patches) /\ Linked(x.t) /\ x.t.head = NoCommit /\ Good(repo.state)
      /\ s \in Seq(Names) /\ repo.state.patches \in PatchMaps /\ x.t.applied = s
      /\ x.t.patches = repo.state.patches /\ InLists(x.t) = InLists(repo.state)
  BY <1>2, <1>6, OpenedFacts DEF Opened
<1>8. n \in Names /\ n \in InLists(repo.state)
  <2>1. PICK l : l = Len(s)
    OBVIOUS
  <2>2. l \in 1..Len(s) /\ s[l] = n
    BY <1>1, <1>2, <1>7, <2>1
  <2>3. n \in Elems(s) /\ n \in Names
    BY <1>7, <2>2, ElemsIff
  <2> QED BY <1>2, <2>3 DEF InLists
<1>9. /\ c = repo.state.patches[n] /\ c \in Commits /\ Parent(c) \in Commits
      /\ Tree(c) \in Trees /\ Tree(Parent(c)) \in Trees /\ Meta(c) \in Metas
  BY <1>2, <1>7, <1>8, PatchCommit, CommitTypes
<1>10. new \in Commits /\ HasParent(new) /\ Parent(new) = Parent(c)
  <2>1. tree \in Trees
    BY <1>4, <1>9 DEF Trees
  <2>2. PICK up, m : up = Parent(c) /\ m = Meta(c)
    OBVIOUS
  <2>3. up \in Commits /\ m \in Metas /\ new = MkCommit(up, tree, m)
    BY <1>4, <1>9, <2>2
  <2>4. new \in Commits /\ HasParent(new)
    BY <2>1, <2>3, CommitTypes
  <2>5. Parent(new) = up
    BY <2>3, ParentOfNew
  <2> QED BY <2>2, <2>4, <2>5
<1>11. repo.state.patches[n] # NoCommit
  BY <1>7, <1>8 DEF Good, HasPatch
<1>12. PICK t, p : t = x.t /\ p = repo.state.patches
  OBVIOUS
<1>13. Editable(t, p, n, n, new)
  BY <1>2, <1>7, <1>8, <1>9, <1>10, <1>11, <1>12 DEF Editable
<1>14. Edited(t, n, n, new, v)
  BY <1>4, <1>12 DEF Edited
<1>15. WF(v, p) /\ Linked(v) /\ v.head = t.head
  BY ONLY <1>13, <1>14, EditedOK
<1>16. Ready(y)
  BY <1>4, <1>6, <1>7, <1>12, <1>15, WithOpened
<1>17. Sound(repo')
  BY <1>5, <1>16, ExecuteSound
<1>18. run.pc = "spilled" /\ run.at = 1 /\ run.target = NoCommit /\ run.names = <<>> /\ run.stashed = FALSE
  BY <1>4 DEF NoCmd
<1>19. Fits(run, repo')
  BY <1>18 DEF Fits
<1> QED BY <1>1, <1>5, <1>17, <1>18, <1>19, NoCommitType, NoElems, IInvFacts, StartIInv

LEMMA BaseType ==
  ASSUME IInv
  PROVE  Base \in Commits
BY IInvFacts, BaseOfType DEF Base, Sound

LEMMA PullStartIInv ==
  ASSUME IInv, PullStart
  PROVE  IInv'
<1>1. repo' = repo /\ stash' = stash /\ Start
  BY DEF PullStart, Start
<1>2. PICK args \in RebaseArgs :
       /\ args[1] \cap {"pull", "fetch"} # {}
       /\ Starts([NoCmd EXCEPT !.name = "pull", !.pc = "pop", !.flags = args[1],
                               !.names = repo.state.applied, !.target = args[2]])
  BY DEF PullStart
<1>3. PICK run : run = [NoCmd EXCEPT !.name = "pull", !.pc = "pop", !.flags = args[1],
                                     !.names = repo.state.applied, !.target = args[2]]
  OBVIOUS
<1>4. /\ run.pc = "pop" /\ run.at = 1 /\ run.target = args[2] /\ run.names = repo.state.applied
      /\ run.stashed = FALSE /\ Starts(run)
  BY <1>2, <1>3 DEF NoCmd
<1>5. args[2] \in MaybeCommits /\ args[2] \in Commits
  BY <1>2, InputsAssumption, MaybeCommitTypes
<1>6. Fits(run, repo')
  BY <1>1, <1>4, <1>5 DEF Fits
<1>7. repo.state.applied \in Seq(Names)
  BY IInvFacts DEF States
<1> QED BY <1>1, <1>4, <1>5, <1>6, <1>7, IInvFacts, StartIInv

LEMMA RebaseStartIInv ==
  ASSUME IInv, RebaseStart
  PROVE  IInv'
<1>1. Start
  BY DEF RebaseStart, Start
<1>2. PICK args \in RebaseArgs :
        \E target : /\ target = IF args[2] = NoCommit THEN Base ELSE args[2]
                    /\ Starts([NoCmd EXCEPT !.name = "rebase", !.pc = "pop", !.flags = args[1],
                               !.names = repo.state.applied, !.target = target, !.stashed = ~Clean])
  BY Zenon DEF RebaseStart
<1>3. PICK target, b :
        /\ target = (IF args[2] = NoCommit THEN Base ELSE args[2]) /\ b = ~Clean
        /\ Starts([NoCmd EXCEPT !.name = "rebase", !.pc = "pop", !.flags = args[1],
                               !.names = repo.state.applied, !.target = target, !.stashed = b])
  BY <1>2
<1>4. PICK run : run = [NoCmd EXCEPT !.name = "rebase", !.pc = "pop", !.flags = args[1],
                               !.names = repo.state.applied, !.target = target, !.stashed = b]
  OBVIOUS
<1>5. /\ run.pc = "pop" /\ run.at = 1 /\ run.target = target /\ run.names = repo.state.applied
      /\ run.stashed = b /\ Starts(run)
  BY <1>3, <1>4 DEF NoCmd
<1>6. target \in Commits /\ target \in MaybeCommits
  <2>1. args[2] \in MaybeCommits
    BY <1>2, InputsAssumption
  <2> QED BY <1>3, <2>1, BaseType, MaybeCommitTypes, CommitTypes
<1>7. repo.state.applied \in Seq(Names)
  BY IInvFacts DEF States
<1>8. /\ Sound(repo') /\ repo'.state = repo.state /\ stash' \in Seq(StashEntries)
      /\ b => stash' # <<>>
  <2>1. CASE Clean
    BY <1>3, <2>1, IInvFacts DEF RebaseStart
  <2>2. CASE ~Clean
    <3>1. PICK e, h : /\ e = [base |-> Tree(repo.branch), work |-> repo.wd.work]
                      /\ h = ReadTreeCheckoutHard(Tree(repo.branch))
      OBVIOUS
    <3>2. stash' = <<e>> \o stash /\ repo' = [repo EXCEPT !.wd = h]
      BY <2>2, <3>1 DEF RebaseStart
    <3>3. e \in StashEntries
      BY <3>1, IInvFacts DEF StashEntries
    <3>4. h \in Workdirs
      BY <3>1, IInvFacts DEF ReadTreeCheckoutHard, Workdirs
    <3>5. Rewd(repo, h, repo')
      BY <3>2 DEF Rewd
    <3>6. stash' \in Seq(StashEntries) /\ stash' # <<>>
      BY <3>2, <3>3, IInvFacts
    <3> QED BY <3>4, <3>5, <3>6, IInvFacts, RewdSound
  <2> QED BY <2>1, <2>2
<1>9. Fits(run, repo')
  BY <1>5, <1>6, <1>8 DEF Fits
<1> QED BY <1>1, <1>5, <1>6, <1>7, <1>8, <1>9, StartIInv

LEMMA RefreshStartIInv ==
  ASSUME IInv, RefreshStart
  PROVE  IInv'
<1>1. stash' = stash /\ Start /\ Free(TempNames) # <<>>
  BY DEF RefreshStart, Start
<1>2. PICK n \in Elems(repo.state.applied \o repo.state.unapplied), mode \in RefreshModes, P \in SUBSET Files :
       LET paths == RefreshPaths(n, mode, P)
       IN  /\ mode # "paths" => P = {}
           /\ RefreshAllowed(paths, mode, P)
           /\ repo' = [repo EXCEPT !.wd.index = Updated(@, paths)]
           /\ Starts([NoCmd EXCEPT !.name = "refresh", !.pc = "temp", !.names = <<n, Free(TempNames)[1]>>,
                !.target = MkCommit(repo.branch, RefreshTree(paths, mode), Meta(repo.state.patches[n]))])
  BY Zenon DEF RefreshStart
<1>3. PICK paths, f, tree, m, b, new, names, run :
        /\ paths = RefreshPaths(n, mode, P) /\ f = Free(TempNames)[1] /\ tree = RefreshTree(paths, mode)
        /\ m = Meta(repo.state.patches[n]) /\ b = repo.branch
        /\ new = MkCommit(b, tree, m) /\ names = <<n, f>>
        /\ run = [NoCmd EXCEPT !.name = "refresh", !.pc = "temp", !.names = names, !.target = new]
  OBVIOUS
<1>4. repo' = [repo EXCEPT !.wd.index = Updated(@, paths)] /\ Starts(run)
  BY <1>2, <1>3, Zenon
<1>5. /\ run.pc = "temp" /\ run.at = 1 /\ run.target = new /\ run.names = names /\ run.stashed = FALSE
  BY <1>3 DEF NoCmd
<1>6. /\ repo.state.applied \in Seq(Names) /\ repo.state.unapplied \in Seq(Names)
      /\ repo.state.patches \in PatchMaps /\ Good(repo.state)
  BY IInvFacts DEF States, Sound
<1>7. n \in Elems(repo.state.applied) \cup Elems(repo.state.unapplied)
  BY <1>2, <1>6, ConcatElems
<1>8. n \in InLists(repo.state) /\ n \in Names
  BY <1>6, <1>7, ElemsIff DEF InLists
<1>9. f \in Names /\ f \notin InLists(repo.state)
  <2>1. TempNames \in Seq(Names)
    BY InputsAssumption
  <2>2. PICK d : d = Free(TempNames)
    OBVIOUS
  <2>3. d \in Seq(Names) /\ Elems(d) = Elems(TempNames) \ InLists(repo.state)
    BY <2>1, <2>2, DropElems, ListedIs DEF Free
  <2>4. 1 \in 1..Len(d) /\ d[1] = f
    BY <1>1, <1>3, <2>2, <2>3
  <2>5. f \in Elems(d)
    BY <2>3, <2>4, ElemsIff
  <2> QED BY <2>3, <2>5, ElemsIff
<1>10. names \in Seq(Names) /\ Len(names) = 2 /\ names[1] = n /\ names[2] = f
  BY <1>3, <1>8, <1>9
<1>11. /\ b \in Commits /\ tree \in Trees /\ m \in Metas
  <2>1. repo.state.patches[n] \in Commits
    BY <1>6, <1>8, PatchCommit
  <2>2. tree \in Trees
    BY <1>3, IInvFacts DEF RefreshTree, Updated, Trees
  <2> QED BY <1>3, <2>1, <2>2, IInvFacts, CommitTypes
<1>12. new \in Commits /\ HasParent(new)
  BY <1>3, <1>11, CommitTypes
<1>13. Parent(new) = b
  BY <1>3, <1>11, ParentOfNew
<1>14. Sound(repo') /\ repo'.state = repo.state /\ repo'.branch = repo.branch
  <2>1. PICK i, w : i = Updated(repo.wd.index, paths) /\ w = [repo.wd EXCEPT !.index = i]
    OBVIOUS
  <2>2. i \in Trees
    BY <2>1, IInvFacts DEF Updated, Trees
  <2>3. w \in Workdirs
    BY <2>1, <2>2, IInvFacts DEF Workdirs
  <2>4. Rewd(repo, w, repo')
    BY <1>4, <2>1, IInvFacts DEF Rewd
  <2> QED BY <2>3, <2>4, IInvFacts, RewdSound
<1>15. Fits(run, repo')
  BY <1>3, <1>5, <1>7, <1>8, <1>9, <1>10, <1>12, <1>13, <1>14 DEF Fits
<1>16. new \in MaybeCommits
  BY <1>12, CommitTypes, MaybeCommitTypes
<1> QED BY <1>1, <1>4, <1>5, <1>10, <1>14, <1>15, <1>16, IInvFacts, StartIInv

\* A stretch of a list has its names once, as the list does.
LEMMA Stretch ==
  ASSUME NEW s \in Seq(Names), NoDuplicates(s), NEW i \in 1..Len(s), NEW j \in 1..Len(s),
         NEW r, r = SubSeq(s, i, j)
  PROVE  r \in Seq(Names) /\ NoDuplicates(r) /\ Elems(r) \subseteq Elems(s)
<1>1. i \in Int /\ j \in Int /\ i >= 1 /\ j <= Len(s) /\ Len(s) \in Nat
  OBVIOUS
<1>2. r \in Seq(Names) /\ Len(r) = (IF i <= j THEN j - i + 1 ELSE 0)
  BY <1>1
<1>3. \A k \in 1..Len(r) : i + k - 1 \in 1..Len(s) /\ r[k] = s[i + k - 1]
  BY <1>1, <1>2
<1>4. Elems(r) \subseteq Elems(s)
  <2>1. SUFFICES ASSUME NEW n \in Elems(r) PROVE n \in Elems(s)
    OBVIOUS
  <2>2. PICK k \in 1..Len(r) : r[k] = n
    BY <1>2, ElemsIff
  <2>3. PICK l : l = i + k - 1
    OBVIOUS
  <2>4. l \in 1..Len(s) /\ s[l] = n
    BY <1>3, <2>2, <2>3
  <2> QED BY <2>4, ElemsIff
<1>5. \A k, l \in 1..Len(r) : r[k] = r[l] => k = l
  <2>1. SUFFICES ASSUME NEW k \in 1..Len(r), NEW l \in 1..Len(r), r[k] = r[l] PROVE k = l
    OBVIOUS
  <2>2. PICK a, b : a = i + k - 1 /\ b = i + l - 1
    OBVIOUS
  <2>3. a \in 1..Len(s) /\ b \in 1..Len(s) /\ s[a] = s[b]
    BY <1>3, <2>1, <2>2
  <2>4. a = b
    BY <2>3, NoDupIff
  <2> QED BY <1>1, <2>2, <2>4
<1> QED BY <1>2, <1>4, <1>5, NoDupIff

LEMMA SyncStartIInv ==
  ASSUME Doubtful = {}, IInv, SyncStart
  PROVE  IInv'
<1>1. repo' = repo /\ stash' = stash /\ Start
  BY DEF SyncStart, Start
<1>2. PICK names \in Ranges :
       LET common == Keep(names, DOMAIN RefPatches)
           first  == common[1]
           above  == IF first \in Elems(repo.state.applied) THEN Above(repo.state, first) ELSE <<>>
           pushed == IF first \in Elems(repo.state.applied) THEN <<first>> ELSE <<>>
       IN  /\ common # <<>>
           /\ pushed = <<>> \/ "sync applied" \in Doubtful
           /\ Starts([NoCmd EXCEPT !.name = "sync", !.pc = "sync pop", !.flags = Elems(common),
                        !.names = pushed \o above \o Keep(names, Elems(repo.state.unapplied))])
  BY Zenon DEF SyncStart
<1>3. PICK common, first, above, pushed, kept, all, run :
        /\ common = Keep(names, DOMAIN RefPatches) /\ first = common[1]
        /\ above = (IF first \in Elems(repo.state.applied) THEN Above(repo.state, first) ELSE <<>>)
        /\ pushed = (IF first \in Elems(repo.state.applied) THEN <<first>> ELSE <<>>)
        /\ kept = Keep(names, Elems(repo.state.unapplied))
        /\ all = pushed \o above \o kept
        /\ run = [NoCmd EXCEPT !.name = "sync", !.pc = "sync pop", !.flags = Elems(common), !.names = all]
  OBVIOUS
<1>4. (pushed = <<>> \/ "sync applied" \in Doubtful) /\ Starts(run)
  BY <1>2, <1>3, Zenon
<1>5. /\ run.pc = "sync pop" /\ run.at = 1 /\ run.target = NoCommit /\ run.names = all
      /\ run.stashed = FALSE /\ run.flags = Elems(common)
  BY <1>3 DEF NoCmd
<1>6. /\ repo.state.applied \in Seq(Names) /\ repo.state.unapplied \in Seq(Names) /\ Good(repo.state)
  BY IInvFacts DEF States, Sound
<1>7. NoDuplicates(repo.state.applied) /\ NoDuplicates(repo.state.unapplied)
  BY <1>6 DEF Good, Distinct3
<1>8. names \in Seq(Names) /\ NoDuplicates(names)
  <2>1. PICK s \in {repo.state.applied, repo.state.unapplied} :
          names \in {SubSeq(s, i, j) : i, j \in 1..Len(s)}
    BY DEF Ranges
  <2>2. PICK i \in 1..Len(s), j \in 1..Len(s) : names = SubSeq(s, i, j)
    BY <2>1
  <2>3. s \in Seq(Names) /\ NoDuplicates(s)
    BY <1>6, <1>7, <2>1
  <2> QED BY <2>2, <2>3, Stretch
<1>9. pushed = <<>> /\ above = <<>>
  <2>1. pushed = <<>>
    BY <1>4
  <2>2. first \notin Elems(repo.state.applied)
    BY <1>3, <2>1
  <2> QED BY <1>3, <2>1, <2>2
<1>10. /\ kept \in Seq(Names) /\ NoDuplicates(kept) /\ Elems(kept) \subseteq Elems(repo.state.unapplied)
       /\ Elems(common) \subseteq DOMAIN RefPatches
  BY <1>3, <1>8, KeepElems
<1>11. all = kept
  <2>1. PICK none : none = pushed \o above
    OBVIOUS
  <2>2. none \in Seq(Names) /\ Len(none) = 0
    BY <1>9, <2>1, NoElems
  <2>3. all = none \o kept
    BY <1>3, <2>1
  <2>4. all \in Seq(Names) /\ Len(all) = Len(kept)
    BY <1>10, <2>2, <2>3
  <2>5. \A i \in 1..Len(kept) : all[i] = kept[i]
    BY <1>10, <2>2, <2>3
  <2> QED BY ONLY <1>10, <2>4, <2>5
<1>12. Pushable(repo.state, all)
  BY <1>10, <1>11 DEF Pushable
<1>13. Fits(run, repo')
  BY <1>1, <1>5, <1>10, <1>12 DEF Fits
<1> QED BY <1>1, <1>4, <1>5, <1>10, <1>11, <1>13, NoCommitType, IInvFacts, StartIInv
-----------------------------------------------------------------------------
(* import. *)

\* As many names as the list is long.
LEMMA CardLen ==
  ASSUME NEW s \in Seq(Names), NoDuplicates(s)
  PROVE  IsFiniteSet(Elems(s)) /\ Cardinality(Elems(s)) = Len(s)
<1>1. PICK l, T : l = Len(s) /\ T = Elems(s)
  OBVIOUS
<1>2. l \in Nat /\ s \in [1..l -> Names] /\ \A x : x \in T <=> \E i \in 1..l : s[i] = x
  BY <1>1, ElemsIff
<1>3. \A i, j \in 1..l : s[i] = s[j] => i = j
  BY <1>1, NoDupIff
<1>4. s \in [1..l -> T]
  BY <1>2
<1>5. s \in Injection(1..l, T) /\ s \in Surjection(1..l, T)
  BY <1>2, <1>3, <1>4 DEF Injection, IsInjective, Surjection
<1>6. ExistsBijection(1..l, T)
  BY <1>5 DEF ExistsBijection, Bijection
<1> QED BY <1>1, <1>2, <1>6, FS_CountingElements, FS_NatBijection

\* The names of a series, as a list.
LEMMA SeriesNamesType ==
  ASSUME NEW plan \in Seq(Entries), NEW names, names = SeriesNames(plan)
  PROVE  names \in Seq(Names) /\ Len(names) = Len(plan) /\ \A i \in 1..Len(plan) : names[i] = plan[i].name
<1>1. PICK l, T : l = Len(plan) /\ T = Entries
  OBVIOUS
<1>2. plan \in Seq(T) /\ l \in Nat
  BY <1>1
<1>3. \A i \in 1..l : plan[i] \in T
  BY <1>1, <1>2
<1>4. \A i \in 1..l : plan[i].name \in Names
  BY <1>1, <1>3 DEF Entries
<1>5. names = [i \in 1..l |-> plan[i].name]
  BY <1>1 DEF SeriesNames
<1>6. names \in [1..l -> Names] /\ \A i \in 1..l : names[i] = plan[i].name
  BY <1>4, <1>5
<1> QED BY <1>1, <1>2, <1>6

LEMMA FreeCount ==
  ASSUME IInv
  PROVE  Len(Free(NewNames)) = Cardinality(Elems(NewNames) \ InLists(repo.state))
<1>1. NewNames \in Seq(Names) /\ NoDuplicates(NewNames)
  BY InputsAssumption
<1>2. PICK d : d = Free(NewNames)
  OBVIOUS
<1>3. d \in Seq(Names) /\ NoDuplicates(d)
  BY <1>1, <1>2, DropElems DEF Free
<1> QED BY <1>2, <1>3, FreeNames, CardLen

LEMMA ImportStartIInv ==
  ASSUME Doubtful = {}, IInv, ImportStart
  PROVE  IInv'
<1>1. repo' = repo /\ stash' = stash /\ Start
  BY DEF ImportStart, Start
<1>2. PICK s \in Series, flags \in {{}, {"ignore"}, {"replace"}, {"reject"}, {"3way"}} :
       /\ Admitted(s, flags)
       /\ Starts([NoCmd EXCEPT !.name = "import", !.pc = "apply", !.flags = flags, !.plan = s])
  BY Zenon DEF ImportStart
<1>3. PICK run : run = [NoCmd EXCEPT !.name = "import", !.pc = "apply", !.flags = flags, !.plan = s]
  OBVIOUS
<1>4. /\ run.pc = "apply" /\ run.at = 1 /\ run.target = NoCommit /\ run.names = <<>>
      /\ run.stashed = FALSE /\ run.plan = s /\ run.flags = flags /\ Starts(run)
  BY <1>2, <1>3 DEF NoCmd
<1>5. s \in Seq(Entries)
  BY InputsAssumption DEF Entries
<1>6. DOMAIN s = 1..Len(s)
  BY <1>5
<1>7. \A i \in 1..Len(s) : s[i].name \notin Elems(NewNames)
  BY <1>6, InputsAssumption
<1>8. PICK names : names = [i \in DOMAIN s |-> s[i].name]
  OBVIOUS
<1>9. names = SeriesNames(s)
  BY <1>6, <1>8 DEF SeriesNames
<1>10. Len(Free(NewNames)) = Cardinality(Elems(NewNames) \ InLists(repo.state))
  BY FreeCount
<1>11. IF "ignore" \in flags THEN Elems(names) \cap Listed \subseteq Elems(repo.state.applied)
       ELSE IF "replace" \in flags
         THEN NoDuplicates(names) /\ Elems(names) \cap Listed \subseteq Elems(repo.state.unapplied)
       ELSE NoDuplicates(names) /\ Cardinality(Elems(names) \cap Listed) <= Len(Free(NewNames))
  BY <1>2, <1>8 DEF Admitted
<1>12. ImportFits(s, flags, repo.state)
  BY <1>5, <1>7, <1>9, <1>10, <1>11, ListedIs DEF ImportFits
<1>13. Fits(run, repo')
  BY <1>1, <1>4, <1>12 DEF Fits
<1> QED BY <1>1, <1>4, <1>13, NoCommitType, NoElems, IInvFacts, StartIInv

\* A series, the name of its first patch, and the series without that one.
Leads(plan, e, rest) == plan \in Seq(Entries) /\ plan # <<>> /\ e = plan[1].name /\ rest = Tail(plan)

LEMMA SeriesTail ==
  ASSUME NEW plan, NEW e, NEW rest, Leads(plan, e, rest)
  PROVE  /\ rest \in Seq(Entries) /\ \A i \in 1..Len(rest) : \E j \in 1..Len(plan) : rest[i] = plan[j]
         /\ plan[1] \in Entries /\ e \in Names /\ e \in Elems(SeriesNames(plan))
         /\ Elems(SeriesNames(rest)) \subseteq Elems(SeriesNames(plan))
         /\ NoDuplicates(SeriesNames(plan)) =>
              NoDuplicates(SeriesNames(rest)) /\ e \notin Elems(SeriesNames(rest))
<1> USE DEF Leads
<1>1. PICK T, l, a, b : T = Entries /\ l = Len(plan) /\ a = SeriesNames(plan) /\ b = SeriesNames(rest)
  OBVIOUS
<1>2. plan \in Seq(T) /\ l \in Nat /\ l >= 1 /\ plan[1] \in T
  BY <1>1
<1>3. /\ rest \in Seq(T) /\ Len(rest) = l - 1
      /\ \A i \in 1..(l - 1) : rest[i] = plan[i + 1]
  BY <1>1, <1>2
<1>4. /\ a \in Seq(Names) /\ Len(a) = l /\ \A i \in 1..l : a[i] = plan[i].name
      /\ b \in Seq(Names) /\ Len(b) = l - 1 /\ \A i \in 1..(l - 1) : b[i] = rest[i].name
  <2>1. rest \in Seq(Entries)
    BY <1>1, <1>3
  <2>2. a \in Seq(Names) /\ Len(a) = Len(plan) /\ \A i \in 1..Len(plan) : a[i] = plan[i].name
    BY <1>1, SeriesNamesType
  <2>3. b \in Seq(Names) /\ Len(b) = Len(rest) /\ \A i \in 1..Len(rest) : b[i] = rest[i].name
    BY <1>1, <2>1, SeriesNamesType
  <2> QED BY <1>1, <1>3, <2>2, <2>3
<1>5. \A i \in 1..(l - 1) : i + 1 \in 1..l
  BY <1>2
<1>6. \A i \in 1..(l - 1) : b[i] = a[i + 1]
  BY <1>3, <1>4, <1>5
<1>7. 1 \in 1..l /\ a[1] = e
  BY <1>2, <1>4
<1> HIDE DEF Leads
<1>8. e \in Elems(a) /\ e \in Names
  <2>1. \E i \in 1..Len(a) : a[i] = e
    BY <1>4, <1>7
  <2> QED BY <1>4, <2>1, ElemsIff
<1>9. Elems(b) \subseteq Elems(a)
  <2>1. SUFFICES ASSUME NEW n \in Elems(b) PROVE n \in Elems(a)
    OBVIOUS
  <2>a. b \in Seq(Names)
    BY <1>4
  <2>2. PICK i : i \in 1..Len(b) /\ b[i] = n
    BY ONLY <2>1, <2>a, ElemsIff
  <2>3. PICK j : j = i + 1
    OBVIOUS
  <2>4. j \in 1..Len(a) /\ a[j] = n
    BY <1>4, <1>5, <1>6, <2>2, <2>3
  <2> QED BY <1>4, <2>4, ElemsIff
<1>10. ASSUME NoDuplicates(a) PROVE NoDuplicates(b) /\ e \notin Elems(b)
  <2>1. \A i, j \in 1..l : a[i] = a[j] => i = j
    <3>1. \A i, j \in 1..Len(a) : a[i] = a[j] => i = j
      BY <1>4, <1>10, NoDupIff
    <3> QED BY <1>4, <3>1
  <2>2. \A i, j \in 1..Len(b) : b[i] = b[j] => i = j
    <3> TAKE i, j \in 1..Len(b)
    <3>1. PICK k, m : k = i + 1 /\ m = j + 1
      OBVIOUS
    <3>2. k \in 1..l /\ m \in 1..l /\ b[i] = a[k] /\ b[j] = a[m] /\ i \in Int /\ j \in Int
      BY <1>4, <1>5, <1>6, <3>1
    <3>3. b[i] = b[j] => k = m
      BY <2>1, <3>2
    <3> QED BY <3>1, <3>2, <3>3
  <2>3. ASSUME NEW i \in 1..Len(b), b[i] = e PROVE FALSE
    <3>1. PICK k : k = i + 1
      OBVIOUS
    <3>2. i \in 1..(l - 1)
      BY <1>4, <2>3
    <3>3. k \in 1..l /\ a[k] = b[i]
      BY <1>5, <1>6, <3>1, <3>2
    <3>4. k = 1
      BY <1>7, <2>1, <2>3, <3>3
    <3>5. k # 1
      BY <1>2, <3>1, <3>2
    <3> QED BY <3>4, <3>5
  <2>4. NoDuplicates(b)
    BY <1>4, <2>2, NoDupIff
  <2>5. e \notin Elems(b)
    BY <1>4, <2>3, ElemsIff
  <2> QED BY <2>4, <2>5
<1>11. \A i \in 1..Len(rest) : \E j \in 1..Len(plan) : rest[i] = plan[j]
  BY <1>1, <1>3, <1>5
<1> QED BY <1>1, <1>2, <1>3, <1>8, <1>9, <1>10, <1>11

LEMMA ImportApplyIInv ==
  ASSUME IInv, ImportApply
  PROVE  IInv'
<1>1. cmd.pc = "apply" /\ stash' = stash /\ mine' = mine
  BY DEF ImportApply
<1>2. ImportFits(cmd.plan, cmd.flags, repo.state)
  BY <1>1, IInvFacts DEF Fits
<1>3. Progress
  BY Proceeds DEF Proceed
<1>4. CASE Ends(cmd, "ok") /\ repo' = repo
  BY <1>1, <1>4, EndsForm, IInvFacts, EndIInv DEF Hows
<1>5. CASE cmd.plan # <<>> /\ Skipped /\ cmd' = [cmd EXCEPT !.plan = Tail(@)] /\ UNCHANGED <<repo, last>>
  <2>1. PICK rest, e : rest = Tail(cmd.plan) /\ e = cmd.plan[1].name
    OBVIOUS
  <2>2. /\ cmd'.pc = "apply" /\ cmd'.plan = rest /\ cmd'.flags = cmd.flags /\ cmd'.names = cmd.names
        /\ cmd'.target = cmd.target /\ cmd'.stashed = cmd.stashed /\ cmd'.at = cmd.at
    BY <1>1, <1>5, <2>1, IInvFacts DEF CmdForm, CmdFields
  <2>3. /\ rest \in Seq(Entries) /\ \A i \in 1..Len(rest) : \E j \in 1..Len(cmd.plan) : rest[i] = cmd.plan[j]
        /\ Elems(SeriesNames(rest)) \subseteq Elems(SeriesNames(cmd.plan))
    <3>1. PICK plan : plan = cmd.plan
      OBVIOUS
    <3>2. Leads(plan, e, rest)
      BY <1>2, <1>5, <2>1, <3>1 DEF ImportFits, Leads
    <3>3. /\ rest \in Seq(Entries) /\ \A i \in 1..Len(rest) : \E j \in 1..Len(plan) : rest[i] = plan[j]
          /\ Elems(SeriesNames(rest)) \subseteq Elems(SeriesNames(plan))
      BY ONLY <3>2, SeriesTail
    <3> QED BY <3>1, <3>3
  <2>4. "ignore" \in cmd.flags
    BY <1>5 DEF Skipped
  <2>5. \A i \in 1..Len(rest) : rest[i].name \notin Elems(NewNames)
    BY <1>2, <2>3 DEF ImportFits
  <2>6. Elems(SeriesNames(rest)) \cap InLists(repo.state) \subseteq Elems(repo.state.applied)
    BY <1>2, <2>3, <2>4 DEF ImportFits
  <2>7. ImportFits(rest, cmd.flags, repo.state)
    BY <2>3, <2>4, <2>5, <2>6 DEF ImportFits
  <2>8. Fits(cmd', repo')
    BY <1>5, <2>2, <2>7 DEF Fits
  <2>9. Carries
    BY <2>2 DEF Carries
  <2> QED BY <1>1, <1>3, <1>5, <2>8, <2>9, IInvFacts, GoIInv
<1>6. ASSUME cmd.plan # <<>>, ~Skipped, NEW to, to \in Trees, NEW flags, flags = cmd.flags \/ flags = cmd.flags \cup {"rejected"},
             repo' = [repo EXCEPT !.wd = ReadTreeCheckoutHard(to)],
             cmd' = [cmd EXCEPT !.pc = "create", !.flags = flags], last' = last
      PROVE  IInv'
  <2>1. /\ cmd'.pc = "create" /\ cmd'.plan = cmd.plan /\ cmd'.flags = flags /\ cmd'.names = cmd.names
        /\ cmd'.target = cmd.target /\ cmd'.stashed = cmd.stashed /\ cmd'.at = cmd.at
    BY <1>6, IInvFacts DEF CmdForm, CmdFields
  <2>2. ("ignore" \in flags <=> "ignore" \in cmd.flags) /\ ("replace" \in flags <=> "replace" \in cmd.flags)
    BY <1>6
  <2>3. PICK h : h = ReadTreeCheckoutHard(to)
    OBVIOUS
  <2>4. h \in Workdirs /\ Rewd(repo, h, repo')
    BY <1>6, <2>3 DEF ReadTreeCheckoutHard, Workdirs, Rewd
  <2>5. Sound(repo') /\ repo'.state = repo.state
    BY <2>4, IInvFacts, RewdSound
  <2>6. ImportFits(cmd.plan, flags, repo.state)
    BY <1>2, <2>2 DEF ImportFits
  <2>7. "ignore" \in flags => cmd.plan[1].name \notin Elems(repo.state.applied)
    BY <1>6, <2>2 DEF Skipped, Entry
  <2>8. Fits(cmd', repo')
    BY <1>6, <2>1, <2>5, <2>6, <2>7 DEF Fits
  <2>9. Carries
    BY <2>1 DEF Carries
  <2> QED BY <1>1, <1>3, <1>6, <2>5, <2>8, <2>9, IInvFacts, GoIInv
<1>7. CASE cmd.plan # <<>> /\ ~Skipped
  <2>1. PICK w, ok, to, m :
          /\ w = repo.wd.index /\ to = Applied(w, Entry) /\ m = MergeRecursive(repo.wd, Entry.from, w, Entry.to)
          /\ ok = IF "3way" \in cmd.flags THEN ApplyClean(Entry.from, w, Entry.to)
                  ELSE PlainApplyClean(w, Entry.from, Entry.to)
    OBVIOUS
  <2>2. \/ /\ repo' = [repo EXCEPT !.wd = ReadTreeCheckoutHard(to)]
           /\ cmd' = [cmd EXCEPT !.pc = "create", !.flags = IF ok THEN @ ELSE @ \cup {"rejected"}]
           /\ last' = last
        \/ /\ repo' = IF "3way" \in cmd.flags THEN [repo EXCEPT !.wd = m] ELSE repo
           /\ Ends(cmd, "error")
    BY <1>7, <2>1, Zenon DEF ImportApply
  <2>3. w \in Trees /\ Entry.from \in Trees /\ Entry.to \in Trees
    <3>1. cmd.plan \in Seq(Entries)
      BY <1>2 DEF ImportFits
    <3>2. Entry \in Entries
      <4>1. PICK T : T = Entries
        OBVIOUS
      <4>2. cmd.plan \in Seq(T) /\ cmd.plan[1] \in T
        BY <1>7, <3>1, <4>1
      <4> QED BY <4>1, <4>2 DEF Entry
    <3> QED BY <2>1, <3>2, IInvFacts DEF Entries
  <2>4. to \in Trees
    BY <2>1, <2>3, AppliedType
  <2>5. CASE /\ repo' = IF "3way" \in cmd.flags THEN [repo EXCEPT !.wd = m] ELSE repo
             /\ Ends(cmd, "error")
    <3>1. m \in Workdirs
      <4>1. repo.wd \in Workdirs
        BY IInvFacts DEF Sound
      <4> QED BY <2>1, <2>3, <4>1, MergeTypes
    <3>2. repo' = repo \/ Rewd(repo, m, repo')
      BY <2>5 DEF Rewd
    <3>3. Sound(repo')
      BY <3>1, <3>2, IInvFacts, RewdSound
    <3> QED BY <1>1, <2>5, <3>3, EndsForm, IInvFacts, EndIInv DEF Hows
  <2>6. PICK flags : flags = (IF ok THEN cmd.flags ELSE cmd.flags \cup {"rejected"})
    OBVIOUS
  <2>7. \/ /\ repo' = [repo EXCEPT !.wd = ReadTreeCheckoutHard(to)]
           /\ cmd' = [cmd EXCEPT !.pc = "create", !.flags = flags]
           /\ last' = last
        \/ /\ repo' = IF "3way" \in cmd.flags THEN [repo EXCEPT !.wd = m] ELSE repo
           /\ Ends(cmd, "error")
    BY <2>2, <2>6, Zenon
  <2> QED BY <1>6, <1>7, <2>4, <2>5, <2>6, <2>7
<1>8. CASE cmd.plan = <<>>
  BY <1>4, <1>8 DEF ImportApply
<1>9. CASE cmd.plan # <<>> /\ Skipped
  BY <1>5, <1>9 DEF ImportApply
<1> QED BY <1>7, <1>8, <1>9

\* A new patch n with the commit c goes on top of t, where the branch is.
Imports(r, t, n, c, v) ==
  /\ WF(t, r.state.patches) /\ Linked(t) /\ t.head = NoCommit /\ Top(t) = r.branch
  /\ n \in Names /\ n \notin InLists(t)
  /\ c \in Commits /\ HasParent(c) /\ Parent(c) = r.branch
  /\ v = NewApplied(t, n, c)

LEMMA ImportsOK ==
  ASSUME NEW x, NEW r, Opened(x, r), NEW t, NEW n, NEW c, NEW v, Imports(r, t, n, c, v),
         NEW y, y = With(x, v)
  PROVE  /\ Ready(y) /\ y.t = v /\ y.err = "none"
         /\ Elems(v.applied) = Elems(t.applied) \cup {n} /\ v.unapplied = t.unapplied
         /\ InLists(v) = InLists(t) \cup {n}
<1>1. t \in Transactions
  BY DEF Imports, WF
<1>2. t.applied \in Seq(Names)
  BY <1>1 DEF Transactions
<1>3. WF(v, r.state.patches)
  BY NewAppliedOK DEF Imports
<1>4. Linked(v) /\ v.head = NoCommit
  <2>1. n \notin Elems(t.applied)
    BY DEF Imports, InLists
  <2> QED BY <1>1, <2>1, NewLinked DEF Imports, Kept
<1>5. Ready(y) /\ y.t = v /\ y.err = "none"
  BY <1>3, <1>4, WithOpened
<1>6. v.applied = Append(t.applied, n) /\ v.unapplied = t.unapplied /\ v.hidden = t.hidden
  BY <1>1, NewAppliedFields DEF Imports
<1>7. n \in Names
  BY DEF Imports
<1>8. Elems(v.applied) = Elems(t.applied) \cup {n}
  BY <1>2, <1>6, <1>7, AppendElems
<1> QED BY <1>5, <1>6, <1>8 DEF InLists

\* delete_patches of an unapplied patch leaves the applied ones and the top.
Lacks(t, r, n) ==
  /\ WF(t, r.state.patches) /\ Linked(t) /\ t.head = NoCommit /\ Top(t) = r.branch
  /\ InLists(t) = InLists(r.state) \ {n} /\ t.applied = r.state.applied
  /\ Elems(r.state.unapplied) \ {n} \subseteq Elems(t.unapplied)

LEMMA DeleteUnapplied ==
  ASSUME NEW x, NEW r, Opened(x, r), NEW n \in Elems(r.state.unapplied), NEW t, t = DeletePatches(x.t, {n})
  PROVE  Lacks(t, r, n)
<1>1. /\ WF(x.t, r.state.patches) /\ Linked(x.t) /\ x.t.head = NoCommit /\ Good(r.state)
      /\ InLists(x.t) = InLists(r.state) /\ r.state.applied \in Seq(Names)
      /\ r.state.unapplied \in Seq(Names)
      /\ x.t.applied = r.state.applied /\ x.t.unapplied = r.state.unapplied /\ Top(x.t) = r.branch
  BY OpenedFacts DEF Opened
<1>2. n \in Names /\ n \in InLists(r.state) /\ r.state.patches[n] # NoCommit
  <2>1. n \in Names /\ n \in InLists(r.state)
    BY <1>1, ElemsIff DEF InLists
  <2> QED BY <1>1, <2>1 DEF Good, HasPatch
<1>3. PICK u, p, S : u = x.t /\ p = r.state.patches /\ S = {n}
  OBVIOUS
<1>4. /\ WF(t, p) /\ Linked(t) /\ t.head = u.head /\ InLists(t) = InLists(u) \ S
      /\ t.applied = Below(u.applied, S)
      /\ Elems(u.unapplied) \ S \subseteq Elems(t.unapplied) /\ t.base = u.base
      /\ \A m \in Names \ S : t.patches[m] = u.patches[m]
  <2>1. /\ WF(u, p) /\ Linked(u) /\ \A m \in S \cap InLists(u) : p[m] # NoCommit
        /\ t = DeletePatches(u, S)
    BY <1>1, <1>2, <1>3
  <2> QED BY ONLY <2>1, DeleteFrom
<1>5. n \notin Elems(r.state.applied)
  BY <1>1 DEF Good, Distinct3
<1>6. t.applied = r.state.applied
  <2>1. PICK s, l : s = r.state.applied /\ l = Len(s)
    OBVIOUS
  <2>2. s \in Seq(Names) /\ l \in Nat
    BY <1>1, <2>1
  <2>3. \A i \in 1..l : s[i] \notin S
    BY <1>3, <1>5, <2>1, <2>2, ElemsIff
  <2>4. Below(s, S) = SubSeq(s, 1, l)
    <3>1. l \in 0..Len(s) /\ ~(l < Len(s))
      BY <2>1, <2>2
    <3> QED BY <2>2, <2>3, <3>1, BelowIs
  <2>5. SubSeq(s, 1, l) = s
    BY <2>1, <2>2
  <2> QED BY <1>1, <1>3, <1>4, <2>1, <2>4, <2>5
<1>7. Top(t) = r.branch
  <2>1. PICK s, l : s = r.state.applied /\ l = Len(s)
    OBVIOUS
  <2>2. CASE s = <<>>
    BY <1>1, <1>3, <1>4, <1>6, <2>1, <2>2 DEF Top, TopOf
  <2>3. CASE s # <<>>
    <3>1. l \in 1..Len(s) /\ s \in Seq(Names)
      BY <1>1, <2>1, <2>3
    <3>2. s[l] \in Elems(s) /\ s[l] \in Names
      BY <3>1, ElemsIff
    <3>3. t.patches[s[l]] = u.patches[s[l]]
      BY <1>3, <1>4, <1>5, <2>1, <3>2
    <3> QED BY <1>1, <1>3, <1>6, <2>1, <2>3, <3>3 DEF Top, TopOf
  <2> QED BY <2>2, <2>3
<1> QED BY <1>1, <1>3, <1>4, <1>6, <1>7 DEF Lacks

\* The new names suffice for the patches of rest, and for one more.
Enough(rest, s) ==
  Cardinality(Elems(SeriesNames(rest)) \cap InLists(s)) < Cardinality(Elems(NewNames) \ InLists(s))

\* The names that are left fit when n has gone to the applied patches.
LEMMA ImportFitsNext ==
  ASSUME NEW plan, NEW flags, NEW s, ImportFits(plan, flags, s), NEW e, NEW rest, Leads(plan, e, rest),
         NEW n, NEW v, InLists(v) = InLists(s) \cup {n},
         "ignore" \in flags => Elems(s.applied) \cup {n} \subseteq Elems(v.applied),
         "ignore" \notin flags /\ "replace" \in flags =>
           n \in {e} \cup Elems(NewNames) /\ Elems(s.unapplied) \ {n} \subseteq Elems(v.unapplied),
         flags \cap {"ignore", "replace"} = {} =>
           \/ n = e /\ e \notin InLists(s)
           \/ n \in Elems(NewNames) \ InLists(s) /\ (e \in InLists(s) \/ Enough(rest, s))
  PROVE  ImportFits(rest, flags, v)
<1>1. PICK S, R : S = Elems(SeriesNames(plan)) /\ R = Elems(SeriesNames(rest))
  OBVIOUS
<1>2. /\ rest \in Seq(Entries) /\ \A i \in 1..Len(rest) : \E j \in 1..Len(plan) : rest[i] = plan[j]
      /\ e \in S /\ R \subseteq S
      /\ NoDuplicates(SeriesNames(plan)) => NoDuplicates(SeriesNames(rest)) /\ e \notin R
  BY <1>1, SeriesTail
<1>3. \A i \in 1..Len(rest) : rest[i].name \notin Elems(NewNames)
  BY <1>2 DEF ImportFits
<1>7. \A m \in S : m \notin Elems(NewNames)
  <2>1. plan \in Seq(Entries) /\ \A i \in 1..Len(plan) : plan[i].name \notin Elems(NewNames)
    BY DEF ImportFits
  <2>2. PICK names : names = SeriesNames(plan)
    OBVIOUS
  <2>3. names \in Seq(Names) /\ Len(names) = Len(plan) /\ \A i \in 1..Len(plan) : names[i] = plan[i].name
    BY <2>1, <2>2, SeriesNamesType
  <2>4. \A i \in 1..Len(names) : names[i] \notin Elems(NewNames)
    BY <2>1, <2>3
  <2> QED BY <1>1, <2>2, <2>3, <2>4, ElemsIff
<1>4. CASE "ignore" \in flags
  <2>1. S \cap InLists(s) \subseteq Elems(s.applied)
    BY <1>1, <1>4 DEF ImportFits
  <2>2. R \cap InLists(v) \subseteq Elems(v.applied)
    BY <1>2, <1>4, <2>1
  <2> QED BY <1>1, <1>2, <1>3, <1>4, <2>2 DEF ImportFits
<1>5. CASE "ignore" \notin flags /\ "replace" \in flags
  <2>1. S \cap InLists(s) \subseteq Elems(s.unapplied) /\ NoDuplicates(SeriesNames(plan))
    BY <1>1, <1>5 DEF ImportFits
  <2>2. R \cap InLists(v) \subseteq Elems(v.unapplied)
    BY <1>2, <1>5, <1>7, <2>1
  <2> QED BY <1>1, <1>2, <1>3, <1>5, <2>1, <2>2 DEF ImportFits
<1>6. CASE "ignore" \notin flags /\ "replace" \notin flags
  <2>1. PICK A, B, C, D : /\ A = S \cap InLists(s) /\ B = Elems(NewNames) \ InLists(s)
                          /\ C = R \cap InLists(v) /\ D = Elems(NewNames) \ InLists(v)
    OBVIOUS
  <2>2. Cardinality(A) <= Cardinality(B) /\ NoDuplicates(SeriesNames(plan))
    BY <1>1, <1>6, <2>1 DEF ImportFits
  <2>3. e \notin R /\ NoDuplicates(SeriesNames(rest))
    BY <1>2, <2>2
  <2>5. IsFiniteSet(A) /\ IsFiniteSet(B)
    <3>1. IsFiniteSet(Elems(NewNames))
      BY InputsAssumption, CardLen
    <3>2. IsFiniteSet(S)
      <4>1. plan \in Seq(Entries)
        BY DEF ImportFits
      <4>2. SeriesNames(plan) \in Seq(Names)
        BY <4>1, SeriesNamesType
      <4> QED BY <1>1, <2>2, <4>2, CardLen
    <3>3. A \in SUBSET S /\ B \in SUBSET Elems(NewNames)
      BY <2>1
    <3> QED BY <3>1, <3>2, <3>3, FS_Subset
  <2>6. Cardinality(A) \in Nat /\ Cardinality(B) \in Nat
    BY <2>5, FS_CardinalityType
  <2>7. CASE n = e /\ e \notin InLists(s)
    <3>1. C \in SUBSET A /\ D = B
      BY <1>2, <2>1, <2>3, <1>7, <2>7
    <3>2. Cardinality(C) <= Cardinality(A) /\ Cardinality(C) \in Nat
      BY <2>5, <3>1, FS_Subset, FS_CardinalityType
    <3>3. Cardinality(C) <= Cardinality(D)
      BY <2>2, <2>6, <3>1, <3>2
    <3> QED BY <1>1, <1>2, <1>3, <1>6, <2>1, <2>3, <3>3 DEF ImportFits
  <2>8. CASE n \in Elems(NewNames) \ InLists(s) /\ e \in InLists(s)
    <3>1. n \notin S
      BY <1>7, <2>8
    <3>2. C \in SUBSET (A \ {e}) /\ D = B \ {n} /\ e \in A /\ n \in B
      BY <1>2, <2>1, <2>3, <2>8, <3>1
    <3>3. /\ IsFiniteSet(A \ {e}) /\ Cardinality(A \ {e}) = Cardinality(A) - 1
          /\ Cardinality(B \ {n}) = Cardinality(B) - 1
      BY <2>5, <3>2, FS_RemoveElement
    <3>4. Cardinality(C) <= Cardinality(A) - 1 /\ Cardinality(C) \in Nat
      BY <3>2, <3>3, FS_Subset, FS_CardinalityType
    <3>5. Cardinality(C) <= Cardinality(D)
      BY <2>2, <2>6, <3>2, <3>3, <3>4
    <3> QED BY <1>1, <1>2, <1>3, <1>6, <2>1, <2>3, <3>5 DEF ImportFits
  <2>9. CASE n \in Elems(NewNames) \ InLists(s) /\ Enough(rest, s)
    <3>1. C = R \cap InLists(s) /\ D = B \ {n} /\ n \in B
      BY <1>2, <1>7, <2>1, <2>9
    <3>2. Cardinality(C) < Cardinality(B)
      BY <1>1, <2>1, <2>9, <3>1 DEF Enough
    <3>3. Cardinality(D) = Cardinality(B) - 1
      BY <2>5, <3>1, FS_RemoveElement
    <3>4. Cardinality(C) \in Nat
      <4>1. C \in SUBSET A
        BY <1>2, <2>1, <3>1
      <4> QED BY <2>5, <4>1, FS_Subset, FS_CardinalityType
    <3>5. Cardinality(C) <= Cardinality(D)
      BY <2>6, <3>2, <3>3, <3>4
    <3> QED BY <1>1, <1>2, <1>3, <1>6, <2>1, <2>3, <3>5 DEF ImportFits
  <2> QED BY <1>6, <2>7, <2>8, <2>9
<1> QED BY <1>4, <1>5, <1>6

\* make_patchname's free name: the patch's own, or one that is made for it.
LEMMA ImportNameFree ==
  ASSUME IInv, ImportFits(cmd.plan, cmd.flags, repo.state), cmd.plan # <<>>, NEW e, e = cmd.plan[1].name,
         NEW n, n = ImportName
  PROVE  /\ n \in Names
         /\ cmd.flags \cap {"ignore", "replace"} # {} => n = e
         /\ cmd.flags \cap {"ignore", "replace"} = {} =>
              \/ n = e /\ e \notin InLists(repo.state)
              \/ e \in InLists(repo.state) /\ n \in Elems(NewNames) \ InLists(repo.state)
<1>1. PICK rest : rest = Tail(cmd.plan)
  OBVIOUS
<1>2. Leads(cmd.plan, e, rest)
  BY <1>1 DEF ImportFits, Leads
<1>3. e \in Names /\ e \in Elems(SeriesNames(cmd.plan))
  BY <1>2, SeriesTail
<1>4. CASE cmd.flags \cap {"ignore", "replace"} # {}
  BY <1>3, <1>4 DEF ImportName, Entry
<1>5. CASE cmd.flags \cap {"ignore", "replace"} = {}
  <2>1. PICK one, all, d, L : /\ one = <<e>> /\ all = one \o NewNames /\ d = Drop(all, L)
                              /\ L = InLists(repo.state)
    OBVIOUS
  <2>2. n = d[1]
    BY <1>5, <2>1, ListedIs DEF ImportName, Free, Entry
  <2>3. one \in Seq(Names) /\ NewNames \in Seq(Names) /\ Len(one) = 1 /\ one[1] = e
    BY <1>3, <2>1, InputsAssumption
  <2>4. Elems(one) = {e}
    BY <2>3, ElemsIff
  <2>5. /\ all \in Seq(Names) /\ 1 \in 1..Len(all) /\ all[1] = e
        /\ Elems(all) = {e} \cup Elems(NewNames)
    <3>1. all \in Seq(Names) /\ Elems(all) = {e} \cup Elems(NewNames)
      <4>1. PICK w : w = NewNames
        OBVIOUS
      <4>2. w \in Seq(Names) /\ all = one \o w /\ one \in Seq(Names)
        BY <2>1, <2>3, <4>1
      <4>3. all \in Seq(Names) /\ Elems(one \o w) = Elems(one) \cup Elems(w)
        BY ONLY <4>2, ConcatIndex, ConcatElems
      <4> QED BY <2>4, <4>1, <4>2, <4>3
    <3>2. \A i \in 1..Len(one) : i \in 1..Len(all) /\ all[i] = one[i]
      BY <2>1, <2>3, ConcatIndex
    <3>3. 1 \in 1..Len(one)
      BY <2>3
    <3> QED BY <2>3, <3>1, <3>2, <3>3
  <2>6. d \in Seq(Names) /\ Elems(d) = Elems(all) \ L
    BY <2>1, <2>5, DropElems
  <2>7. CASE e \notin L
    <3>1. d = Keep(all, Names \ L)
      BY <2>1 DEF Drop
    <3>2. \A i \in 1..1 : all[i] \in Names \ L
      BY <1>3, <2>5, <2>7
    <3>3. Keep(all, Names \ L)[1] = all[1]
      BY <2>5, <3>2, KeepPrefix
    <3> QED BY <1>3, <1>5, <2>1, <2>2, <2>5, <2>7, <3>1, <3>3
  <2>8. CASE e \in L
    <3>1. PICK A, B : A = Elems(SeriesNames(cmd.plan)) \cap L /\ B = Elems(NewNames) \ L
      OBVIOUS
    <3>2. Cardinality(A) <= Cardinality(B) /\ NoDuplicates(SeriesNames(cmd.plan))
      BY <1>5, <2>1, <3>1 DEF ImportFits
    <3>3. IsFiniteSet(A) /\ IsFiniteSet(B)
      <4>1. SeriesNames(cmd.plan) \in Seq(Names)
        <5>1. cmd.plan \in Seq(Entries)
          BY DEF ImportFits
        <5> QED BY <5>1, SeriesNamesType
      <4>2. IsFiniteSet(Elems(SeriesNames(cmd.plan))) /\ IsFiniteSet(Elems(NewNames))
        BY <3>2, <4>1, InputsAssumption, CardLen
      <4>3. A \in SUBSET Elems(SeriesNames(cmd.plan)) /\ B \in SUBSET Elems(NewNames)
        BY <3>1
      <4> QED BY <4>2, <4>3, FS_Subset
    <3>4. A # {}
      BY <1>3, <2>8, <3>1
    <3>5. Cardinality(A) # 0 /\ Cardinality(A) \in Nat /\ Cardinality(B) \in Nat
      BY <3>3, <3>4, FS_EmptySet, FS_CardinalityType
    <3>6. Cardinality(B) # 0
      <4>1. PICK i, j : i = Cardinality(A) /\ j = Cardinality(B)
        OBVIOUS
      <4>2. i <= j /\ i # 0 /\ i \in Nat /\ j \in Nat
        BY <3>2, <3>5, <4>1
      <4> QED BY <4>1, <4>2
    <3>7. B # {}
      BY <3>6, FS_EmptySet
    <3>8. Elems(d) = B
      BY <2>5, <2>6, <2>8, <3>1
    <3>9. d # <<>>
      BY <3>7, <3>8, NoElems
    <3>10. 1 \in 1..Len(d)
      BY <2>6, <3>9
    <3>11. n \in Elems(d) /\ n \in Names
      BY <2>2, <2>6, <3>10, ElemsIff
    <3> QED BY <1>5, <2>1, <2>8, <3>1, <3>8, <3>11
  <2> QED BY <2>7, <2>8
<1> QED BY <1>4, <1>5

\* The name that the editor leaves.
LEMMA EditedNamesFree ==
  ASSUME IInv, ImportFits(cmd.plan, cmd.flags, repo.state), cmd.plan # <<>>, NEW e, NEW rest,
         Leads(cmd.plan, e, rest), NEW n \in EditedNames
  PROVE  /\ n \in Names
         /\ cmd.flags \cap {"ignore", "replace"} # {} => n = e \/ n \in Elems(NewNames) \ InLists(repo.state)
         /\ cmd.flags \cap {"ignore", "replace"} = {} =>
              \/ n = e /\ e \notin InLists(repo.state)
              \/ n \in Elems(NewNames) \ InLists(repo.state) /\ (e \in InLists(repo.state) \/ Enough(rest, repo.state))
<1>1. e = cmd.plan[1].name /\ cmd.plan \in Seq(Entries) /\ rest = Tail(cmd.plan)
  BY DEF Leads
<1>2. CASE n = ImportName
  BY <1>1, <1>2, ImportNameFree
<1>3. CASE n # ImportName
  <2>1. PICK S : S = {cmd.plan[i].name : i \in 2..Len(cmd.plan)}
    OBVIOUS
  <2>2. /\ n \in Elems(Free(NewNames))
        /\ \/ cmd.flags \cap {"ignore", "replace"} # {}
           \/ Cardinality(S \cap Listed) < Len(Free(NewNames))
    BY <1>3, <2>1 DEF EditedNames
  <2>3. n \in Elems(NewNames) \ InLists(repo.state) /\ n \in Names
    BY <2>2, FreeNames
  <2>4. S = Elems(SeriesNames(rest))
    <3>1. PICK T, plan, l, names : T = Entries /\ plan = cmd.plan /\ l = Len(plan) /\ names = SeriesNames(rest)
      OBVIOUS
    <3>2. plan \in Seq(T) /\ l \in Nat /\ l >= 1 /\ rest = Tail(plan)
      BY <1>1, <3>1
    <3>3. rest \in Seq(T) /\ Len(rest) = l - 1 /\ \A i \in 1..(l - 1) : rest[i] = plan[i + 1]
      BY <3>1, <3>2
    <3>4. names \in Seq(Names) /\ Len(names) = Len(rest) /\ \A i \in 1..Len(rest) : names[i] = rest[i].name
      <4>1. rest \in Seq(Entries)
        BY <3>1, <3>3
      <4> QED BY <3>1, <4>1, SeriesNamesType
    <3>5. \A i \in 1..(l - 1) : names[i] = plan[i + 1].name
      BY <3>3, <3>4
    <3>6. ASSUME NEW m \in S PROVE m \in Elems(names)
      <4>1. PICK i \in 2..l : m = plan[i].name
        BY <2>1, <3>1, <3>6
      <4>2. PICK j : j = i - 1
        OBVIOUS
      <4>3. j \in 1..(l - 1) /\ i = j + 1
        BY <3>2, <4>2
      <4>4. j \in 1..Len(names) /\ names[j] = m
        BY <3>3, <3>4, <3>5, <4>1, <4>3
      <4> QED BY <3>4, <4>4, ElemsIff
    <3>7. ASSUME NEW m \in Elems(names) PROVE m \in S
      <4>1. PICK j : j \in 1..Len(names) /\ names[j] = m
        BY <3>4, <3>7, ElemsIff
      <4>2. PICK i : i = j + 1
        OBVIOUS
      <4>3. i \in 2..l /\ m = plan[i].name
        BY <3>2, <3>3, <3>4, <3>5, <4>1, <4>2
      <4> QED BY <2>1, <3>1, <4>3
    <3> QED BY <3>1, <3>6, <3>7
  <2>5. cmd.flags \cap {"ignore", "replace"} = {} => Enough(rest, repo.state)
    BY <2>2, <2>4, FreeCount, ListedIs DEF Enough
  <2> QED BY <2>3, <2>5
<1> QED BY <1>2, <1>3

LEMMA ImportCreateIInv ==
  ASSUME IInv, ImportCreate
  PROVE  IInv'
<1>1. cmd.pc = "create" /\ stash' = stash /\ mine' = mine
  BY DEF ImportCreate
<1>2. /\ ImportFits(cmd.plan, cmd.flags, repo.state) /\ cmd.plan # <<>>
      /\ "ignore" \in cmd.flags => cmd.plan[1].name \notin Elems(repo.state.applied)
  BY <1>1, IInvFacts DEF Fits
<1>a. CASE Ends(cmd, "error") /\ UNCHANGED repo
  BY <1>1, <1>a, EndsForm, IInvFacts, EndIInv DEF Hows
<1>b. SUFFICES ASSUME ~(Ends(cmd, "error") /\ UNCHANGED repo) PROVE IInv'
  BY <1>a
<1>3. PICK n \in EditedNames, tree \in EditedTrees(repo.wd.index), meta \in Metas :
       LET x == Within(NoWorktree)
           c == MkCommit(repo.branch, tree, meta)
           t == IF "replace" \in cmd.flags /\ n \in Elems(x.t.unapplied)
                  THEN DeletePatches(x.t, {n}) ELSE x.t
           y == With(x, NewApplied(t, n, c))
           flags == IF tree = repo.wd.index THEN cmd.flags ELSE cmd.flags \cup {"edited"}
       IN  IF "rejected" \in cmd.flags
             THEN repo' = Execute(y).r /\ Ends(cmd, "conflict")
             ELSE Transacts(cmd, y, [cmd EXCEPT !.pc = "apply", !.plan = Tail(@), !.flags = flags])
  BY <1>b, Zenon DEF ImportCreate
<1>4. PICK x, b, c, t, v, y, rest, e, flags :
        /\ x = Within(NoWorktree) /\ b = repo.branch
        /\ c = MkCommit(b, tree, meta)
        /\ t = (IF "replace" \in cmd.flags /\ n \in Elems(x.t.unapplied) THEN DeletePatches(x.t, {n}) ELSE x.t)
        /\ v = NewApplied(t, n, c) /\ y = With(x, v) /\ rest = Tail(cmd.plan) /\ e = cmd.plan[1].name
        /\ flags = IF tree = repo.wd.index THEN cmd.flags ELSE cmd.flags \cup {"edited"}
  OBVIOUS
<1>5. IF "rejected" \in cmd.flags
        THEN repo' = Execute(y).r /\ Ends(cmd, "conflict")
        ELSE Transacts(cmd, y, [cmd EXCEPT !.pc = "apply", !.plan = Tail(@), !.flags = flags])
  BY <1>3, <1>4, Zenon
<1>6. Leads(cmd.plan, e, rest)
  BY <1>2, <1>4 DEF ImportFits, Leads
<1>7. /\ n \in Names
      /\ cmd.flags \cap {"ignore", "replace"} # {} => n = e \/ n \in Elems(NewNames) \ InLists(repo.state)
      /\ cmd.flags \cap {"ignore", "replace"} = {} =>
           \/ n = e /\ e \notin InLists(repo.state)
           \/ n \in Elems(NewNames) \ InLists(repo.state) /\ (e \in InLists(repo.state) \/ Enough(rest, repo.state))
  BY <1>2, <1>6, EditedNamesFree
<1>8. Opened(x, repo)
  BY <1>4, WithinOpened, OptionTypes
<1>9. /\ WF(x.t, repo.state.patches) /\ Linked(x.t) /\ x.t.head = NoCommit
      /\ InLists(x.t) = InLists(repo.state) /\ x.t.applied = repo.state.applied
      /\ x.t.unapplied = repo.state.unapplied /\ Top(x.t) = repo.branch /\ Good(repo.state)
  BY <1>8, OpenedFacts DEF Opened
<1>10. c \in Commits /\ HasParent(c) /\ Parent(c) = repo.branch
  <2>1. b \in Commits /\ tree \in Trees
    <3>1. b \in Commits /\ repo.wd.index \in Trees
      BY <1>4, IInvFacts
    <3> QED BY <3>1, EditedTreesType
  <2>2. c \in Commits /\ HasParent(c)
    BY <1>3, <1>4, <2>1, CommitTypes
  <2>3. Parent(c) = b
    BY <1>4, <2>1, ParentOfNew
  <2> QED BY <1>4, <2>2, <2>3
<1>11. /\ WF(t, repo.state.patches) /\ Linked(t) /\ t.head = NoCommit /\ Top(t) = repo.branch
       /\ n \notin InLists(t) /\ InLists(t) \cup {n} = InLists(repo.state) \cup {n}
       /\ t.applied = repo.state.applied
       /\ Elems(repo.state.unapplied) \ {n} \subseteq Elems(t.unapplied)
  <2>1. CASE "replace" \in cmd.flags /\ n \in Elems(x.t.unapplied)
    <3>1. t = DeletePatches(x.t, {n}) /\ n \in Elems(repo.state.unapplied)
      BY <1>4, <1>9, <2>1
    <3>2. /\ WF(t, repo.state.patches) /\ Linked(t) /\ t.head = NoCommit /\ Top(t) = repo.branch
          /\ InLists(t) = InLists(repo.state) \ {n} /\ t.applied = repo.state.applied
          /\ Elems(repo.state.unapplied) \ {n} \subseteq Elems(t.unapplied)
      <4>1. Lacks(t, repo, n)
        BY <1>8, <3>1, DeleteUnapplied
      <4> QED BY ONLY <4>1 DEF Lacks
    <3>3. n \notin InLists(t) /\ InLists(t) \cup {n} = InLists(repo.state) \cup {n}
      BY ONLY <3>2
    <3> QED BY ONLY <3>2, <3>3
  <2>2. CASE ~("replace" \in cmd.flags /\ n \in Elems(x.t.unapplied))
    <3>1. t = x.t
      BY <1>4, <2>2
    <3>2. e \in Elems(SeriesNames(cmd.plan))
      BY <1>6, SeriesTail
    <3>3. n \notin InLists(repo.state)
      <4>1. CASE "ignore" \in cmd.flags
        BY <1>2, <1>4, <1>7, <3>2, <4>1 DEF ImportFits
      <4>2. CASE "ignore" \notin cmd.flags /\ "replace" \in cmd.flags
        BY <1>2, <1>7, <1>9, <2>2, <3>2, <4>2 DEF ImportFits
      <4>3. CASE cmd.flags \cap {"ignore", "replace"} = {}
        BY <1>7, <4>3
      <4> QED BY <4>1, <4>2, <4>3
    <3> QED BY <1>9, <3>1, <3>3
  <2> QED BY <2>1, <2>2
<1>12. Imports(repo, t, n, c, v)
  BY <1>4, <1>7, <1>10, <1>11 DEF Imports
<1>13. /\ Ready(y) /\ y.t = v /\ y.err = "none"
       /\ Elems(v.applied) = Elems(repo.state.applied) \cup {n}
       /\ Elems(repo.state.unapplied) \ {n} \subseteq Elems(v.unapplied)
       /\ InLists(v) = InLists(repo.state) \cup {n}
  <2>1. y = With(x, v)
    BY <1>4
  <2>2. /\ Ready(y) /\ y.t = v /\ y.err = "none"
        /\ Elems(v.applied) = Elems(t.applied) \cup {n} /\ v.unapplied = t.unapplied
        /\ InLists(v) = InLists(t) \cup {n}
    BY ONLY <1>8, <1>12, <2>1, ImportsOK
  <2> QED BY <1>11, <2>2
<1>14. ImportFits(rest, flags, v)
  <2>1. PICK s, plan : s = repo.state /\ plan = cmd.plan
    OBVIOUS
  <2>a. ("ignore" \in flags <=> "ignore" \in cmd.flags) /\ ("replace" \in flags <=> "replace" \in cmd.flags)
    BY <1>4
  <2>2. /\ ImportFits(plan, flags, s) /\ Leads(plan, e, rest) /\ InLists(v) = InLists(s) \cup {n}
        /\ Elems(s.applied) \cup {n} \subseteq Elems(v.applied)
        /\ "ignore" \notin flags /\ "replace" \in flags =>
             n \in {e} \cup Elems(NewNames) /\ Elems(s.unapplied) \ {n} \subseteq Elems(v.unapplied)
        /\ flags \cap {"ignore", "replace"} = {} =>
             \/ n = e /\ e \notin InLists(s)
             \/ n \in Elems(NewNames) \ InLists(s) /\ (e \in InLists(s) \/ Enough(rest, s))
    <3>1. ImportFits(plan, flags, s)
      BY <1>2, <2>1, <2>a DEF ImportFits
    <3> QED BY <1>6, <1>7, <1>13, <2>1, <2>a, <3>1
  <2>3. ImportFits(rest, flags, v)
    BY <2>2, ImportFitsNext
  <2> QED BY <2>3
<1>15. CASE "rejected" \in cmd.flags
  <2>1. Sound(repo')
    BY <1>5, <1>13, <1>15, ExecuteSound
  <2> QED BY <1>1, <1>5, <1>15, <2>1, EndsForm, IInvFacts, EndIInv DEF Hows
<1>16. CASE "rejected" \notin cmd.flags
  <2>1. PICK next : next = [cmd EXCEPT !.pc = "apply", !.plan = Tail(@), !.flags = flags]
    OBVIOUS
  <2>2. Transacts(cmd, y, next)
    BY <1>5, <1>16, <2>1
  <2>3. ASSUME cmd' = next
        PROVE  Carries /\ (Committed(y.t, repo') => Fits(cmd', repo'))
    <3>1. /\ cmd'.pc = "apply" /\ cmd'.plan = rest /\ cmd'.flags = flags /\ cmd'.names = cmd.names
          /\ cmd'.target = cmd.target /\ cmd'.stashed = cmd.stashed /\ cmd'.at = cmd.at
      BY <1>4, <2>1, <2>3, IInvFacts DEF CmdForm, CmdFields
    <3>2. Carries
      BY <3>1 DEF Carries
    <3>3. Committed(v, repo') => ImportFits(rest, flags, repo'.state)
      BY <1>14 DEF Committed, ImportFits, InLists
    <3>4. Committed(v, repo') => Fits(cmd', repo')
      BY <3>1, <3>3 DEF Fits
    <3> QED BY <1>13, <3>2, <3>4
  <2>4. Progress
    BY Proceeds DEF Proceed
  <2> QED BY <1>1, <1>13, <2>2, <2>3, <2>4, IInvFacts, TransactIInv
<1> QED BY <1>15, <1>16
-----------------------------------------------------------------------------
(* sync. *)

\* Nothing but the worktree differs.
WithWd(x, w, y) == y = [x EXCEPT !.wd = w]

LEMMA TreeOfNew ==
  ASSUME NEW c \in Commits, NEW g \in Trees, NEW m \in Metas, NEW new, new = MkCommit(c, g, m)
  PROVE  Tree(new) = g
<1>1. c \in Seq([tree : Trees, meta : Metas])
  BY DEF Commits
<1>2. Len(new) = Len(c) + 1 /\ new[Len(c) + 1] = [tree |-> g, meta |-> m]
  BY <1>1 DEF MkCommit
<1> QED BY <1>2 DEF Tree

LEMMA WithWdReady ==
  ASSUME NEW x, Ready(x), NEW w \in Workdirs, NEW y, WithWd(x, w, y)
  PROVE  Ready(y) /\ y.t = x.t /\ y.r = x.r /\ y.err = x.err /\ y.o = x.o /\ y.wd = w
<1>1. x \in Xacts
  BY DEF Ready
<1>2. y \in Xacts /\ y.t = x.t /\ y.r = x.r /\ y.err = x.err /\ y.o = x.o /\ y.wd = w
  BY <1>1 DEF WithWd, Xacts
<1> QED BY <1>2 DEF Ready, HeadSet

\* push_patches of one patch.
LEMMA OnePush ==
  ASSUME NEW y, Ready(y), NEW n \in Names,
         y.err = "none" => n \in Elems(y.t.unapplied) \cup Elems(y.t.hidden),
         NEW one, one = <<n>>, NEW up, up = PushPatches(y, one, FALSE)
  PROVE  PushAll(y, one, up)
<1>1. one \in Seq(Names) /\ Len(one) = 1 /\ one[1] = n
  OBVIOUS
<1>2. Elems(one) = {n} /\ NoDuplicates(one)
  <2>1. Elems(one) = {n}
    BY ONLY <1>1, ElemsIff
  <2>2. \A i, j \in 1..Len(one) : one[i] = one[j] => i = j
    BY <1>1
  <2> QED BY <1>1, <2>1, <2>2, NoDupIff
<1>3. y.err = "none" => Pushable(y.t, one)
  BY <1>2 DEF Pushable
<1> QED BY <1>1, <1>3, PushPatchesOK

\* n has been dealt with, or the closure has stopped.
Took(y, n, z) ==
  /\ Ready(z) /\ z.r = y.r /\ z.o = y.o
  /\ Neat(y) => Neat(z)
  /\ z.err = "none" /\ n \in cmd.flags /\ Neat(y) => z.wd = ReadTreeCheckoutHard(Tree(Top(z.t)))
  /\ z.err = "none" => /\ y.err = "none" /\ Elems(z.t.unapplied) = Elems(y.t.unapplied) \ {n}
                       /\ Elems(z.t.hidden) = Elems(y.t.hidden) \ {n}

\* The patch that was pushed gets the commit `new' on what was on top before.
Recommits(y, n, up, new, v) ==
  /\ Ready(y) /\ Ready(up) /\ up.r = y.r /\ up.err = "none" /\ n \in Names
  /\ up.t.applied = Append(y.t.applied, n) /\ n \notin Elems(y.t.applied)
  /\ \A m \in Names \ {n} : up.t.patches[m] = y.t.patches[m]
  /\ new \in Commits /\ HasParent(new) /\ Parent(new) = Top(y.t)
  /\ v = UpdatePatch(up.t, n, new)

LEMMA RecommitsOK ==
  ASSUME NEW y, NEW n, NEW up, NEW new, NEW v, Recommits(y, n, up, new, v)
  PROVE  /\ WF(v, up.r.state.patches) /\ Linked(v) /\ v.head = NoCommit
         /\ v.unapplied = up.t.unapplied /\ v.hidden = up.t.hidden
<1>1. PICK t, u, p : t = y.t /\ u = up.t /\ p = up.r.state.patches
  OBVIOUS
<1>2. /\ u \in Transactions /\ WF(u, p) /\ u.head = NoCommit
      /\ t.applied \in Seq(Names) /\ Linked(t) /\ u.patches \in PatchMaps
  BY <1>1 DEF Recommits, Ready, HeadSet, WF, Transactions
<1>3. /\ n \in Names /\ u.applied = Append(t.applied, n) /\ n \notin Elems(t.applied)
      /\ \A m \in Names \ {n} : u.patches[m] = t.patches[m]
      /\ new \in Commits /\ HasParent(new) /\ Parent(new) = Top(t)
      /\ v = SetPatch(u, n, new)
  BY <1>1 DEF Recommits, UpdatePatch
<1>4. n \in InLists(u)
  BY <1>2, <1>3, AppendElems DEF InLists
<1>5. WF(v, p)
  BY <1>2, <1>3, <1>4, SetPatchOK
<1>6. v.applied = u.applied /\ v.unapplied = u.unapplied /\ v.hidden = u.hidden /\ v.head = u.head
  BY <1>2, <1>3, SetPatchFields
<1>7. v.patches = [u.patches EXCEPT ![n] = new]
  BY <1>2, <1>3 DEF SetPatch, Transactions
<1>8. v.patches[n] = new /\ \A m \in Names \ {n} : v.patches[m] = u.patches[m]
  BY <1>2, <1>3, <1>7 DEF PatchMaps
<1>9. \A m \in Elems(t.applied) : v.patches[m] = t.patches[m]
  BY <1>2, <1>3, <1>8, ElemsIff
<1>10. v.applied = Append(t.applied, n) /\ Parent(v.patches[n]) = Top(t)
  BY <1>3, <1>6, <1>8
<1>11. Linked(v)
  BY ONLY <1>2, <1>9, <1>10, LinkedAppend
<1> QED BY <1>1, <1>2, <1>5, <1>6, <1>11

\* One turn of the loop.
LEMMA SyncOneOK ==
  ASSUME cmd.flags \subseteq DOMAIN RefPatches, NEW y, Ready(y), NEW n \in Names,
         y.err = "none" => n \in Elems(y.t.unapplied) \cup Elems(y.t.hidden), NEW z, z = SyncOne(y, n)
  PROVE  Took(y, n, z)
<1>1. PICK one, push, up : /\ one = <<n>> /\ push = PushPatches(y, one, FALSE)
                           /\ up = (IF n \in Elems(y.t.applied) THEN y ELSE push)
  OBVIOUS
<1>2. PICK c, ref, from, out, base, m, new :
        /\ c = up.t.patches[n] /\ ref = RefPatches[n] /\ from = Tree(y.r.branch)
        /\ out = ReadTreeCheckout(up.wd, from, Tree(c)) /\ base = Tree(Parent(ref))
        /\ m = MergeRecursive(out, base, Tree(c), Tree(ref))
        /\ new = MkCommit(Top(y.t), m.index, Meta(c))
  OBVIOUS
<1>3. PICK uo, um, v : uo = [up EXCEPT !.wd = out] /\ um = [up EXCEPT !.wd = m] /\ v = UpdatePatch(up.t, n, new)
  OBVIOUS
<1>4. \/ (up.err # "none" \/ n \notin cmd.flags) /\ z = up
      \/ up.err = "none" /\ n \in cmd.flags
         /\ \/ z \in {Fail(up, "error"), Fail(uo, "error"), Fail(um, "error")}
            \/ /\ MergeRecursiveOk(out, base, Tree(c), Tree(ref)) /\ m.unmerged = {}
               /\ (m.index = Tree(c) /\ z = um) \/ z = With(um, v)
  BY <1>1, <1>2, <1>3, ZenonT(40) DEF SyncOne
<1>5. /\ Ready(up) /\ up.r = y.r /\ up.o = y.o
      /\ Neat(y) => Neat(up)
      /\ up.err = "none" =>
           /\ y.err = "none" /\ up.t.applied = Append(y.t.applied, n) /\ n \notin Elems(y.t.applied)
           /\ Elems(up.t.unapplied) = Elems(y.t.unapplied) \ {n}
           /\ Elems(up.t.hidden) = Elems(y.t.hidden) \ {n}
           /\ \A k \in Names \ {n} : up.t.patches[k] = y.t.patches[k]
  <2>1. y.err = "none" => n \notin Elems(y.t.applied)
    BY DEF Ready, WF, Good, Distinct3
  <2>2. CASE n \in Elems(y.t.applied)
    BY <1>1, <2>1, <2>2
  <2>3. CASE n \notin Elems(y.t.applied)
    <3>1. up = push
      BY <1>1, <2>3
    <3>2. PushAll(y, one, up)
      BY <1>1, <3>1, OnePush
    <3>3. one \in Seq(Names) /\ Len(one) = 1 /\ one[1] = n
      BY <1>1
    <3>4. Elems(one) = {n}
      BY <3>3, ElemsIff
    <3>5. y.t.applied \in Seq(Names)
      BY DEF Ready, WF, Transactions
    <3>6. y.t.applied \o one = Append(y.t.applied, n)
      BY <1>1, <3>5
    <3> QED BY <2>3, <3>2, <3>4, <3>6 DEF PushAll, Trails
  <2> QED BY <2>2, <2>3
<1>6. CASE (up.err # "none" \/ n \notin cmd.flags) /\ z = up
  BY <1>5, <1>6 DEF Took
<1>7. CASE up.err = "none" /\ n \in cmd.flags
  <2>1. up.t \in Transactions /\ Good(up.t) /\ up.t.patches \in PatchMaps /\ up.wd \in Workdirs
    BY <1>5 DEF Ready, WF, Transactions, Xacts
  <2>2. y.t \in Transactions /\ y.t.applied \in Seq(Names) /\ Good(y.t) /\ from \in Trees
    BY <1>2, CommitTypes DEF Ready, WF, Transactions, Xacts, Repos
  <2>3. n \in InLists(up.t)
    <3>1. Elems(Append(y.t.applied, n)) = Elems(y.t.applied) \cup {n}
      BY <2>2, AppendElems
    <3>2. n \in Elems(up.t.applied)
      BY <1>5, <1>7, <3>1
    <3> QED BY <3>2 DEF InLists
  <2>4. c \in Commits /\ Tree(c) \in Trees /\ Meta(c) \in Metas
    BY <1>2, <2>1, <2>3, PatchCommit, CommitTypes
  <2>5. ref \in Commits /\ Tree(ref) \in Trees
    BY <1>2, <1>7, InputsAssumption, CommitTypes
  <2>6. out \in Workdirs
    BY <1>2, <2>1, <2>2, <2>4, WorkdirTypes
  <2>7. m \in Workdirs
    BY <1>2, <2>4, <2>5, <2>6, MergeTypes
  <2>8. m.index \in Trees
    BY <2>7 DEF Workdirs
  <2>9. new \in Commits /\ HasParent(new) /\ Parent(new) = Top(y.t)
    <3>1. PICK b, g, w : b = Top(y.t) /\ g = m.index /\ w = Meta(c)
      OBVIOUS
    <3>2. b \in Commits /\ g \in Trees /\ w \in Metas /\ new = MkCommit(b, g, w)
      BY <1>2, <2>2, <2>4, <2>8, <3>1, TopType
    <3>3. new \in Commits /\ HasParent(new)
      BY <3>2, CommitTypes
    <3>4. Parent(new) = b
      BY <3>2, ParentOfNew
    <3> QED BY <3>1, <3>3, <3>4
  <2>10. Recommits(y, n, up, new, v)
    BY <1>3, <1>5, <1>7, <2>9 DEF Recommits
  <2>11. /\ WF(v, up.r.state.patches) /\ Linked(v) /\ v.head = NoCommit
         /\ v.unapplied = up.t.unapplied /\ v.hidden = up.t.hidden
    BY <2>10, RecommitsOK
  <2>12. /\ Ready(uo) /\ uo.t = up.t /\ uo.r = up.r /\ uo.err = up.err /\ uo.o = up.o
         /\ Ready(um) /\ um.t = up.t /\ um.r = up.r /\ um.err = up.err /\ um.o = up.o /\ um.wd = m
    <3>1. WithWd(up, out, uo) /\ WithWd(up, m, um)
      BY <1>3 DEF WithWd
    <3> QED BY <1>5, <2>6, <2>7, <3>1, WithWdReady
  <2>a. up.t.applied \in Seq(Names) /\ up.t.applied # <<>> /\ up.t.applied[Len(up.t.applied)] = n
    <3>1. y.t.applied \in Seq(Names) /\ up.t.applied = Append(y.t.applied, n)
      BY <1>5, <1>7, <2>2 DEF Transactions
    <3>2. up.t.applied \in Seq(Names) /\ Len(up.t.applied) = Len(y.t.applied) + 1 /\ up.t.applied[Len(y.t.applied) + 1] = n
      BY ONLY <3>1, n \in Names
    <3> QED BY ONLY <3>1, <3>2
  <2>b. Neat(y) => Whole(up.wd)
    BY <1>5, <1>7 DEF Neat
  <2>c. Neat(y) => Whole(out)
    BY <1>2, <2>1, <2>2, <2>4, <2>b, CheckoutWhole
  <2>d. base \in Trees
    <3>1. ref \in Commits /\ HasParent(ref)
      BY <1>2, <1>7, InputsAssumption
    <3> QED BY <1>2, <3>1, CommitTypes
  <2>e. MergeRecursiveOk(out, base, Tree(c), Tree(ref)) /\ m.unmerged = {} /\ Neat(y) =>
          m = ReadTreeCheckoutHard(m.index)
    BY <1>2, <2>4, <2>5, <2>6, <2>c, <2>d, MergeWhole DEF Whole
  <2>13. CASE z = Fail(up, "error") \/ z = Fail(uo, "error") \/ z = Fail(um, "error")
    <3>1. PICK u : u \in {up, uo, um} /\ z = Fail(u, "error")
      BY <2>13
    <3>2. Ready(u) /\ u.r = y.r /\ u.o = y.o /\ u.err = "none"
      BY <1>5, <1>7, <2>12, <3>1
    <3>3. Ready(z) /\ z.r = u.r /\ z.err = "error" /\ z.o = u.o
      BY ONLY <3>1, <3>2, FailReady
    <3> QED BY <3>2, <3>3 DEF Took, Neat
  <2>14. CASE /\ MergeRecursiveOk(out, base, Tree(c), Tree(ref)) /\ m.unmerged = {}
              /\ m.index = Tree(c) /\ z = um
    <3>1. Top(up.t) = c
      BY <1>2, <2>a DEF Top, TopOf
    <3>2. Neat(y) => z.wd = ReadTreeCheckoutHard(Tree(Top(z.t))) /\ Neat(z)
      BY <2>12, <2>14, <2>e, <3>1 DEF Neat, Whole, ReadTreeCheckoutHard
    <3> QED BY <1>5, <1>7, <2>12, <2>14, <3>2 DEF Took
  <2>15. CASE /\ MergeRecursiveOk(out, base, Tree(c), Tree(ref)) /\ m.unmerged = {}
              /\ z = With(um, v)
    <3>1. um.err = "none" => WF(v, um.r.state.patches) /\ Linked(v) /\ v.head = NoCommit
      BY <2>11, <2>12
    <3>2. /\ Ready(z) /\ z.r = um.r /\ z.err = um.err /\ z.o = um.o /\ z.wd = um.wd
          /\ um.err = "none" => z.t = v
      BY ONLY <2>12, <2>15, <3>1, WithReady
    <3>3. Tree(Top(v)) = m.index
      <4>1. v = SetPatch(up.t, n, new)
        BY <1>3 DEF UpdatePatch
      <4>2. v.applied = up.t.applied /\ v.patches = [up.t.patches EXCEPT ![n] = new]
        BY <2>1, <4>1 DEF SetPatch, Transactions
      <4>3. v.patches[n] = new
        BY <2>1, <4>2 DEF PatchMaps
      <4>4. Top(v) = new
        BY <2>a, <4>2, <4>3 DEF Top, TopOf
      <4>5. Tree(new) = m.index
        <5>1. PICK b, g, w : b = Top(y.t) /\ g = m.index /\ w = Meta(c)
          OBVIOUS
        <5>2. b \in Commits /\ g \in Trees /\ w \in Metas /\ new = MkCommit(b, g, w)
          BY <1>2, <2>2, <2>4, <2>8, <5>1, TopType
        <5> QED BY <5>1, <5>2, TreeOfNew
      <4> QED BY <4>4, <4>5
    <3>4. Neat(y) => z.wd = ReadTreeCheckoutHard(Tree(Top(z.t))) /\ Neat(z)
      BY <1>7, <2>12, <2>15, <2>e, <3>2, <3>3 DEF Neat, Whole, ReadTreeCheckoutHard
    <3> QED BY <1>5, <1>7, <2>11, <2>12, <3>2, <3>4 DEF Took
  <2> QED BY <1>4, <1>6, <1>7, <2>13, <2>14, <2>15
<1> QED BY <1>4, <1>6, <1>7

\* k names have been dealt with, and the others can still be pushed.
Turned(x, names, k, y) ==
  /\ Ready(y) /\ y.r = x.r /\ y.o = x.o
  /\ Neat(x) => Neat(y)
  /\ y.err = "none" /\ k \in 1..Len(names) /\ names[k] \in cmd.flags /\ Neat(x) =>
       y.wd = ReadTreeCheckoutHard(Tree(Top(y.t)))
  /\ k = 0 => y = x
  /\ y.err = "none" =>
       \A j \in 1..Len(names) : j > k => names[j] \in Elems(y.t.unapplied) \cup Elems(y.t.hidden)

LEMMA SyncTurn ==
  ASSUME cmd.flags \subseteq DOMAIN RefPatches, NEW x, NEW names \in Seq(Names), NoDuplicates(names),
         NEW k \in 1..Len(names), NEW y, Turned(x, names, k - 1, y)
  PROVE  Turned(x, names, k, SyncOne(y, names[k]))
<1>1. PICK n, z : n = names[k] /\ z = SyncOne(y, n)
  OBVIOUS
<1>2. n \in Names /\ k \in Nat /\ k > k - 1
  BY <1>1
<1>3. /\ Ready(y) /\ y.r = x.r /\ y.o = x.o
      /\ Neat(x) => Neat(y)
      /\ y.err = "none" => n \in Elems(y.t.unapplied) \cup Elems(y.t.hidden)
  BY <1>1, <1>2 DEF Turned
<1>4. Took(y, n, z)
  BY <1>1, <1>2, <1>3, SyncOneOK
<1>5. \A j \in 1..Len(names) : j > k => names[j] # n /\ j > k - 1
  BY <1>1, <1>2, NoDupIff
<1>6. z.err = "none" =>
        \A j \in 1..Len(names) : j > k => names[j] \in Elems(z.t.unapplied) \cup Elems(z.t.hidden)
  BY <1>4, <1>5 DEF Took, Turned
<1> QED BY <1>1, <1>3, <1>4, <1>6 DEF Took, Turned

LEMMA SyncAllOK ==
  ASSUME cmd.flags \subseteq DOMAIN RefPatches, NEW x, Ready(x), NEW names \in Seq(Names),
         Pushable(x.t, names)
  PROVE  Turned(x, names, Len(names), SyncAll(x, names))
<1> DEFINE IsRun(f) == f = [k \in 0..Len(names) |-> IF k = 0 THEN x ELSE SyncOne(f[k - 1], names[k])]
<1>1. PICK n : n = Len(names)
  OBVIOUS
<1>2. PICK g : g = CHOOSE f : IsRun(f)
  OBVIOUS
<1>3. SyncAll(x, names) = g[n]
  BY <1>1, <1>2, Zenon DEF SyncAll
<1>4. PICK V : V = [k \in 0..n |-> {y \in Xacts : Turned(x, names, k, y)}]
  OBVIOUS
<1>5. PICK step : step = [k \in 1..n |-> [y \in V[k - 1] |-> SyncOne(y, names[k])]]
  OBVIOUS
<1>6. n \in Nat /\ NoDuplicates(names)
  BY <1>1 DEF Pushable
<1>7. x \in V[0]
  <2>1. \A j \in 1..Len(names) : names[j] \in Elems(x.t.unapplied) \cup Elems(x.t.hidden)
    BY ElemsIff DEF Pushable
  <2>2. 0 \notin 1..Len(names)
    OBVIOUS
  <2>3. Turned(x, names, 0, x)
    BY <2>1, <2>2 DEF Turned
  <2> QED BY <1>4, <1>6, <2>3 DEF Ready
<1>8. ASSUME NEW k \in 1..n PROVE step[k] \in [V[k - 1] -> V[k]]
  <2>1. k - 1 \in 0..n /\ k \in 0..n /\ k \in 1..Len(names)
    BY <1>1, <1>6
  <2>2. ASSUME NEW y \in V[k - 1] PROVE SyncOne(y, names[k]) \in V[k]
    <3>1. Turned(x, names, k - 1, y)
      BY <1>4, <2>1
    <3>2. Turned(x, names, k, SyncOne(y, names[k]))
      BY <1>6, <2>1, <3>1, SyncTurn
    <3>3. SyncOne(y, names[k]) \in Xacts
      BY <3>2 DEF Turned, Ready
    <3> QED BY <1>4, <2>1, <3>2, <3>3
  <2>3. step[k] = [y \in V[k - 1] |-> SyncOne(y, names[k])]
    BY <1>5
  <2> QED BY <2>2, <2>3
<1>9. step \in Between(n, V)
  BY <1>5, <1>8 DEF Between
<1>10. PICK h : /\ h = [k \in 0..n |-> h[k]] /\ h[0] = x
                /\ \A k \in 1..n : h[k] = step[k][h[k - 1]]
                /\ \A k \in 0..n : h[k] \in V[k]
  <2>1. \E f : Runs(n, x, step, f) /\ \A k \in 0..n : f[k] \in V[k]
    BY <1>6, <1>7, <1>9, IteratesWithin
  <2> QED BY <2>1 DEF Runs
<1>11. \A k \in 1..n : h[k] = SyncOne(h[k - 1], names[k])
  <2> TAKE k \in 1..n
  <2>1. k - 1 \in 0..n
    BY <1>6
  <2> QED BY <1>5, <1>10, <2>1
<1>12. IsRun(h)
  <2>1. \A k \in 0..n : k # 0 => k \in 1..n
    BY <1>6
  <2>2. \A k \in 0..n : h[k] = IF k = 0 THEN x ELSE SyncOne(h[k - 1], names[k])
    BY <1>10, <1>11, <2>1, Zenon
  <2> QED BY <1>1, <1>10, <2>2, Zenon
<1>13. IsRun(g)
  <2> HIDE DEF IsRun
  <2> QED BY <1>2, <1>12, Zenon
<1>14. g[0] = x /\ \A k \in 1..n : g[k] = SyncOne(g[k - 1], names[k])
  <2>1. 0 \in 0..n /\ \A k \in 1..n : k \in 0..n /\ k # 0
    BY <1>6
  <2> QED BY <1>1, <1>13, <2>1, Zenon
<1> HIDE DEF IsRun
<1>15. \A k \in 0..n : g[k] \in V[k]
  <2>1. \A k \in 1..n : g[k - 1] \in V[k - 1] => g[k] = step[k][g[k - 1]]
    BY <1>5, <1>14
  <2> QED BY <1>6, <1>7, <1>9, <1>14, <2>1, StaysWithin
<1>16. g[n] \in V[n]
  BY <1>6, <1>15
<1>17. Turned(x, names, n, g[n])
  BY <1>4, <1>6, <1>16
<1> QED BY <1>1, <1>3, <1>17

LEMMA SyncIInv ==
  ASSUME IInv, Sync
  PROVE  IInv'
<1>1. PICK x, y : x = Within(InWorktree) /\ y = SyncAll(x, cmd.names)
  OBVIOUS
<1>2. cmd.pc = "sync" /\ Concludes(cmd, y) /\ stash' = stash /\ mine' = {}
  BY <1>1 DEF Sync
<1>3. Pushable(repo.state, cmd.names) /\ cmd.flags \subseteq DOMAIN RefPatches /\ cmd.names \in Seq(Names)
  BY <1>2, IInvFacts DEF Fits, IInv
<1>4. Opened(x, repo)
  BY <1>1, WithinOpened, OptionTypes
<1>5. Ready(x) /\ Pushable(x.t, cmd.names)
  BY <1>3, <1>4 DEF Opened, Pushable
<1>6. Ready(y)
  BY <1>1, <1>3, <1>5, SyncAllOK DEF Turned
<1>7. mine' \subseteq Files \X Contents
  BY <1>2
<1> QED BY <1>2, <1>6, <1>7, ConcludeIInv
-----------------------------------------------------------------------------
(* The invariant. *)

LEMMA InitIInv ==
  ASSUME Init
  PROVE  IInv
<1>1. PICK s \in InitStates :
        repo = [state |-> s, branch |-> s.head, wd |-> ReadTreeCheckoutHard(Tree(s.head))]
  BY DEF Init
<1>2. stash = <<>> /\ cmd = NoCmd /\ last = NoLast /\ mine = {}
  BY DEF Init
<1>3. s \in States /\ Partitioned(s) /\ Chained(s) /\ s.head = StateTop(s)
  BY InputsAssumption
<1>4. Good(s) /\ Linked(s) /\ s.head \in Commits
  BY <1>3, PartitionedIsGood DEF States, Chained, Linked
<1>5. PICK h : h = ReadTreeCheckoutHard(Tree(s.head))
  OBVIOUS
<1>6. h \in Workdirs
  <2>1. Tree(s.head) \in Trees
    BY <1>4, CommitTypes
  <2> QED BY <1>5, <2>1 DEF ReadTreeCheckoutHard, Workdirs
<1>7. repo \in Repos /\ repo.state = s /\ repo.branch = s.head
  BY <1>1, <1>3, <1>4, <1>5, <1>6 DEF Repos
<1>8. Sound(repo)
  BY <1>3, <1>4, <1>7 DEF Sound, OnTop
<1>9. CmdForm /\ Loops
  BY <1>2, NoCmdForm DEF CmdForm, Form, Loops, Pcs
<1>10. /\ cmd.pc = "idle" /\ cmd.at = 1 /\ cmd.target = NoCommit /\ cmd.names = <<>> /\ cmd.stashed = FALSE
       /\ last.how = "none"
  BY <1>2 DEF NoCmd, NoLast
<1>11. Fits(cmd, repo)
  BY <1>10 DEF Fits
<1>12. 1 \in 1..(MaxPlan + 1)
  BY InputsAssumption
<1>13. stash \in Seq(StashEntries)
  BY <1>2
<1> QED BY <1>2, <1>8, <1>9, <1>10, <1>11, <1>12, <1>13, NoCommitType, NoElems DEF IInv, Hows

LEMMA NextIInv ==
  ASSUME Doubtful = {}, IInv, [Next]_vars
  PROVE  IInv'
<1>1. CASE UNCHANGED vars
  BY <1>1 DEF vars, IInv, CmdForm, Loops
<1>2. CASE Rest
  BY <1>1, <1>2 DEF Rest
<1>3. CASE User
  BY <1>3, UserIInv DEF User
<1>4. CASE Start
  BY <1>4, RebaseStartIInv, PullStartIInv, RefreshStartIInv, EditIInv, SpillStartIInv, FoldIInv,
     ImportStartIInv, SyncStartIInv DEF Start
<1>5. CASE Rebasing
  BY <1>5, PopIInv, UserGitIInv, ReopenIInv, PushBackIInv, UnstashIInv, PlanIInv, KeepLineIInv,
     DeleteLinesIInv, HideLinesIInv, EditLineIInv, SquashLinesIInv, PushPlannedIInv DEF Rebasing
<1>6. CASE Proceed
  BY <1>5, <1>6, RefreshTempIInv, RefreshAbsorbIInv, SpillResetIInv, ImportApplyIInv, ImportCreateIInv,
     SyncPopIInv, SyncIInv DEF Proceed
<1>7. CASE Kill
  BY <1>7, KillIInv
<1> QED BY <1>1, <1>2, <1>3, <1>4, <1>6, <1>7 DEF Next

LEMMA SpecIInv ==
  ASSUME Doubtful = {}
  PROVE  Spec => []IInv
<1>1. Init => IInv
  BY InitIInv
<1>2. IInv /\ [Next]_vars => IInv'
  BY NextIInv
<1> QED BY <1>1, <1>2, PTL DEF Spec

\* Every command keeps the types, TypeOK, unless it is given one of the inputs that
\* Doubtful lets in.
THEOREM CommandsTyped ==
  ASSUME Doubtful = {}
  PROVE  Spec => []TypeOK
<1>1. IInv => TypeOK
  BY DEF IInv, TypeOK, Sound, Repos, StashEntries, Hows
<1> QED BY <1>1, SpecIInv, PTL

\* After every step of every command the stack is sound, StackStaysSound: each patch
\* is in one list once, the applied ones are a chain of commits, and the chain ends
\* at the head of the stack; also where a command was killed or stopped between its
\* transactions and another one went on from there.
THEOREM CommandsKeepStackSound ==
  ASSUME Doubtful = {}
  PROVE  Spec => []StackStaysSound
<1>1. IInv => StackStaysSound
  <2> SUFFICES ASSUME IInv PROVE StackStaysSound
    OBVIOUS
  <2>1. PICK s : s = repo.state
    OBVIOUS
  <2>2. s \in States /\ Good(s) /\ Linked(s) /\ OnTop(repo)
    BY <2>1, IInvFacts DEF Sound
  <2>3. Partitioned(s)
    BY <2>2, GoodIsPartitioned DEF States
  <2>4. Chained(s)
    BY <2>2 DEF Good, Chained, Linked, HasPatch
  <2>5. repo.state.head = StateTop(repo.state)
    BY <2>1, <2>2 DEF OnTop, StateTop, TopOf
  <2> QED BY <2>1, <2>3, <2>4, <2>5 DEF StackStaysSound, PatchesAreTopmostCommits
<1> QED BY <1>1, SpecIInv, PTL
-----------------------------------------------------------------------------
(* What a rebase or pull that pushes has done when it ends well. *)

Pushing(name, flags) == name \in {"rebase", "pull"} /\ flags \cap {"interactive", "nopush"} = {}

\* The base of the stack will be the target.
Retargets(c) == c.name = "rebase" \/ "fetch" \in c.flags

\* The command goes on as the one it is, or ends.
GoesOn ==
  /\ cmd'.pc # "idle" /\ cmd'.name = cmd.name /\ Pushing(cmd'.name, cmd'.flags) = Pushing(cmd.name, cmd.flags)
  /\ "edited" \in cmd.flags => "edited" \in cmd'.flags

Stops == \E how : Ends(cmd, how)

\* It is the same command, at some step.
Same(next) == next.pc # "idle" /\ next.name = cmd.name /\ next.flags = cmd.flags

LEMMA SameExcept ==
  ASSUME CmdForm, NEW q, NEW v, NEW w, NEW next,
         \/ q # "idle" /\ next = [cmd EXCEPT !.pc = q]
         \/ q # "idle" /\ next = [cmd EXCEPT !.pc = q, !.plan = v]
         \/ q # "idle" /\ next = [cmd EXCEPT !.pc = q, !.plan = v, !.at = w]
         \/ cmd.pc # "idle" /\ next = [cmd EXCEPT !.at = w]
         \/ cmd.pc # "idle" /\ next = [cmd EXCEPT !.plan = v]
         \/ cmd.pc # "idle" /\ next = [cmd EXCEPT !.plan = v, !.at = w]
  PROVE  Same(next)
BY DEF CmdForm, CmdFields, Same

LEMMA SameOn ==
  ASSUME NEW next, Same(next), cmd' = next
  PROVE  GoesOn
BY DEF Same, GoesOn

LEMMA TransactsOn ==
  ASSUME NEW x, NEW next, Transacts(cmd, x, next), Same(next)
  PROVE  GoesOn \/ Stops
BY SameOn DEF Transacts, Stops

\* The common forms.
LEMMA PcOn ==
  ASSUME CmdForm, NEW q, q # "idle", NEW x,
         cmd' = [cmd EXCEPT !.pc = q] \/ Transacts(cmd, x, [cmd EXCEPT !.pc = q])
  PROVE  GoesOn \/ Stops
<1>1. PICK next : next = [cmd EXCEPT !.pc = q]
  OBVIOUS
<1>2. Same(next)
  BY <1>1, SameExcept
<1>3. cmd' = next \/ Transacts(cmd, x, next)
  BY <1>1
<1> QED BY <1>2, <1>3, SameOn, TransactsOn

LEMMA LineOn ==
  ASSUME CmdForm, cmd.pc # "idle", NEW x, NEW p,
         cmd' = [cmd EXCEPT !.plan = p] \/ Transacts(cmd, x, [cmd EXCEPT !.plan = p])
  PROVE  GoesOn \/ Stops
<1>1. PICK next : next = [cmd EXCEPT !.plan = p]
  OBVIOUS
<1>2. Same(next)
  BY <1>1, SameExcept
<1>3. cmd' = next \/ Transacts(cmd, x, next)
  BY <1>1
<1> QED BY <1>2, <1>3, SameOn, TransactsOn

LEMMA FinishesOn ==
  ASSUME CmdForm, Finishes(cmd)
  PROVE  GoesOn \/ Stops
BY PcOn DEF Finishes, Stops

LEMMA PushesOn ==
  ASSUME CmdForm, NEW names, Pushes(names)
  PROVE  GoesOn \/ Stops
<1>1. Finishes(cmd) \/ Stops
  BY DEF Pushes, Stops
<1> QED BY <1>1, FinishesOn

LEMMA StepOn ==
  ASSUME CmdForm, Proceed
  PROVE  GoesOn \/ Stops
<1>1. CASE Pop \/ RefreshTemp \/ SyncPop
  <2>1. \E q, x : q # "idle" /\ Transacts(cmd, x, [cmd EXCEPT !.pc = q])
    BY <1>1 DEF Pop, RefreshTemp, SyncPop
  <2> QED BY <2>1, PcOn
<1>2. CASE UserRebase
  BY <1>2, PcOn DEF UserRebase, Stops
<1>3. CASE UserPull
  <2>1. cmd' = [cmd EXCEPT !.pc = "reopen"] \/ Ends(cmd, "conflict")
    BY <1>3, Zenon DEF UserPull
  <2> QED BY <2>1, PcOn DEF Stops
<1>4. CASE Reopen
  <2>1. cmd' = [cmd EXCEPT !.pc = "plan"] \/ cmd' = [cmd EXCEPT !.pc = "push"] \/ Finishes(cmd)
    BY <1>4 DEF Reopen
  <2> QED BY <2>1, PcOn, FinishesOn
<1>5. CASE PushBack
  BY <1>5, PushesOn DEF PushBack
<1>6. CASE Unstash
  BY <1>6, Zenon DEF Unstash, Stops
<1>7. CASE Plan
  <2>1. CASE Stops
    BY <2>1
  <2>2. CASE \E p : cmd' = [cmd EXCEPT !.pc = "instruction", !.plan = p, !.at = 1]
    <3>1. PICK p, next : next = [cmd EXCEPT !.pc = "instruction", !.plan = p, !.at = 1] /\ cmd' = next
      BY <2>2
    <3>2. Same(next)
      BY <3>1, SameExcept
    <3> QED BY <3>1, <3>2, SameOn
  <2>3. \/ \E names, acts, above : cmd' = [cmd EXCEPT !.pc = "instruction", !.plan = Instructions(names, acts, above), !.at = 1]
        \/ Stops
    BY <1>7, Zenon DEF Plan, Stops
  <2> QED BY <2>1, <2>2, <2>3
<1>8. CASE KeepLine
  <2>1. cmd.pc = "instruction" /\ cmd' = [cmd EXCEPT !.at = @ + 1]
    BY <1>8 DEF KeepLine, AtLine
  <2>2. PICK a, next : a = cmd.at + 1 /\ next = [cmd EXCEPT !.at = a]
    OBVIOUS
  <2>3. Same(next)
    BY <2>1, <2>2, SameExcept
  <2> QED BY <2>1, <2>2, <2>3, SameOn
<1>9. CASE DeleteLines \/ HideLines
  <2>1. cmd.pc = "instruction" /\ \E x, p : Transacts(cmd, x, [cmd EXCEPT !.plan = p])
    BY <1>9, Zenon DEF DeleteLines, HideLines, AtLine
  <2> QED BY <2>1, LineOn
<1>10. CASE EditLine
  <2>1. cmd.pc = "instruction"
    BY <1>10 DEF EditLine, AtLine
  <2>2. Stops \/ \E x, name :
                    Transacts(cmd, x, [cmd EXCEPT !.plan[cmd.at] = [@ EXCEPT !.act = "keep", !.name = name],
                                                  !.at = @ + 1])
    BY <1>10, Zenon DEF EditLine, Stops
  <2>3. ASSUME NEW x, NEW name,
               Transacts(cmd, x, [cmd EXCEPT !.plan[cmd.at] = [@ EXCEPT !.act = "keep", !.name = name],
                                                  !.at = @ + 1])
        PROVE  GoesOn \/ Stops
    <3>1. PICK next : next = [cmd EXCEPT !.plan[cmd.at] = [@ EXCEPT !.act = "keep", !.name = name],
                                                  !.at = @ + 1]
      OBVIOUS
    <3>2. Same(next)
      BY <2>1, <3>1 DEF CmdForm, CmdFields, Same
    <3>3. Transacts(cmd, x, next)
      BY <2>3, <3>1
    <3> QED BY <3>2, <3>3, TransactsOn
  <2> QED BY <2>2, <2>3
<1>11. CASE SquashLines
  <2>1. cmd.pc = "instruction" /\ (Stops \/ \E x, p : Transacts(cmd, x, [cmd EXCEPT !.plan = p]))
    BY <1>11, Zenon DEF SquashLines, AtLine, Stops
  <2> QED BY <2>1, LineOn
<1>12. CASE PushPlanned
  <2>1. \E names : Pushes(names)
    BY <1>12 DEF PushPlanned
  <2> QED BY <2>1, PushesOn
<1>13. CASE RefreshAbsorb \/ SpillReset \/ Sync
  BY <1>13 DEF RefreshAbsorb, SpillReset, Sync, Concludes, Stops
<1>14. CASE ImportApply
  <2>1. \/ Stops
        \/ cmd.pc = "apply" /\ \E p : cmd' = [cmd EXCEPT !.plan = p]
        \/ \E f : cmd' = [cmd EXCEPT !.pc = "create", !.flags = f] /\ f \in {cmd.flags, cmd.flags \cup {"rejected"}}
    BY <1>14 DEF ImportApply, Stops
  <2>2. ASSUME NEW f, cmd' = [cmd EXCEPT !.pc = "create", !.flags = f], f \in {cmd.flags, cmd.flags \cup {"rejected"}}
        PROVE  GoesOn
    <3>1. cmd'.pc = "create" /\ cmd'.name = cmd.name /\ cmd'.flags = f
      BY <2>2 DEF CmdForm, CmdFields
    <3> QED BY <2>2, <3>1 DEF GoesOn, Pushing
  <2> QED BY <2>1, <2>2, LineOn
<1>15. CASE ImportCreate
  <2>1. Stops \/ \E x, p, f : /\ Transacts(cmd, x, [cmd EXCEPT !.pc = "apply", !.plan = p, !.flags = f])
                                /\ f \in {cmd.flags, cmd.flags \cup {"edited"}}
    BY <1>15, Zenon DEF ImportCreate, Stops
  <2>2. ASSUME NEW x, NEW p, NEW f, Transacts(cmd, x, [cmd EXCEPT !.pc = "apply", !.plan = p, !.flags = f]),
               f = cmd.flags \/ f = cmd.flags \cup {"edited"}
        PROVE  GoesOn \/ Stops
    <3>1. PICK next : next = [cmd EXCEPT !.pc = "apply", !.plan = p, !.flags = f]
      OBVIOUS
    <3>2. next.pc = "apply" /\ next.name = cmd.name /\ next.flags = f
      BY <3>1 DEF CmdForm, CmdFields
    <3>3. cmd' = next => GoesOn
      BY <2>2, <3>2 DEF GoesOn, Pushing
    <3>4. Transacts(cmd, x, next)
      BY <2>2, <3>1
    <3> QED BY <3>3, <3>4 DEF Transacts, Stops
  <2> QED BY <2>1, <2>2
<1> QED BY <1>1, <1>2, <1>3, <1>4, <1>5, <1>6, <1>7, <1>8, <1>9, <1>10, <1>11, <1>12, <1>13, <1>14, <1>15
        DEF Proceed, Rebasing
\* How far a rebase or pull that will push has come.
OnTheWay ==
  LET b == was.repo.state
  IN  /\ cmd.pc \in {"pop", "git", "reopen", "push", "unstash"}
      /\ was.repo \in Repos /\ was.stash \in Seq(StashEntries)
      /\ Retargets(cmd) => "pull" \notin cmd.flags
      /\ cmd.stashed =>
           stash = <<[base |-> Tree(was.repo.branch), work |-> was.repo.wd.work]>> \o was.stash
      /\ ~cmd.stashed => /\ stash = was.stash
                         /\ \A f \in Files : was.repo.wd.work[f] = Tree(was.repo.branch)[f]
      /\ cmd.names = b.applied
      /\ cmd.pc \in {"pop", "unstash"} => repo.state.applied = b.applied /\ repo.state.unapplied = b.unapplied
      /\ cmd.pc \in {"git", "reopen", "push"} => repo.state.unapplied = b.applied \o b.unapplied
      /\ cmd.pc \in {"reopen", "push"} /\ Retargets(cmd) => repo.branch = cmd.target
      /\ cmd.pc = "unstash" /\ Retargets(cmd) => Base = cmd.target

\* The second inductive invariant, on top of IInv.
RebaseInv == RebaseDone /\ (~Idle /\ Pushing(cmd.name, cmd.flags) => OnTheWay)

\* What is known of a command that has ended.
LEMMA EndsKnown ==
  ASSUME CmdForm, NEW how, Ends(cmd, how)
  PROVE  /\ cmd' = NoCmd /\ cmd'.pc = "idle" /\ last'.name = cmd.name /\ last'.how = how
         /\ how = "ok" => last'.cmd.flags = cmd.flags /\ last'.cmd.target = cmd.target
BY DEF CmdForm, CmdFields, Ends, NoCmd

\* A command that does not push, or does not end well, promises nothing.
LEMMA OtherEnd ==
  ASSUME CmdForm, NEW how, Ends(cmd, how), how # "ok" \/ ~Pushing(cmd.name, cmd.flags)
  PROVE  RebaseInv'
<1>1. /\ cmd' = NoCmd /\ cmd'.pc = "idle" /\ last'.name = cmd.name /\ last'.how = how
      /\ how = "ok" => last'.cmd.flags = cmd.flags
  BY EndsKnown
<1> QED BY <1>1 DEF RebaseInv, RebaseDone, Done, Idle, Pushing

LEMMA OtherStep ==
  ASSUME CmdForm, Proceed, ~Pushing(cmd.name, cmd.flags)
  PROVE  RebaseInv'
<1>1. CASE GoesOn
  BY <1>1 DEF GoesOn, RebaseInv, RebaseDone, Done, Idle
<1>2. CASE Stops
  BY <1>2, OtherEnd DEF Stops
<1> QED BY <1>1, <1>2, StepOn

\* The command goes on: what it has not touched stays.
Keeps ==
  /\ cmd'.name = cmd.name /\ cmd'.flags = cmd.flags /\ cmd'.names = cmd.names
  /\ cmd'.target = cmd.target /\ cmd'.stashed = cmd.stashed /\ stash' = stash /\ was' = was

LEMMA WayOn ==
  ASSUME OnTheWay, Keeps, cmd'.pc \in {"pop", "git", "reopen", "push", "unstash"},
         cmd'.pc \in {"pop", "unstash"} =>
           /\ repo'.state.applied = was.repo.state.applied
           /\ repo'.state.unapplied = was.repo.state.unapplied,
         cmd'.pc \in {"git", "reopen", "push"} =>
           repo'.state.unapplied = was.repo.state.applied \o was.repo.state.unapplied,
         cmd'.pc \in {"reopen", "push"} /\ Retargets(cmd) => repo'.branch = cmd.target,
         cmd'.pc = "unstash" /\ Retargets(cmd) => BaseOf(repo'.state, repo'.branch) = cmd.target
  PROVE  RebaseInv'
<1>1. Retargets(cmd') = Retargets(cmd)
  BY DEF Keeps, Retargets
<1>2. cmd'.pc # "idle"
  OBVIOUS
<1>3. RebaseDone'
  BY <1>2 DEF RebaseDone, Done, Idle
<1>4. OnTheWay'
  BY <1>1 DEF OnTheWay, Keeps, Base
<1> QED BY <1>3, <1>4 DEF RebaseInv

LEMMA PcKeeps ==
  ASSUME CmdForm, NEW q, cmd' = [cmd EXCEPT !.pc = q], stash' = stash, was' = was
  PROVE  Keeps /\ cmd'.pc = q
BY PcStep DEF Keeps

\* The good end.
LEMMA GoodEnd ==
  ASSUME CmdForm, Ends(cmd, "ok"), was' = was,
         repo'.state.applied = was.repo.state.applied, repo'.state.unapplied = was.repo.state.unapplied,
         Retargets(cmd) => BaseOf(repo'.state, repo'.branch) = cmd.target,
         stash' = was.stash,
         \A f \in Files : was.repo.wd.work[f] # Tree(was.repo.branch)[f] => repo'.wd.work[f] = was.repo.wd.work[f]
  PROVE  RebaseInv'
<1>1. /\ cmd' = NoCmd /\ cmd'.pc = "idle" /\ last'.name = cmd.name /\ last'.how = "ok"
      /\ last'.cmd.flags = cmd.flags /\ last'.cmd.target = cmd.target
  BY EndsKnown
<1>2. Base' = BaseOf(repo'.state, repo'.branch)
  BY DEF Base
<1>3. RebaseDone'
  <2>1. last'.name = "rebase" => Base' = last'.cmd.target
    BY <1>1, <1>2 DEF Retargets
  <2>2. last'.cmd.flags \cap {"fetch"} # {} => Base' = last'.cmd.target
    BY <1>1, <1>2 DEF Retargets
  <2> QED BY <1>1, <2>1, <2>2 DEF RebaseDone
<1> QED BY <1>1, <1>3 DEF RebaseInv, Idle

\* Finishes, after the push.
LEMMA FinishWay ==
  ASSUME CmdForm, OnTheWay, Finishes(cmd), stash' = stash, was' = was,
         repo'.state.applied = was.repo.state.applied, repo'.state.unapplied = was.repo.state.unapplied,
         Retargets(cmd) => BaseOf(repo'.state, repo'.branch) = cmd.target
  PROVE  RebaseInv'
<1>1. CASE cmd.stashed /\ cmd' = [cmd EXCEPT !.pc = "unstash"]
  <2>1. Keeps /\ cmd'.pc = "unstash"
    BY <1>1, PcKeeps
  <2> QED BY <2>1, WayOn
<1>2. CASE ~cmd.stashed /\ Ends(cmd, "ok")
  <2>1. stash' = was.stash /\ \A f \in Files : was.repo.wd.work[f] = Tree(was.repo.branch)[f]
    BY <1>2 DEF OnTheWay
  <2> QED BY <1>2, <2>1, GoodEnd
<1> QED BY <1>1, <1>2 DEF Finishes

\* What popping all applied patches leaves.
LEMMA PopAll ==
  ASSUME NEW t, t \in Transactions, NEW v, v = PopPatches(t, Elems(t.applied))
  PROVE  v.unapplied = t.applied \o t.unapplied
<1>1. PICK a, u, S : a = t.applied /\ u = t.unapplied /\ S = Elems(a)
  OBVIOUS
<1>2. a \in Seq(Names) /\ u \in Seq(Names)
  BY <1>1 DEF Transactions
<1>3. From(a, S) = a
  <2>1. 0 \in 0..Len(a) /\ \A i \in 1..0 : a[i] \notin S
    BY <1>2
  <2>2. 0 < Len(a) => a[0 + 1] \in S
    <3>1. 0 < Len(a) => 1 \in 1..Len(a)
      BY <1>2
    <3> QED BY <1>1, <1>2, <3>1, ElemsIff
  <2>3. From(a, S) = SubSeq(a, 0 + 1, Len(a))
    BY ONLY <1>2, <2>1, <2>2, BelowIs
  <2>4. SubSeq(a, 1, Len(a)) = a
    BY <1>2
  <2> QED BY <2>3, <2>4
<1>4. Keep(a, S) = a
  BY <1>1, <1>2, KeepAll
<1>5. Drop(a, S) = <<>>
  <2>1. Drop(a, S) \in Seq(Names) /\ Elems(Drop(a, S)) = {}
    BY <1>1, <1>2, DropElems
  <2> QED BY <2>1, NoneListed
<1>6. v.unapplied = Drop(From(a, S), S) \o Keep(From(a, S), S) \o u
  BY <1>1 DEF PopPatches, Transactions
<1>7. <<>> \o a \o u = a \o u
  <2>1. <<>> \o a = a
    BY <1>2
  <2> QED BY <2>1
<1> QED BY <1>1, <1>3, <1>4, <1>5, <1>6, <1>7

\* How a transaction ends.
LEMMA TransactsEnds ==
  ASSUME NEW x, NEW next, Transacts(cmd, x, next)
  PROVE  /\ repo' = Execute(x).r
         /\ \/ Execute(x).how = "ok" /\ cmd' = next
            \/ Execute(x).how # "ok" /\ Ends(cmd, Execute(x).how)
BY DEF Transacts

LEMMA PopWay ==
  ASSUME IInv, OnTheWay, Pop
  PROVE  RebaseInv'
<1>1. PICK x, t, y : x = Within(InWorktree) /\ t = PopPatches(x.t, Elems(cmd.names)) /\ y = With(x, t)
  OBVIOUS
<1>2. cmd.pc = "pop" /\ Transacts(cmd, y, [cmd EXCEPT !.pc = "git"]) /\ stash' = stash /\ was' = was
  BY <1>1 DEF Pop
<1>3. Opened(x, repo)
  BY <1>1, WithinOpened, OptionTypes, IInvFacts
<1>4. WF(t, repo.state.patches) /\ Linked(t) /\ t.head = NoCommit
  BY <1>1, <1>3, PopOpened
<1>5. Ready(y) /\ y.t = t
  BY <1>1, <1>3, <1>4, WithOpened
<1>6. cmd.names = repo.state.applied
  BY <1>2, IInvFacts DEF Fits
<1>7. x.t \in Transactions /\ x.t.applied = repo.state.applied /\ x.t.unapplied = repo.state.unapplied
  BY <1>3, OpenedFacts DEF Opened
<1>8. t.unapplied = repo.state.applied \o repo.state.unapplied
  BY <1>1, <1>6, <1>7, PopAll
<1>9. PICK e : e = Execute(y)
  OBVIOUS
<1>10. e.how = "ok" => Committed(t, e.r)
  BY <1>5, <1>9, ExecuteSound
<1>11. /\ repo' = e.r
       /\ \/ e.how = "ok" /\ cmd' = [cmd EXCEPT !.pc = "git"]
          \/ e.how # "ok" /\ Ends(cmd, e.how)
  BY <1>2, <1>9, TransactsEnds
<1>12. CASE e.how = "ok" /\ cmd' = [cmd EXCEPT !.pc = "git"]
  <2>1. Keeps /\ cmd'.pc = "git"
    BY <1>2, <1>12, PcKeeps, IInvFacts
  <2>2. repo'.state.unapplied = was.repo.state.applied \o was.repo.state.unapplied
    BY <1>2, <1>8, <1>10, <1>11, <1>12 DEF Committed, OnTheWay
  <2> QED BY <2>1, <2>2, WayOn
<1>13. CASE e.how # "ok" /\ Ends(cmd, e.how)
  BY <1>13, OtherEnd, IInvFacts
<1> QED BY <1>11, <1>12, <1>13

LEMMA GitWay ==
  ASSUME IInv, OnTheWay, UserRebase \/ UserPull
  PROVE  RebaseInv'
<1>1. cmd.pc = "git" /\ stash' = stash /\ was' = was
  BY DEF UserRebase, UserPull
<1>2. repo.state.unapplied = was.repo.state.applied \o was.repo.state.unapplied
  BY <1>1 DEF OnTheWay
<1>3. ASSUME NEW b, NEW w, repo' = [repo EXCEPT !.branch = b, !.wd = w], cmd' = [cmd EXCEPT !.pc = "reopen"],
             Retargets(cmd) => b = cmd.target
      PROVE  RebaseInv'
  <2>1. Keeps /\ cmd'.pc = "reopen"
    BY <1>1, <1>3, PcKeeps, IInvFacts
  <2>2. repo'.state = repo.state /\ repo'.branch = b
    BY <1>3, IInvFacts DEF Repos
  <2> QED BY <1>2, <1>3, <2>1, <2>2, WayOn
<1>4. CASE UserRebase
  <2>1. CASE /\ repo' = [repo EXCEPT !.branch = cmd.target, !.wd = ReadTreeCheckoutHard(Tree(cmd.target))]
             /\ cmd' = [cmd EXCEPT !.pc = "reopen"]
    BY <1>3, <2>1
  <2>2. CASE Ends(cmd, "error")
    BY <2>2, OtherEnd, IInvFacts
  <2> QED BY <1>4, <2>1, <2>2 DEF UserRebase
<1>5. CASE UserPull
  <2>1. ~Retargets(cmd)
    BY <1>5 DEF UserPull, OnTheWay
  <2>2. \/ Ends(cmd, "conflict")
        \/ \E b : /\ repo' = [repo EXCEPT !.branch = b, !.wd = ReadTreeCheckoutHard(Tree(b))]
                  /\ cmd' = [cmd EXCEPT !.pc = "reopen"]
    BY <1>5, Zenon DEF UserPull
  <2> QED BY <1>3, <2>1, <2>2, OtherEnd, IInvFacts
<1> QED BY <1>4, <1>5

LEMMA ReopenWay ==
  ASSUME IInv, OnTheWay, Reopen, Pushing(cmd.name, cmd.flags)
  PROVE  RebaseInv'
<1>1. cmd.pc = "reopen" /\ stash' = stash /\ was' = was
  BY DEF Reopen
<1>2. cmd' = [cmd EXCEPT !.pc = "push"]
  BY DEF Reopen, Pushing
<1>3. repo' = [repo EXCEPT !.state = [repo.state EXCEPT !.head = repo.branch]]
  BY DEF Reopen
<1>4. repo'.state.unapplied = repo.state.unapplied /\ repo'.branch = repo.branch
  BY <1>3, IInvFacts DEF Repos, States
<1>5. Keeps /\ cmd'.pc = "push"
  BY <1>1, <1>2, PcKeeps, IInvFacts
<1>6. /\ repo.state.unapplied = was.repo.state.applied \o was.repo.state.unapplied
      /\ Retargets(cmd) => repo.branch = cmd.target
  BY <1>1 DEF OnTheWay
<1> QED BY <1>4, <1>5, <1>6, WayOn

LEMMA PushWay ==
  ASSUME IInv, OnTheWay, PushBack
  PROVE  RebaseInv'
<1>1. cmd.pc = "push" /\ Pushes(cmd.names) /\ stash' = stash /\ was' = was
  BY DEF PushBack
<1>2. PICK names, b : names = cmd.names /\ b = was.repo.state
  OBVIOUS
<1>3. /\ names = b.applied /\ repo.state.unapplied = names \o b.unapplied /\ repo.state.applied = <<>>
      /\ Retargets(cmd) => repo.branch = cmd.target
  BY <1>1, <1>2, IInvFacts DEF OnTheWay, Fits
<1>4. names \in Seq(Names) /\ b.unapplied \in Seq(Names) /\ Pushable(repo.state, names)
  BY <1>1, <1>2, IInvFacts DEF Fits, IInv, OnTheWay, Repos, States
<1>5. PICK x, m, y, e : /\ x = Within(PushOptions) /\ m = ("merged" \in cmd.flags)
                        /\ y = PushPatches(x, names, m) /\ e = Execute(y)
  OBVIOUS
<1>6. Opened(x, repo) /\ m \in BOOLEAN
  BY <1>5, WithinOpened, PushOptionsType, IInvFacts
<1>7. Ready(x) /\ Pushable(x.t, names) /\ x.t.unapplied = names \o b.unapplied /\ x.t.applied = <<>>
      /\ Top(x.t) = repo.branch
  BY <1>3, <1>4, <1>6 DEF Opened, Pushable
<1>8. PushAll(x, names, y)
  BY <1>4, <1>5, <1>6, <1>7, PushPatchesOK
<1>9. e.how = "ok" => y.err = "none" /\ Committed(y.t, e.r)
  BY <1>5, <1>8, ExecuteSound DEF PushAll
<1>10. repo' = e.r /\ IF e.how = "ok" THEN Finishes(cmd) ELSE Ends(cmd, e.how)
  BY <1>1, <1>2, <1>5 DEF Pushes
<1>11. CASE e.how = "ok"
  <2>1. /\ y.t.applied = <<>> \o names /\ y.t.unapplied = b.unapplied /\ y.t.base = x.t.base
        /\ Based(x.t) => Based(y.t)
    BY <1>4, <1>7, <1>8, <1>9, <1>11 DEF PushAll
  <2>2. y.t.applied = b.applied
    <3>1. <<>> \o names = names
      BY ONLY <1>4
    <3> QED BY <1>3, <2>1, <3>1
  <2>3. Based(y.t) /\ y.t.base = repo.branch
    BY <1>7, <2>1 DEF Based, Top, TopOf
  <2>4. BaseOf(repo'.state, repo'.branch) = repo.branch
    <3>1. /\ repo'.state.applied = y.t.applied /\ repo'.state.patches = y.t.patches /\ repo'.branch = Top(y.t)
      BY <1>9, <1>10, <1>11 DEF Committed
    <3> QED BY <2>3, <3>1 DEF BaseOf, Based, Top, TopOf
  <2>5. repo'.state.applied = b.applied /\ repo'.state.unapplied = b.unapplied
    BY <1>9, <1>10, <1>11, <2>1, <2>2 DEF Committed
  <2> QED BY <1>1, <1>2, <1>3, <1>10, <1>11, <2>4, <2>5, IInvFacts, FinishWay
<1>12. CASE e.how # "ok"
  BY <1>10, <1>12, OtherEnd, IInvFacts
<1> QED BY <1>11, <1>12

LEMMA UnstashWay ==
  ASSUME IInv, OnTheWay, Unstash
  PROVE  RebaseInv'
<1>1. cmd.pc = "unstash" /\ was' = was /\ cmd.stashed
  BY DEF Unstash, IInv
<1>2. PICK z, k : z = [base |-> Tree(was.repo.branch), work |-> was.repo.wd.work] /\ k = was.stash
  OBVIOUS
<1>3. stash = <<z>> \o k /\ k \in Seq(StashEntries) /\ stash \in Seq(StashEntries)
  BY <1>1, <1>2, IInvFacts DEF OnTheWay
<1>4. z \in StashEntries
  BY <1>2, CommitTypes DEF OnTheWay, Repos, Workdirs, StashEntries
<1>5. Head(stash) = z /\ Tail(stash) = k
  BY <1>3, <1>4
<1> DEFINE t == repo.wd.index
           w == MergeTree(z.base, t, z.work)
           c == ConflictFiles(z.base, t, z.work)
<1>6. \/ c = {} /\ repo' = [repo EXCEPT !.wd.work = w] /\ stash' = k /\ Ends(cmd, "ok")
      \/ Ends(cmd, "conflict")
  BY <1>5 DEF Unstash
<1>7. CASE c = {} /\ repo' = [repo EXCEPT !.wd.work = w] /\ stash' = k /\ Ends(cmd, "ok")
  <2>1. repo'.state = repo.state /\ repo'.branch = repo.branch /\ repo'.wd.work = w
    BY <1>7, IInvFacts DEF Repos, Workdirs
  <2>2. ASSUME NEW f \in Files, was.repo.wd.work[f] # Tree(was.repo.branch)[f]
        PROVE  w[f] = was.repo.wd.work[f]
    BY <1>2, <1>7, <2>2 DEF MergeTree, ConflictFiles
  <2>3. /\ repo.state.applied = was.repo.state.applied /\ repo.state.unapplied = was.repo.state.unapplied
        /\ Retargets(cmd) => BaseOf(repo.state, repo.branch) = cmd.target
    BY <1>1 DEF OnTheWay, Base
  <2> HIDE DEF w
  <2> QED BY <1>1, <1>2, <1>7, <2>1, <2>2, <2>3, IInvFacts, GoodEnd
<1>8. CASE Ends(cmd, "conflict")
  BY <1>8, OtherEnd, IInvFacts
<1> QED BY <1>6, <1>7, <1>8

LEMMA RebaseStartWay ==
  ASSUME IInv, RebaseStart
  PROVE  RebaseInv'
<1>1. PICK args \in RebaseArgs :
        \E target : /\ args[1] \cap {"pull", "fetch"} = {}
                    /\ Starts([NoCmd EXCEPT !.name = "rebase", !.pc = "pop", !.flags = args[1],
                               !.names = repo.state.applied, !.target = target, !.stashed = ~Clean])
  BY Zenon DEF RebaseStart
<1>2. PICK target, b, run :
        /\ b = ~Clean
        /\ run = [NoCmd EXCEPT !.name = "rebase", !.pc = "pop", !.flags = args[1],
                               !.names = repo.state.applied, !.target = target, !.stashed = b]
        /\ Starts(run)
  BY <1>1
<1>3. /\ cmd'.name = "rebase" /\ cmd'.pc = "pop" /\ cmd'.flags = args[1]
      /\ cmd'.names = repo.state.applied /\ cmd'.stashed = b
  BY <1>2 DEF NoCmd, Starts
<1>4. was' = [repo |-> repo, stash |-> stash]
  BY <1>2 DEF Starts
<1>5. was'.repo = repo /\ was'.stash = stash /\ was'.repo \in Repos /\ was'.stash \in Seq(StashEntries)
  BY <1>4, IInvFacts
<1>6. /\ repo'.state = repo.state
      /\ b => stash' = <<[base |-> Tree(repo.branch), work |-> repo.wd.work]>> \o stash
      /\ ~b => stash' = stash
  BY <1>2, IInvFacts DEF RebaseStart, Repos
<1>7. ~b => \A f \in Files : repo.wd.work[f] = Tree(repo.branch)[f]
  BY <1>2 DEF Clean, Changed
<1>8. "pull" \notin cmd'.flags
  BY <1>1, <1>3
<1>9. OnTheWay'
  BY <1>3, <1>5, <1>6, <1>7, <1>8 DEF OnTheWay
<1> QED BY <1>3, <1>9 DEF RebaseInv, RebaseDone, Done, Idle

LEMMA PullStartWay ==
  ASSUME IInv, PullStart
  PROVE  RebaseInv'
<1>1. PICK args \in RebaseArgs :
       /\ args[1] \cap {"pull", "fetch"} # {}
       /\ Starts([NoCmd EXCEPT !.name = "pull", !.pc = "pop", !.flags = args[1],
                               !.names = repo.state.applied, !.target = args[2]])
  BY DEF PullStart
<1>2. PICK run :
        /\ run = [NoCmd EXCEPT !.name = "pull", !.pc = "pop", !.flags = args[1],
                               !.names = repo.state.applied, !.target = args[2]]
        /\ Starts(run)
  BY <1>1
<1>3. /\ cmd'.name = "pull" /\ cmd'.pc = "pop" /\ cmd'.flags = args[1]
      /\ cmd'.names = repo.state.applied /\ cmd'.stashed = FALSE
  BY <1>2 DEF NoCmd, Starts
<1>4. was' = [repo |-> repo, stash |-> stash] /\ repo' = repo /\ stash' = stash
  BY <1>2 DEF Starts, PullStart
<1>5. was'.repo = repo /\ was'.stash = stash /\ was'.repo \in Repos /\ was'.stash \in Seq(StashEntries)
  BY <1>4, IInvFacts
<1>6. \A f \in Files : repo.wd.work[f] = Tree(repo.branch)[f]
  BY DEF PullStart, Clean, Changed
<1>7. "fetch" \in cmd'.flags => "pull" \notin cmd'.flags
  BY <1>3, InputsAssumption
<1>8. OnTheWay'
  BY <1>3, <1>4, <1>5, <1>6, <1>7 DEF OnTheWay, Retargets
<1> QED BY <1>3, <1>8 DEF RebaseInv, RebaseDone, Done, Idle

\* The other commands start, or are over at once.
LEMMA OtherStart ==
  ASSUME RefreshStart \/ Edit \/ SpillStart \/ Fold \/ ImportStart \/ SyncStart
  PROVE  RebaseInv'
<1>1. ASSUME NEW c, c.name \notin {"rebase", "pull"}, c.pc # "idle", Starts(c) PROVE RebaseInv'
  BY <1>1 DEF Starts, RebaseInv, RebaseDone, Done, Idle, Pushing
<1>2. ASSUME NEW c, c.name \notin {"rebase", "pull"}, NEW how, Ends(c, how) PROVE RebaseInv'
  <2>1. cmd'.pc = "idle" /\ last'.name = c.name
    BY <1>2 DEF Ends, NoCmd
  <2> QED BY <1>2, <2>1 DEF RebaseInv, RebaseDone, Done, Idle
<1>3. CASE RefreshStart
  <2>1. PICK names, target :
          Starts([NoCmd EXCEPT !.name = "refresh", !.pc = "temp", !.names = names, !.target = target])
    BY <1>3, Zenon DEF RefreshStart
  <2>2. PICK c : c = [NoCmd EXCEPT !.name = "refresh", !.pc = "temp", !.names = names, !.target = target]
    OBVIOUS
  <2>3. c.name = "refresh" /\ c.pc = "temp" /\ Starts(c)
    BY <2>1, <2>2 DEF NoCmd
  <2> QED BY <1>1, <2>3
<1>4. CASE Edit
  <2>1. PICK x : Concludes([NoCmd EXCEPT !.name = "edit"], x)
    BY <1>4, Zenon DEF Edit
  <2>2. PICK c : c = [NoCmd EXCEPT !.name = "edit"]
    OBVIOUS
  <2>3. c.name = "edit" /\ Ends(c, Execute(x).how)
    BY <2>1, <2>2 DEF NoCmd, Concludes
  <2> QED BY <1>2, <2>3
<1>5. CASE SpillStart
  <2>1. PICK flags : Starts([NoCmd EXCEPT !.name = "spill", !.pc = "spilled", !.flags = flags])
    BY <1>5, Zenon DEF SpillStart
  <2>2. PICK c : c = [NoCmd EXCEPT !.name = "spill", !.pc = "spilled", !.flags = flags]
    OBVIOUS
  <2>3. c.name = "spill" /\ c.pc = "spilled" /\ Starts(c)
    BY <2>1, <2>2 DEF NoCmd
  <2> QED BY <1>1, <2>3
<1>6. CASE Fold
  <2>1. PICK how : Ends([NoCmd EXCEPT !.name = "fold"], how)
    BY <1>6, Zenon DEF Fold
  <2>2. PICK c : c = [NoCmd EXCEPT !.name = "fold"]
    OBVIOUS
  <2>3. c.name = "fold" /\ Ends(c, how)
    BY <2>1, <2>2 DEF NoCmd
  <2> QED BY <1>2, <2>3
<1>7. CASE ImportStart
  <2>1. PICK flags, s :
          Starts([NoCmd EXCEPT !.name = "import", !.pc = "apply", !.flags = flags, !.plan = s])
    BY <1>7, Zenon DEF ImportStart
  <2>2. PICK c : c = [NoCmd EXCEPT !.name = "import", !.pc = "apply", !.flags = flags, !.plan = s]
    OBVIOUS
  <2>3. c.name = "import" /\ c.pc = "apply" /\ Starts(c)
    BY <2>1, <2>2 DEF NoCmd
  <2> QED BY <1>1, <2>3
<1>8. CASE SyncStart
  <2>1. PICK flags, names :
          Starts([NoCmd EXCEPT !.name = "sync", !.pc = "sync pop", !.flags = flags, !.names = names])
    BY <1>8, Zenon DEF SyncStart
  <2>2. PICK c : c = [NoCmd EXCEPT !.name = "sync", !.pc = "sync pop", !.flags = flags, !.names = names]
    OBVIOUS
  <2>3. c.name = "sync" /\ c.pc = "sync pop" /\ Starts(c)
    BY <2>1, <2>2 DEF NoCmd
  <2> QED BY <1>1, <2>3
<1> QED BY <1>3, <1>4, <1>5, <1>6, <1>7, <1>8

\* A running command is at one step only.
LEMMA WaySteps ==
  ASSUME Proceed, cmd.pc \in {"pop", "git", "reopen", "push", "unstash"}
  PROVE  Pop \/ UserRebase \/ UserPull \/ Reopen \/ PushBack \/ Unstash
BY DEF Proceed, Rebasing, Plan, KeepLine, DeleteLines, HideLines, EditLine, SquashLines, PushPlanned, AtLine,
       RefreshTemp, RefreshAbsorb, SpillReset, ImportApply, ImportCreate, SyncPop, Sync

LEMMA RunsOn ==
  ASSUME Proceed
  PROVE  cmd.pc # "idle"
BY DEF Proceed, Rebasing, Pop, UserRebase, UserPull, Reopen, PushBack, Unstash, Plan, KeepLine, DeleteLines,
       HideLines, EditLine, SquashLines, PushPlanned, AtLine, RefreshTemp, RefreshAbsorb, SpillReset,
       ImportApply, ImportCreate, SyncPop, Sync

LEMMA NextWay ==
  ASSUME IInv, RebaseInv, [Next]_vars
  PROVE  RebaseInv'
<1>1. CASE UNCHANGED vars
  BY <1>1 DEF vars, RebaseInv, RebaseDone, OnTheWay, Done, Idle, Base
<1>2. CASE Rest
  BY <1>1, <1>2 DEF Rest
<1>3. CASE User
  <2>1. cmd' = cmd /\ Idle /\ last' = NoLast
    BY <1>3 DEF User, EditFile, ResolveConflicts
  <2> QED BY <2>1 DEF RebaseInv, RebaseDone, Done, NoLast, Idle
<1>4. CASE Start
  BY <1>4, RebaseStartWay, PullStartWay, OtherStart DEF Start
<1>5. CASE Proceed
  <2>1. CASE ~Pushing(cmd.name, cmd.flags)
    BY <1>5, <2>1, OtherStep, IInvFacts
  <2>2. CASE Pushing(cmd.name, cmd.flags)
    <3>1. ~Idle
      BY <1>5, RunsOn DEF Idle
    <3>2. OnTheWay
      BY <2>2, <3>1 DEF RebaseInv
    <3>3. cmd.pc \in {"pop", "git", "reopen", "push", "unstash"}
      BY <3>2 DEF OnTheWay
    <3> QED BY <1>5, <2>2, <3>2, <3>3, WaySteps, PopWay, GitWay, ReopenWay, PushWay, UnstashWay
  <2> QED BY <2>1, <2>2
<1>6. CASE Kill
  <2>1. Ends(cmd, "killed")
    BY <1>6 DEF Kill
  <2> QED BY <2>1, OtherEnd, IInvFacts
<1> QED BY <1>1, <1>2, <1>3, <1>4, <1>5, <1>6 DEF Next

\* A rebase or pull that ends well and pushes, RebaseDone: it has the same patches
\* applied in the same order and the others unapplied as before, its base is the
\* target, the stash is the one from before and the user's local changes are back
\* in their files, although each of these went through the stash or through another
\* list in a step of its own, and whatever was killed or stopped before.
THEOREM RebasesKeepPromise ==
  ASSUME Doubtful = {}
  PROVE  Spec => []RebaseDone
<1>1. Init => RebaseInv
  BY DEF Init, RebaseInv, RebaseDone, Done, Idle, NoCmd, NoLast
<1>2. IInv /\ RebaseInv /\ [Next]_vars => RebaseInv'
  BY NextWay
<1>3. RebaseInv => RebaseDone
  BY DEF RebaseInv
<1> QED BY <1>1, <1>2, <1>3, SpecIInv, PTL DEF Spec
-----------------------------------------------------------------------------
(* The worktree of a command that starts on a clean one. *)

\* Index and worktree are the branch.
Tidy(r) == r.wd = ReadTreeCheckoutHard(Tree(r.branch))

\* What the running command keeps of that: only an import works in the files before
\* it makes a commit.
Following ==
  /\ ~cmd.stashed /\ cmd.pc \notin {"unstash", "spilled"}
  /\ cmd.pc = "create" => Whole(repo.wd)
  /\ cmd.pc # "create" => Tidy(repo)
  /\ cmd.pc = "temp" => Tree(cmd.target) = Tree(repo.branch)
  /\ cmd.pc \in {"plan", "instruction"} => "interactive" \in cmd.flags
  /\ cmd.pc \in {"sync pop", "sync"} => cmd.name = "sync"
  /\ cmd.pc \in {"apply", "create"} => cmd.name = "import"

\* The commands of which nothing is said: spill, and an import whose diff was edited.
Exempt(c) == c.name = "spill" \/ (c.name = "import" /\ "edited" \in c.flags)

\* The third inductive invariant, on top of IInv.
CleanInv == CleanWorktreeFollows /\ (~Idle /\ ~Exempt(cmd) /\ Tidy(was.repo) => Following)

\* The ends of which CleanWorktreeFollows speaks.
Counts(how) ==
  /\ how \in {"ok", "halt"} /\ ~Exempt(cmd) /\ Tidy(was.repo)
  /\ how = "halt" => cmd.name # "sync" /\ "interactive" \notin cmd.flags
  /\ cmd.name = "sync" => cmd.names[Len(cmd.names)] \in cmd.flags

LEMMA CleanEnd ==
  ASSUME CmdForm, NEW how, Ends(cmd, how), was' = was, Counts(how) => Tidy(repo')
  PROVE  CleanInv'
<1>1. cmd' = NoCmd /\ cmd'.pc = "idle" /\ last'.name = cmd.name /\ last'.how = how
  BY DEF Ends, NoCmd
<1>2. how \in {"ok", "halt"} => last'.cmd.flags = cmd.flags /\ last'.cmd.names = cmd.names
  <2>1. how \in {"ok", "halt"} => last'.cmd = [cmd EXCEPT !.pc = "idle", !.plan = <<>>, !.at = 1]
    BY DEF Ends
  <2> QED BY <2>1 DEF CmdForm, CmdFields
<1>3. CleanWorktreeFollows'
  BY <1>1, <1>2 DEF CleanWorktreeFollows, Done, Counts, Exempt, Tidy
<1> QED BY <1>1, <1>3 DEF CleanInv, Idle

LEMMA CleanOn ==
  ASSUME cmd'.pc # "idle", ~Exempt(cmd') /\ Tidy(was'.repo) => Following'
  PROVE  CleanInv'
BY DEF CleanInv, CleanWorktreeFollows, Done, Idle

LEMMA WasKept ==
  ASSUME Proceed
  PROVE  was' = was
BY DEF Proceed, Rebasing, Pop, UserRebase, UserPull, Reopen, PushBack, Unstash, Plan, KeepLine, DeleteLines,
       HideLines, EditLine, SquashLines, PushPlanned, AtLine, RefreshTemp, RefreshAbsorb, SpillReset,
       ImportApply, ImportCreate, SyncPop, Sync

\* Nor of a command that started on local changes.
LEMMA CleanOther ==
  ASSUME CmdForm, Proceed, Exempt(cmd) \/ ~Tidy(was.repo)
  PROVE  CleanInv'
<1>1. was' = was
  BY WasKept
<1>2. CASE GoesOn
  <2>1. cmd'.pc # "idle" /\ (Exempt(cmd) => Exempt(cmd'))
    BY <1>2 DEF GoesOn, Exempt
  <2> QED BY <1>1, <2>1, CleanOn
<1>3. CASE Stops
  <2>1. PICK how : Ends(cmd, how)
    BY <1>3 DEF Stops
  <2> QED BY <1>1, <2>1, CleanEnd DEF Counts
<1> QED BY <1>2, <1>3, StepOn

\* What execute() leaves if it does not fail.
LEMMA ExecuteDone ==
  ASSUME NEW x, NEW e, e = Execute(x), e.how \in {"ok", "halt"}
  PROVE  /\ e.r.branch = TransHead(x.t) /\ e.r.state.applied = x.t.applied
         /\ e.r.wd = IF x.o.iw THEN CheckedOut(x.wd, x.t.tree, Tree(TransHead(x.t))) ELSE x.wd
         /\ x.err # "error" /\ e.how = IF x.err = "none" THEN "ok" ELSE x.err
<1>1. PICK st, head, w : /\ head = TransHead(x.t) /\ st.applied = x.t.applied
                         /\ w = IF x.o.iw THEN CheckedOut(x.wd, x.t.tree, Tree(head)) ELSE x.wd
                         /\ x.err # "error"
                         /\ e = [r |-> [state |-> st, branch |-> head, wd |-> w],
                                 how |-> IF x.err = "none" THEN "ok" ELSE x.err]
  BY Zenon DEF Execute
<1> QED BY <1>1

\* A checkout of what is checked out changes nothing.
LEMMA CheckoutThere ==
  ASSUME NEW from, NEW to \in Trees, NEW w, w = ReadTreeCheckoutHard(to)
  PROVE  ReadTreeCheckout(w, from, to) = w
<1>1. w = [index |-> to, work |-> to, unmerged |-> {}]
  BY DEF ReadTreeCheckoutHard
<1>2. PICK a, b : /\ a = [f \in Files |-> IF from[f] = to[f] THEN w.index[f] ELSE to[f]]
                  /\ b = [f \in Files |-> IF from[f] = to[f] \/ w.index[f] = to[f] THEN w.work[f] ELSE to[f]]
  OBVIOUS
<1>3. a = to /\ b = to
  <2>1. w.index = to /\ w.work = to
    BY <1>1
  <2>2. \A f \in Files : a[f] = to[f] /\ b[f] = to[f]
    BY <1>2, <2>1
  <2>3. a = [f \in Files |-> a[f]] /\ b = [f \in Files |-> b[f]]
    BY <1>2
  <2>4. to = [f \in Files |-> to[f]]
    BY DEF Trees
  <2> QED BY <2>2, <2>3, <2>4
<1>4. ReadTreeCheckout(w, from, to) = [w EXCEPT !.index = a, !.work = b]
  BY <1>2, Zenon DEF ReadTreeCheckout
<1>5. w.index = to /\ w.work = to
  BY ONLY <1>1
<1>6. [w EXCEPT !.index = a, !.work = b] = [w EXCEPT !.index = w.index, !.work = w.work]
  BY ONLY <1>3, <1>5
<1>7. [w EXCEPT !.index = w.index, !.work = w.work] = w
  BY ONLY <1>1
<1> QED BY ONLY <1>4, <1>6, <1>7

\* A transaction that works in the worktree leaves it at the new head: if it knows
\* what is checked out, or if the new head is checked out already.
LEMMA TidyExecute ==
  ASSUME NEW x, Ready(x), x.o.iw, NEW e, e = Execute(x), e.how \in {"ok", "halt"},
         InStep(x) \/ x.wd = ReadTreeCheckoutHard(Tree(TransHead(x.t)))
  PROVE  Tidy(e.r)
<1>1. /\ e.r.branch = TransHead(x.t)
      /\ e.r.wd = CheckedOut(x.wd, x.t.tree, Tree(TransHead(x.t)))
      /\ x.err # "error" /\ e.how = IF x.err = "none" THEN "ok" ELSE x.err
  BY ExecuteDone
<1>2. x.wd \in Workdirs /\ x.t.tree \in Trees /\ x.err \in Errs /\ x.t \in Transactions /\ Good(x.t)
  BY DEF Ready, Xacts, WF, Transactions
<1>3. x.err \in {"none", "halt"}
  BY <1>1, <1>2 DEF Errs
<1>4. PICK from, to : from = x.t.tree /\ to = Tree(TransHead(x.t))
  OBVIOUS
<1>5. from \in Trees /\ to \in Trees
  BY <1>2, <1>4, TopType, CommitTypes
<1>6. CASE x.wd = ReadTreeCheckoutHard(to)
  <2>1. ReadTreeCheckout(x.wd, from, to) = x.wd
    BY <1>5, <1>6, CheckoutThere
  <2> QED BY <1>1, <1>4, <1>6, <2>1 DEF Tidy, CheckedOut
<1>7. CASE InStep(x)
  <2>1. x.wd = ReadTreeCheckoutHard(from)
    BY <1>3, <1>4, <1>7 DEF InStep
  <2>2. ReadTreeCheckout(x.wd, from, to) = ReadTreeCheckoutHard(to)
    BY <1>2, <1>5, <2>1, CheckoutWhole
  <2> QED BY <1>1, <1>4, <2>1, <2>2 DEF Tidy, CheckedOut
<1> QED BY <1>4, <1>6, <1>7

\* setup_transaction() on a worktree that is the branch.
LEMMA OpenedInStep ==
  ASSUME NEW x, NEW r, Opened(x, r), Tidy(r)
  PROVE  InStep(x) /\ Neat(x)
BY InStepNeat DEF Opened, Tidy, InStep

LEMMA OptionsWorktree ==
  /\ ~NoWorktree.iw /\ InWorktree.iw
  /\ [InWorktree EXCEPT !.conflicts = "allow"].iw
  /\ PushOptions.iw
BY DEF NoWorktree, InWorktree, PushOptions

LEMMA WithinOptions ==
  ASSUME NEW o, NEW x, x = Within(o)
  PROVE  x.o = o
BY DEF Within, Setup

\* pop_patches with the worktree.
LEMMA PopTidy ==
  ASSUME IInv, Tidy(repo), NEW x, x = Within(InWorktree), NEW S, NEW y, y = With(x, PopPatches(x.t, S)),
         NEW e, e = Execute(y), e.how \in {"ok", "halt"}
  PROVE  Tidy(e.r)
<1>1. PICK t : t = PopPatches(x.t, S)
  OBVIOUS
<1>2. Opened(x, repo)
  BY WithinOpened, OptionTypes
<1>3. WF(t, repo.state.patches) /\ Linked(t) /\ t.head = NoCommit
  BY <1>1, <1>2, PopOpened
<1>4. Ready(y) /\ y.t = t /\ y.err = "none" /\ y.o = x.o /\ y.wd = x.wd
  BY <1>1, <1>2, <1>3, WithOpened
<1>5. t.tree = x.t.tree
  BY <1>1, <1>2, OpenedFacts, PopTree
<1>6. InStep(y)
  <2>1. InStep(x) /\ x.err = "none"
    BY <1>2, OpenedInStep DEF Opened
  <2> QED BY <1>4, <1>5, <2>1 DEF InStep
<1>7. y.o.iw
  BY <1>4, WithinOptions, OptionsWorktree
<1> QED BY <1>4, <1>6, <1>7, TidyExecute

\* Only the program counter changes, outside of the steps that have more to them.
LEMMA PcFollows ==
  ASSUME CmdForm, Following, NEW q, cmd' = [cmd EXCEPT !.pc = q],
         q \notin {"idle", "apply", "create", "temp", "unstash", "spilled"}, Tidy(repo'),
         q \in {"plan", "instruction"} => "interactive" \in cmd.flags,
         q \in {"sync pop", "sync"} => cmd.name = "sync"
  PROVE  CleanInv'
<1>1. cmd'.pc = q /\ cmd'.flags = cmd.flags /\ cmd'.name = cmd.name /\ cmd'.stashed = cmd.stashed
  BY PcStep
<1>2. Following'
  BY <1>1 DEF Following
<1> QED BY <1>1, <1>2, CleanOn

LEMMA PopClean ==
  ASSUME IInv, Following, Pop \/ SyncPop
  PROVE  CleanInv'
<1>1. PICK x, S, q : /\ x = Within(InWorktree) /\ Transacts(cmd, With(x, PopPatches(x.t, S)), [cmd EXCEPT !.pc = q])
                     /\ \/ cmd.pc = "pop" /\ q = "git"
                        \/ cmd.pc = "sync pop" /\ q = "sync"
  <2>1. CASE Pop
    BY <2>1, Zenon DEF Pop
  <2>2. CASE SyncPop
    BY <2>2, Zenon DEF SyncPop
  <2> QED BY <2>1, <2>2
<1>2. PICK y, e : y = With(x, PopPatches(x.t, S)) /\ e = Execute(y)
  OBVIOUS
<1>3. /\ repo' = e.r
      /\ \/ e.how = "ok" /\ cmd' = [cmd EXCEPT !.pc = q]
         \/ Ends(cmd, e.how)
  BY <1>1, <1>2, TransactsEnds
<1>4. Tidy(repo) /\ CmdForm /\ was' = was
  BY <1>1, IInvFacts DEF Following, Pop, SyncPop
<1>5. e.how \in {"ok", "halt"} => Tidy(repo')
  BY <1>1, <1>2, <1>3, <1>4, PopTidy
<1>6. CASE e.how = "ok" /\ cmd' = [cmd EXCEPT !.pc = q]
  <2>1. q \notin {"idle", "apply", "create", "temp", "unstash", "spilled", "plan", "instruction"}
    BY <1>1
  <2>2. q \in {"sync pop", "sync"} => cmd.name = "sync"
    BY <1>1 DEF Following
  <2> QED BY <1>4, <1>5, <1>6, <2>1, <2>2, PcFollows
<1>7. CASE Ends(cmd, e.how)
  BY <1>4, <1>5, <1>7, CleanEnd DEF Counts
<1> QED BY <1>3, <1>6, <1>7

\* git reset --hard and git pull.
LEMMA GitClean ==
  ASSUME IInv, Following, UserRebase \/ UserPull
  PROVE  CleanInv'
<1>1. CmdForm /\ was' = was
  BY IInvFacts DEF UserRebase, UserPull
<1>2. ASSUME NEW c, repo' = [repo EXCEPT !.branch = c, !.wd = ReadTreeCheckoutHard(Tree(c))],
             cmd' = [cmd EXCEPT !.pc = "reopen"]
      PROVE  CleanInv'
  <2>1. Tidy(repo')
    BY <1>2, IInvFacts DEF Tidy, Repos
  <2> QED BY <1>1, <1>2, <2>1, PcFollows
<1>3. ASSUME NEW how \in {"error", "conflict"}, Ends(cmd, how) PROVE CleanInv'
  BY <1>1, <1>3, CleanEnd DEF Counts
<1>4. CASE UserRebase
  BY <1>2, <1>3, <1>4 DEF UserRebase
<1>5. CASE UserPull
  <2>1. \/ Ends(cmd, "conflict")
        \/ \E c : /\ repo' = [repo EXCEPT !.branch = c, !.wd = ReadTreeCheckoutHard(Tree(c))]
                  /\ cmd' = [cmd EXCEPT !.pc = "reopen"]
    BY <1>5, Zenon DEF UserPull
  <2> QED BY <1>2, <1>3, <2>1
<1> QED BY <1>4, <1>5

\* Nothing is in the stash: the command is over.
LEMMA FinishesClean ==
  ASSUME IInv, Following, Finishes(cmd), was' = was, Tidy(repo')
  PROVE  CleanInv'
<1>1. Ends(cmd, "ok")
  BY DEF Finishes, Following
<1> QED BY <1>1, CleanEnd, IInvFacts

LEMMA ReopenClean ==
  ASSUME IInv, Following, Reopen
  PROVE  CleanInv'
<1>1. repo' = [repo EXCEPT !.state.head = repo.branch] /\ was' = was /\ CmdForm /\ Tidy(repo)
  BY IInvFacts DEF Reopen, Following
<1>2. repo'.branch = repo.branch /\ repo'.wd = repo.wd
  BY <1>1, IInvFacts DEF Repos
<1>3. Tidy(repo')
  BY <1>1, <1>2 DEF Tidy
<1>4. CASE "interactive" \in cmd.flags /\ cmd' = [cmd EXCEPT !.pc = "plan"]
  BY <1>1, <1>3, <1>4, PcFollows
<1>5. CASE cmd' = [cmd EXCEPT !.pc = "push"]
  BY <1>1, <1>3, <1>5, PcFollows
<1>6. CASE Finishes(cmd)
  BY <1>1, <1>3, <1>6, FinishesClean
<1> QED BY <1>4, <1>5, <1>6 DEF Reopen

\* The push at the end of a rebase or pull.
LEMMA PushesClean ==
  ASSUME IInv, Following, Tidy(repo), NEW names \in Seq(Names), Pushable(repo.state, names), Pushes(names),
         was' = was
  PROVE  CleanInv'
<1>1. PICK x, y, merged, e : /\ x = Within(PushOptions) /\ merged = ("merged" \in cmd.flags)
                             /\ y = PushPatches(x, names, merged) /\ e = Execute(y)
  OBVIOUS
<1>2. /\ repo' = e.r
      /\ \/ e.how = "ok" /\ Finishes(cmd)
         \/ Ends(cmd, e.how)
  BY <1>1, Zenon DEF Pushes
<1>3. Opened(x, repo) /\ merged \in BOOLEAN
  BY <1>1, PushOptionsType, WithinOpened
<1>4. Ready(x) /\ Pushable(x.t, names) /\ InStep(x) /\ x.o.iw
  <2>1. Ready(x) /\ Pushable(x.t, names)
    BY <1>3 DEF Opened, Pushable
  <2> QED BY <1>1, <1>3, <2>1, OpenedInStep, WithinOptions, OptionsWorktree
<1>5. PushAll(x, names, y)
  BY <1>1, <1>3, <1>4, PushPatchesOK
<1>6. Ready(y) /\ InStep(y) /\ y.o.iw
  BY <1>4, <1>5 DEF PushAll, Trails
<1>7. e.how \in {"ok", "halt"} => Tidy(repo')
  BY <1>1, <1>2, <1>6, TidyExecute
<1>8. CASE e.how = "ok" /\ Finishes(cmd)
  BY <1>7, <1>8, FinishesClean
<1>9. CASE Ends(cmd, e.how)
  BY <1>7, <1>9, CleanEnd, IInvFacts DEF Counts
<1> QED BY <1>2, <1>8, <1>9

LEMMA PushBackClean ==
  ASSUME IInv, Following, PushBack
  PROVE  CleanInv'
<1>1. cmd.pc = "push" /\ Pushes(cmd.names) /\ was' = was
  BY DEF PushBack
<1>2. Tidy(repo) /\ cmd.names \in Seq(Names) /\ Pushable(repo.state, cmd.names)
  BY <1>1, IInvFacts DEF Following, IInv, Fits
<1> QED BY <1>1, <1>2, PushesClean

LEMMA PlanClean ==
  ASSUME IInv, Following, Plan
  PROVE  CleanInv'
<1>1. cmd.pc = "plan" /\ repo' = repo /\ was' = was /\ CmdForm
  BY IInvFacts DEF Plan
<1>2. Tidy(repo) /\ "interactive" \in cmd.flags /\ ~cmd.stashed
  BY <1>1 DEF Following
<1>3. CASE Ends(cmd, "error")
  BY <1>1, <1>3, CleanEnd DEF Counts
<1>4. ASSUME NEW p, cmd' = [cmd EXCEPT !.pc = "instruction", !.plan = p, !.at = 1]
      PROVE  CleanInv'
  <2>1. /\ cmd'.pc = "instruction" /\ cmd'.flags = cmd.flags /\ cmd'.stashed = cmd.stashed
    BY <1>1, <1>4 DEF CmdForm, CmdFields
  <2>2. Following'
    BY <1>1, <1>2, <2>1 DEF Following
  <2> QED BY <2>1, <2>2, CleanOn
<1>5. \/ \E names, acts, above : cmd' = [cmd EXCEPT !.pc = "instruction", !.plan = Instructions(names, acts, above), !.at = 1]
      \/ Ends(cmd, "error")
  BY Zenon DEF Plan
<1> QED BY <1>3, <1>4, <1>5

\* The loop goes on.
Onward(next) == next.pc = "instruction" /\ next.stashed = cmd.stashed /\ next.flags = cmd.flags

LEMMA LineFollows ==
  ASSUME Following, cmd.pc = "instruction", Onward(cmd'), Tidy(repo')
  PROVE  CleanInv'
<1>1. Following'
  BY DEF Following, Onward
<1> QED BY <1>1, CleanOn DEF Onward

\* An instruction that leaves the base of the stack alone: no patch is applied, so
\* neither the branch nor the worktree moves.
LEMMA LineClean ==
  ASSUME IInv, IInv', Following, cmd.pc = "instruction", was' = was, NEW y, NEW next, Onward(next),
         Transacts(cmd, y, next), ~y.o.iw,
         Execute(y).how = "ok" => y.wd = repo.wd /\ y.t.head = NoCommit /\ y.t.base = repo.branch
  PROVE  CleanInv'
<1>1. PICK e : e = Execute(y)
  OBVIOUS
<1>2. /\ repo' = e.r
      /\ \/ e.how = "ok" /\ cmd' = next
         \/ e.how # "ok" /\ Ends(cmd, e.how)
  BY <1>1, TransactsEnds
<1>3. Tidy(repo) /\ "interactive" \in cmd.flags /\ CmdForm
  BY IInvFacts DEF Following
<1>4. CASE e.how = "ok" /\ cmd' = next
  <2>1. /\ e.r.branch = TransHead(y.t) /\ e.r.state.applied = y.t.applied /\ e.r.wd = repo.wd
        /\ y.t.head = NoCommit /\ y.t.base = repo.branch
    BY <1>1, <1>4, ExecuteDone
  <2>2. repo'.state.applied = <<>>
    <3>1. cmd'.pc = "instruction" /\ Fits(cmd', repo')
      BY <1>4 DEF Onward, IInv
    <3> QED BY <3>1 DEF Fits
  <2>3. repo'.branch = repo.branch /\ repo'.wd = repo.wd
    BY <1>2, <2>1, <2>2 DEF TransHead, Top, TopOf
  <2>4. Tidy(repo')
    BY <1>3, <2>3 DEF Tidy
  <2> QED BY <1>4, <2>4, LineFollows
<1>5. CASE e.how # "ok" /\ Ends(cmd, e.how)
  BY <1>3, <1>5, CleanEnd DEF Counts
<1> QED BY <1>2, <1>4, <1>5

LEMMA KeepLineClean ==
  ASSUME IInv, Following, KeepLine
  PROVE  CleanInv'
<1>1. cmd.pc = "instruction" /\ repo' = repo /\ cmd' = [cmd EXCEPT !.at = @ + 1]
  BY DEF KeepLine, AtLine
<1>2. Onward(cmd')
  BY <1>1, IInvFacts DEF Onward, CmdForm, CmdFields
<1>3. Tidy(repo')
  BY <1>1 DEF Following
<1> QED BY <1>1, <1>2, <1>3, LineFollows

\* A transaction without the worktree, by a method that changes the lists.
LEMMA LineOpened ==
  ASSUME IInv, repo.state.applied = <<>>, NEW x, x = Within(NoWorktree)
  PROVE  /\ x \in Xacts /\ x.t \in Transactions /\ x.err = "none" /\ x.wd = repo.wd /\ x.o = NoWorktree
         /\ x.t.head = NoCommit /\ x.t.base = repo.branch
<1>1. Opened(x, repo) /\ x.o = NoWorktree
  BY WithinOpened, OptionTypes, WithinOptions
<1>2. x.t.applied = <<>> /\ Top(x.t) = repo.branch
  BY <1>1 DEF Opened
<1> QED BY <1>1, <1>2, OpenedFacts DEF Opened, Ready, Top, TopOf

LEMMA WithFields ==
  ASSUME NEW x, x \in Xacts, x.err = "none", NEW t, NEW y, y = With(x, t)
  PROVE  y.t = t /\ y.wd = x.wd /\ y.o = x.o /\ y.err = "none"
<1>1. y = [x EXCEPT !.t = t]
  BY DEF With
<1> QED BY <1>1 DEF Xacts

\* Only lists and commits of patches change.
Relists(t, v) == v.head = t.head /\ v.base = t.base

LEMMA RelistsClean ==
  ASSUME IInv, IInv', Following, cmd.pc = "instruction", was' = was, NEW x, x = Within(NoWorktree),
         NEW t, Relists(x.t, t), NEW y, y = With(x, t), NEW next, Onward(next), Transacts(cmd, y, next)
  PROVE  CleanInv'
<1>1. repo.state.applied = <<>>
  BY IInvFacts DEF Fits
<1>2. /\ x \in Xacts /\ x.err = "none" /\ x.wd = repo.wd /\ x.o = NoWorktree
      /\ x.t.head = NoCommit /\ x.t.base = repo.branch
  BY <1>1, LineOpened
<1>3. y.t = t /\ y.wd = repo.wd /\ y.o = NoWorktree
  BY <1>2, WithFields
<1>4. ~y.o.iw /\ y.t.head = NoCommit /\ y.t.base = repo.branch
  BY <1>2, <1>3, OptionsWorktree DEF Relists
<1> QED BY <1>3, <1>4, LineClean

LEMMA ListLinesClean ==
  ASSUME IInv, IInv', Following, DeleteLines \/ HideLines
  PROVE  CleanInv'
<1>1. cmd.pc = "instruction" /\ was' = was
  BY DEF DeleteLines, HideLines, AtLine
<1>2. PICK x, next : x = Within(NoWorktree) /\ next = [cmd EXCEPT !.plan = Remaining]
  OBVIOUS
<1>3. Onward(next)
  BY <1>1, <1>2, IInvFacts DEF Onward, CmdForm, CmdFields
<1>4. x.t \in Transactions
  <2>1. repo.state.applied = <<>>
    BY <1>1, IInvFacts DEF Fits
  <2> QED BY <1>2, <2>1, LineOpened
<1>5. PICK t : /\ t = DeletePatches(x.t, Elems(Batch)) \/ t = HideUnapplied(x.t, Batch)
               /\ Transacts(cmd, With(x, t), next)
  BY <1>2, Zenon DEF DeleteLines, HideLines
<1>6. Relists(x.t, t)
  BY <1>4, <1>5 DEF Relists, DeletePatches, HideUnapplied, Transactions
<1>7. PICK y : y = With(x, t)
  OBVIOUS
<1> QED BY <1>1, <1>2, <1>3, <1>5, <1>6, <1>7, RelistsClean

LEMMA EditLineClean ==
  ASSUME IInv, IInv', Following, EditLine
  PROVE  CleanInv'
<1>1. cmd.pc = "instruction" /\ was' = was
  BY DEF EditLine, AtLine
<1>2. PICK x, n : x = Within(NoWorktree) /\ n = Line.name
  OBVIOUS
<1>3. x.t \in Transactions
  <2>1. repo.state.applied = <<>>
    BY <1>1, IInvFacts DEF Fits
  <2> QED BY <1>2, <2>1, LineOpened
<1>4. CASE Ends(cmd, "error")
  BY <1>1, <1>4, CleanEnd, IInvFacts DEF Counts
<1>5. ASSUME NEW name, NEW new, NEW u, Edited(x.t, n, name, new, u),
             Transacts(cmd, With(x, u), [cmd EXCEPT !.plan[cmd.at] = [@ EXCEPT !.act = "keep", !.name = name],
                                                    !.at = @ + 1])
      PROVE  CleanInv'
  <2>1. PICK y, next : /\ y = With(x, u)
                       /\ next = [cmd EXCEPT !.plan[cmd.at] = [@ EXCEPT !.act = "keep", !.name = name],
                                             !.at = @ + 1]
    OBVIOUS
  <2>2. Onward(next)
    BY <1>1, <2>1, IInvFacts DEF Onward, CmdForm, CmdFields
  <2>3. Relists(x.t, u)
    BY <1>3, <1>5 DEF Relists, Edited, RenamePatch, UpdatePatch, SetPatch, Transactions
  <2>4. Transacts(cmd, y, next)
    BY <1>5, <2>1
  <2> QED BY <1>1, <1>2, <2>1, <2>2, <2>3, <2>4, RelistsClean
<1>6. \/ Ends(cmd, "error")
      \/ \E name, new, u :
           /\ Edited(x.t, n, name, new, u)
           /\ Transacts(cmd, With(x, u), [cmd EXCEPT !.plan[cmd.at] = [@ EXCEPT !.act = "keep", !.name = name],
                                                     !.at = @ + 1])
  BY <1>2, Zenon DEF EditLine, Edited
<1> QED BY <1>4, <1>5, <1>6

LEMMA SquashLinesClean ==
  ASSUME IInv, IInv', Following, SquashLines
  PROVE  CleanInv'
<1>1. AtLine({"squash"}) /\ was' = was
  BY DEF SquashLines
<1>2. cmd.pc = "instruction" /\ CmdForm
  BY <1>1, IInvFacts DEF AtLine
<1>3. repo.state.applied = <<>> /\ PlanFits(cmd.plan, repo.state)
  BY <1>2, IInvFacts DEF Fits
<1>4. CASE Ends(cmd, "error")
  BY <1>1, <1>2, <1>4, CleanEnd DEF Counts
<1>5. ASSUME cmd.at > 1, NEW target, target = cmd.plan[cmd.at - 1].name, NEW b, b = Batch,
             NEW names, names = <<target>> \o b,
             NEW name \in Elems(names) \cup Elems(Free(NewNames)), NEW meta \in Metas, NEW l,
             Transacts(cmd, Squash(Within(NoWorktree), names, name, meta),
                       [cmd EXCEPT !.plan = [Remaining EXCEPT ![cmd.at - 1] = l]])
      PROVE  CleanInv'
  <2>1. PICK k, x, y, next :
          /\ k = cmd.at - 1 /\ target = cmd.plan[k].name /\ b = Batch /\ names = <<target>> \o b
          /\ x = Within(NoWorktree) /\ y = Squash(x, names, name, meta)
          /\ next = [cmd EXCEPT !.plan = [Remaining EXCEPT ![cmd.at - 1] = l]]
    BY <1>5
  <2>2. Transacts(cmd, y, next)
    BY <1>5, <2>1
  <2>3. Onward(next)
    BY <1>2, <2>1 DEF Onward, CmdForm, CmdFields
  <2>4. k \in 1..(cmd.at - 1) /\ k \in 1..Len(cmd.plan)
    <3>1. cmd.at \in 1..Len(cmd.plan) /\ Len(cmd.plan) \in Nat
      BY <1>1, <1>3, IInvFacts, RemainingLength DEF PlanFits
    <3> QED BY <1>5, <2>1, <3>1
  <2>5. /\ b \in Seq(Names) /\ NoDuplicates(b) /\ Elems(b) \subseteq InLists(repo.state)
        /\ \A i \in 1..(cmd.at - 1) : cmd.plan[i].name \notin Elems(b)
    BY <1>1, <1>2, <1>3, <2>1, IInvFacts, ListedIs, BatchFits
  <2>6. target \in InLists(repo.state) /\ target \in Names /\ target \notin Elems(b)
    BY <1>3, <2>1, <2>4, <2>5, ListedIs DEF PlanFits
  <2>7. PICK a : a = <<target>>
    OBVIOUS
  <2>8. a \in Seq(Names) /\ Elems(a) = {target} /\ NoDuplicates(a)
    BY <2>6, <2>7, OneElem
  <2>9. /\ names \in Seq(Names) /\ NoDuplicates(names) /\ Elems(names) \subseteq InLists(repo.state)
        /\ names # <<>>
    <3>1. names = a \o b
      BY <2>1, <2>7
    <3>2. Elems(a \o b) = Elems(a) \cup Elems(b) /\ NoDuplicates(a \o b)
      BY <2>5, <2>6, <2>8, ConcatElems, ConcatNoDup
    <3>3. names \in Seq(Names) /\ names # <<>>
      BY <2>1, <2>5, <2>6
    <3> QED BY <2>5, <2>6, <2>8, <3>1, <3>2, <3>3
  <2>10. Opened(x, repo) /\ x.o = NoWorktree
    BY <2>1, WithinOpened, OptionTypes, WithinOptions
  <2>10a. name \in Names /\ (name \in Elems(names) \/ name \notin InLists(repo.state))
    BY <1>5, <2>9, FreeNames, ElemsIff
  <2>11. Squashed(repo, NoWorktree, names, name, y)
    <3>1. Squashed(repo, x.o, names, name, y)
      BY <1>3, <1>5, <2>1, <2>9, <2>10, <2>10a, SquashOK
    <3> QED BY <2>10, <3>1
  <2>12. ~y.o.iw /\ y.wd = repo.wd
    BY <2>11, OptionsWorktree DEF Squashed
  <2>13. ASSUME Execute(y).how = "ok" PROVE y.t.head = NoCommit /\ y.t.base = repo.branch
    <3>1. PICK e : e = Execute(y)
      OBVIOUS
    <3>2. y.err = "none"
      <4>1. y.err # "error" /\ e.how = IF y.err = "none" THEN "ok" ELSE y.err
        BY <2>13, <3>1, ExecuteDone
      <4>2. y.err \in Errs
        BY <2>11 DEF Squashed, Ready, Xacts
      <4> QED BY <2>13, <3>1, <4>1, <4>2 DEF Errs
    <3> QED BY <2>11, <3>2 DEF Squashed, Ready, HeadSet
  <2> QED BY <1>1, <1>2, <2>2, <2>3, <2>12, <2>13, LineClean
<1>6. \/ Ends(cmd, "error")
      \/ cmd.at > 1 /\ \E target, b, names, l : \E name \in Elems(names) \cup Elems(Free(NewNames)), meta \in Metas :
           /\ target = cmd.plan[cmd.at - 1].name /\ b = Batch /\ names = <<target>> \o b
           /\ Transacts(cmd, Squash(Within(NoWorktree), names, name, meta),
                        [cmd EXCEPT !.plan = [Remaining EXCEPT ![cmd.at - 1] = l]])
  BY Zenon DEF SquashLines
<1> QED BY <1>4, <1>5, <1>6, ZenonT(40)

LEMMA PushPlannedClean ==
  ASSUME IInv, Following, PushPlanned
  PROVE  CleanInv'
<1>1. PICK names, S : /\ names = [i \in DOMAIN cmd.plan |-> cmd.plan[i].name]
                      /\ S = {l.name : l \in {m \in Elems(cmd.plan) : m.apply}}
  OBVIOUS
<1>2. cmd.pc = "instruction" /\ Pushes(Keep(names, S)) /\ was' = was
  BY <1>1 DEF PushPlanned
<1>3. repo.state.applied = <<>> /\ PlanFits(cmd.plan, repo.state) /\ Tidy(repo)
  BY <1>2, IInvFacts DEF Fits, Following
<1>4. names \in Seq(Names) /\ NoDuplicates(names) /\ Elems(names) \subseteq InLists(repo.state)
  BY <1>1, <1>3, ListedIs, PlanFacts
<1>5. PICK r : r = Keep(names, S)
  OBVIOUS
<1>6. r \in Seq(Names) /\ NoDuplicates(r) /\ Elems(r) \subseteq InLists(repo.state)
  BY <1>4, <1>5, KeepElems
<1>7. Pushable(repo.state, r)
  BY <1>3, <1>6, NoElems DEF Pushable, InLists
<1> QED BY <1>2, <1>3, <1>5, <1>6, <1>7, PushesClean

\* The temporary patch goes on top without the worktree: it has the tree of the branch.
LEMMA NewHead ==
  ASSUME NEW t \in Transactions, t.head = NoCommit, NEW n \in Names, NEW c, NEW v, v = NewApplied(t, n, c)
  PROVE  TransHead(v) = c
<1>1. PICK a : a = t.applied
  OBVIOUS
<1>2. a \in Seq(Names) /\ v.applied = Append(a, n) /\ v.head = NoCommit
      /\ v.patches = [t.patches EXCEPT ![n] = c]
  BY <1>1 DEF NewApplied, SetPatch, Transactions
<1>3. t.patches \in [Names -> MaybeCommits]
  BY DEF Transactions, PatchMaps
<1>4. v.patches[n] = c
  BY <1>2, <1>3
<1>5. v.applied # <<>> /\ v.applied[Len(v.applied)] = n
  BY <1>2, LastOfAppend
<1> QED BY <1>2, <1>4, <1>5 DEF TransHead, Top, TopOf

LEMMA RefreshTempClean ==
  ASSUME IInv, Following, RefreshTemp
  PROVE  CleanInv'
<1>1. PICK x, n, c, t, y, e : /\ x = Within(NoWorktree) /\ n = cmd.names[2] /\ c = cmd.target
                              /\ t = NewApplied(x.t, n, c) /\ y = With(x, t) /\ e = Execute(y)
  OBVIOUS
<1>2. cmd.pc = "temp" /\ Transacts(cmd, y, [cmd EXCEPT !.pc = "absorb"]) /\ was' = was /\ CmdForm
  BY <1>1, IInvFacts DEF RefreshTemp
<1>3. Tidy(repo) /\ Tree(c) = Tree(repo.branch)
  BY <1>1, <1>2 DEF Following
<1>4. n \in Names
  <2>1. Len(cmd.names) = 2
    BY <1>2, IInvFacts DEF Fits
  <2> QED BY <1>1, <2>1 DEF IInv
<1>5. Opened(x, repo) /\ x.o = NoWorktree
  BY <1>1, WithinOpened, OptionTypes, WithinOptions
<1>6. x.t \in Transactions /\ x.t.head = NoCommit /\ x \in Xacts /\ x.err = "none" /\ x.wd = repo.wd
  BY <1>5, OpenedFacts DEF Opened, Ready
<1>7. y.t = t /\ y.wd = repo.wd /\ ~y.o.iw
  BY <1>1, <1>5, <1>6, WithFields, OptionsWorktree
<1>8. TransHead(t) = c
  BY <1>1, <1>4, <1>6, NewHead
<1>9. e.how \in {"ok", "halt"} => Tidy(e.r)
  <2>1. e.how \in {"ok", "halt"} => e.r.branch = c /\ e.r.wd = repo.wd
    BY <1>1, <1>7, <1>8, ExecuteDone
  <2> QED BY <1>3, <2>1 DEF Tidy
<1>10. /\ repo' = e.r
       /\ \/ e.how = "ok" /\ cmd' = [cmd EXCEPT !.pc = "absorb"]
          \/ Ends(cmd, e.how)
  BY <1>1, <1>2, TransactsEnds
<1>11. CASE e.how = "ok" /\ cmd' = [cmd EXCEPT !.pc = "absorb"]
  BY <1>2, <1>9, <1>10, <1>11, PcFollows
<1>12. CASE Ends(cmd, e.how)
  BY <1>2, <1>9, <1>10, <1>12, CleanEnd DEF Counts
<1> QED BY <1>10, <1>11, <1>12

\* The last transaction of a command.
LEMMA ConcludeClean ==
  ASSUME CmdForm, NEW y, Concludes(cmd, y), was' = was, Ready(y), InStep(y), y.o.iw
  PROVE  CleanInv'
<1>1. PICK e : e = Execute(y)
  OBVIOUS
<1>2. repo' = e.r /\ Ends(cmd, e.how)
  BY <1>1 DEF Concludes
<1>3. e.how \in {"ok", "halt"} => Tidy(repo')
  BY <1>1, <1>2, TidyExecute
<1> QED BY <1>2, <1>3, CleanEnd DEF Counts

LEMMA RefreshAbsorbClean ==
  ASSUME IInv, Following, RefreshAbsorb
  PROVE  CleanInv'
<1>1. PICK x, n, temp : x = Within(InWorktree) /\ n = cmd.names[1] /\ temp = cmd.names[2]
  OBVIOUS
<1>2. PICK y : y = IF n \in Elems(x.t.applied) THEN AbsorbApplied(x, n, temp) ELSE AbsorbUnapplied(x, n, temp)
  OBVIOUS
<1>3. cmd.pc = "absorb" /\ Concludes(cmd, y) /\ was' = was
  BY <1>1, <1>2 DEF RefreshAbsorb
<1>4. /\ n # temp /\ n \in Elems(repo.state.applied) \cup Elems(repo.state.unapplied)
      /\ repo.state.applied # <<>> /\ temp = repo.state.applied[Len(repo.state.applied)]
  BY <1>1, <1>3, IInvFacts DEF Fits
<1>5. Opened(x, repo) /\ x.o.iw
  BY <1>1, WithinOpened, OptionTypes, WithinOptions, OptionsWorktree
<1>6. x.t.applied = repo.state.applied /\ repo.state.applied \in Seq(Names)
  BY <1>5, OpenedFacts DEF Opened
<1>7. temp \in Elems(repo.state.applied) /\ temp \in Names /\ temp \in InLists(repo.state)
  <2>1. PICK s, l : s = repo.state.applied /\ l = Len(s)
    OBVIOUS
  <2>2. s \in Seq(Names) /\ l \in 1..Len(s) /\ s[l] = temp
    BY <1>4, <1>6, <2>1
  <2>3. temp \in Elems(s) /\ temp \in Names
    BY <2>2, ElemsIff
  <2> QED BY <2>1, <2>3 DEF InLists
<1>8. Ready(y) /\ y.o = x.o /\ Trails(x, y)
  <2>1. CASE n \in Elems(repo.state.applied)
    <3>1. y = AbsorbApplied(x, n, temp)
      BY <1>2, <1>6, <2>1
    <3> QED BY <1>4, <1>5, <2>1, <3>1, AbsorbAppliedOK
  <2>2. CASE n \notin Elems(repo.state.applied)
    <3>1. y = AbsorbUnapplied(x, n, temp) /\ n \in Elems(repo.state.unapplied)
      BY <1>2, <1>4, <1>6, <2>2
    <3> QED BY <1>4, <1>5, <1>7, <3>1, AbsorbUnappliedOK
  <2> QED BY <2>1, <2>2
<1>9. InStep(y)
  <2>1. Tidy(repo)
    BY <1>3 DEF Following
  <2>2. InStep(x)
    BY <1>5, <2>1, OpenedInStep
  <2> QED BY <1>8, <2>2 DEF Trails
<1> QED BY <1>3, <1>5, <1>8, <1>9, ConcludeClean, IInvFacts

\* A patch of the series: its diff goes to index and worktree alike.
LEMMA ImportApplyClean ==
  ASSUME IInv, Following, ImportApply
  PROVE  CleanInv'
<1>1. cmd.pc = "apply" /\ was' = was /\ CmdForm
  BY IInvFacts DEF ImportApply
<1>2. Tidy(repo) /\ ~cmd.stashed /\ cmd.name = "import"
  BY <1>1 DEF Following
<1>3. CASE (Ends(cmd, "ok") /\ repo' = repo) \/ Ends(cmd, "error")
  BY <1>1, <1>2, <1>3, CleanEnd DEF Counts
<1>4. CASE cmd' = [cmd EXCEPT !.plan = Tail(@)] /\ repo' = repo
  <2>1. cmd'.pc = "apply" /\ cmd'.stashed = cmd.stashed /\ cmd'.name = cmd.name
    BY <1>1, <1>4 DEF CmdForm, CmdFields
  <2>2. Following'
    BY <1>2, <1>4, <2>1 DEF Following
  <2> QED BY <2>1, <2>2, CleanOn
<1>5. ASSUME NEW to, repo' = [repo EXCEPT !.wd = ReadTreeCheckoutHard(to)],
             NEW flags, cmd' = [cmd EXCEPT !.pc = "create", !.flags = flags]
      PROVE  CleanInv'
  <2>1. cmd'.pc = "create" /\ cmd'.stashed = cmd.stashed /\ cmd'.name = cmd.name
    BY <1>1, <1>5 DEF CmdForm, CmdFields
  <2>2. repo'.wd = ReadTreeCheckoutHard(to)
    BY <1>5, IInvFacts DEF Repos
  <2>3. Whole(repo'.wd)
    BY <2>2 DEF Whole, ReadTreeCheckoutHard
  <2>4. Following'
    BY <1>2, <2>1, <2>3 DEF Following
  <2> QED BY <2>1, <2>4, CleanOn
<1>6. CASE cmd.plan = <<>>
  BY <1>3, <1>6 DEF ImportApply
<1>7. CASE cmd.plan # <<>> /\ Skipped
  BY <1>4, <1>7 DEF ImportApply
<1>8. CASE cmd.plan # <<>> /\ ~Skipped
  <2>1. \/ \E to, ok : /\ repo' = [repo EXCEPT !.wd = ReadTreeCheckoutHard(to)]
                       /\ cmd' = [cmd EXCEPT !.pc = "create", !.flags = IF ok THEN @ ELSE @ \cup {"rejected"}]
        \/ Ends(cmd, "error")
    BY <1>8, Zenon DEF ImportApply
  <2>2. ASSUME NEW to, NEW ok, repo' = [repo EXCEPT !.wd = ReadTreeCheckoutHard(to)],
               cmd' = [cmd EXCEPT !.pc = "create", !.flags = IF ok THEN @ ELSE @ \cup {"rejected"}]
        PROVE  CleanInv'
    <3>1. PICK flags : flags = (IF ok THEN cmd.flags ELSE cmd.flags \cup {"rejected"})
      OBVIOUS
    <3>2. cmd' = [cmd EXCEPT !.pc = "create", !.flags = flags]
      BY <2>2, <3>1, Zenon
    <3> QED BY <1>5, <2>2, <3>2
  <2> QED BY <1>3, <2>1, <2>2
<1> QED BY <1>6, <1>7, <1>8

\* Its commit becomes the head, and has the tree of the index unless the diff is edited.
LEMMA ImportCreateClean ==
  ASSUME IInv, Following, ImportCreate
  PROVE  CleanInv'
<1>1. cmd.pc = "create" /\ was' = was /\ CmdForm
  BY IInvFacts DEF ImportCreate
<1>2. Whole(repo.wd) /\ ~cmd.stashed /\ cmd.name = "import"
  BY <1>1 DEF Following
<1>a. CASE Ends(cmd, "error")
  BY <1>1, <1>a, CleanEnd DEF Counts
<1>b. SUFFICES ASSUME ~Ends(cmd, "error") PROVE CleanInv'
  BY <1>a
<1>3. PICK n \in EditedNames, tree \in EditedTrees(repo.wd.index), meta \in Metas :
       LET x == Within(NoWorktree)
           c == MkCommit(repo.branch, tree, meta)
           t == IF "replace" \in cmd.flags /\ n \in Elems(x.t.unapplied)
                  THEN DeletePatches(x.t, {n}) ELSE x.t
           y == With(x, NewApplied(t, n, c))
           flags == IF tree = repo.wd.index THEN cmd.flags ELSE cmd.flags \cup {"edited"}
       IN  IF "rejected" \in cmd.flags
             THEN repo' = Execute(y).r /\ Ends(cmd, "conflict")
             ELSE Transacts(cmd, y, [cmd EXCEPT !.pc = "apply", !.plan = Tail(@), !.flags = flags])
  BY <1>b, Zenon DEF ImportCreate
<1>4. PICK x, b, c, t, v, y, flags, next, e :
        /\ x = Within(NoWorktree) /\ b = repo.branch
        /\ c = MkCommit(b, tree, meta)
        /\ t = (IF "replace" \in cmd.flags /\ n \in Elems(x.t.unapplied) THEN DeletePatches(x.t, {n}) ELSE x.t)
        /\ v = NewApplied(t, n, c) /\ y = With(x, v)
        /\ flags = (IF tree = repo.wd.index THEN cmd.flags ELSE cmd.flags \cup {"edited"})
        /\ next = [cmd EXCEPT !.pc = "apply", !.plan = Tail(@), !.flags = flags] /\ e = Execute(y)
  OBVIOUS
<1>5. IF "rejected" \in cmd.flags THEN Ends(cmd, "conflict") ELSE Transacts(cmd, y, next)
  BY <1>3, <1>4, Zenon
<1>6. n \in Names
  <2>1. ImportFits(cmd.plan, cmd.flags, repo.state) /\ cmd.plan # <<>>
    BY <1>1, IInvFacts DEF Fits
  <2>2. PICK first, rest : Leads(cmd.plan, first, rest)
    BY <2>1 DEF ImportFits, Leads
  <2> QED BY <2>1, <2>2, EditedNamesFree
<1>7. Opened(x, repo) /\ x.o = NoWorktree
  BY <1>4, WithinOpened, OptionTypes, WithinOptions
<1>8. /\ x.t \in Transactions /\ x.t.head = NoCommit /\ x \in Xacts /\ x.err = "none" /\ x.wd = repo.wd
      /\ x.t.unapplied = repo.state.unapplied
  BY <1>7, OpenedFacts DEF Opened, Ready
<1>9. t \in Transactions /\ t.head = NoCommit
  <2>1. CASE "replace" \in cmd.flags /\ n \in Elems(x.t.unapplied)
    <3>1. t = DeletePatches(x.t, {n}) /\ n \in Elems(repo.state.unapplied)
      BY <1>4, <1>8, <2>1
    <3>2. WF(t, repo.state.patches) /\ t.head = NoCommit
      BY <1>7, <3>1, DeleteUnapplied DEF Lacks
    <3> QED BY <3>2 DEF WF
  <2>2. CASE ~("replace" \in cmd.flags /\ n \in Elems(x.t.unapplied))
    BY <1>4, <1>8, <2>2
  <2> QED BY <2>1, <2>2
<1>10. y.t = v /\ y.wd = repo.wd /\ ~y.o.iw /\ y.err = "none"
  BY <1>4, <1>7, <1>8, WithFields, OptionsWorktree
<1>11. TransHead(v) = c
  BY <1>4, <1>6, <1>9, NewHead
<1>12. Tree(c) = tree
  <2>1. b \in Commits /\ repo.wd.index \in Trees
    BY <1>4, IInvFacts
  <2>2. tree \in Trees
    BY <2>1, EditedTreesType
  <2> QED BY <1>3, <1>4, <2>1, <2>2, TreeOfNew
<1>13. e.how \in {"ok", "halt"} /\ tree = repo.wd.index => Tidy(e.r)
  <2>1. e.how \in {"ok", "halt"} => e.r.branch = c /\ e.r.wd = repo.wd
    BY <1>4, <1>10, <1>11, ExecuteDone
  <2> QED BY <1>2, <1>12, <2>1 DEF Tidy, Whole
<1>14. CASE Ends(cmd, "conflict")
  BY <1>1, <1>14, CleanEnd DEF Counts
<1>15. CASE Transacts(cmd, y, next)
  <2>1. /\ repo' = e.r
        /\ \/ e.how = "ok" /\ cmd' = next
           \/ e.how # "ok" /\ Ends(cmd, e.how)
    BY <1>4, <1>15, TransactsEnds
  <2>2. CASE e.how = "ok" /\ cmd' = next
    <3>1. cmd'.pc = "apply" /\ cmd'.stashed = cmd.stashed /\ cmd'.name = cmd.name /\ cmd'.flags = flags
      BY <1>1, <1>4, <2>2 DEF CmdForm, CmdFields
    <3>2. CASE tree = repo.wd.index
      <4>1. Tidy(repo')
        BY <1>13, <2>1, <2>2, <3>2
      <4>2. Following'
        BY <1>2, <3>1, <4>1 DEF Following
      <4> QED BY <3>1, <4>2, CleanOn
    <3>3. CASE tree # repo.wd.index
      <4>1. Exempt(cmd')
        BY <1>2, <1>4, <3>1, <3>3 DEF Exempt
      <4> QED BY <3>1, <4>1, CleanOn
    <3> QED BY <3>2, <3>3
  <2>3. CASE e.how # "ok" /\ Ends(cmd, e.how)
    <3>1. e.how # "halt"
      <4>1. SUFFICES ASSUME e.how = "halt" PROVE FALSE
        OBVIOUS
      <4>2. e.how = IF y.err = "none" THEN "ok" ELSE y.err
        BY <1>4, <4>1, ExecuteDone
      <4> QED BY <1>10, <4>1, <4>2
    <3> QED BY <1>1, <2>3, <3>1, CleanEnd DEF Counts
  <2> QED BY <2>1, <2>2, <2>3
<1> QED BY <1>5, <1>14, <1>15

\* sync, whose last patch is on the other branch: the merge of that one is the last
\* thing that happens in the worktree.
LEMMA SyncClean ==
  ASSUME IInv, Following, Sync
  PROVE  CleanInv'
<1>1. PICK x, y, e : x = Within(InWorktree) /\ y = SyncAll(x, cmd.names) /\ e = Execute(y)
  OBVIOUS
<1>2. cmd.pc = "sync" /\ repo' = e.r /\ Ends(cmd, e.how) /\ was' = was /\ CmdForm
  BY <1>1, IInvFacts DEF Sync, Concludes
<1>3. Tidy(repo) /\ cmd.name = "sync"
  BY <1>2 DEF Following
<1>4. Pushable(repo.state, cmd.names) /\ cmd.flags \subseteq DOMAIN RefPatches /\ cmd.names \in Seq(Names)
  BY <1>2, IInvFacts DEF Fits, IInv
<1>5. Opened(x, repo) /\ x.o.iw
  BY <1>1, WithinOpened, OptionTypes, WithinOptions, OptionsWorktree
<1>6. Ready(x) /\ Pushable(x.t, cmd.names) /\ InStep(x) /\ Neat(x)
  <2>1. Ready(x) /\ Pushable(x.t, cmd.names)
    BY <1>4, <1>5 DEF Opened, Pushable
  <2> QED BY <1>3, <1>5, <2>1, OpenedInStep
<1>7. Turned(x, cmd.names, Len(cmd.names), y)
  BY <1>1, <1>4, <1>6, SyncAllOK
<1>8. Ready(y) /\ y.o.iw
  BY <1>5, <1>7 DEF Turned
<1>9. ASSUME Counts(e.how) PROVE Tidy(repo')
  <2>1. e.how = "ok" /\ cmd.names[Len(cmd.names)] \in cmd.flags
    BY <1>3, <1>9 DEF Counts
  <2>2. y.err = "none"
    <3>1. y.err # "error" /\ e.how = IF y.err = "none" THEN "ok" ELSE y.err
      BY <1>1, <2>1, ExecuteDone
    <3>2. y.err \in Errs
      BY <1>8 DEF Ready, Xacts
    <3> QED BY <2>1, <3>1, <3>2 DEF Errs
  <2>3. CASE Len(cmd.names) = 0
    <3>1. y = x
      BY <1>7, <2>3 DEF Turned
    <3> QED BY <1>1, <1>2, <1>5, <1>6, <2>1, <3>1, TidyExecute
  <2>4. CASE Len(cmd.names) # 0
    <3>1. Len(cmd.names) \in 1..Len(cmd.names)
      BY <1>4, <2>4
    <3>2. y.wd = ReadTreeCheckoutHard(Tree(Top(y.t)))
      BY <1>6, <1>7, <2>1, <2>2, <3>1 DEF Turned
    <3>3. TransHead(y.t) = Top(y.t)
      BY <1>8, <2>2 DEF Ready, HeadSet, TransHead
    <3> QED BY <1>1, <1>2, <1>8, <2>1, <3>2, <3>3, TidyExecute
  <2> QED BY <2>3, <2>4
<1> QED BY <1>2, <1>9, CleanEnd
-----------------------------------------------------------------------------
(* How the commands start. *)

LEMMA StartClean ==
  ASSUME NEW c, Starts(c), c.pc \in {"pop", "temp", "apply", "sync pop"}, c.stashed = FALSE,
         c.pc = "temp" => Tree(c.target) = Tree(repo'.branch), c.pc = "sync pop" => c.name = "sync",
         c.pc = "apply" => c.name = "import", Tidy(repo')
  PROVE  CleanInv'
<1>1. cmd' = c
  BY DEF Starts
<1>2. Following'
  BY <1>1 DEF Following
<1> QED BY <1>1, <1>2, CleanOn

\* Nothing is said of a start on local changes.
LEMMA StartOther ==
  ASSUME NEW c, Starts(c), c.pc # "idle", Exempt(c) \/ ~Tidy(repo)
  PROVE  CleanInv'
<1>1. cmd' = c /\ was'.repo = repo
  BY DEF Starts
<1> QED BY <1>1, CleanOn

LEMMA TidyIsClean ==
  ASSUME Tidy(repo)
  PROVE  Changed(repo.wd) = {} /\ Clean
<1>1. /\ repo.wd.index = Tree(repo.branch) /\ repo.wd.work = Tree(repo.branch) /\ repo.wd.unmerged = {}
  BY DEF Tidy, ReadTreeCheckoutHard
<1> QED BY <1>1 DEF Changed, Clean

\* Nothing of a clean worktree goes to the stash.
LEMMA RebaseStartClean ==
  ASSUME IInv, RebaseStart
  PROVE  CleanInv'
<1>1. PICK flags, names, target, b :
        /\ b = ~Clean
        /\ Starts([NoCmd EXCEPT !.name = "rebase", !.pc = "pop", !.flags = flags,
                                !.names = names, !.target = target, !.stashed = b])
  BY Zenon DEF RebaseStart
<1>2. PICK c : c = [NoCmd EXCEPT !.name = "rebase", !.pc = "pop", !.flags = flags,
                                 !.names = names, !.target = target, !.stashed = b]
  OBVIOUS
<1>3. c.pc = "pop" /\ c.stashed = b /\ Starts(c)
  BY <1>1, <1>2 DEF NoCmd
<1>4. CASE Tidy(repo)
  <2>1. Clean /\ b = FALSE
    BY <1>1, <1>4, TidyIsClean
  <2>2. repo' = repo
    BY <2>1 DEF RebaseStart
  <2> QED BY <1>3, <1>4, <2>1, <2>2, StartClean
<1>5. CASE ~Tidy(repo)
  BY <1>3, <1>5, StartOther
<1> QED BY <1>4, <1>5

\* The commands that refuse local changes.
LEMMA CleanStarts ==
  ASSUME PullStart \/ ImportStart \/ SyncStart
  PROVE  CleanInv'
<1>1. ASSUME NEW c, Starts(c), c.pc \in {"pop", "apply", "sync pop"}, c.stashed = FALSE,
             c.pc = "sync pop" => c.name = "sync", c.pc = "apply" => c.name = "import"
      PROVE  CleanInv'
  <2>1. repo' = repo
    BY DEF PullStart, ImportStart, SyncStart
  <2> QED BY <1>1, <2>1, StartClean, StartOther
<1>2. CASE PullStart
  <2>1. PICK flags, names, target :
          Starts([NoCmd EXCEPT !.name = "pull", !.pc = "pop", !.flags = flags, !.names = names, !.target = target])
    BY <1>2, Zenon DEF PullStart
  <2>2. PICK c : c = [NoCmd EXCEPT !.name = "pull", !.pc = "pop", !.flags = flags, !.names = names, !.target = target]
    OBVIOUS
  <2>3. c.pc = "pop" /\ c.stashed = FALSE /\ Starts(c)
    BY <2>1, <2>2 DEF NoCmd
  <2> QED BY <1>1, <2>3
<1>3. CASE ImportStart
  <2>1. PICK flags, s :
          Starts([NoCmd EXCEPT !.name = "import", !.pc = "apply", !.flags = flags, !.plan = s])
    BY <1>3, Zenon DEF ImportStart
  <2>2. PICK c : c = [NoCmd EXCEPT !.name = "import", !.pc = "apply", !.flags = flags, !.plan = s]
    OBVIOUS
  <2>3. c.name = "import" /\ c.pc = "apply" /\ c.stashed = FALSE /\ Starts(c)
    BY <2>1, <2>2 DEF NoCmd
  <2> QED BY <1>1, <2>3
<1>4. CASE SyncStart
  <2>1. PICK flags, names :
          Starts([NoCmd EXCEPT !.name = "sync", !.pc = "sync pop", !.flags = flags, !.names = names])
    BY <1>4, Zenon DEF SyncStart
  <2>2. PICK c : c = [NoCmd EXCEPT !.name = "sync", !.pc = "sync pop", !.flags = flags, !.names = names]
    OBVIOUS
  <2>3. c.name = "sync" /\ c.pc = "sync pop" /\ c.stashed = FALSE /\ Starts(c)
    BY <2>1, <2>2 DEF NoCmd
  <2> QED BY <1>1, <2>3
<1> QED BY <1>2, <1>3, <1>4

\* refresh finds nothing to record: the temporary patch is empty.
LEMMA RefreshStartClean ==
  ASSUME IInv, RefreshStart
  PROVE  CleanInv'
<1>1. PICK n \in Elems(repo.state.applied \o repo.state.unapplied), mode \in RefreshModes, P \in SUBSET Files :
       LET paths == RefreshPaths(n, mode, P)
       IN  /\ mode # "paths" => P = {}
           /\ RefreshAllowed(paths, mode, P)
           /\ repo' = [repo EXCEPT !.wd.index = Updated(@, paths)]
           /\ Starts([NoCmd EXCEPT !.name = "refresh", !.pc = "temp", !.names = <<n, Free(TempNames)[1]>>,
                !.target = MkCommit(repo.branch, RefreshTree(paths, mode), Meta(repo.state.patches[n]))])
  BY Zenon DEF RefreshStart
<1>2. PICK paths, names, tree, m, b, new, run :
        /\ paths = RefreshPaths(n, mode, P) /\ tree = RefreshTree(paths, mode)
        /\ m = Meta(repo.state.patches[n]) /\ b = repo.branch
        /\ new = MkCommit(b, tree, m) /\ names = <<n, Free(TempNames)[1]>>
        /\ run = [NoCmd EXCEPT !.name = "refresh", !.pc = "temp", !.names = names, !.target = new]
  OBVIOUS
<1>3. repo' = [repo EXCEPT !.wd.index = Updated(@, paths)] /\ Starts(run)
  BY <1>1, <1>2, Zenon
<1>4. run.pc = "temp" /\ run.target = new /\ run.stashed = FALSE
  BY <1>2 DEF NoCmd
<1>5. CASE ~Tidy(repo)
  BY <1>3, <1>4, <1>5, StartOther
<1>6. CASE Tidy(repo)
  <2>1. paths = {}
    <3>1. Changed(repo.wd) = {}
      BY <1>6, TidyIsClean
    <3> QED BY <1>2, <3>1 DEF RefreshPaths
  <2>2. \A g \in Trees : Updated(g, paths) = g
    BY <2>1 DEF Updated, Trees
  <2>3. repo.wd.index = Tree(repo.branch)
    BY <1>6 DEF Tidy, ReadTreeCheckoutHard
  <2>4. tree = Tree(repo.branch) /\ tree \in Trees
    BY <1>2, <2>2, <2>3, IInvFacts DEF RefreshTree
  <2>5. repo'.branch = repo.branch /\ repo'.wd = repo.wd
    <3>1. PICK i : i = Updated(repo.wd.index, paths)
      OBVIOUS
    <3>2. i = repo.wd.index
      BY <2>2, <3>1, IInvFacts
    <3>3. repo' = [repo EXCEPT !.wd = [repo.wd EXCEPT !.index = i]]
      BY <1>3, <3>1, IInvFacts DEF Repos
    <3>4. [repo.wd EXCEPT !.index = i] = repo.wd
      BY <3>2, IInvFacts DEF Workdirs
    <3> QED BY <3>3, <3>4, IInvFacts DEF Repos
  <2>6. m \in Metas /\ b \in Commits
    <3>1. repo.state.patches \in PatchMaps /\ Good(repo.state) /\ repo.state.applied \in Seq(Names)
          /\ repo.state.unapplied \in Seq(Names)
      BY IInvFacts DEF States, Sound
    <3>2. n \in Elems(repo.state.applied) \cup Elems(repo.state.unapplied)
      BY <1>1, <3>1, ConcatElems
    <3>3. n \in InLists(repo.state) /\ n \in Names
      BY <3>1, <3>2, ElemsIff DEF InLists
    <3>4. repo.state.patches[n] \in Commits
      BY <3>1, <3>3, PatchCommit
    <3> QED BY <1>2, <3>4, IInvFacts, CommitTypes
  <2>7. Tree(new) = tree
    BY <1>2, <2>4, <2>6, TreeOfNew
  <2>8. Tidy(repo')
    BY <1>6, <2>5 DEF Tidy
  <2> QED BY <1>3, <1>4, <2>4, <2>5, <2>7, <2>8, StartClean
<1> QED BY <1>5, <1>6

\* edit is one transaction.
LEMMA EditClean ==
  ASSUME IInv, Edit
  PROVE  CleanInv'
<1>a. PICK x, run : x = Within([InWorktree EXCEPT !.conflicts = "allow"]) /\ run = [NoCmd EXCEPT !.name = "edit"]
  OBVIOUS
<1>b. PICK n \in Listed, meta \in Metas, tree \in Targets, way \in {"message", "diff", "set-tree"} :
        \E name \in {n} \cup Elems(Free(NewNames)) :
          LET u == Within([InWorktree EXCEPT !.conflicts = "allow"])
              c == u.t.patches[n]
              new == MkCommit(Parent(c), IF way = "message" THEN Tree(c) ELSE Tree(tree), meta)
          IN  /\ name # n \/ new # c
              /\ was' = [repo |-> repo, stash |-> stash] /\ Uses("commands")
              /\ Concludes([NoCmd EXCEPT !.name = "edit"], EditPatch(u, n, name, new, way))
              /\ mine' = IF way = "message" THEN mine ELSE {}
  BY Zenon DEF Edit
<1>c. PICK c, new : /\ c = x.t.patches[n]
                    /\ new = MkCommit(Parent(c), IF way = "message" THEN Tree(c) ELSE Tree(tree), meta)
  OBVIOUS
<1>d. PICK name : /\ name \in {n} \cup Elems(Free(NewNames))
                  /\ Concludes(run, EditPatch(x, n, name, new, way))
                  /\ was' = [repo |-> repo, stash |-> stash]
  BY <1>a, <1>b, <1>c, Zenon
<1>1. PICK y, e : /\ y = EditPatch(x, n, name, new, way) /\ Concludes(run, y) /\ e = Execute(y)
                  /\ n \in Listed /\ meta \in Metas /\ tree \in Targets
  BY <1>d
<1>2. n \in InLists(repo.state) /\ n \in Names
  BY <1>1, ListedIs
<1>3. name \in Names /\ (name = n \/ name \notin InLists(repo.state))
  BY <1>d, <1>2, FreeNames
<1>4. Opened(x, repo) /\ x.o.iw
  BY <1>a, WithinOpened, OptionTypes, WithinOptions, OptionsWorktree
<1>5. Good(repo.state) /\ repo.state.patches \in PatchMaps /\ x.t.patches = repo.state.patches
  BY <1>4, OpenedFacts DEF Opened
<1>6. c \in Commits /\ Parent(c) \in Commits /\ Tree(c) \in Trees /\ c = repo.state.patches[n]
  BY <1>c, <1>2, <1>5, PatchCommit, CommitTypes
<1>7. Tree(tree) \in Trees
  BY <1>1, InputsAssumption, CommitTypes
<1>8. new \in Commits /\ HasParent(new) /\ Parent(new) = Parent(repo.state.patches[n])
  <2>1. PICK up, g : up = Parent(c) /\ g = IF way = "message" THEN Tree(c) ELSE Tree(tree)
    OBVIOUS
  <2>2. up \in Commits /\ g \in Trees /\ new = MkCommit(up, g, meta) /\ meta \in Metas
    BY <1>1, <1>c, <1>6, <1>7, <2>1
  <2>3. new \in Commits /\ HasParent(new)
    BY <2>2, CommitTypes
  <2>4. Parent(new) = up
    BY <2>2, ParentOfNew
  <2> QED BY <1>6, <2>1, <2>3, <2>4
<1>9. Ready(y) /\ y.o = x.o /\ Trails(x, y)
  BY <1>1, <1>2, <1>3, <1>4, <1>8, EditPatchOK
<1>10. Tidy(repo) /\ e.how \in {"ok", "halt"} => Tidy(e.r)
  <2>1. Tidy(repo) => InStep(y)
    BY <1>4, <1>9, OpenedInStep DEF Trails
  <2> QED BY <1>1, <1>4, <1>9, <2>1, TidyExecute
<1>11. cmd'.pc = "idle" /\ last'.how = e.how /\ repo' = e.r /\ was'.repo = repo
  BY <1>1, <1>d DEF Concludes, Ends, NoCmd
<1>12. CleanWorktreeFollows'
  BY <1>10, <1>11 DEF CleanWorktreeFollows, Done, Tidy
<1> QED BY <1>11, <1>12 DEF CleanInv, Idle

\* Nothing is said of spill and fold.
LEMMA OtherStartClean ==
  ASSUME SpillStart \/ Fold
  PROVE  CleanInv'
<1>1. CASE SpillStart
  <2>1. PICK flags : Starts([NoCmd EXCEPT !.name = "spill", !.pc = "spilled", !.flags = flags])
    BY <1>1, Zenon DEF SpillStart
  <2>2. PICK c : c = [NoCmd EXCEPT !.name = "spill", !.pc = "spilled", !.flags = flags]
    OBVIOUS
  <2>3. c.name = "spill" /\ c.pc = "spilled" /\ Starts(c)
    BY <2>1, <2>2 DEF NoCmd
  <2> QED BY <2>3, StartOther DEF Exempt
<1>2. CASE Fold
  <2>1. PICK how : Ends([NoCmd EXCEPT !.name = "fold"], how)
    BY <1>2, Zenon DEF Fold
  <2>2. cmd'.pc = "idle" /\ last'.name = "fold"
    BY <2>1 DEF Ends, NoCmd
  <2> QED BY <2>2 DEF CleanInv, CleanWorktreeFollows, Done, Idle
<1> QED BY <1>1, <1>2

LEMMA NextClean ==
  ASSUME IInv, IInv', CleanInv, [Next]_vars
  PROVE  CleanInv'
<1>1. CASE UNCHANGED vars
  BY <1>1 DEF vars, CleanInv, CleanWorktreeFollows, Following, Exempt, Done, Idle
<1>2. CASE Rest
  BY <1>1, <1>2 DEF Rest
<1>3. CASE User
  <2>1. cmd' = cmd /\ Idle /\ last' = NoLast
    BY <1>3 DEF User, EditFile, ResolveConflicts
  <2> QED BY <2>1 DEF CleanInv, CleanWorktreeFollows, Done, NoLast, Idle
<1>4. CASE Start
  BY <1>4, RebaseStartClean, CleanStarts, RefreshStartClean, EditClean, OtherStartClean DEF Start
<1>5. CASE Proceed
  <2>1. CASE Exempt(cmd) \/ ~Tidy(was.repo)
    BY <1>5, <2>1, CleanOther, IInvFacts
  <2>2. CASE ~(Exempt(cmd) \/ ~Tidy(was.repo))
    <3>1. Following
      BY <1>5, <2>2, RunsOn DEF CleanInv, Idle
    <3>2. ~Unstash /\ ~SpillReset
      BY <3>1 DEF Following, Unstash, SpillReset
    <3>3. CASE Rebasing
      BY <3>1, <3>2, <3>3, PopClean, GitClean, ReopenClean, PushBackClean, PlanClean, KeepLineClean,
         ListLinesClean, EditLineClean, SquashLinesClean, PushPlannedClean DEF Rebasing
    <3> QED BY <1>5, <3>1, <3>2, <3>3, RefreshTempClean, RefreshAbsorbClean, ImportApplyClean,
               ImportCreateClean, PopClean, SyncClean DEF Proceed
  <2> QED BY <2>1, <2>2
<1>6. CASE Kill
  BY <1>6, CleanEnd, IInvFacts DEF Kill, Counts
<1> QED BY <1>1, <1>2, <1>3, <1>4, <1>5, <1>6 DEF Next

\* A command that starts on a clean worktree and ends well, or halts with patches
\* left to push, leaves a clean one, CleanWorktreeFollows, which leaves out spill and
\* fold, an import whose diff was edited, a sync whose last patch is not on the other
\* branch and an interactive rebase that halts: the worktree has gone
\* from tree to tree through the merges and checkouts of all its transactions, each
\* of which relies on the one before it having left index and worktree at the tree
\* it takes to be checked out.
THEOREM CleanWorktreesFollow ==
  ASSUME Doubtful = {}
  PROVE  Spec => []CleanWorktreeFollows
<1>1. Init => CleanInv
  BY DEF Init, CleanInv, CleanWorktreeFollows, Done, Idle, NoCmd, NoLast
<1>2. IInv /\ IInv' /\ CleanInv /\ [Next]_vars => CleanInv'
  BY NextClean
<1>3. CleanInv => CleanWorktreeFollows
  BY DEF CleanInv
<1> QED BY <1>1, <1>2, <1>3, SpecIInv, PTL DEF Spec
=============================================================================
