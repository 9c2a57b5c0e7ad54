------------------------- MODULE MCStackTransaction -------------------------
(* Small instances of StackTransaction. *)
EXTENDS StackTransaction

\* A commit entry: file f has content x, file g content y.
E(x, y) == [tree |-> [n \in {"f", "g"} |-> IF n = "f" THEN x ELSE y], meta |-> "m"]

MCFiles    == {"f", "g"}
MCContents == 0..2
MCMetas    == {"m"}
MCNames    == {"p", "q", "r", "s"}

Base == <<E(0, 0), E(1, 0)>>

NoPatches == [n \in MCNames |-> <<>>]

\* p and q applied; r unapplied, made on the base, in conflict with p.
Two == LET p == Append(Base, E(2, 0))
           q == Append(p, E(2, 1))
           r == Append(Base, E(0, 0))
       IN  [head |-> q, applied |-> <<"p", "q">>, unapplied |-> <<"r">>, hidden |-> <<>>,
            patches |-> [NoPatches EXCEPT !["p"] = p, !["q"] = q, !["r"] = r]]

\* Nothing applied; q was made on top of p, r is hidden and changes another file.
None == LET p == Append(Base, E(2, 0))
            q == Append(p, E(0, 0))
            r == Append(Base, E(1, 1))
        IN  [head |-> Base, applied |-> <<>>, unapplied |-> <<"p", "q">>, hidden |-> <<"r">>,
             patches |-> [NoPatches EXCEPT !["p"] = p, !["q"] = q, !["r"] = r]]

\* r, q and p applied, and p takes both changes back.
Three == LET r == Append(Base, E(1, 1))
             q == Append(r, E(2, 1))
             p == Append(q, E(1, 0))
         IN  [head |-> p, applied |-> <<"r", "q", "p">>, unapplied |-> <<>>, hidden |-> <<>>,
              patches |-> [NoPatches EXCEPT !["p"] = p, !["q"] = q, !["r"] = r]]

\* p was changed after q, which is unapplied now, had been made on top of it.
Refreshed == LET old == Append(Base, E(2, 0))
                 p   == Append(Base, E(2, 1))
                 q   == Append(old, E(0, 0))
             IN  [head |-> p, applied |-> <<"p">>, unapplied |-> <<"q">>, hidden |-> <<>>,
                  patches |-> [NoPatches EXCEPT !["p"] = p, !["q"] = q]]

TwoOrNone == {Two, None}
JustTwo   == {Two}
AfterGitInit == {Two, None, Refreshed}
JustThree == {Three}

\* The builder's defaults: no worktree, conflicts disallowed, head set.
Defaults == [conflicts |-> "disallow", push_conflicts |-> TRUE, discard |-> FALSE,
             use_iw |-> FALSE, set_head |-> TRUE, bad_head |-> FALSE,
             checked |-> TRUE, calls |-> {}]

InWorktree == [Defaults EXCEPT !.use_iw = TRUE]

\* Any method, in any order, with the options of most commands.
AnyMethod == [InWorktree EXCEPT !.calls = Methods]

CmdPush     == [InWorktree EXCEPT !.calls = {"push", "push_tree"}]
CmdPushNo   == [CmdPush EXCEPT !.push_conflicts = FALSE]
CmdDelete   == [InWorktree EXCEPT !.calls = {"delete"}]
CmdEdit     == [InWorktree EXCEPT !.conflicts = "allow",
                                  !.calls = {"pop", "update", "push"}]
CmdCommit   == [InWorktree EXCEPT !.conflicts = "same top", !.calls = {"commit"}]
CmdHide     == [Defaults EXCEPT !.calls = {"hide"}]
CmdNew      == [Defaults EXCEPT !.calls = {"new_applied"}]
CmdRename   == [Defaults EXCEPT !.conflicts = "allow", !.checked = FALSE,
                                !.calls = {"rename"}]
CmdUncommit == [Defaults EXCEPT !.conflicts = "allow", !.set_head = FALSE,
                                !.calls = {"uncommit"}]
CmdRepair   == [Defaults EXCEPT !.checked = FALSE, !.calls = {"repair"}]
CmdUndo     == [InWorktree EXCEPT !.bad_head = TRUE, !.checked = FALSE,
                                  !.calls = {"reset"}]
CmdUndoHard == [CmdUndo EXCEPT !.discard = TRUE]
CmdReset    == [InWorktree EXCEPT !.checked = FALSE, !.calls = {"reset_partially"}]
CmdResetHard == [CmdReset EXCEPT !.discard = TRUE]

AnyCommand == {AnyMethod}
OnlyPush   == {CmdPush}
OnlyDelete == {CmdDelete}
Commands   == {CmdPush, CmdPushNo, CmdDelete, CmdCommit, CmdEdit, CmdHide, CmdUndo,
               CmdUndoHard, CmdResetHard}
AfterGit   == {CmdPush, CmdNew, CmdRename, CmdUncommit, CmdRepair, CmdUndo, CmdReset}
NoEvents   == {}
Git        == {"git", "refuse"}
Interrupt  == {"interrupt"}
Faults     == {"edit", "body", "refuse", "torn", "interrupt", "crash"}
=============================================================================
