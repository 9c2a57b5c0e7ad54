----------------------------- MODULE MCWorkflows -----------------------------
(* Small instances of Workflows. *)
EXTENDS Workflows

\* The tree in which file f has content a, file g content b.
T(a, b) == [n \in {"f", "g"} |-> IF n = "f" THEN a ELSE b]

E(a, b) == [tree |-> T(a, b), meta |-> "m"]

MCFiles     == {"f", "g"}
MCContents  == 0..2
MCMetas     == {"m"}
MCNames     == {"p", "q", "r", "t", "n"}
MCTempNames == <<"t">>
MCNewNames  == <<"n">>

Root == <<E(0, 0), E(1, 0)>>

NoPatches == [n \in MCNames |-> <<>>]

\* p and q applied, r unapplied: made on the base, in conflict with p.
Two == LET p == Append(Root, E(2, 0))
           q == Append(p, E(2, 1))
           r == Append(Root, E(0, 0))
       IN  [head |-> q, applied |-> <<"p", "q">>, unapplied |-> <<"r">>, hidden |-> <<>>,
            patches |-> [NoPatches EXCEPT !["p"] = p, !["q"] = q, !["r"] = r]]

\* q and p applied, both to the same file, and r hidden.
Same == LET q == Append(Root, E(2, 0))
            p == Append(q, E(0, 0))
            r == Append(Root, E(1, 1))
        IN  [head |-> p, applied |-> <<"q", "p">>, unapplied |-> <<>>, hidden |-> <<"r">>,
             patches |-> [NoPatches EXCEPT !["p"] = p, !["q"] = q, !["r"] = r]]

MCInitStates == {Two, Same}

\* Upstream has moved on: to where p conflicts; to what q does; to what p does.
Upstream == {Append(Root, E(0, 0)), Append(Root, E(1, 1)), Append(Root, E(2, 0))}

\* What --base and an editor that shows a diff are given: both files differ from the base.
MCTargets == {Append(Root, E(0, 1))}

\* The other branch has a p without a conflict and an r with one.
MCRefPatches == [n \in {"p", "r"} |-> IF n = "p" THEN Append(Root, E(1, 2)) ELSE Append(Root, E(2, 1))]

MCSeries ==
  {<<[name |-> "r", from |-> T(2, 1), to |-> T(2, 0)], [name |-> "p", from |-> T(0, 0), to |-> T(1, 2)]>>,
   <<[name |-> "r", from |-> T(1, 0), to |-> T(0, 1)]>>}

MCRebaseArgs ==
  ({{"autostash"}, {"nopush"}, {"halt", "merged"}, {"pull"}, {"fetch"}} \X Upstream)
    \cup ({{"interactive"}} \X {NoCommit, Append(Root, E(1, 1))})

NothingDoubtful == {}
SyncApplied     == {"sync applied"}
=============================================================================
