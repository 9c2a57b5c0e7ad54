------------------------------- MODULE Commands -------------------------------
(***************************************************************************)
(* What the commands that move patches make of their arguments: which      *)
(* patches they choose, what they check before the transaction, and the    *)
(* lists that the transaction arrives at when no push halts.  Commits and  *)
(* trees are left out (StackTransaction has them, and the halts).          *)
(***************************************************************************)
EXTENDS Revisions

CONSTANTS Folded,      \* of each name, the name in lower case
          NextName,    \* of each name, the one with its number incremented
          Empty,       \* the patches without a change
          MaxPatches,  \* bound: patches in the stack
          PicksAtOnce, \* bound: commits picked by one command
          Locators, Selections, Numbers  \* the arguments

ASSUME NamesAssumption ==
  /\ DOMAIN Folded = Names
  /\ NextName \in [Names \cup {NoPatch} -> Names \cup {NoPatch}] /\ NextName[NoPatch] = NoPatch

VARIABLES stack,  \* the three lists
          local   \* index and worktree: clean, with changes, with conflicts

vars == <<stack, local>>

Locals == {"clean", "changed", "conflicts"}
-----------------------------------------------------------------------------
(* The methods of StackTransaction, on lists and without halts. *)

PushPatches(st, names) ==
  [applied |-> st.applied \o names, unapplied |-> Without(st.unapplied, Elems(names)),
   hidden |-> Without(st.hidden, Elems(names))]

\* The applied patches from the first one in S on.
From(st, S) ==
  LET k == CHOOSE i \in 0..Len(st.applied) :
             /\ \A j \in 1..i : st.applied[j] \notin S
             /\ i < Len(st.applied) => st.applied[i + 1] \in S
  IN  SubSeq(st.applied, k + 1, Len(st.applied))

Below(st, S) == SubSeq(st.applied, 1, Len(st.applied) - Len(From(st, S)))

PopPatches(st, S) ==
  [st EXCEPT !.applied = Below(st, S),
             !.unapplied = Without(From(st, S), S) \o Only(From(st, S), S) \o @]

DeletePatches(st, S) ==
  [applied |-> Below(st, S), unapplied |-> Without(From(st, S) \o st.unapplied, S),
   hidden |-> Without(st.hidden, S)]

\* Mutation of DeleteAndPush: what delete_patches popped is not pushed again.
DeleteOnly(st, S) == DeletePatches(st, S)

DeleteAndPush(st, S) == PushPatches(DeletePatches(st, S), Without(From(st, S), S))

\* reorder_patches(applied, unapplied, None).
ReorderPatches(st, applied, unapplied) ==
  LET common == CHOOSE k \in 0..Len(applied) :
                  /\ k <= Len(st.applied) /\ SubSeq(st.applied, 1, k) = SubSeq(applied, 1, k)
                  /\ k < Len(applied) /\ k < Len(st.applied) => st.applied[k + 1] # applied[k + 1]
      popped == PopPatches(st, Elems(SubSeq(st.applied, common + 1, Len(st.applied))))
  IN  [PushPatches(popped, SubSeq(applied, common + 1, Len(applied)))
         EXCEPT !.unapplied = unapplied]

\* to_commit that are not the bottommost patches are moved there first.
CommitPatches(st, names) ==
  LET common  == CHOOSE k \in 0..Len(names) :
                   /\ k <= Len(st.applied) /\ SubSeq(st.applied, 1, k) = SubSeq(names, 1, k)
                   /\ k < Len(names) /\ k < Len(st.applied) => st.applied[k + 1] # names[k + 1]
      to_push == IF common = Len(names) THEN <<>>
                 ELSE Without(SubSeq(st.applied, common + 1, Len(st.applied)), Elems(names))
      moved   == IF common = Len(names) THEN st
                 ELSE PushPatches(PopPatches(st, Elems(to_push)),
                                  SubSeq(names, common + 1, Len(names)))
  IN  PushPatches([moved EXCEPT !.applied = SubSeq(@, Len(names) + 1, Len(@))], to_push)

\* Mutation of Collides: upper and lower case are told apart.
CollidesExactly(st, n) == HasPatch(st, n)

Collides(st, n) == \E m \in Elems(AllPatches(st)) : Folded[m] = Folded[n]

\* PatchName::uniquify; NoPatch when the model runs out of names.
Uniquify(n, allow, disallow) ==
  LET tried[k \in 0..Cardinality(Names)] == IF k = 0 THEN n ELSE NextName[tried[k - 1]]
      Good(m) == m \in allow \/ m = NoPatch \/ \A d \in disallow : Folded[d] # Folded[m]
  IN  tried[CHOOSE k \in DOMAIN tried : Good(tried[k]) /\ \A j \in 0..(k - 1) : ~Good(tried[j])]
-----------------------------------------------------------------------------
(* The commands.  `chosen' is what the patch arguments resolve to, `arg' what  *)
(* was given instead of them.  The result of a command: how it ends, the new   *)
(* lists, index and worktree, and the patches that its arguments name.         *)

End(how, st, l, named) == [outcome |-> how, stack |-> st, local |-> l, named |-> named]
Refuse(st, l)          == End("refused", st, l, {})
Nothing(st, l)         == End("nothing", st, l, {})

\* check_conflicts() and check_index_and_worktree_clean().
Checked(l, keep) == l = "clean" \/ (keep /\ l = "changed")

\* The changes of patches that leave the branch without a checkout.
Spilled(st, l, S) ==
  IF l = "clean" /\ (S \ Empty) \cap Elems(st.applied) # {} THEN "changed" ELSE l

\* Arguments: patch ranges, --all, --number, or none.
HowMany(n, len) == IF n >= 0 THEN IF n < len THEN n ELSE len ELSE IF -n < len THEN len + n ELSE 0

Chosen(names) == [None EXCEPT !.patches = names]
TopOnes(s, k) == SubSeq(s, Len(s) - k + 1, Len(s))

PushChosen(st, arg) ==
  IF arg.how = "ranges" THEN ResolveNames(st, arg.ranges, "unapplied")
  ELSE IF st.unapplied = <<>> THEN Failed
  ELSE Chosen(CASE arg.how = "all"     -> st.unapplied
                [] arg.how = "number"  -> SubSeq(st.unapplied, 1, HowMany(arg.n, Len(st.unapplied)))
                [] arg.how = "default" -> <<st.unapplied[1]>>)

\* stg push; assert!(!patches.is_empty()) ends the process.
PushOf(st, l, arg, chosen, reverse, noapply, keep) ==
  LET patches == IF reverse THEN Reverse(chosen.patches) ELSE chosen.patches
      named   == Elems(patches)
  IN  IF arg.how = "number" /\ arg.n = 0 THEN Nothing(st, l)
      ELSE IF ~chosen.ok THEN Refuse(st, l)
      ELSE IF patches = <<>> THEN End("panicked", st, l, {})
      ELSE IF ~Checked(l, keep \/ noapply) THEN Refuse(st, l)
      ELSE End("done",
               IF noapply THEN [st EXCEPT !.unapplied = patches \o Without(@, named)]
               ELSE PushPatches(st, patches),
               l, named)

PopChosen(st, arg) ==
  CASE arg.how = "ranges"  -> ResolveNames(st, arg.ranges, "applied")
    [] arg.how = "all"     -> Chosen(st.applied)
    [] arg.how = "number"  -> Chosen(TopOnes(st.applied, HowMany(arg.n, Len(st.applied))))
    [] arg.how = "default" -> Chosen(TopOnes(st.applied, HowMany(1, Len(st.applied))))

\* stg pop; with --spill the changes of the patches stay in index and worktree.
PopOf(st, l, arg, chosen, keep, spill) ==
  LET few == arg.how = "number" /\ arg.n < 0 /\ -arg.n >= Len(st.applied)
      S   == Elems(chosen.patches)
  IN  IF arg.how = "number" /\ arg.n = 0 THEN Nothing(st, l)
      ELSE IF st.applied = <<>> THEN Refuse(st, l)
      ELSE IF few THEN Nothing(st, l)
      ELSE IF ~chosen.ok \/ ~Checked(l, keep \/ spill) THEN Refuse(st, l)
      ELSE IF spill /\ Only(st.applied, S) # From(st, S) THEN Refuse(st, l)
      ELSE End("done",
               ReorderPatches(st, Without(st.applied, S), Only(st.applied, S) \o st.unapplied),
               IF spill THEN Spilled(st, l, S) ELSE l, S)

GotoOf(st, l, n, keep) ==
  LET cut == PositionIn(Visible(st), n) + 1
  IN  IF ~Checked(l, keep) \/ n = NoPatch THEN Refuse(st, l)
      ELSE End("done",
               IF n \in Elems(st.applied)
                 THEN ReorderPatches(st, SubSeq(st.applied, 1, cut),
                        SubSeq(st.applied, cut + 1, Len(st.applied)) \o st.unapplied)
                 ELSE PushPatches(st, SubSeq(st.unapplied, 1, cut - Len(st.applied))),
               l, {n})

FloatOf(st, l, chosen, noapply, keep) ==
  LET S      == Elems(chosen.patches)
      down   == Without(st.applied, S)
      rest   == Without(st.unapplied, S)
  IN  IF l = "conflicts" \/ ~chosen.ok \/ chosen.patches = <<>> THEN Refuse(st, l)
      ELSE IF ~Checked(l, keep \/ (noapply /\ S \cap Elems(st.applied) = {})) THEN Refuse(st, l)
      ELSE End("done",
               IF noapply THEN ReorderPatches(st, down, chosen.patches \o rest)
               ELSE ReorderPatches(st, down \o chosen.patches, rest),
               l, S)

\* Mutation of TargetPos: --above means --below.
TargetPosBelow(down, t, above) == IF t = NoPatch THEN 0 ELSE PositionIn(down, t)

\* Without arguments the topmost patch sinks.
SinkChosen(st, ranges) ==
  IF ranges # <<>> THEN ResolveNames(st, ranges, "all")
  ELSE IF st.applied = <<>> THEN Failed ELSE Chosen(TopOnes(st.applied, 1))

\* Where the patches go, among the applied ones that do not move.
TargetPos(down, t, above) ==
  IF t = NoPatch THEN 0 ELSE PositionIn(down, t) + (IF above THEN 1 ELSE 0)

\* stg sink.  `keep' is read with contains_id(), which holds for a flag whether or
\* not it is given, so local changes are never looked at.  targeted: --above or
\* --below is given, and t is the patch it resolves to.
SinkOf(st, l, chosen, targeted, t, above, nopush) ==
  LET S      == Elems(chosen.patches)
      down   == Without(st.applied, S)
      pos    == TargetPos(down, t, above)
      low    == SubSeq(down, 1, pos) \o chosen.patches
      high   == SubSeq(down, pos + 1, Len(down))
      rest   == Without(st.unapplied, S)
  IN  IF l = "conflicts" \/ (targeted /\ t = NoPatch) \/ ~chosen.ok THEN Refuse(st, l)
      ELSE IF t \in S THEN Refuse(st, l)
      ELSE End("done",
               IF nopush THEN ReorderPatches(st, low, high \o rest)
               ELSE ReorderPatches(st, low \o high, rest),
               l, S)

\* stg hide; index and worktree are not used, so the changes of a hidden applied
\* patch turn into local ones.
HideOf(st, l, chosen) ==
  LET names == Without(chosen.patches, Elems(st.hidden))
      S     == Elems(names)
  IN  IF ~chosen.ok THEN Refuse(st, l)
      ELSE End("done",
               [ReorderPatches(st, Without(st.applied, S), Without(st.unapplied, S))
                  EXCEPT !.hidden = names \o st.hidden],
               Spilled(st, l, S), Elems(chosen.patches))

UnhideOf(st, l, chosen) ==
  LET S == Elems(chosen.patches)
  IN  IF ~chosen.ok THEN Refuse(st, l)
      ELSE End("done",
               [st EXCEPT !.unapplied = @ \o chosen.patches, !.hidden = Without(@, S)], l, S)

\* stg delete: --top, ranges, --all, or some of --applied, --unapplied, --hidden.
DeleteChosen(st, arg) ==
  CASE arg.how = "ranges"  -> ResolveNames(st, arg.ranges, "all_to_top")
    [] arg.how = "default" -> IF st.applied = <<>> THEN Failed ELSE Chosen(TopOnes(st.applied, 1))
    [] arg.how = "all"     -> Chosen(AllPatches(st))
    [] arg.how = "lists"   -> Chosen(Only(AllPatches(st), UNION {Elems(st[x]) : x \in arg.lists}))

DeleteOf(st, l, chosen, spill) ==
  LET S      == Elems(chosen.patches)
      k      == Len(chosen.patches)
      upper  == TopOnes(st.applied, IF k < Len(st.applied) THEN k ELSE Len(st.applied))
  IN  IF ~chosen.ok \/ (spill /\ ~(Elems(upper) \subseteq S)) THEN Refuse(st, l)
      ELSE IF l = "conflicts" THEN Refuse(st, l)
      ELSE IF k = 0 THEN Nothing(st, l)
      ELSE End("done", DeleteAndPush(st, S), IF spill THEN Spilled(st, l, S) ELSE l, S)

\* The patches to commit, in the order of the stack.
CommitChosen(st, arg) ==
  LET Sorted(c) == [c EXCEPT !.patches = Only(Visible(st), Elems(@))]
  IN  CASE arg.how = "ranges" -> Sorted(ResolveNames(st, arg.ranges, "visible_to_top"))
        [] arg.how = "number" -> IF arg.n > Len(st.applied) THEN Failed
                                 ELSE Chosen(SubSeq(st.applied, 1, arg.n))
        [] OTHER              -> IF st.applied = <<>> THEN Failed
                                 ELSE IF arg.how = "all" THEN Chosen(st.applied)
                                 ELSE Chosen(<<st.applied[1]>>)

\* stg commit.  Without patches, which only an open range of an empty stack
\* chooses, the last one of them is unwrapped.  Conflicts are allowed as long as
\* the topmost patch stays.
CommitOf(st, l, arg, chosen, allow_empty) ==
  LET names  == chosen.patches
      S      == Elems(names)
      new    == CommitPatches(st, names)
      same   == S \subseteq Elems(st.applied) /\ new.applied # <<>>
                  /\ TopOnes(new.applied, 1) = TopOnes(st.applied, 1)
  IN  IF arg.how = "number" /\ arg.n = 0 THEN Nothing(st, l)
      ELSE IF ~chosen.ok \/ (~allow_empty /\ S \cap Empty # {}) THEN Refuse(st, l)
      ELSE IF names = <<>> THEN End("panicked", st, l, {})
      ELSE IF l = "conflicts" /\ ~same THEN Refuse(st, l)
      ELSE End("done", new, l, S)

\* stg clean: an empty topmost patch stays while there are conflicts.
CleanOf(st, l, applied, unapplied) ==
  LET both  == ~applied /\ ~unapplied
      low   == IF l = "conflicts" /\ st.applied # <<>>
                 THEN SubSeq(st.applied, 1, Len(st.applied) - 1) ELSE st.applied
      S     == Empty \cap (  (IF applied \/ both THEN Elems(low) ELSE {})
                        \cup (IF unapplied \/ both THEN Elems(st.unapplied) ELSE {}))
  IN  IF S = {} THEN Nothing(st, l) ELSE End("done", DeleteAndPush(st, S), l, S)

\* stg squash: the squashed patch replaces the others, on top of what is below the
\* first of them that is applied.  explicit: --name.
SquashOf(st, l, chosen, name, explicit) ==
  LET S      == Elems(chosen.patches)
      new    == IF explicit THEN name ELSE Uniquify(name, S, Elems(AllPatches(st)))
      rest   == DeletePatches(st, S)
      push   == Without(From(st, S), S)
  IN  IF l = "conflicts" \/ ~chosen.ok THEN Refuse(st, l)
      ELSE IF explicit /\ name \notin S /\ Collides(st, name) THEN Refuse(st, l)
      ELSE IF Len(chosen.patches) < 2 \/ new = NoPatch THEN Refuse(st, l)
      ELSE End("done",
               PushPatches([rest EXCEPT !.unapplied = <<new>> \o @],
                           IF S \cap Elems(st.applied) # {} THEN <<new>> \o push ELSE push),
               l, S \cup {new})

\* stg new: a name, or one made from the message.
NewOf(st, l, name, explicit) ==
  LET new == IF explicit THEN name ELSE Uniquify(name, {}, Elems(AllPatches(st)))
  IN  IF l = "conflicts" \/ (explicit /\ Collides(st, name)) \/ new = NoPatch THEN Refuse(st, l)
      ELSE End("done", [st EXCEPT !.applied = Append(@, new)], l, {new})

\* The topmost patch is renamed when only the new name is given.
RenameChosen(st, old) ==
  IF old # Open THEN ResolveName(st, old)
  ELSE IF st.applied = <<>> THEN NoPatch ELSE st.applied[Len(st.applied)]

\* stg rename; a new case of the old name is allowed.
RenameOf(st, l, o, new) ==
  LET first == CHOOSE i \in DOMAIN AllPatches(st) :
                 /\ Folded[AllPatches(st)[i]] = Folded[new]
                 /\ \A j \in 1..(i - 1) : Folded[AllPatches(st)[j]] # Folded[new]
      Renamed(s) == [i \in DOMAIN s |-> IF s[i] = o THEN new ELSE s[i]]
  IN  IF o = NoPatch THEN Refuse(st, l)
      ELSE IF Collides(st, new) /\ (HasPatch(st, new) \/ AllPatches(st)[first] # o)
        THEN Refuse(st, l)
      ELSE End("done", [applied |-> Renamed(st.applied), unapplied |-> Renamed(st.unapplied),
                        hidden |-> Renamed(st.hidden)], l, {o, new})

\* stg uncommit: names given (the base first), or made from the messages, where a
\* name made before counts as taken.
UncommitOf(st, l, names, explicit) ==
  LET Make(acc, n) == Append(acc, Uniquify(n, {}, Elems(AllPatches(st)) \cup (Elems(acc) \ {NoPatch})))
      made == IF explicit THEN Reverse(names) ELSE FoldLeft(Make, <<>>, Reverse(names))
      taken == \/ \E n \in Elems(names) : Collides(st, n)
               \/ \E i, j \in DOMAIN names : i < j /\ Folded[names[i]] = Folded[names[j]]
  IN  IF (explicit /\ taken) \/ NoPatch \in Elems(made) THEN Refuse(st, l)
      ELSE End("done", [st EXCEPT !.applied = made \o @], l, Elems(made))

\* stg pick: the names of the stack are taken; `disallow' is a new list for every
\* picked commit, so the names given to the other ones are not.
PickOf(st, l, names, noapply) ==
  LET made  == [i \in DOMAIN names |-> Uniquify(names[i], {}, Elems(AllPatches(st)))]
      added == [st EXCEPT !.unapplied = made \o @]
  IN  IF (~noapply /\ l # "clean") \/ l = "conflicts" \/ NoPatch \in Elems(made)
        THEN Refuse(st, l)
      ELSE End("done", IF noapply THEN added ELSE PushPatches(added, made), l, Elems(made))
-----------------------------------------------------------------------------
RangeArgs  == {a \in Selections : a.how = "ranges"}
RangeLists == {a.ranges : a \in RangeArgs}

NameLists(k) == UNION {[1..i -> Names] : i \in 1..k}

PushResults(st, l) ==
  {PushOf(st, l, a, PushChosen(st, a), r, n /\ a.how = "ranges", k) :
     a \in Selections, r \in BOOLEAN, n \in BOOLEAN, k \in BOOLEAN}
PopResults(st, l) ==
  {PopOf(st, l, a, PopChosen(st, a), k, s) : a \in Selections, k \in BOOLEAN, s \in BOOLEAN}
GotoResults(st, l) ==
  {GotoOf(st, l, Constrained(st, p, "visible"), k) : p \in Locators, k \in BOOLEAN}
FloatResults(st, l) ==
  {FloatOf(st, l, ResolveNames(st, r, "visible"), n, k) :
     r \in RangeLists, n \in BOOLEAN, k \in BOOLEAN}
SinkResults(st, l, nopush) ==
  {SinkOf(st, l, SinkChosen(st, r), FALSE, NoPatch, FALSE, nopush) : r \in RangeLists \cup {<<>>}}
  \cup {SinkOf(st, l, SinkChosen(st, r), TRUE, Constrained(st, t, "applied"), a, nopush) :
          r \in RangeLists \cup {<<>>}, t \in Locators, a \in BOOLEAN}
HideResults(st, l)   == {HideOf(st, l, ResolveNames(st, r, "all")) : r \in RangeLists}
UnhideResults(st, l) == {UnhideOf(st, l, ResolveNames(st, r, "hidden")) : r \in RangeLists}
DeleteResults(st, l) ==
  {DeleteOf(st, l, DeleteChosen(st, a), s) :
     a \in {b \in Selections : b.how # "number"}
           \cup {[how |-> "lists", lists |-> x] :
                   x \in SUBSET {"applied", "unapplied", "hidden"} \ {{}}},
     s \in BOOLEAN}
CommitResults(st, l) ==
  {CommitOf(st, l, a, CommitChosen(st, a), e) :
     a \in {b \in Selections : b.how = "number" => b.n >= 0}, e \in BOOLEAN}
CleanResults(st, l)  == {CleanOf(st, l, a, u) : a \in BOOLEAN, u \in BOOLEAN}
SquashResults(st, l) ==
  {SquashOf(st, l, ResolveNames(st, r, "all"), n, e) :
     r \in RangeLists, n \in Names, e \in BOOLEAN}
NewResults(st, l)    == {NewOf(st, l, n, e) : n \in Names, e \in BOOLEAN}
RenameResults(st, l) ==
  {RenameOf(st, l, RenameChosen(st, o), n) : o \in Locators \cup {Open}, n \in Names}
UncommitResults(st, l) == {UncommitOf(st, l, n, e) : n \in NameLists(2), e \in BOOLEAN}
PickResults(st, l)   == {PickOf(st, l, n, a) : n \in NameLists(PicksAtOnce), a \in BOOLEAN}

\* A command that is refused, has nothing to do or panics changes nothing.
Run(results) ==
  \E r \in results :
    /\ r.outcome = "done" /\ Len(AllPatches(r.stack)) <= MaxPatches
    /\ stack' = r.stack /\ local' = r.local

Push     == Run(PushResults(stack, local))
Pop      == Run(PopResults(stack, local))
Goto     == Run(GotoResults(stack, local))
Float    == Run(FloatResults(stack, local))
Sink     == Run(SinkResults(stack, local, FALSE) \cup SinkResults(stack, local, TRUE))
Hide     == Run(HideResults(stack, local))
Unhide   == Run(UnhideResults(stack, local))
Delete   == Run(DeleteResults(stack, local))
Commit   == Run(CommitResults(stack, local))
Clean    == Run(CleanResults(stack, local))
Squash   == Run(SquashResults(stack, local))
New      == Run(NewResults(stack, local))
Rename   == Run(RenameResults(stack, local))
Uncommit == Run(UncommitResults(stack, local))
Pick     == Run(PickResults(stack, local))

\* The user edits, a merge conflicts, the user resolves or commits.
Worktree == local' \in Locals \ {local} /\ UNCHANGED stack

Init ==
  /\ stack = [applied |-> <<>>, unapplied |-> <<>>, hidden |-> <<>>]
  /\ local = "clean"

Next ==
  \/ Push \/ Pop \/ Goto \/ Float \/ Sink \/ Hide \/ Unhide \/ Delete \/ Commit
  \/ Clean \/ Squash \/ New \/ Rename \/ Uncommit \/ Pick \/ Worktree

Spec == Init /\ [][Next]_vars
-----------------------------------------------------------------------------
\* No two patches have names that are equal or differ only by case, whatever
\* commands made, renamed, squashed or uncommitted them: PatchName::collides()
\* says what would happen to their references otherwise.
NoCollisions ==
  LET all == AllPatches(stack)
  IN  \A i, j \in DOMAIN all : i < j => Folded[all[i]] # Folded[all[j]]

\* The commands that leave the patches they do not name where they are.
LocalResults(st, l) ==
  PushResults(st, l) \cup PopResults(st, l) \cup FloatResults(st, l)
  \cup SinkResults(st, l, FALSE) \cup HideResults(st, l) \cup UnhideResults(st, l)
  \cup DeleteResults(st, l) \cup CommitResults(st, l) \cup CleanResults(st, l)
  \cup SquashResults(st, l) \cup RenameResults(st, l)

\* A patch that a command does not name keeps its list and its place among the
\* others there, although most commands pop and push it on their way.  goto and
\* sink --nopush move the boundary of the applied patches and nothing else: the
\* order of the visible patches they do not name is kept.
OthersStayPut ==
  /\ \A r \in LocalResults(stack, local) :
       LET Others(s) == Without(s, r.named)
       IN  /\ Others(r.stack.applied) = Others(stack.applied)
           /\ Others(r.stack.unapplied) = Others(stack.unapplied)
           /\ Others(r.stack.hidden) = Others(stack.hidden)
  /\ \A r \in GotoResults(stack, local) : Visible(r.stack) = Visible(stack)
  /\ \A r \in SinkResults(stack, local, TRUE) :
       Without(Visible(r.stack), r.named) = Without(Visible(stack), r.named)

IsSegment(w, s) == \E i \in 0..(Len(s) - Len(w)) : SubSeq(s, i + 1, i + Len(w)) = w

\* sink --above and --below (help of sink): the patches end up next to the target,
\* in the order given, wherever they came from.
SinkPlaces ==
  \A ranges \in RangeLists, t \in Elems(stack.applied), above, nopush \in BOOLEAN :
    LET chosen == SinkChosen(stack, ranges)
        names  == chosen.patches
        r      == SinkOf(stack, local, chosen, TRUE, t, above, nopush)
        place  == IF above THEN <<t>> \o names ELSE names \o <<t>>
        wanted == IF nopush /\ ~above THEN names ELSE place
    IN  r.outcome = "done" => IsSegment(wanted, r.stack.applied)

\* The ways to write a patch agree: by name, from the base, from the top, from the
\* last patch, and from any other patch; an offset that leaves the stack is refused
\* even if the next one would come back; and the patches of a contiguous range
\* (sync, series, email) are a segment of the allowed ones.
LocatorsAgree ==
  LET all == AllPatches(stack)
      top == Len(stack.applied) - 1
      Same(loc, i) == ResolveName(stack, loc) = all[i + 1]
  IN  /\ \A ranges \in RangeLists, allow \in Constraints :
           LET c == ResolveNamesContiguous(stack, ranges, allow)
           IN  c.ok => /\ c.patches = ResolveNames(stack, ranges, allow).patches
                       /\ IsSegment(c.patches, Allowed(stack, allow))
      /\ \A i \in 0..(Len(all) - 1) :
        /\ Same(ByName(all[i + 1]), i)
        /\ Same(Loc("base", 0, NoPatch, <<i + 1>>), i)
        /\ Same(Loc("top", 0, NoPatch, <<i - top>>), i)
        /\ Same(Loc("below_top", top - i, NoPatch, <<>>), i)
        /\ Visible(stack) # <<>> =>
             Same(Loc("below_last", Len(Visible(stack)) - 1 - i, NoPatch, <<>>), i)
        /\ \A j \in -2..(Len(all) + 1) :
             LET there == Loc("name", 0, all[i + 1], <<j - i>>)
                 back  == Loc("name", 0, all[i + 1], <<j - i, i - j>>)
             IN  IF j \in 0..(Len(all) - 1) THEN Same(there, j) /\ Same(back, i)
                 ELSE ResolveName(stack, there) = NoPatch /\ ResolveName(stack, back) = NoPatch

Extended(loc) == {[loc EXCEPT !.offsets = @ \o o] : o \in {<<>>, <<1>>, <<-2>>, <<-2, 2>>, <<2, -1>>}}

\* The commits that revisions name are the patches that locators and ranges name:
\* resolve_revision finds the patch that resolve_name finds, and another one only if
\* the offsets have led below the stack and back; the boundaries that stg diff takes
\* of a range are the ends of the patches that stg pick takes, if its begin is applied;
\* and a text that is a patch is that patch although git knows another commit by it.
RevisionsAgree ==
  LET BelowOnTheWay(loc) ==
        \E k \in 0..Len(loc.offsets) :
          \E r \in ResolveRevision(stack, [loc EXCEPT !.offsets = SubSeq(@, 1, k)]) : r.patch = NoPatch
      Ends(r) == ResolveSpecs(stack, << SpecN(r) >>, "visible_to_top")
  IN  /\ \A l \in Locators : \A loc \in Extended(l) :
           LET name == ResolveName(stack, loc)
               revs == ResolveRevision(stack, loc)
           IN  IF name # NoPatch THEN {r.patch : r \in revs} = {name}
               ELSE \A r \in revs : r.patch # NoPatch => BelowOnTheWay(loc)
      /\ \A r \in {a.ranges[1] : a \in RangeArgs} : \A b \in ResolveBoundaries(stack, SpecN(r), TRUE) :
           \A patches \in Ends(r) :
             \/ patches = <<>> \/ b[1].patch \notin Elems(stack.applied)
             \/ b[1].patch = patches[1].patch /\ b[2].patch = Last(patches).patch
      /\ \A n \in Elems(Visible(stack)) :
           LET loc == ByName(n)
           IN  ResolveSpecs(stack, << Spec1(SpecKind(1, 1), loc) >>, "visible_to_top")
                 = ResolveSpecs(stack, << SpecN(Single(loc)) >>, "visible_to_top")
=============================================================================
