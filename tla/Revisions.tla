------------------------------- MODULE Revisions -------------------------------
(***************************************************************************)
(* How a command line names commits: stgit revisions (patch/revspec.rs,    *)
(* PatchLocator::resolve_revision, PatchRangeBounds::resolve_revisions),   *)
(* where an offset may lead below the stack and a text that names no patch *)
(* may be anything that git knows.                                         *)
(*                                                                         *)
(* What resolves to nothing, an error in the code, is the empty set here;  *)
(* everything else is the set of one revision.                             *)
(***************************************************************************)
EXTENDS PatchRanges

CONSTANTS BaseDepth,    \* how many commits there are below the base
          GitRevisions  \* the texts that git resolves

ASSUME BaseDepthAssumption == BaseDepth \in Nat

\* A revision: the patch, if it is one, and the commit, by its place in the stack
\* (the base is at -1, its parent at -2) or by git's name.
Revision(patch, commit) == [patch |-> patch, commit |-> commit]

AtIndex(st, i) ==
  Revision(IF i >= 0 THEN AllPatches(st)[i + 1] ELSE NoPatch, <<"stack", i>>)

\* Where the offsets start: the base needs none here, and a number below it is one.
RevisionStart(st, d) ==
  CASE d.id = "base"      -> {-1}
    [] d.id = "from_base" -> {i \in {d.n - 1} : i < Len(AllPatches(st))}
    [] OTHER              -> {StartIndex(st, d)} \ {Outside}

\* PatchLocator::resolve_revision: on its way an offset may leave the stack at the
\* bottom but not at its end.
ResolveRevision(st, loc) ==
  LET d    == Disambiguate(st, loc)
      Step(S, o) == {i \in {j + o : j \in S} : i < Len(AllPatches(st))}
      last == FoldLeft(Step, RevisionStart(st, d), d.offsets)
  IN  {AtIndex(st, i) : i \in {j \in last : j >= -1 - BaseDepth}}

\* resolve_git_like: never a patch, even if one has this commit.
ResolveGitLike(text) == IF text \in GitRevisions THEN {Revision(NoPatch, <<"git", text>>)} ELSE {}

\* patch_and_or_git_like_spec: what a text can be is decided by how much of it each
\* parser takes; the stack decides only between equals.
SpecKind(patch_length, git_length) ==
  CASE patch_length = 0 /\ git_length = 0 -> "error"
    [] patch_length > git_length -> "patch"
    [] patch_length < git_length -> "git"
    [] OTHER -> "both"

\* SingleRevisionSpec::resolve, for a text that both parsers take, or one of them.
ResolveSingle(st, kind, loc) ==
  LET patch == ResolveRevision(st, loc)
      git   == ResolveGitLike(loc.text)
  IN  CASE kind = "patch" -> patch
        [] kind = "git"   -> git
        [] kind = "both"  -> IF patch # {} THEN patch ELSE git
        [] OTHER          -> {}

\* Mutation of RevisionBounds: an open end is the last patch.
RevisionBoundsToLast(st, r, applied_boundary) ==
  LET Ends(s, i) == {IF s = <<>> THEN AtIndex(st, -1) ELSE AtIndex(st, i)}
      begin == IF r.begin # Open THEN ResolveRevision(st, r.begin) ELSE Ends(st.applied, 0)
      end   == IF r.end # Open THEN ResolveRevision(st, r.end)
               ELSE Ends(Visible(st), Len(Visible(st)) - 1)
  IN  {<<b, e>> : b \in begin, e \in end}

\* PatchRangeBounds::resolve_revisions.  An open begin is the first applied patch, an
\* open end the topmost or the last visible one; without patches both are the base.
RevisionBounds(st, r, applied_boundary) ==
  LET Ends(s, i) == {IF s = <<>> THEN AtIndex(st, -1) ELSE AtIndex(st, i)}
      begin == IF r.begin # Open THEN ResolveRevision(st, r.begin) ELSE Ends(st.applied, 0)
      end   == IF r.end # Open THEN ResolveRevision(st, r.end)
               ELSE IF applied_boundary THEN Ends(st.applied, Len(st.applied) - 1)
               ELSE Ends(Visible(st), Len(Visible(st)) - 1)
  IN  {<<b, e>> : b \in begin, e \in end}

\* RangeRevisionSpec::resolve_revisions (stg diff); a single revision is no range.
ResolveBoundaries(st, spec, applied_boundary) ==
  IF spec.single THEN {<<r, r>> : r \in ResolveSingle(st, spec.kind, spec.range.begin)}
  ELSE RevisionBounds(st, spec.range, applied_boundary)

Spec1(kind, loc) == [single |-> TRUE, kind |-> kind, range |-> Single(loc)]
SpecN(range)     == [single |-> FALSE, kind |-> "patch", range |-> range]

\* revspec::resolve (stg pick, stg show): the revisions of all specifications, where
\* a range is one of patch names; fails as a whole.
ResolveSpecs(st, specs, allow) ==
  LET Names1(r) == ResolveNames(st, << r >>, allow)
      Revs(names) == [i \in DOMAIN names |-> AtIndex(st, PositionIn(AllPatches(st), names[i]))]
      One(spec) ==
        IF ~spec.single
          THEN IF Names1(spec.range).ok THEN {Revs(Names1(spec.range).patches)} ELSE {}
          ELSE {<< r >> : r \in ResolveSingle(st, spec.kind, spec.range.begin)}
  IN  FoldLeft(LAMBDA acc, spec : {a \o o : a \in acc, o \in One(spec)}, {<<>>}, specs)
=============================================================================
