----------------------------- MODULE PatchRanges -----------------------------
(***************************************************************************)
(* How a command line names patches: locators and ranges of locators       *)
(* (patch/locator.rs, patch/range.rs), resolved in a stack that is three   *)
(* lists of names.                                                         *)
(*                                                                         *)
(* What the parser makes of a text is given: a locator is an identifier    *)
(* with a sequence of offsets (`+2' is 2, `~' is -1).  A text that can be  *)
(* a patch name may have other readings, which Readings lists; which one   *)
(* is taken depends on the stack.  Positions count from 0, as in the code. *)
(***************************************************************************)
EXTENDS Integers, FiniteSets, Sequences, SequencesExt

CONSTANTS Names,     \* the texts that are valid patch names
          NoPatch,
          Readings   \* of each name, see ReadingsAssumption

ASSUME NoPatchAssumption == NoPatch \notin Names

\* prefixes: the names of which the text is an extension by offsets;
\* commits: the patches whose commit ids start with the text;
\* id, n: `@', `{base}', an index or a signed number, followed by offsets (`@' and
\* `{base}' alone are no patch names).
ASSUME ReadingsAssumption ==
  \A t \in Names :
    LET r == Readings[t]
    IN  /\ \A p \in r.prefixes : p.of \in Names /\ p.length \in Nat /\ p.offsets \in Seq(Int)
        /\ r.commits \subseteq Names
        /\ r.id \in {"none", "top", "base", "index", "signed"}
        /\ r.n \in Int /\ r.offsets \in Seq(Int)
        /\ r.id \in {"top", "base"} => r.offsets # <<>>

Stacks == [applied : Seq(Names), unapplied : Seq(Names), hidden : Seq(Names)]

Visible(st)     == st.applied \o st.unapplied
AllPatches(st)  == Visible(st) \o st.hidden
Elems(s)        == {s[i] : i \in DOMAIN s}
HasPatch(st, n) == n \in Elems(AllPatches(st))
Only(s, S)      == SelectSeq(s, LAMBDA n : n \in S)
Without(s, S)   == SelectSeq(s, LAMBDA n : n \notin S)
PositionIn(s, n) == (CHOOSE i \in DOMAIN s : s[i] = n) - 1
-----------------------------------------------------------------------------
(* Locators. *)

Loc(id, n, text, offsets) == [id |-> id, n |-> n, text |-> text, offsets |-> offsets]

ByName(t) == Loc("name", 0, t, <<>>)
Open      == Loc("open", 0, NoPatch, <<>>)   \* no locator at this end of a range

\* disambiguate: a name of the stack is that patch; only a text that is none is
\* read as anything else.
Disambiguate(st, loc) ==
  IF loc.id # "name"
    THEN [loc EXCEPT !.id = CASE loc.id = "top" /\ st.applied = <<>> -> "base"
                              [] loc.id = "below_top"  -> "from_top"
                              [] loc.id = "below_last" -> "from_last"
                              [] OTHER -> loc.id,
                     !.n = -loc.n]
  ELSE
  LET r        == Readings[loc.text]
      prefixes == {p \in r.prefixes : HasPatch(st, p.of)}
      longest  == CHOOSE p \in prefixes : \A q \in prefixes : q.length <= p.length
  IN  CASE HasPatch(st, loc.text) -> loc
        [] ~HasPatch(st, loc.text) /\ prefixes # {} ->
             Loc("name", 0, longest.of, longest.offsets \o loc.offsets)
        [] OTHER ->
             IF r.id \in {"top", "base"}
               THEN Loc(r.id, 0, NoPatch, r.offsets \o loc.offsets)
             ELSE IF \E p \in r.commits : HasPatch(st, p)
               THEN Loc("commit", 0, loc.text, r.offsets \o loc.offsets)
             ELSE IF r.id = "signed"
               THEN Loc(IF st.applied = <<>> THEN "from_base" ELSE "from_top",
                        r.n, NoPatch, r.offsets \o loc.offsets)
             ELSE IF r.id = "index"
               THEN Loc("index", r.n, NoPatch, r.offsets \o loc.offsets)
             ELSE loc

Outside == -2

\* Where the offsets of a locator start; the base is just below the stack.  With
\* hidden patches only, the last visible one is at 0 - 1 as a usize, which wraps in
\* a release build and is then refused as out of the stack.
StartIndex(st, d) ==
  LET all     == AllPatches(st)
      Inside(i) == IF i \in 0..(Len(all) - 1) THEN i ELSE Outside
      matches == Readings[d.text].commits \cap Elems(all)
  IN  CASE d.id = "name"   -> IF HasPatch(st, d.text) THEN PositionIn(all, d.text) ELSE Outside
        [] d.id = "commit" -> IF Cardinality(matches) = 1
                                THEN PositionIn(all, CHOOSE n \in matches : TRUE) ELSE Outside
        [] d.id = "top"    -> Len(st.applied) - 1
        [] d.id = "base"   -> IF d.offsets = <<>> THEN Outside ELSE -1
        [] d.id = "index"  -> Inside(d.n)
        [] d.id = "from_top"  -> Inside(Len(st.applied) - 1 + d.n)
        [] d.id = "from_base" -> IF d.n < 1 THEN Outside ELSE Inside(d.n - 1)
        [] d.id = "from_last" -> IF Visible(st) = <<>> THEN Outside
                                 ELSE Inside(Len(Visible(st)) - 1 + d.n)

\* Mutation of ResolveName: only the place where the offsets end has to be in
\* the stack.
ResolveNameAtEnd(st, loc) ==
  LET all == AllPatches(st)
      End(i) == IF i \in 0..(Len(all) - 1) THEN all[i + 1] ELSE NoPatch
      Walk(d) == FoldLeft(LAMBDA i, o : IF i = Outside THEN i ELSE i + o, StartIndex(st, d), d.offsets)
  IN  End(Walk(Disambiguate(st, loc)))

\* PatchLocator::resolve_name: every offset has to stay within the stack.
ResolveName(st, loc) ==
  LET all == AllPatches(st)
      Step(i, o) == IF i # Outside /\ i + o \in 0..(Len(all) - 1) THEN i + o ELSE Outside
      Walk(d) == FoldLeft(Step, StartIndex(st, d), d.offsets)
      End(i) == IF i = Outside THEN NoPatch ELSE all[i + 1]
  IN  End(Walk(Disambiguate(st, loc)))
-----------------------------------------------------------------------------
(* Ranges. *)

Constraints == {"all", "all_to_top", "visible", "visible_to_top", "applied", "unapplied",
                "hidden"}

\* get_allowed().
Allowed(st, allow) ==
  CASE allow \in {"all", "all_to_top"}         -> AllPatches(st)
    [] allow \in {"visible", "visible_to_top"} -> Visible(st)
    [] allow = "applied"   -> st.applied
    [] allow = "unapplied" -> st.unapplied
    [] allow = "hidden"    -> st.hidden

\* constrain().
Constrain(st, n, allow) == IF n \in Elems(Allowed(st, allow)) THEN n ELSE NoPatch

\* resolve_name() and constrain().
Constrained(st, loc, allow) == Constrain(st, ResolveName(st, loc), allow)

\* A range; a single patch is the range from it to it.
Between(b, e) == [begin |-> b, end |-> e]
Single(l)     == Between(l, l)

Failed == [ok |-> FALSE, patches |-> <<>>, next |-> -1]
None   == [ok |-> TRUE, patches |-> <<>>, next |-> -1]

\* The position of a locator among the allowed patches; -1 for an open end.
Position(st, loc, allow) ==
  LET At(n) == IF n = NoPatch THEN Outside ELSE PositionIn(Allowed(st, allow), n)
  IN  IF loc = Open THEN -1 ELSE At(Constrained(st, loc, allow))

\* The first and the last position of a range.  An open end is the topmost applied
\* patch for the constraints that stop there, if the range begins below it.
Limits(st, allow, begin, end) ==
  LET first == IF begin = -1 THEN 0 ELSE begin
      to_top == allow \in {"all_to_top", "visible_to_top"} /\ first < Len(st.applied)
  IN  [begin |-> first,
       end |-> IF end # -1 THEN end
               ELSE IF to_top THEN Len(st.applied) - 1 ELSE Len(Allowed(st, allow)) - 1]

Bounds(st, r, allow) ==
  Limits(st, allow, Position(st, r.begin, allow), Position(st, r.end, allow))

\* The body of the loop of resolve_names: a range may run backwards, and an open
\* range over nothing is skipped.
AddRange(st, r, allow, acc) ==
  LET allowed == Allowed(st, allow)
      Segment(b) == IF b.begin <= b.end THEN SubSeq(allowed, b.begin + 1, b.end + 1)
                    ELSE Reverse(SubSeq(allowed, b.end + 1, b.begin + 1))
      Extend(names) == IF Elems(names) \cap Elems(acc.patches) # {} THEN Failed
                       ELSE [acc EXCEPT !.patches = @ \o names]
      Add(b) == IF ~acc.ok \/ Outside \in {b.begin, b.end} THEN Failed
                ELSE IF allowed = <<>> THEN acc ELSE Extend(Segment(b))
  IN  Add(Bounds(st, r, allow))

ResolveNames(st, ranges, allow) ==
  FoldLeft(LAMBDA acc, r : AddRange(st, r, allow, acc), None, ranges)

\* The body of the loop of resolve_names_contiguous.
AddContiguous(st, r, allow, acc) ==
  LET allowed == Allowed(st, allow)
      Extend(names, next) ==
        IF Elems(names) \cap Elems(acc.patches) # {} THEN Failed
        ELSE [ok |-> TRUE, patches |-> acc.patches \o names, next |-> next]
      Add(b) == IF ~acc.ok \/ Outside \in {b.begin, b.end} THEN Failed
                ELSE IF acc.next \notin {-1, b.begin} THEN Failed
                ELSE IF allowed = <<>> THEN acc
                ELSE IF b.end < b.begin THEN Failed
                ELSE Extend(SubSeq(allowed, b.begin + 1, b.end + 1), b.end + 1)
  IN  Add(Bounds(st, r, allow))

ResolveNamesContiguous(st, ranges, allow) ==
  FoldLeft(LAMBDA acc, r : AddContiguous(st, r, allow, acc), None, ranges)
=============================================================================
