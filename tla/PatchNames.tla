------------------------------ MODULE PatchNames ------------------------------
(***************************************************************************)
(* Patch names: what is one (PatchName::validate), how one is made of a    *)
(* commit message or a file name (PatchName::make), and how the parser of  *)
(* locators reads one (parse/name.rs).                                     *)
(*                                                                         *)
(* A text is a sequence of characters.  "lock", "LOCK", "base",            *)
(* "patch" and "diff" stand for these letters, "1" for digits, "a" and "A" *)
(* for every other character of a word, " " for whitespace and "~" for the *)
(* characters that are never part of a name.                               *)
(***************************************************************************)
EXTENDS Integers, Sequences, SequencesExt

CONSTANTS Texts,        \* what is given as a name
          Messages,     \* what a name is made of
          LengthLimits  \* the values of stgit.namelength

Letters    == {"a", "A", "1", "lock", "LOCK", "base", "patch", "diff"}
Characters == Letters \cup {"-", ".", " ", "~", "@", "{", "}", "\\", "\n"}

NoName == <<>>

\* The length of a text in bytes.
Width(text) ==
  LET Bytes(c) == CASE c \in {"lock", "LOCK", "base", "diff"} -> 4 [] c = "patch" -> 5 [] OTHER -> 1
  IN  FoldLeft(LAMBDA sum, c : sum + Bytes(c), 0, text)

Split(text, sep) ==
  FoldLeft(LAMBDA parts, c : IF c = sep THEN Append(parts, <<>>)
                             ELSE Front(parts) \o << Append(Last(parts), c) >>,
           << <<>> >>, text)

\* trim_matches().
TrimBoth(text, S) ==
  LET kept == {i \in DOMAIN text : text[i] \notin S}
      Least == CHOOSE i \in kept : \A j \in kept : i <= j
      Most  == CHOOSE i \in kept : \A j \in kept : j <= i
  IN  IF kept = {} THEN <<>> ELSE SubSeq(text, Least, Most)

EndsWithLock(text) == IsSuffix(<<".", "lock">>, text)
-----------------------------------------------------------------------------
\* PatchName::validate.
Valid(text) ==
  /\ text # <<>> /\ text[1] # "."
  /\ \A i \in DOMAIN text :
       /\ text[i] = "." => i < Len(text) /\ text[i + 1] # "."
       /\ text[i] = "@" /\ i < Len(text) => text[i + 1] # "{"
       /\ text[i] \notin {" ", "\n", "~", "\\"}
  /\ ~EndsWithLock(text)
  /\ text # <<"{", "base", "}">> /\ text # <<"@">>

\* FromStr and TryFrom: a name that starts with a dash may be escaped.
FromStr(text) ==
  LET name == IF IsPrefix(<<"\\", "-">>, text) THEN Tail(text) ELSE text
  IN  IF Valid(name) THEN name ELSE NoName
-----------------------------------------------------------------------------
\* The characters of a made name: dashes instead of everything that is not part of
\* a word, and no two dashes or dots in a row.
PushChar(name, c) ==
  LET prev == IF name = <<>> THEN "none" ELSE Last(name)
  IN  CASE c \in Letters -> Append(name, c)
        [] c \in {" ", "\n"} /\ prev # "-" -> Append(name, "-")
        [] c = "." /\ prev \notin {"-", "."} -> Append(name, ".")
        [] c \notin Letters \cup {" ", "\n", "."} /\ prev \notin {"-", "."} -> Append(name, "-")
        [] OTHER -> name

Lowered(c) == CASE c = "A" -> "a" [] c = "LOCK" -> "lock" [] OTHER -> c

\* trim_end_matches(".lock").
TrimLocks[text \in Seq(Characters)] ==
  IF EndsWithLock(text) THEN TrimLocks[SubSeq(text, 1, Len(text) - 2)] ELSE text

\* Mutation of Trimmed: one pass only.
TrimmedOnce(text) == TrimBoth(TrimLocks[text], {"-", "."})

\* The loop over candidate: until neither end can be trimmed.
Trimmed(text) ==
  LET pass[t \in Seq(Characters)] ==
        LET next == TrimBoth(TrimLocks[t], {"-", "."})
        IN  IF next = t THEN t ELSE pass[next]
  IN  pass[text]

\* Cut at the end of a word; the first word is never cut.
Shortened(name, limit) ==
  LET words == SelectSeq([i \in DOMAIN Split(name, "-") |-> TrimBoth(Split(name, "-")[i], {"."})],
                         LAMBDA w : w # <<>>)
      first == IF words = <<>> THEN <<"patch">> ELSE Head(words)
      Join(acc, w) ==
        IF acc.open /\ Width(acc.name) + 1 + Width(w) <= limit
          THEN [acc EXCEPT !.name = @ \o <<"-">> \o w] ELSE [acc EXCEPT !.open = FALSE]
  IN  FoldLeft(Join, [name |-> first, open |-> TRUE], IF words = <<>> THEN <<>> ELSE Tail(words)).name

\* get_length_limit: a negative number is no limit of the user's.
LengthLimit(n) == IF n < 0 THEN 30 ELSE n

\* PatchName::make.  NoName: the name is not valid, which make() does not expect.
Make(raw, lower, limit) ==
  LET lines == SelectSeq([i \in DOMAIN Split(raw, "\n") |-> TrimBoth(Split(raw, "\n")[i], {" "})],
                         LAMBDA l : l # <<>>)
      base  == IF lines = <<>> THEN <<"patch">> ELSE Head(lines)
      pushed == FoldLeft(PushChar, <<>>, base)
      name  == IF lower THEN [i \in DOMAIN pushed |-> Lowered(pushed[i])] ELSE pushed
      candidate == IF Trimmed(name) = <<>> THEN <<"patch">> ELSE Trimmed(name)
  IN  FromStr(IF limit > 0 /\ Width(candidate) > limit THEN Shortened(candidate, limit)
              ELSE candidate)
-----------------------------------------------------------------------------
\* Mutation of EndsName: `@{' is not looked for.
EndsNameAt(input, i) ==
  LET c == input[i]
      next == IF i < Len(input) THEN input[i + 1] ELSE "none"
  IN  \/ c = "\\" /\ ~(i = 1 /\ next = "-")
      \/ c \in {" ", "\n", "~"}
      \/ c = "." /\ (i = 1 \/ next \in {".", "none"})

\* The name ends before this character.
EndsName(input, i) ==
  LET c == input[i]
      next == IF i < Len(input) THEN input[i + 1] ELSE "none"
  IN  \/ c = "\\" /\ ~(i = 1 /\ next = "-")
      \/ c \in {" ", "\n", "~"}
      \/ c = "." /\ (i = 1 \/ next \in {".", "none"})
      \/ c = "@" /\ next = "{"

\* patch_name: the name at the start of the input, without a dot at its end.
ParsePatchName(input) ==
  LET stop == CHOOSE i \in 1..(Len(input) + 1) :
                /\ i <= Len(input) => EndsName(input, i)
                /\ \A j \in 1..(i - 1) : ~EndsName(input, j)
      scanned == SubSeq(input, IF IsPrefix(<<"\\", "-">>, input) THEN 2 ELSE 1, stop - 1)
      dotted  == scanned # <<>> /\ Last(scanned) = "."
      name    == IF dotted THEN Front(scanned) ELSE scanned
      split   == IF dotted THEN stop - 1 ELSE stop
  IN  IF name = <<>> \/ EndsWithLock(name) \/ name \in {<<"@">>, <<"{", "base", "}">>}
        THEN [name |-> NoName, rest |-> input]
        ELSE [name |-> name, rest |-> SubSeq(input, split, Len(input))]
=============================================================================
