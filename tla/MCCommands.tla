------------------------------ MODULE MCCommands ------------------------------
(* A small instance of Commands.  "2" can be an index, "a+1" the patch above    *)
(* "a", "A" collides with "a", "a-1" is the next name after "a".                 *)
EXTENDS Exchange

SomeNames == {"a", "A", "a-1", "2", "a+1"}

NoReading == [prefixes |-> {}, commits |-> {}, id |-> "none", n |-> 0, offsets |-> <<>>]

SomeReadings ==
  [n \in SomeNames |->
     CASE n = "2"   -> [NoReading EXCEPT !.id = "index", !.n = 2]
       [] n = "a+1" -> [NoReading EXCEPT !.prefixes = {[of |-> "a", length |-> 1, offsets |-> <<1>>]}]
       [] OTHER     -> NoReading]

LowerCase == [n \in SomeNames |-> IF n = "A" THEN "a" ELSE n]

Increment == [n \in SomeNames \cup {NoPatch} |-> IF n = "a" THEN "a-1" ELSE NoPatch]

EmptyPatches == {"2"}

SomeLocators == {ByName(n) : n \in SomeNames}
  \cup {Loc("top", 0, NoPatch, <<>>), Loc("below_last", 0, NoPatch, <<>>)}

SomeRanges ==
  {Between(Open, Open)}
  \cup {Between(Open, ByName(n)) : n \in SomeNames}
  \cup {Between(ByName(n), Open) : n \in SomeNames}
  \cup {Between(ByName(m), ByName(n)) : m \in {"a", "2", "a+1"}, n \in {"a", "2", "A"}}

Singles == {Single(ByName(n)) : n \in {"a", "A", "2"}}

SomeNumbers == -2..3

SomeSelections ==
  {[how |-> h, n |-> 0, ranges |-> <<>>] : h \in {"all", "default"}}
  \cup {[how |-> "number", n |-> n, ranges |-> <<>>] : n \in SomeNumbers}
  \cup {[how |-> "ranges", n |-> 0, ranges |-> <<r>>] : r \in SomeRanges \cup Singles}
  \cup {[how |-> "ranges", n |-> 0, ranges |-> <<r, s>>] : r \in Singles, s \in Singles}

Sequences(S, k) == UNION {[1..i -> S] : i \in 0..k}

SomeTexts ==
  Sequences({"a", "lock", "base", "-", ".", "@", "{", "}", "\\"}, 4) \cup Sequences({"a", ".", " ", "~"}, 3)

SomeMessages ==
  Sequences({"a", "lock", "LOCK", "-", ".", " ", "~"}, 4) \cup Sequences({"a", " ", "\n"}, 3)
    \cup Sequences({"a", "1", "-", ".", "patch"}, 4) \cup Sequences({"a", ".", "diff", "patch"}, 3)

\* -1: the default; 0: no limit.
SomeLimits == {-1, 0, 3}

\* Text, a line with whitespace at its end, one of whitespace only, comments, and
\* lines that look like the headers and like the cut line.
SomeLines ==
  {Text("t"), Blank, Comment, CutLine, Line("text", <<"t", " ">>), Line("text", <<" ">>),
   Line("patch", <<"a">>)}

SomeEditMessages == Sequences(SomeLines, 3) \cup Sequences({Text("t"), Blank, Comment}, 5)

SomeMailMessages ==
  Sequences({Text("t"), Blank, Line("text", <<"t", " ">>), Line("patch", <<"a">>), Line("date", <<"then">>),
             Line("subject", <<"u">>), Line("commit", <<>>), Line("dashes", <<>>)}, 3)
    \cup Sequences({Text("t"), Blank, Line("text", <<" ", "t">>), Line("author", <<"n">>)}, 5)

SomeAuthors == {[name |-> <<"n">>, email |-> <<"e">>, time |-> "then"],
                [name |-> <<>>, email |-> <<"e">>, time |-> "then"]}

SomeTyped ==
  [renamed   |-> << Line("patch", <<"A">>), Line("author", <<"n", "<", "e", ">">>), Blank, Text("t") >>,
   made      |-> << Line("patch", <<>>), Blank, Text("u") >>,
   headless  |-> << Text("u"), Comment >>,
   misspelt  |-> << Line("patch", <<"a~b">>), Blank, Text("t") >>,
   empty     |-> << Comment, Blank >>]
=============================================================================
