------------------------------- MODULE PatchEdit -------------------------------
(***************************************************************************)
(* Editing the name, author, message and diff of a patch (patch/edit/): by *)
(* options, by a file, or in an editor, where the user sees a text         *)
(* (description.rs) that is read back.                                     *)
(*                                                                         *)
(* A text is a sequence of lines, a line a record of its kind and what it  *)
(* says, a sequence of words; " " is trailing whitespace.  An Option is a  *)
(* sequence of at most one element.                                        *)
(***************************************************************************)
EXTENDS Commands, PatchNames

CONSTANTS EditMessages,  \* the messages of commits, as sequences of lines
          EditAuthors,   \* authors
          Typed          \* what a user may leave in the editor's file

Line(kind, words) == [kind |-> kind, words |-> words]
Text(w)  == Line("text", <<w>>)
Blank    == Line("text", <<>>)
Comment  == Line("comment", <<>>)
CutLine  == Line("cut", <<>>)

\* A message, and whether it ends with a newline.
Message(lines) == [lines |-> lines, newline |-> TRUE]

Trim(words) == SelectSeq(words, LAMBDA w : w # " ")

AllBlank(lines) == \A i \in DOMAIN lines : Trim(lines[i].words) = <<>> /\ lines[i].kind = "text"
-----------------------------------------------------------------------------
(* The description. *)

Description(name, author, message, diff) ==
  [ok |-> TRUE, patchname |-> name, author |-> author, message |-> message, diff |-> diff]

TrimNewlines(lines) ==
  LET k == CHOOSE i \in 0..Len(lines) :
             /\ \A j \in (i + 1)..Len(lines) : lines[j] = Blank
             /\ i > 0 => lines[i] # Blank
  IN  SubSeq(lines, 1, k)

\* EditablePatchDescription::write.
Write(d) ==
  LET message == TrimNewlines(d.message.lines)
      author  == IF d.author = <<>> THEN << Line("author", <<>>), Line("date", <<>>) >>
                 ELSE << Line("author", d.author[1].name \o <<"<">> \o d.author[1].email \o <<">">>),
                         Line("date", <<d.author[1].time>>) >>
  IN  << Line("patch", d.patchname) >> \o author \o << Blank >>
      \o (IF message = <<>> THEN << Blank >> ELSE message) \o << Blank, Comment >>
      \o (IF d.diff = <<>> THEN <<>> ELSE << Comment, CutLine, Comment >> \o d.diff[1])

\* parse_name_email, of the words of the line; << >> if it fails.
ParseNameEmail(words) ==
  LET Before(s, c) == SelectInSeq(s, LAMBDA w : w = c)
      open   == Before(words, "<")
      rest   == SubSeq(words, open + 1, Len(words))
      close  == Before(rest, ">")
      name   == SubSeq(words, 1, open - 1)
      email  == SubSeq(rest, 1, close - 1)
      after  == SubSeq(rest, close + 1, Len(rest))
  IN  IF open = 0 \/ close = 0 \/ ">" \in Elems(name) \/ "<" \in Elems(email) \/ Trim(after) # <<>>
        THEN <<>> ELSE << [name |-> Trim(name), email |-> Trim(email)] >>

Headers == <<"patch", "author", "date">>

\* Mutation of ReadLine: the blank line after the headers is part of the message.
ReadLineAll(acc, line) ==
  LET n == acc.n + 1
      t == [line EXCEPT !.words = Trim(@)]
      next == [acc EXCEPT !.n = n]
  IN  IF acc.cut # 0 THEN acc
      ELSE IF line = CutLine THEN [acc EXCEPT !.cut = n]
      ELSE IF line.kind = "comment" THEN next
      ELSE IF ~acc.body /\ n <= 3 /\ line.kind = Headers[n] THEN [next EXCEPT ![line.kind] = << t.words >>]
      ELSE IF t # Blank THEN [next EXCEPT !.message = Append(@, t), !.empty = FALSE, !.body = TRUE]
      ELSE IF ~acc.empty THEN [next EXCEPT !.message = Append(@, Blank), !.empty = TRUE, !.body = TRUE]
      ELSE next

\* The body of the loop over the lines.  The headers have their places; one blank
\* line after them is swallowed, and blank lines in a row are one.
ReadLine(acc, line) ==
  LET n == acc.n + 1
      t == [line EXCEPT !.words = Trim(@)]
      next == [acc EXCEPT !.n = n]
  IN  IF acc.cut # 0 THEN acc
      ELSE IF line = CutLine THEN [acc EXCEPT !.cut = n]
      ELSE IF line.kind = "comment" THEN next
      ELSE IF ~acc.body /\ n <= 3 /\ line.kind = Headers[n] THEN [next EXCEPT ![line.kind] = << t.words >>]
      ELSE IF t # Blank THEN [next EXCEPT !.message = Append(@, t), !.empty = FALSE, !.body = TRUE]
      ELSE IF acc.body /\ ~acc.empty THEN [next EXCEPT !.message = Append(@, Blank), !.empty = TRUE]
      ELSE [next EXCEPT !.empty = TRUE, !.body = TRUE]

Unreadable == [ok |-> FALSE]

\* What is made of the headers, the message and the text after the cut line.  The
\* name and the author are << >> if their header is missing and << << >> >> if it
\* is empty.
Parsed(acc, lines) ==
  LET Given(option) == option # <<>> /\ option[1] # <<>>
      who     == IF Given(acc.author) THEN ParseNameEmail(acc.author[1]) ELSE <<>>
      author  == IF ~Given(acc.author) THEN acc.author
                 ELSE << << [name |-> who[1].name, email |-> who[1].email,
                             time |-> IF Given(acc.date) THEN acc.date[1][1] ELSE "now"] >> >>
      message == IF AllBlank(acc.message) THEN <<>>
                 ELSE IF Last(acc.message) = Blank THEN Front(acc.message) ELSE acc.message
      after   == SubSeq(lines, acc.cut + 1, Len(lines))
      start   == SelectInSeq(after, LAMBDA l : l.kind # "comment")
      diff    == IF acc.cut = 0 \/ start = 0 THEN <<>> ELSE SubSeq(after, start, Len(after))
  IN  IF \/ acc.patch = <<>> /\ acc.author = <<>> /\ acc.date = <<>> /\ AllBlank(acc.message)
         \/ Given(acc.patch) /\ acc.patch[1][1] \notin Names
         \/ Given(acc.author) /\ who = <<>>
        THEN Unreadable
        ELSE Description(acc.patch, author, Message(message),
                         IF AllBlank(diff) THEN <<>> ELSE << diff >>)

\* EditedPatchDescription::try_from.
Read(lines) ==
  Parsed(FoldLeft(ReadLine,
                  [n |-> 0, patch |-> <<>>, author |-> <<>>, date |-> <<>>, message |-> <<>>,
                   body |-> FALSE, empty |-> FALSE, cut |-> 0], lines), lines)

\* What EditedPatchDescription::default() is for a command without --file.
NotRead == Description(<<>>, <<>>, Message(<<>>), <<>>)

\* prettify(), for --message.
Prettify(message) ==
  LET Add(acc, l) == LET t == [l EXCEPT !.words = Trim(@)]
                     IN  IF t = Blank /\ acc # <<>> /\ Last(acc) = Blank THEN acc ELSE Append(acc, t)
      pretty == FoldLeft(Add, <<>>, message.lines)
  IN  Message(IF pretty # <<>> /\ Last(pretty) = Blank THEN Front(pretty) ELSE pretty)
-----------------------------------------------------------------------------
(* EditBuilder.  Trees are names; the parent of the patch has tree "0", and the   *)
(* diff to a tree is one line that names it.                                       *)

DiffOf(tree) == IF tree = "0" THEN <<>> ELSE << Line("diff", <<tree>>) >>

\* apply_to_index in a temporary index; << >> if it fails.
Apply(diff) == IF Len(diff) = 1 /\ diff[1].kind = "diff" THEN diff[1].words ELSE <<>>

\* override_author and author_from_args: --author, or --authname and --authemail,
\* and --authdate.
Override(author, args) ==
  LET Or(option, default) == IF option = <<>> THEN default ELSE option[1]
  IN  [name |-> Or(args.authname, author.name), email |-> Or(args.authemail, author.email),
       time |-> Or(args.authdate, author.time)]

\* add_trailers: `stgit.autosign' comes before the trailers of the options.  What
\* git interpret-trailers makes of them is external.
AddTrailers(message, trailers) ==
  LET new   == [i \in DOMAIN trailers |-> Line("trailer", <<trailers[i]>>)]
      block == message.lines # <<>> /\ Last(message.lines).kind = "trailer"
  IN  IF trailers = <<>> THEN message
      ELSE Message(message.lines \o (IF block THEN <<>> ELSE << Blank >>) \o new)

\* kept: what is written to .stgit-failed.patch.
EditFailed(kept) == [outcome |-> "failed", kept |-> kept]

\* The options that are used instead of an editor.
Options(args) ==
  args.message \o args.file \o args.trailers \o args.authname \o args.authemail \o args.authdate

Interactive(b, args) ==
  \/ args.edit \/ (b.diff_edit /\ args.diff)
  \/ b.implicit /\ Options(args) = <<>>
  \/ args.file = <<>> /\ args.message = <<>> /\ b.message = <<>> /\ b.commit = <<>>

\* What is known before an editor runs; made: the name made of the message.
Prepared(st, b, args, file, made) ==
  LET taken   == Elems(AllPatches(st))
      author  == IF file.author # <<>> /\ file.author[1] # <<>> THEN file.author[1][1]
                 ELSE Override(IF b.author # <<>> THEN b.author[1] ELSE b.commit[1].author, args)
      message == IF args.file # <<>> THEN file.message
                 ELSE IF args.message # <<>> THEN Prettify(args.message[1])
                 ELSE IF b.message # <<>> THEN b.message[1]
                 ELSE IF b.commit # <<>> THEN b.commit[1].message
                 ELSE IF b.template # <<>> THEN b.template[1]
                 ELSE Message(<<>>)
      name    == IF b.template_patchname # <<>> THEN b.template_patchname[1]
                 ELSE IF file.patchname # <<>> /\ file.patchname[1] # <<>>
                   THEN << Uniquify(file.patchname[1][1], b.allowed, taken) >>
                 ELSE IF b.original # <<>> THEN b.original
                 ELSE IF message.lines # <<>> /\ ~Interactive(b, args)
                   THEN << Uniquify(made, b.allowed, taken) >>
                 ELSE <<>>
      trailers == (IF b.autosign THEN <<"autosign">> ELSE <<>>) \o args.trailers
      diff    == IF file.diff # <<>> THEN file.diff
                 ELSE IF Interactive(b, args) /\ args.diff THEN << DiffOf(b.tree) >> ELSE <<>>
  IN  Description(name, << author >>, AddTrailers(message, trailers), diff)

\* A header that is gone from the file stands as it was shown, one that is empty
\* stands for the default.
Merged(b, shown, read) ==
  LET Or(option, default, empty) ==
        IF option = <<>> THEN default ELSE IF option[1] = <<>> THEN empty ELSE option[1]
      again == IF b.commit # <<>> THEN << b.commit[1].author >> ELSE << "the user" >>
  IN  IF ~read.ok THEN Unreadable
      ELSE Description(Or(read.patchname, shown.patchname, <<>>),
                       Or(read.author, shown.author, again), read.message, read.diff)

\* What the editor leaves: fails, untouched, or something else in the file.  The
\* file is removed once it is read, whether or not it can be parsed.
AfterEditor(b, args, shown, editor) ==
  IF ~Interactive(b, args) THEN shown
  ELSE IF editor = "fails" THEN Unreadable
  ELSE Merged(b, shown, Read(IF editor = "untouched" THEN Write(shown) ELSE Typed[editor]))

\* Mutation of FinalName: a name typed by the user is taken as it is.
FinalNameTyped(b, edited, made, taken) ==
  IF edited.patchname # <<>> THEN edited.patchname[1]
  ELSE IF b.template_patchname # <<>> /\ b.template_patchname[1] # <<>>
    THEN Uniquify(b.template_patchname[1][1], b.allowed, taken)
  ELSE Uniquify(made, b.allowed, taken)

\* The name, if one is left in the editor; otherwise the one given to squash, or
\* one made of the message.
FinalName(b, edited, made, taken) ==
  IF edited.patchname # <<>> THEN Uniquify(edited.patchname[1], b.allowed, taken)
  ELSE IF b.template_patchname # <<>> /\ b.template_patchname[1] # <<>>
    THEN Uniquify(b.template_patchname[1][1], b.allowed, taken)
  ELSE Uniquify(made, b.allowed, taken)

\* The name, the tree and the commit of what was edited.  hook: what commit-msg
\* does.  The committer is the one of the patch; otherwise the commit is always a
\* new one.
Finished(b, args, hook, file, shown, edited, name) ==
  LET computed == IF file.diff = <<>> THEN shown.diff ELSE <<>>
      tree     == IF b.diff_edit /\ edited.diff \notin {<<>>, computed} THEN Apply(edited.diff[1])
                  ELSE << b.tree >>
      hooked   == /\ hook # "none" /\ ~args.no_verify
                  /\ Interactive(b, args) \/ b.commit = <<>> \/ b.commit[1].message # shown.message
      message  == IF hooked THEN Message(Append(edited.message.lines, Text("hook")))
                  ELSE edited.message
      commit   == [author |-> edited.author[1], message |-> message, tree |-> tree[1]]
  IN  IF ~edited.ok THEN EditFailed(<<>>)
      ELSE IF tree = <<>> THEN EditFailed(Write(edited))
      ELSE IF hooked /\ hook = "fails" THEN EditFailed(<<>>)
      ELSE [outcome |-> "edited",
            patchname |-> IF b.original = << name >> THEN <<>> ELSE << name >>,
            commit |-> IF b.commit = << commit >> THEN <<>> ELSE << commit >>]

\* From the moment that all is known which the options, or the file, say.
EditShown(st, b, args, editor, hook, made, file, shown) ==
  LET edited == AfterEditor(b, args, shown, editor)
      Done(e) == Finished(b, args, hook, file, shown, e,
                          FinalName(b, e, made, Elems(AllPatches(st))))
  IN  IF args.save_template THEN [outcome |-> "saved", text |-> Write(shown)] ELSE Done(edited)

EditFile(st, b, args, editor, hook, made, file) ==
  IF ~file.ok THEN EditFailed(<<>>)
  ELSE EditShown(st, b, args, editor, hook, made, file, Prepared(st, b, args, file, made))

\* EditBuilder::edit.
Edit(st, b, args, editor, hook, made) ==
  EditFile(st, b, args, editor, hook, made,
           IF args.file = <<>> THEN NotRead ELSE Read(args.file[1]))
-----------------------------------------------------------------------------
(* The commands that edit. *)

NoBuilder ==
  [original |-> <<>>, template_patchname |-> <<>>, allowed |-> {}, commit |-> <<>>, author |-> <<>>,
   message |-> <<>>, template |-> <<>>, tree |-> "0",
   autosign |-> FALSE, diff_edit |-> FALSE, implicit |-> FALSE]

\* stg edit; rebase -i is the same without the implicit editor, refresh also without
\* editing of the diff, and with the new tree.
EditBuilder(name, commit) ==
  [NoBuilder EXCEPT !.original = << name >>, !.allowed = {name}, !.commit = << commit >>,
                    !.tree = commit.tree, !.diff_edit = TRUE, !.implicit = TRUE]

\* stg new, with or without a name.
NewBuilder(names, author, autosign) ==
  [NoBuilder EXCEPT !.original = names, !.allowed = Elems(names), !.author = << author >>,
                    !.implicit = TRUE, !.autosign = autosign]

\* stg squash, with or without --name.
SquashBuilder(names, squashed, author, message) ==
  [NoBuilder EXCEPT !.template_patchname = << names >>, !.allowed = squashed, !.tree = "1",
                    !.author = << author >>, !.message = << message >>, !.implicit = TRUE]

\* stg import.
ImportBuilder(name, author, message) ==
  [NoBuilder EXCEPT !.original = << name >>, !.allowed = {name}, !.tree = "1", !.diff_edit = TRUE,
                    !.author = << author >>, !.message = << message >>, !.autosign = TRUE]

NoArgs ==
  [message |-> <<>>, file |-> <<>>, trailers |-> <<>>, authname |-> <<>>, authemail |-> <<>>,
   authdate |-> <<>>, edit |-> FALSE, diff |-> FALSE, no_verify |-> FALSE, save_template |-> FALSE]
-----------------------------------------------------------------------------
(* The properties of texts do not depend on the stack: they are evaluated in the *)
(* initial state only.                                                            *)

Follow(text, c, S) == \E i \in 1..(Len(text) - 1) : text[i] = c /\ text[i + 1] \in S

\* What make() makes of any text is a valid name that fits the limit or is one
\* word.  The texts that are left out: a name that is cut right after a word in
\* `.lock' is not valid, and make() panics.
MadeNamesValid ==
  Init => \A raw \in Messages, lower \in BOOLEAN, n \in LengthLimits :
    LET limit == LengthLimit(n)
        made  == Make(raw, lower, limit)
    IN  \/ limit > 0 /\ Follow(raw, ".", {"lock", "LOCK"})
        \/ /\ made # NoName /\ Valid(made)
           /\ limit > 0 => Width(made) <= limit \/ "-" \notin ToSet(made)

\* The two definitions of a patch name agree: the parser of locators reads the
\* whole of a text as a name exactly if from_str takes it, and reads the same name;
\* what it reads of a longer text is a name, too.
ParsersAgree ==
  Init => \A text \in Texts :
    LET parsed == ParsePatchName(text)
        whole  == IF parsed.rest = <<>> THEN parsed.name ELSE NoName
    IN  whole = FromStr(text) /\ (parsed.name = NoName \/ Valid(parsed.name))

\* A message that an editor shows as it is: lines that end in no whitespace, single
\* blank lines between them, no comments.
Plain(message) ==
  LET lines == message.lines
      last  == Len(lines)
  IN  /\ message.newline
      /\ \A i \in 1..last : /\ lines[i].kind \notin {"comment", "cut"} /\ " " \notin Elems(lines[i].words)
                            /\ lines[i] = Blank => i \notin {1, last} /\ lines[i - 1] # Blank

NoStack == [applied |-> <<>>, unapplied |-> <<>>, hidden |-> <<>>]

Untouched(commit, args) ==
  LET name == CHOOSE n \in Names : TRUE
  IN  Edit([NoStack EXCEPT !.applied = << name >>], EditBuilder(name, commit), args,
           "untouched", "none", NoPatch)

AfterEdit(commit, edit) == IF edit.commit = <<>> THEN commit ELSE edit.commit[1]

\* stg edit with an editor that changes nothing changes nothing if the message is
\* plain, with and without the diff; any other message is plain afterwards.  The
\* detour that the help of --save-template describes, to save the text and give it
\* to --file, arrives at the same.
UntouchedEditKeeps ==
  Init => \A lines \in EditMessages, newline \in BOOLEAN, author \in EditAuthors, tree \in {"0", "1"},
     diff \in BOOLEAN :
    LET message == [lines |-> lines, newline |-> newline]
        commit  == [author |-> author, message |-> message, tree |-> tree]
        args    == [NoArgs EXCEPT !.diff = diff]
    IN  \/ \E i \in DOMAIN lines : lines[i] = CutLine
        \/ \A once \in {Untouched(commit, args)}, saved \in {Untouched(commit, [args EXCEPT !.save_template = TRUE])} :
           \A after \in {AfterEdit(commit, once)} :
             /\ once.outcome = "edited" /\ once.patchname = <<>>
             /\ Plain(message) => once.commit = <<>>
             /\ Plain(after.message) /\ after.tree = tree /\ after.author = author
             /\ Untouched(after, args) = [once EXCEPT !.commit = <<>>]
             /\ Untouched(commit, [NoArgs EXCEPT !.file = << saved.text >>]) = once

AnAuthor == CHOOSE a \in EditAuthors : TRUE

\* Whatever the user leaves in the editor, gives as a file or as a message, the
\* patch ends up with a name that no other patch collides with; and the name in the
\* editor or, but for squash, in the file is taken if it can be.
EditedNamesFree ==
  LET message == Message(<< Text("t") >>)
      commit  == [author |-> AnAuthor, message |-> message, tree |-> "1"]
      all     == Elems(AllPatches(stack))
      Free(n, allowed) == n \in allowed \/ \A m \in all : Folded[m] # Folded[n]
      squashes == {SquashBuilder(<<>>, all \ {n}, AnAuthor, message) : n \in all}
      imports  == {ImportBuilder(n, AnAuthor, message) : n \in {m \in Names : Free(m, {})}}
      builders == squashes \cup imports \cup {EditBuilder(n, commit) : n \in all}
                    \cup {NewBuilder(<<>>, AnAuthor, FALSE)}
  IN  \A made \in Names, typed \in DOMAIN Typed, by_file \in BOOLEAN, b \in builders :
        LET args == IF by_file THEN [NoArgs EXCEPT !.file = << Typed[typed] >>] ELSE [NoArgs EXCEPT !.edit = TRUE]
        IN  \A e \in {Edit(stack, b, args, typed, "none", made)}, read \in {Read(Typed[typed])} :
              LET name  == IF e.patchname = <<>> THEN b.original[1] ELSE e.patchname[1]
                  asked == IF read.ok /\ read.patchname # <<>> THEN Elems(read.patchname[1]) ELSE {}
              IN  e.outcome = "edited" /\ name # NoPatch /\ ~(by_file /\ b \in imports) =>
                    /\ Free(name, b.allowed)
                    /\ \A n \in asked : Free(n, b.allowed) /\ ~(by_file /\ b \in squashes) => name = n
=============================================================================
