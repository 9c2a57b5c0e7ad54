------------------------------- MODULE Exchange -------------------------------
(***************************************************************************)
(* Patches as files: what stg export writes with its own template, and     *)
(* what stg import makes of a file (cmd/export.rs, cmd/import.rs): the     *)
(* split into message and diff, the headers in the message, the name.      *)
(*                                                                         *)
(* Lines are those of PatchEdit.  The other kinds: the headers "subject"   *)
(* and "id", "commit" for the first line of git show, "dashes" for `---'   *)
(* alone or before a file name, "stat" for a diffstat.  " " at the start   *)
(* of a line is indentation by four or more blanks.                        *)
(***************************************************************************)
EXTENDS PatchEdit

CONSTANT MailMessages  \* messages of exported patches, as sequences of lines
-----------------------------------------------------------------------------
(* export. *)

\* The file of a patch: number, name and extension.
FileName(name, numbered, extension) ==
  (IF numbered THEN <<"1", "-">> ELSE <<>>) \o name \o extension

TrimEnd(words) ==
  LET last == CHOOSE i \in 0..Len(words) :
                (i > 0 => words[i] # " ") /\ \A j \in (i + 1)..Len(words) : words[j] = " "
  IN  SubSeq(words, 1, last)

\* The description after its first line, without the newlines before it and the
\* whitespace after it.
LongDescr(lines) ==
  LET rest  == Tail(lines)
      full  == {i \in DOMAIN rest : Trim(rest[i].words) # <<>> \/ rest[i].kind # "text"}
      begin == CHOOSE i \in DOMAIN rest : rest[i] # Blank /\ \A j \in 1..(i - 1) : rest[j] = Blank
      end   == CHOOSE i \in full : \A j \in full : j <= i
  IN  IF full = {} THEN <<>>
      ELSE [i \in 1..(end - begin + 1) |->
              IF begin + i - 1 < end THEN rest[begin + i - 1]
              ELSE [rest[end] EXCEPT !.words = TrimEnd(@)]]

\* The template PATCHEXPORT_TMPL, and the diff after it.
Export(commit) ==
  LET lines == IF commit.message.lines = <<>> THEN << Blank >> ELSE commit.message.lines
      long  == LongDescr(lines)
      stat  == IF commit.tree = "0" THEN <<>> ELSE << Line("stat", <<>>) >>
  IN  << Head(lines), Blank,
         Line("author", commit.author.name \o <<"<">> \o commit.author.email \o <<">">>), Blank >>
      \o (IF long = <<>> THEN << Blank >> ELSE long)
      \o << Line("dashes", <<>>) >> \o stat \o << Blank >> \o DiffOf(commit.tree)
-----------------------------------------------------------------------------
(* import. *)

\* split_patch: the diff starts at the first line that may be its first.
SplitPatch(lines) ==
  LET i == SelectInSeq(lines, LAMBDA l : l.kind \in {"dashes", "diff"})
  IN  IF i = 0 THEN [message |-> lines, diff |-> <<>>]
      ELSE [message |-> SubSeq(lines, 1, i - 1), diff |-> SubSeq(lines, i, Len(lines))]

Dedent(line, dedent) ==
  IF dedent /\ line.words # <<>> /\ Head(line.words) = " "
    THEN [line EXCEPT !.words = Tail(@)] ELSE line

\* Mutation of ParseLine: the message begins with the subject, as a blank line ends
\* the headers of a mail.
ParseLineMail(acc, line) ==
  LET words == Trim(line.words)
      value == [line EXCEPT !.words = words]
  IN  IF acc.body THEN [acc EXCEPT !.message = Append(@, Dedent(line, acc.dedent))]
      ELSE IF line.kind = "text" /\ words = <<>> THEN acc
      ELSE IF line.kind = "patch" /\ words # <<>> THEN [acc EXCEPT !.patchname = << words[1] >>]
      ELSE IF line.kind = "author" THEN [acc EXCEPT !.author = ParseNameEmail(words), !.ok = @ /\ ParseNameEmail(words) # <<>>]
      ELSE [acc EXCEPT !.subject = << value >>, !.body = TRUE]

\* One line in Headers::parse_message.  Headers may stand before and after the
\* subject; the second line that is none starts the body, in which nothing is
\* looked for any more.
ParseLine(acc, line) ==
  LET words == Trim(line.words)
      value == [line EXCEPT !.words = words]
      who   == ParseNameEmail(words)
  IN  CASE ~acc.ok -> acc
        [] acc.ok /\ acc.body -> [acc EXCEPT !.message = Append(@, Dedent(line, acc.dedent))]
        [] OTHER ->
             CASE line.kind = "text" /\ words = <<>>   -> acc
               [] line.kind = "patch" /\ words # <<>>  -> [acc EXCEPT !.patchname = << words[1] >>]
               [] line.kind = "author"  -> [acc EXCEPT !.author = who, !.ok = who # <<>>]
               [] line.kind = "date"    -> [acc EXCEPT !.date = words]
               [] line.kind = "subject" -> [acc EXCEPT !.subject = << [value EXCEPT !.kind = "text"] >>]
               [] line.kind = "id"      -> acc
               [] OTHER ->
                    IF acc.subject # <<>> THEN [acc EXCEPT !.message = << value >>, !.body = TRUE]
                    ELSE IF line.kind = "commit" THEN [acc EXCEPT !.dedent = TRUE]
                    ELSE [acc EXCEPT !.subject = << value >>]

ParseMessage(lines) ==
  FoldLeft(ParseLine,
           [ok |-> TRUE, patchname |-> <<>>, author |-> <<>>, date |-> <<>>, subject |-> <<>>,
            message |-> <<>>, dedent |-> FALSE, body |-> FALSE], lines)

Extensions == {<<".", "diff">>, <<".", "patch">>}

\* stripname: the number in front and one extension.
StripName(text) ==
  LET kept == {i \in DOMAIN text : text[i] \notin {"1", "-"}}
      from == IF kept = {} THEN Len(text) + 1 ELSE CHOOSE i \in kept : \A j \in kept : i <= j
      name == SubSeq(text, from, Len(text))
  IN  IF \E e \in Extensions : IsSuffix(e, name) THEN SubSeq(name, 1, Len(name) - 2) ELSE name

\* The name that is made of the file's, before it is made unique.
ImportedName(file, strip, limit) == Make(IF strip THEN StripName(file) ELSE file, FALSE, limit)

\* The default author is the user, at this time.
DefaultAuthor == [name |-> <<"user">>, email |-> <<"user">>, time |-> "now"]

ImportedAuthor(h) ==
  IF h.author = <<>> THEN DefaultAuthor
  ELSE [name |-> h.author[1].name, email |-> h.author[1].email,
        time |-> IF h.date = <<>> THEN DefaultAuthor.time ELSE h.date[1]]

\* apply_to_worktree_and_index on a clean tree "0", << >> if it fails: a diff of
\* nothing but dashes is none; git skips what stands before the first file.
ImportedTree(diff) ==
  LET files == SelectSeq(diff, LAMBDA l : l.kind = "diff")
      said  == SelectSeq(diff, LAMBDA l : l # Blank)
  IN  IF files # <<>> THEN files[1].words
      ELSE IF said = <<>> \/ (Len(said) = 1 /\ said[1].kind = "dashes") THEN <<"0">> ELSE <<>>

\* create_patch up to the editing, which gives the commit its message and author.
Edited(h, tree) ==
  LET text == Message((IF h.subject = <<>> THEN <<>> ELSE h.subject \o << Blank >>) \o h.message)
      name == CHOOSE n \in Names : TRUE
  IN  Edit(NoStack, [ImportBuilder(name, ImportedAuthor(h), text) EXCEPT
                       !.tree = tree, !.autosign = FALSE], NoArgs, "fails", "none", NoPatch)

Imported(h, tree) ==
  IF ~h.ok \/ tree = <<>> THEN [ok |-> FALSE]
  ELSE [ok |-> TRUE, header |-> h.patchname, commit |-> Edited(h, tree[1]).commit[1]]

\* import_file and create_patch.
Import(lines) == Imported(ParseMessage(SplitPatch(lines).message), ImportedTree(SplitPatch(lines).diff))
-----------------------------------------------------------------------------
HeaderKinds == {"patch", "author", "date", "subject", "id"}

\* A message that is not taken for something else: its first line is a subject, the
\* first line of its body no header, and no line starts a diff.
Mailable(lines) ==
  LET long == LongDescr(lines)
  IN  /\ lines # <<>> /\ lines[1] # Blank
      /\ lines[1].kind \notin HeaderKinds \cup {"commit"} /\ " " \notin Elems(lines[1].words)
      /\ Len(lines) > 1 => lines[2] = Blank
      /\ long # <<>> => lines[3] = long[1] /\ long[1].kind \notin HeaderKinds /\ " " \notin Elems(long[1].words)
      /\ \A i \in DOMAIN lines : lines[i].kind \notin {"dashes", "diff"}

\* new: what came back of the commit.
SamePatch(commit, new) ==
  LET lines == commit.message.lines
      long  == LongDescr(lines)
  IN  /\ TrimNewlines(new.message.lines) = << lines[1] >> \o (IF long = <<>> THEN <<>> ELSE << Blank >> \o long)
      /\ new.author.name = commit.author.name /\ new.author.email = commit.author.email
      /\ new.tree = commit.tree

\* A patch that is exported and imported again is the same patch: it has its name
\* back (with --stripname, whatever number and extension the file had), its message
\* but for empty lines at the end, the name and address of its author, and its
\* change.  (Not so the messages that Mailable leaves out, and names that Make gives
\* another form or stripname mistakes for a number or an extension.)
ExportImportKeeps ==
  Init =>
    /\ \A lines \in MailMessages, author \in EditAuthors, tree \in {"0", "1"} :
         LET commit == [author |-> author, message |-> Message(lines), tree |-> tree]
         IN  Mailable(lines) => \A new \in {Import(Export(commit))} :
                                  new.ok /\ new.header = <<>> /\ SamePatch(commit, new.commit)
    /\ \A raw \in Messages, numbered \in BOOLEAN, extension \in Extensions \cup {<<>>}, n \in LengthLimits :
         LET limit == LengthLimit(n)
             name  == Make(raw, TRUE, limit)
         IN  \/ name = NoName \/ Follow(name, ".", {"-"}) \/ name[1] = "1"
             \/ extension = <<>> /\ \E e \in Extensions : IsSuffix(e, name)
             \/ ImportedName(FileName(name, numbered, extension), TRUE, limit) = name
=============================================================================
