----------------------------- MODULE UndoHistory -----------------------------
(***************************************************************************)
(* What undo and redo promise: the stack has a past that every command     *)
(* extends; undo goes back into it, and redo takes back the last undos, as *)
(* long as no other command comes in between.  A redo is itself a command  *)
(* that can be undone.                                                     *)
(***************************************************************************)
EXTENDS Integers, Sequences

CONSTANT Positions   \* the stack states with the branch heads they record

VARIABLES cur,     \* the current one
          past,    \* what undo can go back to, oldest first
          undone   \* where the last undos came from, the last one last

vars == <<cur, past, undone>>

Init == cur \in Positions /\ past = <<>> /\ undone = <<>>

\* A command, or the recording of what git did.
Work ==
  /\ cur' \in Positions
  /\ past' = Append(past, cur)
  /\ undone' = <<>>

Undo(n) ==
  /\ n \in 1..Len(past)
  /\ cur' = past[Len(past) - n + 1]
  /\ past' = SubSeq(past, 1, Len(past) - n)
  /\ undone' = Append(undone, cur)

Redo(n) ==
  /\ n \in 1..Len(undone)
  /\ cur' = undone[Len(undone) - n + 1]
  /\ past' = Append(past, cur)
  /\ undone' = SubSeq(undone, 1, Len(undone) - n)

\* The log is cleared.
Forget == cur' = cur /\ past' = <<>> /\ undone' = <<>>

Next ==
  \/ Work \/ Forget
  \/ \E n \in 1..Len(past) : Undo(n)
  \/ \E n \in 1..Len(undone) : Redo(n)

Spec == Init /\ [][Next]_vars
=============================================================================
