------------------------------- MODULE UndoLog -------------------------------
(***************************************************************************)
(* The log of stack states, and how undo and redo find their way in it.    *)
(*                                                                         *)
(* refs/stacks/<branch> names the commit of the current state; each state  *)
(* records its predecessor, and the message of its commit is the command   *)
(* that made it.  There is no other record of what was undone: undo and    *)
(* redo parse the messages (cmd/undo.rs).  A stack state is a number here, *)
(* paired with the branch head it records.                                 *)
(***************************************************************************)
EXTENDS Integers, Sequences

CONSTANTS MaxMade,      \* bound: stack states and branch heads ever made
          MaxLog,       \* bound: length of the log
          Width,        \* bits of an isize and a usize
          UndoNumbers,  \* the values of undo --number
          RedoNumbers,  \* the values of redo --number
          UndoAfterGit, \* the user runs undo or redo right after git moved the branch
          Resets        \* the user runs stg reset

ASSUME BoundsAssumption == MaxMade \in Nat /\ MaxLog \in Nat

\* The second part is arithmetic that the proofs need.
ASSUME WidthAssumption ==
  Width \in Nat \ {0} /\ 2^Width = 2 * 2^(Width - 1) /\ 2^(Width - 1) \in Nat \ {0}

ASSUME NumbersAssumption ==
  /\ UndoNumbers \subseteq 1..(2^(Width - 1) - 1)
  /\ RedoNumbers \subseteq 1..(2^Width - 1)

VARIABLES log,     \* the state commits, oldest first; the last one is the reference
          branch,  \* the branch head
          made,    \* how many states and heads have been made
          cmd      \* the command whose transaction is open

vars == <<log, branch, made, cmd>>

Positions == [stack : 0..MaxMade, head : 0..MaxMade]

\* A state commit: `state' is what it records, `prev' the one before it, `kind' and
\* `n' what parse_undo_redo_message makes of its message; `by' is the command and
\* `at' the entry it went to (history).
Last == Len(log)
Current == log[Last].state

NoCommand == [by |-> "none", n |-> 0, state |-> [stack |-> 0, head |-> 0], at |-> 0]
-----------------------------------------------------------------------------
(* isize and usize. *)

Half == 2^(Width - 1)

\* The signed integer with the low bits of x.
AsIsize(x) == ((x + Half) % 2^Width) - Half

\* A command line number of a redo becomes a negative number of undo steps (in a
\* release build, where the negation wraps too).
RedoSteps(n) == AsIsize(-AsIsize(n))

\* Mutations of FindFrom: an undo counts as one step, however many it took back; a
\* redo is passed over when it is undone; redo takes any command for an undo.
FindFromCounted(j, before) ==
  [s \in Int |-> IF s = 0 THEN j
                 ELSE IF s > 0 THEN before[IF log[j].kind = "undo" THEN s + 1 ELSE s - 1]
                 ELSE IF log[j].kind = "undo" THEN before[s + 1]
                 ELSE IF log[j].kind = "redo" THEN before[s - log[j].n]
                 ELSE 0]

FindFromPastRedo(j, before) ==
  [s \in Int |-> IF s = 0 THEN j
                 ELSE IF s > 0 THEN before[IF log[j].kind = "undo" THEN s + log[j].n
                                           ELSE IF log[j].kind = "redo" THEN s ELSE s - 1]
                 ELSE IF log[j].kind = "undo" THEN before[s + 1]
                 ELSE IF log[j].kind = "redo" THEN before[s - log[j].n]
                 ELSE 0]

FindFromPastOthers(j, before) ==
  [s \in Int |-> IF s = 0 THEN j
                 ELSE IF s > 0 THEN before[IF log[j].kind = "undo" THEN s + log[j].n ELSE s - 1]
                 ELSE IF log[j].kind = "redo" THEN before[s - log[j].n]
                 ELSE before[s + 1]]

\* The loop of find_undo_state at entry j, where `before' says how it goes on from
\* the entry before, for every number of steps that are left.
FindFrom(j, before) ==
  [s \in Int |-> IF s = 0 THEN j
                 ELSE IF s > 0 THEN before[IF log[j].kind = "undo" THEN s + log[j].n ELSE s - 1]
                 ELSE IF log[j].kind = "undo" THEN before[s + 1]
                 ELSE IF log[j].kind = "redo" THEN before[s - log[j].n]
                 ELSE 0]

\* find_undo_state: the entry that is `steps' undos back from entry i, or, for
\* negative steps, before that many undos; 0 when there is none.
FindUndoState(i, steps) ==
  LET find[j \in 0..Last] ==
        IF j = 0 THEN [s \in Int |-> 0] ELSE FindFrom(j, find[log[j].prev])
  IN  find[i][steps]
-----------------------------------------------------------------------------
Init ==
  /\ log = <<[state |-> [stack |-> 0, head |-> 0], prev |-> 0, kind |-> "other", n |-> 0,
              by |-> "other", at |-> 0]>>
  /\ branch = 0 /\ made = 0 /\ cmd = NoCommand

Idle == cmd = NoCommand

\* git moves the branch, to a new commit or to an older one.
GitMoves ==
  /\ Idle
  /\ \/ made < MaxMade /\ made' = made + 1 /\ branch' = made'
     \/ made' = made /\ branch' \in 0..made
  /\ UNCHANGED <<log, cmd>>

Begin(by, n, state, at) ==
  /\ Idle /\ Last < MaxLog - 1
  /\ cmd' = [by |-> by, n |-> n, state |-> state, at |-> at]
  /\ UNCHANGED <<log, branch>>

\* Any command that makes a new stack.
Operate ==
  /\ made < MaxMade /\ made' = made + 1
  /\ Begin("other", 0, [stack |-> made', head |-> made'], 0)

\* stg reset, to any state that was ever logged.
Reset ==
  /\ Resets
  /\ \E i \in 1..Last : Begin("other", 0, log[i].state, 0)
  /\ UNCHANGED made

\* The closure of undo and of redo: the state is looked up before execute()
\* records what git did.
Undo ==
  /\ UndoAfterGit \/ branch = Current.head
  /\ \E n \in UndoNumbers :
       LET i == FindUndoState(Last, n)
       IN  i # 0 /\ Begin("undo", n, log[i].state, i)
  /\ UNCHANGED made

Redo ==
  /\ UndoAfterGit \/ branch = Current.head
  /\ \E n \in RedoNumbers :
       LET i == FindUndoState(Last, RedoSteps(n))
       IN  i # 0 /\ Begin("redo", n, log[i].state, i)
  /\ UNCHANGED made

\* stg log --clear: a state without a predecessor.
ClearLog ==
  /\ Idle /\ Last < MaxLog
  /\ log' = Append(log, [state |-> Current, prev |-> 0, kind |-> "other", n |-> 0,
                         by |-> "other", at |-> 0])
  /\ UNCHANGED <<branch, made, cmd>>

\* log_external_mods, in execute().
LogExternalMods ==
  /\ ~Idle /\ branch # Current.head
  /\ log' = Append(log, [state |-> [Current EXCEPT !.head = branch], prev |-> Last,
                         kind |-> "other", n |-> 0, by |-> "external", at |-> 0])
  /\ UNCHANGED <<branch, made, cmd>>

\* What the message of the command's state commit is parsed as: the number has
\* to be an isize.
ParsedKind(c) == IF c.by = "undo" \/ (c.by = "redo" /\ c.n < Half) THEN c.by ELSE "other"

\* The rest of execute().
Execute ==
  /\ ~Idle /\ branch = Current.head
  /\ log' = Append(log, [state |-> cmd.state, prev |-> Last, kind |-> ParsedKind(cmd),
                         n |-> cmd.n, by |-> cmd.by, at |-> cmd.at])
  /\ branch' = cmd.state.head
  /\ cmd' = NoCommand
  /\ UNCHANGED made

\* The checkout fails: the command is aborted, what git did stays logged.
Abort ==
  /\ ~Idle /\ branch = Current.head
  /\ cmd' = NoCommand
  /\ UNCHANGED <<log, branch, made>>

Next ==
  \/ GitMoves \/ Operate \/ Reset \/ Undo \/ Redo \/ ClearLog
  \/ LogExternalMods \/ Execute \/ Abort

Spec == Init /\ [][Next]_vars
-----------------------------------------------------------------------------
(* The history that the log stands for. *)

\* What can be undone at entry i, and what can be redone, where `before' is that of
\* the entry before.
PastAt(i, before) ==
  IF log[i].prev = 0 THEN <<>>
  ELSE IF log[i].kind = "undo" THEN SubSeq(before, 1, Len(before) - log[i].n)
  ELSE Append(before, log[log[i].prev].state)

UndoneAt(i, before) ==
  IF log[i].prev = 0 \/ log[i].kind = "other" THEN <<>>
  ELSE IF log[i].kind = "undo" THEN Append(before, log[log[i].prev].state)
  ELSE SubSeq(before, 1, Len(before) - log[i].n)

Past ==
  LET past[i \in 0..Last] == IF i = 0 THEN <<>> ELSE PastAt(i, past[log[i].prev])
  IN  past[Last]

Undone ==
  LET undone[i \in 0..Last] == IF i = 0 THEN <<>> ELSE UndoneAt(i, undone[log[i].prev])
  IN  undone[Last]

History == INSTANCE UndoHistory WITH cur <- Current, past <- Past, undone <- Undone

\* The log and its messages implement a past and a list of undos: whatever
\* commands, undos and redos of any numbers, aborted ones and cleared logs went
\* before, undo and redo restore the state that the history says.
ImplementsHistory == History!Spec

\* "Consecutive undos will go back to yet older stack states" (help of undo):
\* an undo after an undo restores an entry that is older than the one before.
ConsecutiveUndosGoBack ==
  \A i \in 2..Last :
    log[i].by = "undo" /\ log[i - 1].by = "undo" => log[i].at < log[i - 1].at

\* "It is an error to redo if the last stack-modifying command was not an undo"
\* (help of redo; a redo may follow a redo).
RedoFollowsUndo ==
  \A i \in 2..Last : log[i].by = "redo" => log[i - 1].by \in {"undo", "redo"}
=============================================================================
