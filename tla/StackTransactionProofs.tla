----------------------- MODULE StackTransactionProofs -----------------------
(***************************************************************************)
(* Invariants of StackTransaction, for every value of its constants.       *)
(*                                                                         *)
(* The inductive invariant IInv adds to the properties: that the open      *)
(* transaction is well formed with respect to the stack it was opened on   *)
(* (WF), and that the calls the running method still has to make fit the   *)
(* lists as they are now (Pending): the patches of a pending push are not  *)
(* applied yet, and when it has run the applied list will be the one that  *)
(* the assertion at the end of the method expects.                         *)
(***************************************************************************)
EXTENDS StackTransaction, StackOpsProofs

IsPush(c) == c.op \in {"push", "push merged"}

\* When the names have been pushed, the assertion of reorder_patches will hold
\* and its lists will partition the patches.
ListsAhead(t, c, names) ==
  /\ c.op = "lists" /\ t.applied \o names = c.names
  /\ Distinct3(c.names, c.unapplied, c.hidden)
  /\ Elems(c.names) \cup Elems(c.unapplied) \cup Elems(c.hidden) = InLists(t)

\* When the names have been pushed, the patches to commit will be the
\* bottommost ones.
BaseAhead(t, c, names, p) ==
  /\ c.op = "base" /\ c.names # <<>> /\ IsPrefixOf(c.names, t.applied \o names)
  /\ \A n \in Elems(c.names) : p[n] # NoCommit

\* The shapes that the pending calls can have.
OnePush(t, cs)       == Len(cs) = 1 /\ IsPush(cs[1]) /\ Pushable(t, cs[1].names)
OneLists(t, cs)      == Len(cs) = 1 /\ ListsAhead(t, cs[1], <<>>)
OneBase(t, cs, p)    == Len(cs) = 1 /\ BaseAhead(t, cs[1], <<>>, p)
PushLists(t, cs)     == /\ Len(cs) = 2 /\ IsPush(cs[1]) /\ Pushable(t, cs[1].names)
                        /\ ListsAhead(t, cs[2], cs[1].names)
BasePush(t, cs, p)   == /\ Len(cs) = 2 /\ BaseAhead(t, cs[1], <<>>, p)
                        /\ IsPush(cs[2]) /\ Pushable(t, cs[2].names)
PushBasePush(t, cs, p) ==
  /\ Len(cs) = 3 /\ IsPush(cs[1]) /\ Pushable(t, cs[1].names)
  /\ BaseAhead(t, cs[2], cs[1].names, p)
  /\ IsPush(cs[3]) /\ Pushable(t, cs[3].names)
  /\ Elems(cs[1].names) \cap Elems(cs[3].names) = {}

\* The pending calls fit the transaction as it is now.
Pending(t, cs, p) ==
  \/ cs = <<>> \/ OnePush(t, cs) \/ OneLists(t, cs) \/ OneBase(t, cs, p)
  \/ PushLists(t, cs) \/ BasePush(t, cs, p) \/ PushBasePush(t, cs, p)

\* The states that were ever installed.
LogGood == \A i \in 1..Len(stateLog) : Good(stateLog[i])

\* Nobody else writes the stack reference, and a transaction starts from it.
OpenedState ==
  pc # "idle" => /\ stk.state = State
                 /\ ops = 0 => todo = <<>> /\ txn.patches = stk.state.patches

\* The patch references, also while a command runs.
RefsFollow ==
  pc # "idle" \/ outcome \notin {"torn", "crashed"} => patchRefs = State.patches

\* The inductive invariant.
IInv ==
  /\ TypeOK
  /\ LogGood
  /\ Good(stk.state)
  /\ WF(txn, stk.state.patches)
  /\ pc # "body" => todo = <<>>
  /\ Pending(txn, todo, stk.state.patches)
  /\ OpenedState
  /\ RefsFollow
-----------------------------------------------------------------------------
\* The states of the log, the last and the oldest one among them, are good.
LEMMA StateType ==
  ASSUME TypeOK, LogGood
  PROVE  /\ State \in States /\ Good(State) /\ Oldest \in States /\ Good(Oldest)
         /\ \A i \in 1..Len(stateLog) : stateLog[i] \in States
BY DEF TypeOK, LogGood, State, Oldest

\* A list argument of a method names distinct patches.
LEMMA ListsType ==
  ASSUME NEW S \in SUBSET Names, NEW names \in Lists(S)
  PROVE  /\ names \in Seq(Names) /\ NoDuplicates(names) /\ Elems(names) \subseteq S
         /\ names # <<>>
<1>1. PICK k \in 1..MaxPush : names \in [1..k -> S]
  BY DEF Lists
<1>2. k \in Nat /\ k > 0
  BY <1>1, BoundsAssumption
<1>3. names \in Seq(S) /\ names \in Seq(Names) /\ Len(names) = k
  BY <1>1, <1>2
<1>4. names # <<>>
  BY <1>2, <1>3
<1>5. Elems(names) \subseteq S
  BY <1>1 DEF Elems
<1> QED BY <1>3, <1>4, <1>5 DEF Lists

\* The calls a method makes are calls.
LEMMA CallTypes ==
  ASSUME NEW a \in Seq(Names), NEW u \in Seq(Names), NEW h \in Seq(Names)
  PROVE  /\ PushCall(a) \in Calls /\ MergedCall(a) \in Calls /\ BaseCall(a) \in Calls
         /\ ListsCall(a, u, h) \in Calls
BY DEF PushCall, MergedCall, BaseCall, ListsCall, CallOn, Calls

\* The invariant holds when the first command is about to open the stack.
LEMMA InitIInv == Init => IInv
<1> SUFFICES ASSUME Init PROVE IInv
  OBVIOUS
<1>1. PICK s \in InitStates : /\ stateLog = <<s>> /\ branch = s.head /\ patchRefs = s.patches
                              /\ wd = ReadTreeCheckoutHard(Tree(s.head))
  BY DEF Init
<1>2. s \in States /\ Partitioned(s) /\ Chained(s)
  BY InitAssumption
<1>3. s.applied \in Seq(Names) /\ s.unapplied \in Seq(Names) /\ s.hidden \in Seq(Names)
  BY <1>2 DEF States
<1>3a. Good(s)
  BY <1>2, <1>3, PartitionedIsGood
<1>4. s.head \in Commits /\ s.patches \in PatchMaps /\ Tree(s.head) \in Trees
  BY <1>2, CommitTypes DEF States
<1>5. Oldest = s /\ State = s /\ Len(stateLog) = 1 /\ stateLog[1] = s /\ stateLog \in Seq(States) \ {<<>>}
  BY <1>1, <1>2 DEF Oldest, State
<1>6. LogGood
  BY <1>3a, <1>5 DEF LogGood
<1>7. wd \in Workdirs /\ ReadTreeCheckoutHard(Tree(s.head)) \in Workdirs
  BY <1>1, <1>4 DEF ReadTreeCheckoutHard, Workdirs
<1>8. stk = [state |-> s, head |-> s.head] /\ txn = Begin(s, s.head, "disallow")
  BY <1>5 DEF Init, NoStack, NoTxn
<1>9. WF(txn, s.patches)
  BY <1>2, <1>3a, <1>4, <1>8, BeginOK DEF ConflictModes
<1>10. temp \in Temps /\ snap \in [branch : Commits, state : States, wd : Workdirs] /\ opts \in AllOptions
  <2>1. temp \in Temps
    BY <1>4, <1>5 DEF Init, NoTemp, Temps
  <2>2. snap \in [branch : Commits, state : States, wd : Workdirs]
    BY <1>2, <1>4, <1>5, <1>7 DEF Init, NoSnap
  <2>3. opts \in AllOptions
    BY DEF Init, NoOptions, AllOptions, ConflictModes, Methods
  <2> QED BY <2>1, <2>2, <2>3
<1>11. TypeOK
  BY <1>1, <1>2, <1>4, <1>5, <1>7, <1>8, <1>9, <1>10 DEF TypeOK, Init, WF
<1>12. RefsFollow /\ OpenedState
  BY <1>1, <1>5 DEF RefsFollow, OpenedState, Init
<1>13. Pending(txn, todo, stk.state.patches) /\ todo = <<>>
  BY DEF Pending, Init
<1> QED BY <1>3a, <1>6, <1>8, <1>9, <1>11, <1>12, <1>13 DEF IInv

\* A method call preserves the invariant if it leaves a well-formed transaction
\* and calls that this transaction is ready for.
LEMMA CallStep ==
  ASSUME IInv, NEW method, NEW t, NEW cs \in Seq(Calls), Call(method, t, cs),
         WF(t, stk.state.patches), Pending(t, cs, stk.state.patches)
  PROVE  IInv'
<1>1. /\ pc = "body" /\ pc' = pc /\ txn' = t /\ todo' = cs /\ ops' = ops + 1
      /\ UNCHANGED <<stateLog, branch, patchRefs, wd, opts, stk, outcome, snap, temp, err>>
  BY DEF Call, repo, body
<1>2. TypeOK /\ txn' \in Transactions /\ todo' \in Seq(Calls) /\ ops' \in Nat /\ ops' # 0
  BY <1>1 DEF IInv, TypeOK, WF
<1>3. TypeOK'
  BY <1>1, <1>2 DEF TypeOK
<1>4. LogGood' /\ RefsFollow' /\ OpenedState'
  BY <1>1, <1>2 DEF IInv, LogGood, RefsFollow, OpenedState, State
<1>5. Good(stk.state)' /\ WF(txn, stk.state.patches)' /\ Pending(txn, todo, stk.state.patches)'
  <2>1. stk'.state = stk.state
    BY <1>1
  <2>2. Good(stk'.state) /\ WF(txn', stk'.state.patches) /\ Pending(txn', todo', stk'.state.patches)
    BY <1>1, <2>1 DEF IInv
  <2> QED BY <2>2
<1> QED BY <1>1, <1>3, <1>4, <1>5 DEF IInv
-----------------------------------------------------------------------------
\* What the invariant says of the transaction and of the opened stack.
LEMMA TxnFacts ==
  ASSUME IInv
  PROVE  /\ txn \in Transactions /\ Good(txn) /\ Distinct3(txn.applied, txn.unapplied, txn.hidden)
         /\ txn.applied \in Seq(Names) /\ txn.unapplied \in Seq(Names) /\ txn.hidden \in Seq(Names)
         /\ txn.patches \in PatchMaps /\ txn.base \in Commits /\ txn.tree \in Trees
         /\ Existing = InLists(txn) /\ Existing \subseteq Names
         /\ Top(txn) \in Commits /\ TransHead(txn) \in Commits
         /\ \A n \in Elems(AllPatches(stk.state)) : n \in Names /\ stk.state.patches[n] # NoCommit
         /\ stk.state \in States /\ stk.head \in Commits
<1>1. txn \in Transactions /\ Good(txn)
  BY DEF IInv, WF
<1>2. /\ txn.applied \in Seq(Names) /\ txn.unapplied \in Seq(Names) /\ txn.hidden \in Seq(Names)
      /\ txn.patches \in PatchMaps /\ txn.base \in Commits /\ txn.tree \in Trees
      /\ Distinct3(txn.applied, txn.unapplied, txn.hidden)
  BY <1>1 DEF Transactions, Good
<1>3. Existing = InLists(txn)
  BY <1>2, AllPatchesElems DEF Existing
<1>4. InLists(txn) \subseteq Names
  BY <1>2, ElemsIff DEF InLists
<1>5. stk.state \in States /\ stk.head \in Commits /\ Good(stk.state)
  BY DEF IInv, TypeOK
<1>6. \A n \in Elems(AllPatches(stk.state)) : n \in Names /\ stk.state.patches[n] # NoCommit
  <2>1. PICK s : s = stk.state
    OBVIOUS
  <2>2. s.applied \in Seq(Names) /\ s.unapplied \in Seq(Names) /\ s.hidden \in Seq(Names)
    BY <1>5, <2>1 DEF States
  <2>3. Elems(AllPatches(s)) = InLists(s) /\ InLists(s) \subseteq Names
    BY <2>2, AllPatchesElems, ElemsIff DEF InLists
  <2> QED BY <1>5, <2>1, <2>3 DEF Good, HasPatch
<1> QED BY <1>1, <1>2, <1>3, <1>4, <1>5, <1>6, TopType

\* A method that makes no calls has none pending.
LEMMA NoCalls == <<>> \in Seq(Calls) /\ \A t, p : Pending(t, <<>>, p)
BY DEF Pending

\* Sequences of one, two and three calls.
LEMMA CallSeqs ==
  ASSUME NEW c \in Calls, NEW d \in Calls, NEW e \in Calls
  PROVE  /\ <<c>> \in Seq(Calls) /\ Len(<<c>>) = 1 /\ <<c>>[1] = c
         /\ <<c, d>> \in Seq(Calls) /\ Len(<<c, d>>) = 2 /\ <<c, d>>[1] = c /\ <<c, d>>[2] = d
         /\ <<c, d, e>> \in Seq(Calls) /\ Len(<<c, d, e>>) = 3
         /\ <<c, d, e>>[1] = c /\ <<c, d, e>>[2] = d /\ <<c, d, e>>[3] = e
OBVIOUS

\* A changed tree is a tree.
LEMMA EditTypes ==
  ASSUME NEW t \in Trees, NEW e \in Edits(t)
  PROVE  e \in Trees
BY DEF Edits, Trees

\* pop_patches preserves the invariant.
LEMMA PopIInv == IInv /\ Pop => IInv'
<1> SUFFICES ASSUME IInv, NEW S \in SUBSET Elems(txn.applied), Call("pop", PopPatches(txn, S), <<>>)
             PROVE  IInv'
  BY DEF Pop
<1>1. WF(PopPatches(txn, S), stk.state.patches)
  BY PopOK DEF IInv
<1> QED BY <1>1, NoCalls, CallStep

\* delete_patches, and the push of the incidental patches after it.
LEMMA DeleteIInv == IInv /\ Delete => IInv'
<1> SUFFICES ASSUME IInv,
                    NEW S \in SUBSET (Existing \cap Elems(AllPatches(stk.state))), NEW again \in BOOLEAN,
                    Call("delete", DeletePatches(txn, S),
                         IF again THEN <<PushCall(Incidental(txn, S))>> ELSE <<>>)
             PROVE  IInv'
  BY DEF Delete
<1>1. PICK p, v, inc : p = stk.state.patches /\ v = DeletePatches(txn, S) /\ inc = Incidental(txn, S)
  OBVIOUS
<1>2. \A n \in S \cap InLists(txn) : p[n] # NoCommit
  BY <1>1, TxnFacts
<1>3. /\ WF(v, p) /\ NoDuplicates(inc) /\ inc \in Seq(Names) /\ Elems(inc) \subseteq Elems(v.unapplied)
  <2>1. WF(txn, p)
    BY <1>1 DEF IInv
  <2> QED BY <1>1, <1>2, <2>1, DeleteOK
<1>4. CASE again
  <2>1. PICK cs : cs = <<PushCall(inc)>>
    OBVIOUS
  <2>2. /\ cs \in Seq(Calls) /\ Len(cs) = 1 /\ cs[1] = PushCall(inc)
    BY <1>3, <2>1, CallTypes
  <2>3. cs[1].op = "push" /\ cs[1].names = inc
    BY <2>2 DEF PushCall, CallOn
  <2>4. Pending(v, cs, p)
    BY <1>3, <2>2, <2>3 DEF Pending, OnePush, IsPush, Pushable
  <2>5. Call("delete", v, cs)
    BY <1>1, <1>4, <2>1
  <2> QED BY <1>1, <1>3, <2>2, <2>4, <2>5, CallStep
<1>5. CASE ~again
  <2>1. Call("delete", v, <<>>)
    BY <1>1, <1>5
  <2> QED BY <1>1, <1>3, <2>1, NoCalls, CallStep
<1> QED BY <1>4, <1>5

\* A call of push_patches.
LEMMA PushIInv == IInv /\ Push => IInv'
<1> SUFFICES ASSUME IInv, NEW names \in Lists(Elems(txn.unapplied) \cup Elems(txn.hidden)),
                    NEW merged \in BOOLEAN,
                    Call("push", txn, <<IF merged THEN MergedCall(names) ELSE PushCall(names)>>)
             PROVE  IInv'
  BY DEF Push
<1>1. PICK p, c, cs : /\ p = stk.state.patches /\ c = IF merged THEN MergedCall(names) ELSE PushCall(names)
                      /\ cs = <<c>>
  OBVIOUS
<1>2. Elems(txn.unapplied) \cup Elems(txn.hidden) \subseteq Names
  BY TxnFacts DEF InLists
<1>3. /\ names \in Seq(Names) /\ NoDuplicates(names)
      /\ Elems(names) \subseteq Elems(txn.unapplied) \cup Elems(txn.hidden)
  BY <1>2, ListsType
<1>4. c \in Calls /\ c.op \in {"push", "push merged"} /\ c.names = names
  BY <1>1, <1>3, CallTypes DEF PushCall, MergedCall, CallOn
<1>5. cs \in Seq(Calls) /\ Len(cs) = 1 /\ cs[1] = c
  BY <1>1, <1>4, CallSeqs
<1>6. Pending(txn, cs, p)
  BY <1>3, <1>4, <1>5 DEF Pending, OnePush, IsPush, Pushable
<1>7. WF(txn, p)
  BY <1>1 DEF IInv
<1> QED BY <1>1, <1>5, <1>6, <1>7, CallStep

\* push_tree_patches preserves the invariant.
LEMMA PushSetTreeIInv == IInv /\ PushSetTree => IInv'
<1> SUFFICES ASSUME IInv, NEW n \in Elems(txn.unapplied) \cup Elems(txn.hidden),
                    Call("push_tree", PushTree(txn, n), <<>>)
             PROVE  IInv'
  BY DEF PushSetTree
<1>1. WF(PushTree(txn, n), stk.state.patches)
  <2>1. txn.tree \in Trees /\ WF(txn, stk.state.patches)
    BY TxnFacts DEF IInv
  <2>2. PushedAs(txn, n, txn.tree, PushTree(txn, n))
    BY DEF PushedAs
  <2> QED BY <2>1, <2>2, PushPatchOK
<1> QED BY <1>1, NoCalls, CallStep

\* new_applied preserves the invariant.
LEMMA NewIInv == IInv /\ New => IInv'
<1> SUFFICES ASSUME IInv, NEW n \in Fresh, NEW tree \in Edits(Tree(Top(txn))), NEW m \in Metas,
                    Call("new_applied", NewApplied(txn, n, MkCommit(Top(txn), tree, m)), <<>>)
             PROVE  IInv'
  BY DEF New
<1>1. Top(txn) \in Commits /\ tree \in Trees /\ n \in Names \ InLists(txn)
  BY TxnFacts, CommitTypes, EditTypes DEF Fresh
<1>2. MkCommit(Top(txn), tree, m) \in Commits /\ HasParent(MkCommit(Top(txn), tree, m))
  BY <1>1, CommitTypes
<1>3. WF(NewApplied(txn, n, MkCommit(Top(txn), tree, m)), stk.state.patches)
  BY <1>1, <1>2, NewAppliedOK DEF IInv
<1> QED BY <1>3, NoCalls, CallStep

\* new_unapplied preserves the invariant.
LEMMA AddUnappliedIInv == IInv /\ AddUnapplied => IInv'
<1> SUFFICES ASSUME IInv, NEW n \in Fresh, NEW pos \in 0..Len(txn.unapplied),
                    NEW tree \in Edits(Tree(stk.head)), NEW m \in Metas,
                    Call("new_unapplied", NewUnapplied(txn, n, MkCommit(stk.head, tree, m), pos), <<>>)
             PROVE  IInv'
  BY DEF AddUnapplied
<1>1. stk.head \in Commits /\ tree \in Trees /\ n \in Names \ InLists(txn)
  BY TxnFacts, CommitTypes, EditTypes DEF Fresh
<1>2. MkCommit(stk.head, tree, m) \in Commits /\ HasParent(MkCommit(stk.head, tree, m))
  BY <1>1, CommitTypes
<1>3. WF(NewUnapplied(txn, n, MkCommit(stk.head, tree, m), pos), stk.state.patches)
  BY <1>1, <1>2, NewUnappliedOK DEF IInv
<1> QED BY <1>3, NoCalls, CallStep

\* update_patch preserves the invariant.
LEMMA UpdateIInv == IInv /\ Update => IInv'
<1> SUFFICES ASSUME IInv, NEW n \in Existing, NEW tree \in Edits(Tree(txn.patches[n])), NEW m \in Metas,
                    Call("update", UpdatePatch(txn, n, MkCommit(Parent(txn.patches[n]), tree, m)), <<>>)
             PROVE  IInv'
  BY DEF Update
<1>1. n \in InLists(txn) /\ n \in Names /\ Good(txn) /\ txn.patches \in PatchMaps
  BY TxnFacts
<1>2. txn.patches[n] \in Commits /\ Parent(txn.patches[n]) \in Commits
  BY <1>1, PatchCommit
<1>3. tree \in Trees
  BY <1>2, CommitTypes, EditTypes
<1>4. PICK c : c = MkCommit(Parent(txn.patches[n]), tree, m)
  OBVIOUS
<1>5. c \in Commits /\ HasParent(c)
  BY <1>2, <1>3, <1>4, CommitTypes
<1>6. WF(UpdatePatch(txn, n, c), stk.state.patches)
  BY <1>1, <1>5, SetPatchOK DEF IInv, UpdatePatch
<1> QED BY <1>4, <1>6, NoCalls, CallStep

\* Pop to the common prefix, push the rest, assign the other lists: the shape
\* of reorder_patches and of hide_patches.
LEMMA ReorderStep ==
  ASSUME IInv, NEW method, NEW a \in Seq(Names), NEW u \in Seq(Names), NEW h \in Seq(Names),
         Elems(a) \subseteq Elems(txn.applied) \cup Elems(txn.unapplied),
         Distinct3(a, u, h), Elems(a) \cup Elems(u) \cup Elems(h) = InLists(txn),
         NEW k, k = NumCommon(txn.applied, a),
         Call(method, PopPatches(txn, Elems(SubSeq(txn.applied, k + 1, Len(txn.applied)))),
              <<PushCall(SubSeq(a, k + 1, Len(a))), ListsCall(a, u, h)>>)
  PROVE  IInv'
<1>1. PICK p, S, v, rest : /\ p = stk.state.patches
                           /\ S = Elems(SubSeq(txn.applied, k + 1, Len(txn.applied)))
                           /\ v = PopPatches(txn, S) /\ rest = SubSeq(a, k + 1, Len(a))
  OBVIOUS
<1>2. WF(txn, p) /\ NoDuplicates(a)
  BY <1>1 DEF IInv, Distinct3
<1>3. /\ \A i \in 1..k : txn.applied[i] \notin S
      /\ k < Len(txn.applied) => txn.applied[k + 1] \in S
  BY <1>1, <1>2, ReorderOK
<1>4. /\ WF(v, p) /\ InLists(v) = InLists(txn) /\ rest \in Seq(Names) /\ NoDuplicates(rest)
      /\ Elems(rest) \subseteq Elems(v.unapplied) /\ v.applied \o rest = a
  <2>1. PopsTo(txn, p, a, k, S, v, rest)
    BY <1>1, <1>2, <1>3 DEF PopsTo
  <2> QED BY <2>1, PopToCommon
<1>5. PICK c, d, cs : c = PushCall(rest) /\ d = ListsCall(a, u, h) /\ cs = <<c, d>>
  OBVIOUS
<1>6. /\ c \in Calls /\ d \in Calls /\ c.op = "push" /\ c.names = rest
      /\ d.op = "lists" /\ d.names = a /\ d.unapplied = u /\ d.hidden = h
  BY <1>4, <1>5, CallTypes DEF PushCall, ListsCall, CallOn
<1>7. cs \in Seq(Calls) /\ Len(cs) = 2 /\ cs[1] = c /\ cs[2] = d
  BY <1>5, <1>6, CallSeqs
<1>8. Pushable(v, c.names) /\ IsPush(c)
  BY <1>4, <1>6 DEF Pushable, IsPush
<1>9. ListsAhead(v, d, c.names)
  BY <1>4, <1>6 DEF ListsAhead
<1>10. Pending(v, cs, p)
  BY <1>7, <1>8, <1>9 DEF Pending, PushLists
<1>11. Call(method, v, cs)
  BY <1>1, <1>5
<1> QED BY <1>1, <1>4, <1>7, <1>10, <1>11, CallStep

\* reorder_patches preserves the invariant.
LEMMA ReorderIInv == IInv /\ Reorder => IInv'
<1> SUFFICES ASSUME IInv, NEW a \in Lists(Elems(txn.applied) \cup Elems(txn.unapplied)),
                    NEW k, k = NumCommon(txn.applied, a),
                    NEW rest, rest = Drop(txn.applied \o txn.unapplied, Elems(a)),
                    Call("reorder", PopPatches(txn, Elems(SubSeq(txn.applied, k + 1, Len(txn.applied)))),
                         <<PushCall(SubSeq(a, k + 1, Len(a))), ListsCall(a, rest, txn.hidden)>>)
             PROVE  IInv'
  BY DEF Reorder
<1>1. PICK x, u, h, l : /\ x = txn.applied /\ u = txn.unapplied /\ h = txn.hidden
                        /\ l = x \o u
  OBVIOUS
<1>2. /\ x \in Seq(Names) /\ u \in Seq(Names) /\ h \in Seq(Names) /\ Distinct3(x, u, h)
      /\ Elems(x) \cup Elems(u) \subseteq Names
  BY <1>1, TxnFacts DEF InLists
<1>3. a \in Seq(Names) /\ NoDuplicates(a) /\ Elems(a) \subseteq Elems(x) \cup Elems(u)
  BY <1>1, <1>2, ListsType
<1>4. l \in Seq(Names) /\ Elems(l) = Elems(x) \cup Elems(u) /\ NoDuplicates(l)
  BY <1>1, <1>2, ConcatElems, ConcatNoDup, ConcatIndex DEF Distinct3
<1>5. rest \in Seq(Names) /\ Elems(rest) = Elems(l) \ Elems(a) /\ NoDuplicates(rest)
  BY <1>1, <1>4, DropElems
<1>6. Distinct3(a, rest, h)
  BY <1>2, <1>3, <1>4, <1>5 DEF Distinct3
<1>7. Elems(a) \cup Elems(rest) \cup Elems(h) = InLists(txn)
  BY <1>1, <1>3, <1>4, <1>5 DEF InLists
<1> QED BY <1>1, <1>2, <1>3, <1>5, <1>6, <1>7, ReorderStep

\* hide_patches preserves the invariant.
LEMMA HideIInv == IInv /\ Hide => IInv'
<1> SUFFICES ASSUME IInv, NEW names \in Lists(Elems(txn.applied) \cup Elems(txn.unapplied)),
                    NEW a, a = Drop(txn.applied, Elems(names)),
                    NEW k, k = NumCommon(txn.applied, a),
                    Call("hide", PopPatches(txn, Elems(SubSeq(txn.applied, k + 1, Len(txn.applied)))),
                         <<PushCall(SubSeq(a, k + 1, Len(a))),
                           ListsCall(a, Drop(txn.unapplied, Elems(names)), names \o txn.hidden)>>)
             PROVE  IInv'
  BY DEF Hide
<1>1. PICK x, y, z, u, h : /\ x = txn.applied /\ y = txn.unapplied /\ z = txn.hidden
                           /\ u = Drop(y, Elems(names)) /\ h = names \o z
  OBVIOUS
<1>2. /\ x \in Seq(Names) /\ y \in Seq(Names) /\ z \in Seq(Names) /\ Distinct3(x, y, z)
      /\ Elems(x) \cup Elems(y) \subseteq Names
  BY <1>1, TxnFacts DEF InLists
<1>3. names \in Seq(Names) /\ NoDuplicates(names) /\ Elems(names) \subseteq Elems(x) \cup Elems(y)
  BY <1>1, <1>2, ListsType
<1>4. a \in Seq(Names) /\ NoDuplicates(a) /\ Elems(a) = Elems(x) \ Elems(names)
  BY <1>1, <1>2, DropElems DEF Distinct3
<1>5. u \in Seq(Names) /\ NoDuplicates(u) /\ Elems(u) = Elems(y) \ Elems(names)
  BY <1>1, <1>2, DropElems DEF Distinct3
<1>6. h \in Seq(Names) /\ Elems(h) = Elems(names) \cup Elems(z)
  BY <1>1, <1>2, <1>3, ConcatElems, ConcatIndex
<1>7. NoDuplicates(h)
  <2>1. Elems(names) \cap Elems(z) = {} /\ NoDuplicates(z)
    BY <1>2, <1>3 DEF Distinct3
  <2> QED BY <1>1, <1>2, <1>3, <2>1, ConcatNoDup
<1>8. Distinct3(a, u, h)
  BY <1>2, <1>4, <1>5, <1>6, <1>7 DEF Distinct3
<1>9. Elems(a) \cup Elems(u) \cup Elems(h) = InLists(txn)
  BY <1>1, <1>3, <1>4, <1>5, <1>6 DEF InLists
<1>10. Elems(a) \subseteq Elems(txn.applied) \cup Elems(txn.unapplied)
  BY <1>1, <1>4
<1> QED BY <1>1, <1>4, <1>5, <1>6, <1>8, <1>9, <1>10, ReorderStep

\* unhide_patches preserves the invariant.
LEMMA UnhideIInv == IInv /\ Unhide => IInv'
<1> SUFFICES ASSUME IInv, NEW names \in Lists(Elems(txn.hidden)),
                    Call("unhide", UnhidePatches(txn, names), <<>>)
             PROVE  IInv'
  BY DEF Unhide
<1>1. Elems(txn.hidden) \subseteq Names
  BY TxnFacts DEF InLists
<1>2. names \in Seq(Names) /\ NoDuplicates(names) /\ Elems(names) \subseteq Elems(txn.hidden)
  BY <1>1, ListsType
<1>3. WF(UnhidePatches(txn, names), stk.state.patches)
  BY <1>2, UnhideOK DEF IInv
<1> QED BY <1>3, NoCalls, CallStep

\* rename_patch preserves the invariant.
LEMMA RenameIInv == IInv /\ Rename => IInv'
<1> SUFFICES ASSUME IInv, NEW old \in Existing \cap Elems(AllPatches(stk.state)), NEW new \in Fresh,
                    Call("rename", RenamePatch(txn, old, new), <<>>)
             PROVE  IInv'
  BY DEF Rename
<1>1. old \in InLists(txn) /\ new \in Names \ InLists(txn) /\ stk.state.patches[old] # NoCommit
  BY TxnFacts DEF Fresh
<1>2. WF(RenamePatch(txn, old, new), stk.state.patches)
  BY <1>1, RenameOK DEF IInv
<1> QED BY <1>2, NoCalls, CallStep

\* commit_patches preserves the invariant, in both of its forms.
LEMMA CommitIInv == IInv /\ Commit => IInv'
<1> SUFFICES ASSUME IInv, NEW S \in SUBSET (Elems(txn.applied) \cup Elems(txn.unapplied)),
                    S # {}, S \subseteq Elems(AllPatches(stk.state)),
                    NEW names, names = Keep(txn.applied \o txn.unapplied, S),
                    NEW k, k = NumCommon(txn.applied, names),
                    NEW above, above = Drop(SubSeq(txn.applied, k + 1, Len(txn.applied)), S),
                    IF k < Len(names)
                      THEN Call("commit", PopPatches(txn, Elems(above)),
                                <<PushCall(SubSeq(names, k + 1, Len(names))),
                                  BaseCall(names), PushCall(above)>>)
                      ELSE Call("commit", txn, <<BaseCall(names)>>)
             PROVE  IInv'
  BY DEF Commit
<1>1. PICK p : p = stk.state.patches
  OBVIOUS
<1>2. WF(txn, p) /\ txn.applied \in Seq(Names)
  BY <1>1, TxnFacts DEF IInv
<1>3. /\ names \in Seq(Names) /\ NoDuplicates(names) /\ Elems(names) = S
      /\ above \in Seq(Names) /\ NoDuplicates(above) /\ Elems(above) \cap S = {}
      /\ Elems(above) \subseteq Elems(SubSeq(txn.applied, k + 1, Len(txn.applied)))
      /\ k < Len(names) => /\ \A i \in 1..k : txn.applied[i] \notin Elems(above)
                           /\ k < Len(txn.applied) => txn.applied[k + 1] \in Elems(above)
  <2>1. CommitPlan(txn, p, S, names, k, above)
    BY <1>2 DEF CommitPlan
  <2> QED BY <2>1, CommitCommon
<1>4. names # <<>> /\ \A n \in Elems(names) : p[n] # NoCommit
  BY <1>1, <1>3, NoElems, TxnFacts
<1>5. CASE k < Len(names)
  <2>1. PICK v, rest : v = PopPatches(txn, Elems(above)) /\ rest = SubSeq(names, k + 1, Len(names))
    OBVIOUS
  <2>2. /\ WF(v, p) /\ rest \in Seq(Names) /\ NoDuplicates(rest)
        /\ Elems(rest) \subseteq Elems(names)
        /\ Elems(rest) \subseteq Elems(v.unapplied) /\ v.applied \o rest = names
        /\ Elems(SubSeq(txn.applied, k + 1, Len(txn.applied))) \subseteq Elems(v.unapplied)
    <3>1. PopsTo(txn, p, names, k, Elems(above), v, rest)
      BY <1>2, <1>3, <1>5, <2>1 DEF PopsTo
    <3> QED BY ONLY <3>1, PopToCommon
  <2>3. PICK c, d, e, cs : /\ c = PushCall(rest) /\ d = BaseCall(names) /\ e = PushCall(above)
                           /\ cs = <<c, d, e>>
    OBVIOUS
  <2>4. /\ c \in Calls /\ d \in Calls /\ e \in Calls /\ c.op = "push" /\ c.names = rest
        /\ d.op = "base" /\ d.names = names /\ e.op = "push" /\ e.names = above
    BY <1>3, <2>2, <2>3, CallTypes DEF PushCall, BaseCall, CallOn
  <2>5. cs \in Seq(Calls) /\ Len(cs) = 3 /\ cs[1] = c /\ cs[2] = d /\ cs[3] = e
    BY <2>3, <2>4, CallSeqs
  <2>6. Pushable(v, c.names) /\ IsPush(c) /\ Pushable(v, e.names) /\ IsPush(e)
    BY <1>3, <2>2, <2>4 DEF Pushable, IsPush
  <2>7. BaseAhead(v, d, c.names, p)
    <3>1. IsPrefixOf(names, names)
      BY <1>3 DEF IsPrefixOf
    <3> QED BY <1>4, <2>2, <2>4, <3>1 DEF BaseAhead
  <2>8. Elems(c.names) \cap Elems(e.names) = {}
    BY <1>3, <2>2, <2>4
  <2>9. Pending(v, cs, p)
    BY <2>5, <2>6, <2>7, <2>8 DEF Pending, PushBasePush
  <2>10. Call("commit", v, cs)
    BY <1>5, <2>1, <2>3
  <2> QED BY <1>1, <2>2, <2>5, <2>9, <2>10, CallStep
<1>6. CASE ~(k < Len(names))
  <2>1. PICK d, cs : d = BaseCall(names) /\ cs = <<d>>
    OBVIOUS
  <2>2. d \in Calls /\ d.op = "base" /\ d.names = names
    BY <1>3, <2>1, CallTypes DEF BaseCall, CallOn
  <2>3. cs \in Seq(Calls) /\ Len(cs) = 1 /\ cs[1] = d
    BY <2>1, <2>2, CallSeqs
  <2>4. IsPrefixOf(names, txn.applied)
    <3>1. k \in 0..Len(txn.applied) /\ k \in 0..Len(names) /\ \A i \in 1..k : txn.applied[i] = names[i]
      BY <1>2, <1>3, NumCommonFacts
    <3>2. Len(names) = k
      BY <1>3, <1>6, <3>1
    <3> QED BY <3>1, <3>2 DEF IsPrefixOf
  <2>5. txn.applied \o <<>> = txn.applied
    BY <1>2
  <2>6. BaseAhead(txn, d, <<>>, p)
    BY <1>4, <2>2, <2>4, <2>5 DEF BaseAhead
  <2>7. Pending(txn, cs, p)
    BY <2>3, <2>6 DEF Pending, OneBase
  <2>8. Call("commit", txn, cs)
    BY <1>6, <2>1
  <2> QED BY <1>1, <1>2, <2>3, <2>7, <2>8, CallStep
<1> QED BY <1>5, <1>6

\* uncommit_patches preserves the invariant.
LEMMA UncommitIInv == IInv /\ Uncommit => IInv'
<1> SUFFICES ASSUME IInv, NEW names \in Lists(Fresh), NEW k, k = Len(names),
                    NEW at, at = [n \in Elems(names) |->
                                    SubSeq(txn.base, 1, Len(txn.base) - k
                                                          + CHOOSE i \in 1..k : names[i] = n)],
                    Len(txn.base) > k,
                    Call("uncommit", UncommitPatches(txn, names, at), <<>>)
             PROVE  IInv'
  BY DEF Uncommit
<1>1. Fresh \subseteq Names /\ Fresh \cap InLists(txn) = {} /\ txn.base \in Commits
  BY TxnFacts DEF Fresh
<1>2. names \in Seq(Names) /\ NoDuplicates(names) /\ Elems(names) \subseteq Fresh
  BY <1>1, ListsType
<1>3. DOMAIN at = Elems(names)
  OBVIOUS
<1>4. ASSUME NEW n \in Elems(names) PROVE at[n] \in Commits /\ HasParent(at[n])
  <2>1. PICK i : i = CHOOSE j \in 1..k : names[j] = n
    OBVIOUS
  <2>2. \E j \in 1..k : names[j] = n
    BY <1>2, <1>4, ElemsIff
  <2>3. i \in 1..k /\ k \in Nat /\ Len(txn.base) \in Nat
    <3>1. i \in 1..k
      BY <2>1, <2>2
    <3>2. k \in Nat
      BY <1>2
    <3>3. Len(txn.base) \in Nat
      BY <1>1, CommitTypes
    <3> QED BY <3>1, <3>2, <3>3
  <2>4. PICK l : l = Len(txn.base) - k + i
    OBVIOUS
  <2>5. l \in 1..Len(txn.base) /\ l > 1
    BY <2>3, <2>4
  <2>6. SubSeq(txn.base, 1, l) \in Commits /\ Len(SubSeq(txn.base, 1, l)) = l
    BY <1>1, <2>5, CommitTypes
  <2>7. at[n] = SubSeq(txn.base, 1, l)
    BY <1>4, <2>1, <2>4
  <2> QED BY <2>5, <2>6, <2>7 DEF HasParent
<1>5. WF(UncommitPatches(txn, names, at), stk.state.patches)
  <2>1. Elems(names) \cap InLists(txn) = {} /\ WF(txn, stk.state.patches)
    BY <1>1, <1>2 DEF IInv
  <2> QED BY <1>2, <1>3, <1>4, <2>1, UncommitOK
<1> QED BY <1>5, NoCalls, CallStep

\* The commits that repair makes patches of have parents.
LEMMA RepairNewTypes ==
  ASSUME IInv, NEW c \in RepairNew
  PROVE  c \in Commits /\ HasParent(c)
<1>1. c \in RepairSeen
  BY DEF RepairNew
<1>2. stk.head \in Commits /\ txn.base \in Commits
  BY TxnFacts DEF IInv, TypeOK
<1>3. Len(txn.base) \in Nat /\ Len(txn.base) > 0 /\ Len(stk.head) \in Nat
  BY <1>2, CommitTypes
<1>4. PICK k \in (IF ReachesBase THEN Len(txn.base) + 1 ELSE 2)..Len(stk.head) :
        c = SubSeq(stk.head, 1, k)
  BY <1>1 DEF RepairSeen
<1>5. k \in 1..Len(stk.head) /\ k > 1
  <2>1. CASE ReachesBase
    BY <1>3, <1>4, <2>1
  <2>2. CASE ~ReachesBase
    BY <1>3, <1>4, <2>2
  <2> QED BY <2>1, <2>2
<1>6. SubSeq(stk.head, 1, k) \in Commits /\ Len(SubSeq(stk.head, 1, k)) = k
  BY <1>2, <1>5, CommitTypes
<1> QED BY <1>4, <1>5, <1>6 DEF HasParent

\* repair_appliedness keeps the transaction well formed.
LEMMA RepairListsOK ==
  ASSUME IInv, NEW a \in {<<>>} \cup Lists(Existing)
  PROVE  WF(RepairLists(a), stk.state.patches) /\ InLists(RepairLists(a)) = InLists(txn)
<1>1. PICK x, y, z, l, u, h : /\ x = txn.applied /\ y = txn.unapplied /\ z = txn.hidden
                              /\ l = x \o y /\ u = Drop(l, Elems(a)) /\ h = Drop(z, Elems(a))
  OBVIOUS
<1>2. /\ x \in Seq(Names) /\ y \in Seq(Names) /\ z \in Seq(Names) /\ Distinct3(x, y, z)
      /\ Existing = Elems(x) \cup Elems(y) \cup Elems(z) /\ Existing \subseteq Names
  BY <1>1, TxnFacts DEF InLists
<1>3. a \in Seq(Names) /\ NoDuplicates(a) /\ Elems(a) \subseteq Existing
  <2>1. CASE a = <<>>
    BY ONLY <2>1, NoElems
  <2>2. CASE a \in Lists(Existing)
    <3>1. PICK S : S = Existing /\ S \in SUBSET Names /\ a \in Lists(S)
      BY ONLY <1>2, <2>2
    <3>2. a \in Seq(Names) /\ NoDuplicates(a) /\ Elems(a) \subseteq S
      BY ONLY <3>1, ListsType
    <3> QED BY ONLY <3>1, <3>2
  <2> QED BY ONLY <2>1, <2>2, a \in {<<>>} \cup Lists(Existing)
<1>4. l \in Seq(Names) /\ Elems(l) = Elems(x) \cup Elems(y) /\ NoDuplicates(l)
  BY <1>1, <1>2, ConcatElems, ConcatNoDup, ConcatIndex DEF Distinct3
<1>5. u \in Seq(Names) /\ Elems(u) = Elems(l) \ Elems(a) /\ NoDuplicates(u)
  BY <1>1, <1>4, DropElems
<1>6. h \in Seq(Names) /\ Elems(h) = Elems(z) \ Elems(a) /\ NoDuplicates(h)
  BY <1>1, <1>2, DropElems DEF Distinct3
<1>7. Distinct3(a, u, h)
  BY <1>2, <1>3, <1>4, <1>5, <1>6 DEF Distinct3
<1>8. Elems(a) \cup Elems(u) \cup Elems(h) = InLists(txn)
  BY <1>1, <1>2, <1>3, <1>4, <1>5, <1>6 DEF InLists
<1>9. PICK v : v = RepairLists(a)
  OBVIOUS
<1>10. v = [txn EXCEPT !.applied = a, !.unapplied = u, !.hidden = h]
  BY <1>1, <1>9 DEF RepairLists, RepairAppliedness
<1>11. WF(txn, stk.state.patches)
  BY DEF IInv
<1>12. WF(v, stk.state.patches)
  BY ONLY <1>3, <1>5, <1>6, <1>7, <1>8, <1>10, <1>11, AssignOK
<1>13. txn \in Transactions
  BY <1>11 DEF WF
<1>14. v.applied = a /\ v.unapplied = u /\ v.hidden = h
  BY <1>10, <1>13 DEF Transactions
<1> QED BY <1>8, <1>9, <1>12, <1>14 DEF InLists

\* repair preserves the invariant: the lists it assigns and the patches it makes.
LEMMA RepairIInv == IInv /\ Repair => IInv'
<1> SUFFICES ASSUME IInv, NEW a \in {<<>>} \cup Lists(Existing),
                    NEW new \in {<<>>} \cup Lists(Fresh), NEW at \in [Elems(new) -> RepairNew],
                    Call("repair", NewOnTop(RepairLists(a), new, at), <<>>)
             PROVE  IInv'
  BY DEF Repair
<1>1. PICK t : t = RepairLists(a)
  OBVIOUS
<1>2. WF(t, stk.state.patches) /\ InLists(t) = InLists(txn)
  BY <1>1, RepairListsOK
<1>3. Fresh \subseteq Names /\ Fresh \cap InLists(txn) = {}
  BY TxnFacts DEF Fresh
<1>4. new \in Seq(Names) /\ NoDuplicates(new) /\ Elems(new) \subseteq Fresh
  BY <1>3, ListsType, NoElems
<1>5. DOMAIN at = Elems(new) /\ \A n \in Elems(new) : at[n] \in Commits /\ HasParent(at[n])
  BY RepairNewTypes
<1>6. Elems(new) \cap InLists(t) = {}
  BY <1>2, <1>3, <1>4
<1>7. WF(NewOnTop(t, new, at), stk.state.patches)
  BY <1>2, <1>4, <1>5, <1>6, NewOnTopOK
<1> QED BY <1>1, <1>7, NoCalls, CallStep

\* reset_to_state preserves the invariant, to whichever state of the log.
LEMMA ResetIInv == IInv /\ Reset => IInv'
<1> SUFFICES ASSUME IInv, NEW i \in 1..Len(stateLog), ops = 0,
                    Call("reset", ResetToState(txn, stateLog[i]), <<>>)
             PROVE  IInv'
  BY DEF Reset
<1>1. stateLog[i] \in States /\ Good(stateLog[i])
  BY StateType DEF IInv, LogGood
<1>2. WF(txn, stk.state.patches) /\ txn.patches = stk.state.patches
  BY DEF IInv, OpenedState, Call
<1>3. WF(ResetToState(txn, stateLog[i]), stk.state.patches)
  BY <1>1, <1>2, ResetOK
<1> QED BY <1>3, NoCalls, CallStep

\* reset_to_state_partially preserves the invariant.
LEMMA ResetSomeIInv == IInv /\ ResetSome => IInv'
<1> SUFFICES ASSUME IInv, NEW i \in 1..Len(stateLog), NEW only \in SUBSET Names, ops = 0,
                    NEW v, v = ResetPartially(txn, stateLog[i], only), NEW names,
                    names = Keep(txn.applied, Elems(v.unapplied) \cup Elems(v.hidden)),
                    Call("reset_partially", v, <<PushCall(names)>>)
             PROVE  IInv'
  BY DEF ResetSome
<1>1. PICK p, c, cs : p = stk.state.patches /\ c = PushCall(names) /\ cs = <<c>>
  OBVIOUS
<1>2. stateLog[i] \in States /\ Good(stateLog[i])
  BY StateType DEF IInv, LogGood
<1>3. WF(txn, p) /\ txn.patches = p
  BY <1>1 DEF IInv, OpenedState, Call
<1>4. WF(v, p)
  BY <1>2, <1>3, ResetPartiallyOK
<1>5. /\ names \in Seq(Names) /\ NoDuplicates(names)
      /\ Elems(names) \subseteq Elems(v.unapplied) \cup Elems(v.hidden)
  BY TxnFacts, KeepElems DEF Distinct3
<1>6. c \in Calls /\ c.op = "push" /\ c.names = names
  BY <1>1, <1>5, CallTypes DEF PushCall, CallOn
<1>7. cs \in Seq(Calls) /\ Len(cs) = 1 /\ cs[1] = c
  BY <1>1, <1>6, CallSeqs
<1>8. Pending(v, cs, p)
  BY <1>5, <1>6, <1>7 DEF Pending, OnePush, IsPush, Pushable
<1> QED BY <1>1, <1>4, <1>7, <1>8, CallStep
-----------------------------------------------------------------------------
\* What the first pending call says of the others.
LEMMA PendingShape ==
  ASSUME NEW t, NEW p, NEW cs \in Seq(Calls), cs # <<>>, Pending(t, cs, p)
  PROVE  /\ cs[1] \in Calls /\ Head(cs) = cs[1] /\ Len(cs) \in 1..3 /\ Tail(cs) \in Seq(Calls)
         /\ Len(Tail(cs)) = Len(cs) - 1 /\ \A i \in 1..(Len(cs) - 1) : Tail(cs)[i] = cs[i + 1]
         /\ cs[1].names \in Seq(Names) /\ cs[1].unapplied \in Seq(Names) /\ cs[1].hidden \in Seq(Names)
         /\ IsPush(cs[1]) =>
              \/ OnePush(t, cs) \/ PushLists(t, cs) \/ PushBasePush(t, cs, p)
         /\ cs[1].op = "lists" => OneLists(t, cs)
         /\ cs[1].op = "base" => OneBase(t, cs, p) \/ BasePush(t, cs, p)
<1>1. cs[1] \in Calls /\ Head(cs) = cs[1] /\ Len(cs) \in Nat /\ Len(cs) > 0 /\ Tail(cs) \in Seq(Calls)
  OBVIOUS
<1>1a. Len(Tail(cs)) = Len(cs) - 1 /\ \A i \in 1..(Len(cs) - 1) : Tail(cs)[i] = cs[i + 1]
  OBVIOUS
<1>2. /\ cs[1].names \in Seq(Names) /\ cs[1].unapplied \in Seq(Names) /\ cs[1].hidden \in Seq(Names)
  BY <1>1 DEF Calls
<1>3. Len(cs) \in 1..3
  BY DEF Pending, OnePush, OneLists, OneBase, PushLists, BasePush, PushBasePush
<1>4. IsPush(cs[1]) => \/ OnePush(t, cs) \/ PushLists(t, cs) \/ PushBasePush(t, cs, p)
  BY DEF Pending, OneLists, OneBase, BasePush, ListsAhead, BaseAhead, IsPush
<1>5. cs[1].op = "lists" => OneLists(t, cs)
  BY DEF Pending, OnePush, OneBase, PushLists, BasePush, PushBasePush, BaseAhead, IsPush
<1>6. cs[1].op = "base" => OneBase(t, cs, p) \/ BasePush(t, cs, p)
  BY DEF Pending, OnePush, OneLists, PushLists, PushBasePush, ListsAhead, IsPush
<1> QED BY <1>1, <1>1a, <1>2, <1>3, <1>4, <1>5, <1>6

\* When a push has no patch left, the calls after it are ready to run.
LEMMA PushDone ==
  ASSUME NEW t, NEW p, t.applied \in Seq(Names), NEW cs \in Seq(Calls), cs # <<>>,
         Pending(t, cs, p), IsPush(cs[1]), cs[1].names = <<>>
  PROVE  Pending(t, Tail(cs), p)
<1>1. PICK r : r = Tail(cs)
  OBVIOUS
<1>2. /\ Len(r) = Len(cs) - 1 /\ \A i \in 1..(Len(cs) - 1) : r[i] = cs[i + 1]
      /\ Len(cs) \in 1..3 /\ r \in Seq(Calls)
      /\ OnePush(t, cs) \/ PushLists(t, cs) \/ PushBasePush(t, cs, p)
  BY <1>1, PendingShape
<1>3. CASE OnePush(t, cs)
  BY <1>1, <1>2, <1>3 DEF OnePush, Pending
<1>4. CASE PushLists(t, cs)
  <2>1. Len(r) = 1 /\ r[1] = cs[2] /\ ListsAhead(t, cs[2], <<>>)
    BY <1>2, <1>4 DEF PushLists
  <2> QED BY <1>1, <2>1 DEF Pending, OneLists
<1>5. CASE PushBasePush(t, cs, p)
  <2>1. /\ Len(r) = 2 /\ r[1] = cs[2] /\ r[2] = cs[3] /\ BaseAhead(t, cs[2], <<>>, p)
        /\ IsPush(cs[3]) /\ Pushable(t, cs[3].names)
    BY <1>2, <1>5 DEF PushBasePush
  <2> QED BY <1>1, <2>1 DEF Pending, BasePush
<1> QED BY <1>2, <1>3, <1>4, <1>5

\* When a push has pushed one patch, the rest of it and the calls after it are
\* still ready.
LEMMA PushedOne ==
  ASSUME NEW t, NEW p, t.applied \in Seq(Names), NEW cs \in Seq(Calls), cs # <<>>,
         Pending(t, cs, p), IsPush(cs[1]), cs[1].names # <<>>,
         NEW n, n = Head(cs[1].names), NEW v, Raised(t, n, v), NEW ds,
         ds = [cs EXCEPT ![1] = [cs[1] EXCEPT !.names = Tail(cs[1].names)]]
  PROVE  ds \in Seq(Calls) /\ Pending(v, ds, p)
<1>0. /\ InLists(v) = InLists(t) /\ v.applied = Append(t.applied, n)
      /\ Elems(v.unapplied) = Elems(t.unapplied) \ {n}
      /\ Elems(v.hidden) = Elems(t.hidden) \ {n}
  BY DEF Raised
<1>1. PICK c, d, names, rest : c = cs[1] /\ names = c.names /\ rest = Tail(names)
                               /\ d = [c EXCEPT !.names = rest]
  OBVIOUS
<1>2. /\ Len(cs) \in 1..3 /\ c \in Calls /\ names \in Seq(Names)
      /\ OnePush(t, cs) \/ PushLists(t, cs) \/ PushBasePush(t, cs, p)
  BY <1>1, PendingShape
<1>3. Pushable(t, names)
  BY <1>1, <1>2 DEF OnePush, PushLists, PushBasePush
<1>4. /\ n \in Names /\ rest \in Seq(Names) /\ NoDuplicates(rest)
      /\ Elems(rest) = Elems(names) \ {n} /\ names = <<n>> \o rest /\ n \in Elems(names)
  BY <1>1, <1>2, <1>3, TailElems DEF Pushable
<1>5. d \in Calls /\ d.op = c.op /\ d.names = rest /\ d.unapplied = c.unapplied /\ d.hidden = c.hidden
  BY <1>1, <1>2, <1>4 DEF Calls
<1>6. /\ ds \in Seq(Calls) /\ Len(ds) = Len(cs) /\ ds[1] = d
      /\ \A i \in 2..Len(cs) : ds[i] = cs[i]
  <2>1. ds = [cs EXCEPT ![1] = d]
    BY <1>1
  <2> QED BY ONLY <1>2, <1>5, <2>1, cs \in Seq(Calls)
<1>7. IsPush(d) /\ Pushable(v, rest)
  BY <1>0, <1>1, <1>3, <1>4, <1>5 DEF IsPush, Pushable
<1>8. v.applied \o rest = t.applied \o names
  <2>0. t.applied \in Seq(Names) /\ n \in Names /\ rest \in Seq(Names) /\ v.applied = Append(t.applied, n)
    BY <1>0, <1>4
  <2>1. v.applied \o rest = t.applied \o (<<n>> \o rest)
    <3>1. PICK a : a = t.applied
      OBVIOUS
    <3>2. a \in Seq(Names) /\ n \in Names /\ rest \in Seq(Names)
      BY <2>0, <3>1
    <3>3. Append(a, n) \o rest = a \o (<<n>> \o rest)
      BY ONLY <3>2, AppendConcat
    <3> QED BY <2>0, <3>1, <3>3
  <2> QED BY <1>4, <2>1
<1>9. CASE OnePush(t, cs)
  BY <1>5, <1>6, <1>7, <1>9 DEF OnePush, Pending
<1>10. CASE PushLists(t, cs)
  <2>1. Len(cs) = 2 /\ ListsAhead(t, cs[2], names)
    BY <1>1, <1>10 DEF PushLists
  <2>2. Len(ds) = 2 /\ ds[2] = cs[2]
    BY <1>6, <2>1
  <2>3. ListsAhead(v, ds[2], rest)
    BY <1>0, <1>8, <2>1, <2>2 DEF ListsAhead
  <2> QED BY <1>5, <1>6, <1>7, <2>2, <2>3 DEF Pending, PushLists
<1>11. CASE PushBasePush(t, cs, p)
  <2>1. /\ Len(cs) = 3 /\ BaseAhead(t, cs[2], names, p)
        /\ IsPush(cs[3]) /\ Pushable(t, cs[3].names) /\ Elems(names) \cap Elems(cs[3].names) = {}
    BY <1>1, <1>11 DEF PushBasePush
  <2>2. Len(ds) = 3 /\ ds[2] = cs[2] /\ ds[3] = cs[3]
    BY <1>6, <2>1
  <2>3. BaseAhead(v, ds[2], rest, p)
    BY <1>0, <1>8, <2>1, <2>2 DEF BaseAhead
  <2>4. Pushable(v, ds[3].names) /\ Elems(rest) \cap Elems(ds[3].names) = {}
    BY <1>0, <1>4, <2>1, <2>2 DEF Pushable
  <2> QED BY <1>5, <1>6, <1>7, <2>1, <2>2, <2>3, <2>4 DEF Pending, PushBasePush
<1> QED BY <1>2, <1>6, <1>9, <1>10, <1>11

\* When commit_patches has moved the base, the push after it is ready.
LEMMA BaseDone ==
  ASSUME NEW t, NEW p, NEW cs \in Seq(Calls), cs # <<>>, Pending(t, cs, p), cs[1].op = "base",
         NEW v, v.unapplied = t.unapplied, v.hidden = t.hidden
  PROVE  Pending(v, Tail(cs), p)
<1>1. PICK r : r = Tail(cs)
  OBVIOUS
<1>2. /\ Len(r) = Len(cs) - 1 /\ \A i \in 1..(Len(cs) - 1) : r[i] = cs[i + 1]
      /\ Len(cs) \in 1..3 /\ r \in Seq(Calls)
      /\ OneBase(t, cs, p) \/ BasePush(t, cs, p)
  BY <1>1, PendingShape
<1>3. CASE OneBase(t, cs, p)
  BY <1>1, <1>2, <1>3 DEF OneBase, Pending
<1>4. CASE BasePush(t, cs, p)
  <2>1. Len(r) = 1 /\ r[1] = cs[2] /\ IsPush(cs[2]) /\ Pushable(t, cs[2].names)
    BY <1>2, <1>4 DEF BasePush
  <2> QED BY <1>1, <2>1 DEF Pending, OnePush, Pushable
<1> QED BY <1>2, <1>3, <1>4

\* A step of the closure that is not a method call preserves the invariant if
\* it leaves a well-formed transaction and fitting calls.
LEMMA StepIInv ==
  ASSUME IInv, pc = "body", UNCHANGED <<stateLog, branch, patchRefs, opts, stk, outcome, snap, ops>>,
         wd' \in Workdirs, temp' \in Temps, err' \in {"none", "halt", "conflict", "error"},
         pc' \in {"body", "execute"}, pc' # "body" => todo' = <<>>,
         todo' \in Seq(Calls), WF(txn', stk.state.patches),
         Pending(txn', todo', stk.state.patches),
         ops = 0 => todo' = <<>> /\ txn'.patches = stk.state.patches
  PROVE  IInv'
<1>1. TypeOK'
  BY DEF IInv, TypeOK, WF
<1>2. LogGood' /\ RefsFollow' /\ OpenedState'
  BY DEF IInv, LogGood, RefsFollow, OpenedState, State
<1>3. Good(stk.state)' /\ WF(txn, stk.state.patches)' /\ Pending(txn, todo, stk.state.patches)'
  <2>1. stk'.state = stk.state
    OBVIOUS
  <2>2. Good(stk'.state) /\ WF(txn', stk'.state.patches) /\ Pending(txn', todo', stk'.state.patches)
    BY <2>1 DEF IInv
  <2> QED BY <2>2
<1> QED BY <1>1, <1>2, <1>3 DEF IInv

\* A closure that returns an error preserves the invariant.
LEMMA BodyFailsIInv == IInv /\ BodyFails => IInv'
<1> SUFFICES ASSUME IInv, BodyFails PROVE IInv'
  OBVIOUS
<1>1. /\ pc = "body" /\ err' = "error" /\ pc' = "execute" /\ todo' = <<>>
      /\ UNCHANGED <<stateLog, branch, patchRefs, wd, opts, stk, outcome, snap, txn, temp, ops>>
  BY DEF BodyFails, repo, body
<1>2. wd' \in Workdirs /\ temp' \in Temps /\ WF(txn', stk.state.patches)
  BY <1>1 DEF IInv, TypeOK
<1>3. ops = 0 => txn'.patches = stk.state.patches
  BY <1>1 DEF IInv, OpenedState
<1>4. todo' \in Seq(Calls) /\ Pending(txn', todo', stk.state.patches)
  BY <1>1, NoCalls
<1> QED BY <1>1, <1>2, <1>3, <1>4, StepIInv

\* A closure that returns preserves the invariant.
LEMMA BodyReturnsIInv == IInv /\ BodyReturns => IInv'
<1> SUFFICES ASSUME IInv, BodyReturns PROVE IInv'
  OBVIOUS
<1>1. /\ pc = "body" /\ pc' = "execute" /\ todo = <<>> /\ todo' = <<>> /\ ops # 0
      /\ UNCHANGED <<stateLog, branch, patchRefs, wd, opts, stk, outcome, snap, txn, temp, ops, err>>
  BY DEF BodyReturns, repo, body, IInv, TypeOK
<1>2. /\ wd' \in Workdirs /\ temp' \in Temps /\ WF(txn', stk.state.patches)
      /\ err' \in {"none", "halt", "conflict", "error"}
  BY <1>1 DEF IInv, TypeOK
<1>4. todo' \in Seq(Calls) /\ Pending(txn', todo', stk.state.patches)
  BY <1>1, NoCalls
<1> QED BY <1>1, <1>2, <1>4, StepIInv

\* What is known while a method is making its calls.
LEMMA DoingFacts ==
  ASSUME IInv, NEW op, Doing(op)
  PROVE  /\ pc = "body" /\ todo # <<>> /\ todo \in Seq(Calls) /\ todo[1].op = op
         /\ Head(todo) = todo[1] /\ ops # 0 /\ ops \in Nat
         /\ todo[1].names \in Seq(Names) /\ Tail(todo) \in Seq(Calls)
         /\ todo[1].unapplied \in Seq(Names) /\ todo[1].hidden \in Seq(Names)
         /\ WF(txn, stk.state.patches) /\ Pending(txn, todo, stk.state.patches)
         /\ wd \in Workdirs /\ temp \in Temps /\ err \in {"none", "halt", "conflict", "error"}
<1>1. pc = "body" /\ todo # <<>> /\ Head(todo).op = op
  BY DEF Doing
<1>2. /\ todo \in Seq(Calls) /\ Pending(txn, todo, stk.state.patches) /\ WF(txn, stk.state.patches)
      /\ wd \in Workdirs /\ temp \in Temps /\ err \in {"none", "halt", "conflict", "error"}
      /\ ops \in Nat /\ ops # 0
  BY <1>1 DEF IInv, TypeOK, OpenedState
<1>3. /\ Head(todo) = todo[1] /\ todo[1].names \in Seq(Names) /\ Tail(todo) \in Seq(Calls)
      /\ todo[1].unapplied \in Seq(Names) /\ todo[1].hidden \in Seq(Names)
  BY <1>1, <1>2, PendingShape
<1> QED BY <1>1, <1>2, <1>3

\* The end of reorder_patches preserves the invariant.
LEMMA AssignListsIInv == IInv /\ AssignLists => IInv'
<1> SUFFICES ASSUME IInv, AssignLists PROVE IInv'
  OBVIOUS
<1>1. PICK c, p : c = todo[1] /\ p = stk.state.patches
  OBVIOUS
<1>2. Doing("lists")
  BY DEF AssignLists
<1>3. /\ pc = "body" /\ ops # 0 /\ todo \in Seq(Calls) /\ todo # <<>> /\ Head(todo) = c /\ c.op = "lists"
      /\ c.names \in Seq(Names) /\ c.unapplied \in Seq(Names) /\ c.hidden \in Seq(Names)
      /\ WF(txn, p) /\ Pending(txn, todo, p) /\ wd \in Workdirs /\ temp \in Temps
      /\ err \in {"none", "halt", "conflict", "error"}
  BY <1>1, <1>2, DoingFacts
<1>4. /\ txn' = [txn EXCEPT !.unapplied = c.unapplied, !.hidden = c.hidden] /\ todo' = Tail(todo)
      /\ UNCHANGED <<stateLog, branch, patchRefs, wd, opts, stk, outcome, snap, pc, temp, err, ops>>
  BY <1>3 DEF AssignLists, repo, body
<1>5. Len(todo) = 1 /\ ListsAhead(txn, c, <<>>)
  BY <1>1, <1>3, PendingShape DEF OneLists
<1>6. todo' = <<>>
  BY <1>3, <1>4, <1>5
<1>7. /\ txn \in Transactions /\ txn.applied \in Seq(Names)
  BY TxnFacts
<1>8. /\ txn.applied = c.names /\ Distinct3(c.names, c.unapplied, c.hidden)
      /\ Elems(c.names) \cup Elems(c.unapplied) \cup Elems(c.hidden) = InLists(txn)
  BY <1>5, <1>7 DEF ListsAhead
<1>9. WF(txn', p)
  <2>1. txn' = [txn EXCEPT !.applied = c.names, !.unapplied = c.unapplied, !.hidden = c.hidden]
    BY <1>4, <1>7, <1>8 DEF Transactions
  <2> QED BY ONLY <1>3, <1>8, <2>1, AssignOK
<1>10. todo' \in Seq(Calls) /\ Pending(txn', todo', p)
  BY <1>6, NoCalls
<1> QED BY <1>1, <1>3, <1>4, <1>9, <1>10, StepIInv

\* The end of commit_patches preserves the invariant.
LEMMA MoveBaseIInv == IInv /\ MoveBase => IInv'
<1> SUFFICES ASSUME IInv, MoveBase PROVE IInv'
  OBVIOUS
<1>1. PICK c, p : c = todo[1] /\ p = stk.state.patches
  OBVIOUS
<1>2. Doing("base")
  BY DEF MoveBase
<1>3. /\ pc = "body" /\ ops # 0 /\ todo \in Seq(Calls) /\ todo # <<>> /\ Head(todo) = c /\ c.op = "base"
      /\ c.names \in Seq(Names) /\ Tail(todo) \in Seq(Calls)
      /\ WF(txn, p) /\ Pending(txn, todo, p) /\ wd \in Workdirs /\ temp \in Temps
      /\ err \in {"none", "halt", "conflict", "error"}
  BY <1>1, <1>2, DoingFacts
<1>4. /\ txn' = CommitPatches(txn, c.names) /\ todo' = Tail(todo)
      /\ UNCHANGED <<stateLog, branch, patchRefs, wd, opts, stk, outcome, snap, pc, temp, err, ops>>
  BY <1>3 DEF MoveBase, repo, body
<1>5. BaseAhead(txn, c, <<>>, p)
  BY <1>1, <1>3, PendingShape DEF OneBase, BasePush
<1>6. /\ c.names # <<>> /\ IsPrefixOf(c.names, txn.applied) /\ \A n \in Elems(c.names) : p[n] # NoCommit
  <2>1. txn.applied \o <<>> = txn.applied
    BY TxnFacts
  <2> QED BY <1>5, <2>1 DEF BaseAhead
<1>7. WF(txn', p) /\ txn'.unapplied = txn.unapplied /\ txn'.hidden = txn.hidden
  BY <1>3, <1>4, <1>6, CommitOK
<1>8. Pending(txn', todo', p)
  BY <1>1, <1>3, <1>4, <1>7, BaseDone
<1>9. todo' \in Seq(Calls)
  BY <1>3, <1>4
<1> QED BY <1>1, <1>3, <1>4, <1>7, <1>8, <1>9, StepIInv

\* push_patch finds a patch that is not applied, with a commit on a parent.
LEMMA PushFacts ==
  ASSUME IInv, CanPush
  PROVE  /\ Pushed \in Elems(txn.unapplied) \cup Elems(txn.hidden) /\ Pushed \in Names
         /\ todo[1].names # <<>> /\ Pushed = Head(todo[1].names)
         /\ OldCommit \in Commits /\ OldParent \in Trees /\ NewParent \in Trees
         /\ Tree(OldCommit) \in Trees /\ Ours \in Trees /\ Theirs \in Trees /\ TempIndex \in Trees
         /\ TempAfterFailure \in Temps /\ IsPush(todo[1])
<1>1. PICK op : Doing(op) /\ op \in {"push", "push merged"}
  BY DEF CanPush, Pushing
<1>2. /\ todo # <<>> /\ todo \in Seq(Calls) /\ todo[1].op = op /\ Head(todo) = todo[1]
      /\ todo[1].names \in Seq(Names) /\ temp \in Temps /\ Pending(txn, todo, stk.state.patches)
  BY <1>1, DoingFacts
<1>3. IsPush(todo[1]) /\ todo[1].names # <<>> /\ Pushed = Head(todo[1].names)
  BY <1>1, <1>2 DEF IsPush, CanPush, Pushed
<1>4. Pushable(txn, todo[1].names)
  BY <1>2, <1>3, PendingShape DEF OnePush, PushLists, PushBasePush
<1>5. Pushed \in Elems(txn.unapplied) \cup Elems(txn.hidden) /\ Pushed \in Names
  BY <1>2, <1>3, <1>4, TailElems DEF Pushable
<1>6. /\ Good(txn) /\ txn.patches \in PatchMaps /\ Top(txn) \in Commits
  BY TxnFacts
<1>7. OldCommit \in Commits /\ Parent(OldCommit) \in Commits
  BY <1>5, <1>6, PatchCommit DEF OldCommit, InLists
<1>8. OldParent \in Trees /\ NewParent \in Trees /\ Tree(OldCommit) \in Trees
  BY <1>6, <1>7, CommitTypes DEF OldParent, NewParent
<1>9. Ours \in Trees /\ Theirs \in Trees
  BY <1>8 DEF Ours, Theirs
<1>10. TempIndex \in Trees /\ TempAfterFailure \in Temps
  BY <1>2, <1>9 DEF Temps, TempIndex, TempAfterFailure
<1> QED BY <1>3, <1>5, <1>7, <1>8, <1>9, <1>10

\* A push_patch that goes on preserves the invariant, whatever the tree.
LEMMA PushAsIInv ==
  ASSUME IInv, CanPush, NEW t \in Trees, NEW w \in Workdirs, NEW x \in Temps, NEW cur \in Trees,
         PushAs(t, w, x, cur)
  PROVE  IInv'
<1>1. PICK p, n, u : p = stk.state.patches /\ n = Pushed /\ u = PushPatch(txn, n, t)
  OBVIOUS
<1>2. PICK op : Doing(op) /\ op \in {"push", "push merged"}
  BY DEF CanPush, Pushing
<1>3. /\ pc = "body" /\ ops # 0 /\ todo \in Seq(Calls) /\ todo # <<>>
      /\ WF(txn, p) /\ Pending(txn, todo, p) /\ err \in {"none", "halt", "conflict", "error"}
  BY <1>1, <1>2, DoingFacts
<1>4. /\ txn' = [u EXCEPT !.tree = cur] /\ wd' = w /\ temp' = x
      /\ todo' = [todo EXCEPT ![1] = [todo[1] EXCEPT !.names = Tail(todo[1].names)]]
      /\ UNCHANGED <<stateLog, branch, patchRefs, opts, stk, outcome, snap, pc, err, ops>>
  BY <1>1 DEF PushAs, body
<1>5. /\ n \in Elems(txn.unapplied) \cup Elems(txn.hidden) /\ todo[1].names # <<>>
      /\ n = Head(todo[1].names) /\ IsPush(todo[1]) /\ txn.applied \in Seq(Names)
  BY <1>1, PushFacts, TxnFacts
<1>6. WF(u, p) /\ Raised(txn, n, u)
  <2>1. PushedAs(txn, n, t, u)
    BY <1>1 DEF PushedAs
  <2> QED BY <1>3, <1>5, <2>1, PushPatchOK
<1>7. PICK v : v = [u EXCEPT !.tree = cur]
  OBVIOUS
<1>8. WF(v, p) /\ Raised(txn, n, v)
  <2>1. Retreed(u, cur, v)
    BY <1>7 DEF Retreed
  <2>2. WF(v, p) /\ SameLists(u, v)
    BY <1>6, <2>1, RetreeOK
  <2> QED BY <1>6, <2>2 DEF Raised, SameLists
<1>9. todo' \in Seq(Calls) /\ Pending(v, todo', p)
  <2>1. PICK ds : ds = [todo EXCEPT ![1] = [todo[1] EXCEPT !.names = Tail(todo[1].names)]]
    OBVIOUS
  <2>2. ds \in Seq(Calls) /\ Pending(v, ds, p)
    BY ONLY <1>3, <1>5, <1>8, <2>1, PushedOne
  <2> QED BY <1>4, <2>1, <2>2
<1>10. txn' = v
  BY <1>4, <1>7
<1> QED BY <1>1, <1>3, <1>4, <1>8, <1>9, <1>10, StepIInv

\* A push_patch that halts preserves the invariant.
LEMMA HaltIInv ==
  ASSUME IInv, CanPush, NEW w \in Workdirs, NEW x \in Temps, NEW cur \in Trees, Halt(w, x, cur)
  PROVE  IInv'
<1>1. PICK op : Doing(op)
  BY DEF CanPush, Pushing
<1>2. pc = "body" /\ ops # 0 /\ WF(txn, stk.state.patches)
  BY <1>1, DoingFacts
<1>3. /\ txn' = [txn EXCEPT !.tree = cur] /\ wd' = w /\ temp' = x /\ todo' = <<>>
      /\ err' = "halt" /\ pc' = "execute"
      /\ UNCHANGED <<stateLog, branch, patchRefs, opts, stk, outcome, snap, ops>>
  BY DEF Halt, body
<1>4. Retreed(txn, cur, txn')
  BY <1>3 DEF Retreed
<1>5. WF(txn', stk.state.patches)
  BY <1>2, <1>4, RetreeOK
<1>6. todo' \in Seq(Calls) /\ Pending(txn', todo', stk.state.patches)
  BY <1>3, NoCalls
<1> QED BY <1>2, <1>3, <1>5, <1>6, StepIInv

\* A push without a merge preserves the invariant.
LEMMA PushTriviallyIInv == IInv /\ PushTrivially => IInv'
<1> SUFFICES ASSUME IInv, CanPush, PushAs(TrivialTree, wd, temp, txn.tree) PROVE IInv'
  BY DEF PushTrivially
<1>1. TrivialTree \in Trees
  BY PushFacts DEF TrivialTree
<1>2. wd \in Workdirs /\ temp \in Temps /\ txn.tree \in Trees
  BY TxnFacts DEF IInv, TypeOK
<1> QED BY <1>1, <1>2, PushAsIInv

\* A push by applying the diff to the temporary index preserves the invariant.
LEMMA PushAppliedIInv == IInv /\ PushApplied => IInv'
<1> SUFFICES ASSUME IInv, CanPush, NEW t, t = MergeTree(OldParent, TempIndex, Theirs), NEW x,
                    x = [temp EXCEPT !.known = TRUE, !.id = Ours, !.index = t, !.broken = FALSE],
                    PushAs(t, wd, x, txn.tree)
             PROVE  IInv'
  BY DEF PushApplied
<1>1. wd \in Workdirs /\ temp \in Temps /\ txn.tree \in Trees
  BY TxnFacts DEF IInv, TypeOK
<1>2. OldParent \in Trees /\ TempIndex \in Trees /\ Theirs \in Trees /\ Ours \in Trees
  BY PushFacts
<1>3. t \in Trees
  BY <1>1, <1>2, WorkdirTypes
<1>4. x \in Temps
  BY <1>1, <1>2, <1>3 DEF Temps
<1> QED BY <1>1, <1>3, <1>4, PushAsIInv

\* Both ways for a push to halt preserve the invariant.
LEMMA PushHaltsIInv == IInv /\ PushHalts => IInv'
<1> SUFFICES ASSUME IInv, PushHalts PROVE IInv'
  OBVIOUS
<1>1. CanPush
  BY DEF PushHalts, ApplyFails
<1>2. wd \in Workdirs /\ txn.tree \in Trees /\ Ours \in Trees /\ TempAfterFailure \in Temps
  BY <1>1, TxnFacts, PushFacts DEF IInv, TypeOK
<1>3. ReadTreeCheckout(wd, txn.tree, Ours) \in Workdirs
  BY <1>2, WorkdirTypes
<1>4. CASE Halt(wd, TempAfterFailure, txn.tree)
  BY <1>1, <1>2, <1>4, HaltIInv
<1>5. CASE Halt(ReadTreeCheckout(wd, txn.tree, Ours), TempAfterFailure, Ours)
  BY <1>1, <1>2, <1>3, <1>5, HaltIInv
<1> QED BY <1>4, <1>5 DEF PushHalts

\* The index and the worktree after merge-recursive.
LEMMA MergedType ==
  ASSUME IInv, CanPush
  PROVE  /\ Merged \in Workdirs /\ Merged.index \in Trees /\ TempAfterFailure \in Temps
<1>1. /\ wd \in Workdirs /\ txn.tree \in Trees /\ Ours \in Trees /\ OldParent \in Trees
      /\ Theirs \in Trees /\ TempAfterFailure \in Temps
  BY TxnFacts, PushFacts DEF IInv, TypeOK
<1>2. PICK w : w = ReadTreeCheckout(wd, txn.tree, Ours)
  OBVIOUS
<1>3. w \in Workdirs
  BY <1>1, <1>2, WorkdirTypes
<1>4. Merged \in Workdirs
  BY <1>1, <1>2, <1>3, WorkdirTypes DEF Merged
<1> QED BY <1>1, <1>4 DEF Workdirs

\* A push by merge-recursive preserves the invariant.
LEMMA PushMergedIInv == IInv /\ PushMerged => IInv'
<1> SUFFICES ASSUME IInv, CanPush, PushAs(Merged.index, Merged, TempAfterFailure, Merged.index)
             PROVE  IInv'
  BY DEF PushMerged, CanMerge, ApplyFails
<1> QED BY MergedType, PushAsIInv

\* A push that ends in a conflict preserves the invariant.
LEMMA PushConflictsIInv == IInv /\ PushConflicts => IInv'
<1> SUFFICES ASSUME IInv, PushConflicts, CanPush PROVE IInv'
  BY DEF PushConflicts, CanMerge, ApplyFails
<1>1. PICK p, n, u : p = stk.state.patches /\ n = Pushed /\ u = PushPatch(txn, n, Ours)
  OBVIOUS
<1>2. PICK op : Doing(op)
  BY DEF CanPush, Pushing
<1>3. pc = "body" /\ ops # 0 /\ WF(txn, p)
  BY <1>1, <1>2, DoingFacts
<1>4. /\ txn' = [u EXCEPT !.tree = Ours, !.conflicts = "allow", !.head = u.patches[n]]
      /\ wd' = Merged /\ temp' = TempAfterFailure /\ todo' = <<>>
      /\ err' = "conflict" /\ pc' = "execute"
      /\ UNCHANGED <<stateLog, branch, patchRefs, opts, stk, outcome, snap, ops>>
  BY <1>1 DEF PushConflicts, body
<1>5. n \in Elems(txn.unapplied) \cup Elems(txn.hidden) /\ n \in Names /\ Ours \in Trees
  BY <1>1, PushFacts
<1>6. WF(u, p)
  <2>1. PushedAs(txn, n, Ours, u)
    BY <1>1 DEF PushedAs
  <2> QED BY <1>3, <1>5, <2>1, PushPatchOK
<1>7. u.patches[n] \in MaybeCommits /\ "allow" \in ConflictModes
  BY <1>5, <1>6 DEF WF, Transactions, PatchMaps, ConflictModes
<1>8. WF(txn', p)
  <2>1. Retreed(u, Ours, txn')
    BY <1>4, <1>7 DEF Retreed
  <2> QED BY <1>5, <1>6, <2>1, RetreeOK
<1>9. todo' \in Seq(Calls) /\ Pending(txn', todo', p)
  BY <1>4, NoCalls
<1>10. wd' \in Workdirs /\ temp' \in Temps
  BY <1>4, MergedType
<1> QED BY <1>1, <1>3, <1>4, <1>8, <1>9, <1>10, StepIInv

\* The temporary index before a push.
LEMMA NoTempType == IInv => NoTemp \in Temps
<1> SUFFICES ASSUME IInv PROVE NoTemp \in Temps
  OBVIOUS
<1>1. Oldest.head \in Commits
  BY StateType DEF IInv, States
<1> QED BY <1>1, CommitTypes DEF NoTemp, Temps

\* The end of push_patches preserves the invariant.
LEMMA CloseTempIndexIInv == IInv /\ CloseTempIndex => IInv'
<1> SUFFICES ASSUME IInv, CloseTempIndex PROVE IInv'
  OBVIOUS
<1>1. PICK op : Doing(op) /\ op \in {"push", "push merged"}
  BY DEF CloseTempIndex, Pushing
<1>2. /\ pc = "body" /\ ops # 0 /\ todo \in Seq(Calls) /\ todo # <<>> /\ Head(todo) = todo[1]
      /\ todo[1].op = op /\ Tail(todo) \in Seq(Calls) /\ wd \in Workdirs
      /\ WF(txn, stk.state.patches) /\ Pending(txn, todo, stk.state.patches)
      /\ err \in {"none", "halt", "conflict", "error"}
  BY <1>1, DoingFacts
<1>3. /\ temp' = NoTemp /\ todo' = Tail(todo) /\ todo[1].names = <<>>
      /\ UNCHANGED <<stateLog, branch, patchRefs, wd, opts, stk, outcome, snap, pc, txn, err, ops>>
  BY <1>2 DEF CloseTempIndex, repo, body
<1>4. IsPush(todo[1]) /\ txn.applied \in Seq(Names)
  BY <1>1, <1>2, TxnFacts DEF IsPush
<1>5. Pending(txn, Tail(todo), stk.state.patches)
  BY <1>2, <1>3, <1>4, PushDone
<1>6. Pending(txn', todo', stk.state.patches) /\ WF(txn', stk.state.patches)
  BY <1>2, <1>3, <1>5
<1>7. temp' \in Temps /\ wd' \in Workdirs /\ todo' \in Seq(Calls)
  BY <1>2, <1>3, NoTempType
<1> QED BY <1>2, <1>3, <1>6, <1>7, StepIInv

\* The start of push_patches, check_merged included, preserves the invariant.
LEMMA OpenTempIndexIInv == IInv /\ OpenTempIndex => IInv'
<1> SUFFICES ASSUME IInv, OpenTempIndex PROVE IInv'
  OBVIOUS
<1>1. PICK op : Doing(op)
  BY DEF OpenTempIndex, Pushing
<1>2. /\ pc = "body" /\ ops # 0 /\ todo \in Seq(Calls) /\ todo # <<>> /\ Head(todo) = todo[1]
      /\ todo[1].names \in Seq(Names) /\ wd \in Workdirs
      /\ WF(txn, stk.state.patches) /\ Pending(txn, todo, stk.state.patches)
      /\ err \in {"none", "halt", "conflict", "error"}
  BY <1>1, DoingFacts
<1>3. PICK merged :
        /\ merged = IF Head(todo).op = "push merged"
                      THEN CheckMerged(txn, Tree(stk.head), Head(todo).names) ELSE {}
        /\ temp' = [open |-> TRUE, known |-> Head(todo).op = "push merged" /\ merged = {},
                    id |-> Tree(stk.head), index |-> Tree(stk.head),
                    broken |-> FALSE, merged |-> merged]
  BY DEF OpenTempIndex
<1>4. UNCHANGED <<stateLog, branch, patchRefs, wd, opts, stk, outcome, snap, pc, txn, todo, err, ops>>
  BY DEF OpenTempIndex, repo, body
<1>5. merged \in SUBSET Names
  <2>1. CheckMerged(txn, Tree(stk.head), Head(todo).names) \subseteq Elems(Head(todo).names)
    BY DEF CheckMerged
  <2>2. Elems(Head(todo).names) \subseteq Names
    BY <1>2, ElemsIff
  <2> QED BY <1>3, <2>1, <2>2
<1>6. temp' \in Temps
  <2>1. Tree(stk.head) \in Trees
    BY TxnFacts, CommitTypes
  <2>2. (Head(todo).op = "push merged" /\ merged = {}) \in BOOLEAN
    OBVIOUS
  <2> QED BY <1>3, <1>5, <2>1, <2>2 DEF Temps
<1>7. /\ Pending(txn', todo', stk.state.patches) /\ WF(txn', stk.state.patches)
      /\ wd' \in Workdirs /\ todo' \in Seq(Calls)
  BY <1>2, <1>4
<1> QED BY <1>2, <1>4, <1>6, <1>7, StepIInv
-----------------------------------------------------------------------------
\* What the user does between commands changes branch and worktree only.
LEMMA UserStep ==
  ASSUME IInv, pc = "idle", branch' \in Commits, wd' \in Workdirs,
         UNCHANGED <<stateLog, patchRefs, proc>>
  PROVE  IInv'
<1>1. UNCHANGED <<pc, opts, stk, txn, todo, temp, err, ops, outcome, snap>>
  BY DEF proc
<1>2. TypeOK'
  BY <1>1 DEF IInv, TypeOK
<1>3. LogGood' /\ RefsFollow' /\ OpenedState'
  BY <1>1 DEF IInv, LogGood, RefsFollow, OpenedState, State
<1>4. Good(stk.state)' /\ WF(txn, stk.state.patches)' /\ Pending(txn, todo, stk.state.patches)'
  <2>1. Good(stk'.state) /\ WF(txn', stk'.state.patches) /\ Pending(txn', todo', stk'.state.patches)
    BY <1>1 DEF IInv
  <2> QED BY <2>1
<1> QED BY <1>1, <1>2, <1>3, <1>4 DEF IInv

\* Edits, git commit and git reset preserve the invariant.
LEMMA UserIInv == IInv /\ User => IInv'
<1> SUFFICES ASSUME IInv, User PROVE IInv'
  OBVIOUS
<1>1. /\ wd \in Workdirs /\ branch \in Commits
      /\ wd.index \in Trees /\ wd.work \in Trees /\ wd.unmerged \in SUBSET Files
  BY DEF IInv, TypeOK, Workdirs
<1>2. CASE EditFile
  <2>1. PICK f \in Files, v \in Contents : wd' = [wd EXCEPT !.work = [wd.work EXCEPT ![f] = v]]
    BY <1>2 DEF EditFile
  <2>2. [wd.work EXCEPT ![f] = v] \in Trees
    BY <1>1 DEF Trees
  <2>3. wd' \in Workdirs
    BY <1>1, <2>1, <2>2 DEF Workdirs
  <2>4. pc = "idle" /\ UNCHANGED <<stateLog, branch, patchRefs, proc>>
    BY <1>2 DEF EditFile
  <2> QED BY <1>1, <2>3, <2>4, UserStep
<1>3. CASE ResolveConflicts
  <2>0. PICK v \in Contents :
          wd' = [index |-> [f \in Files |-> IF f \in wd.unmerged THEN v ELSE wd.index[f]],
                 work  |-> [f \in Files |-> IF f \in wd.unmerged THEN v ELSE wd.work[f]],
                 unmerged |-> {}]
    BY <1>3 DEF ResolveConflicts
  <2>1. PICK i, w :
          /\ i = [f \in Files |-> IF f \in wd.unmerged THEN v ELSE wd.index[f]]
          /\ w = [f \in Files |-> IF f \in wd.unmerged THEN v ELSE wd.work[f]]
          /\ wd' = [index |-> i, work |-> w, unmerged |-> {}]
    BY <2>0
  <2>2. i \in Trees /\ w \in Trees
    BY <1>1, <2>1 DEF Trees
  <2>3. wd' \in Workdirs
    BY <2>1, <2>2 DEF Workdirs
  <2>4. pc = "idle" /\ UNCHANGED <<stateLog, branch, patchRefs, proc>>
    BY <1>3 DEF ResolveConflicts
  <2> QED BY <1>1, <2>3, <2>4, UserStep
<1>4. CASE GitCommit
  <2>1. PICK m \in Metas : branch' = MkCommit(branch, wd.work, m)
    BY <1>4 DEF GitCommit
  <2>2. branch' \in Commits
    BY <1>1, <2>1, CommitTypes
  <2>3. wd' = [wd EXCEPT !.index = wd.work] /\ pc = "idle" /\ UNCHANGED <<stateLog, patchRefs, proc>>
    BY <1>4 DEF GitCommit
  <2>4. wd' \in Workdirs
    BY <1>1, <2>3 DEF Workdirs
  <2> QED BY <2>2, <2>3, <2>4, UserStep
<1>5. CASE GitReset
  <2>1. /\ \/ HasParent(branch) /\ branch' = Parent(branch)
           \/ \E n \in Names : patchRefs[n] # NoCommit /\ branch' = patchRefs[n]
        /\ wd' = ReadTreeCheckoutHard(Tree(branch'))
        /\ pc = "idle" /\ UNCHANGED <<stateLog, patchRefs, proc>>
    BY <1>5 DEF GitReset
  <2>2. branch' \in Commits
    <3>1. CASE HasParent(branch) /\ branch' = Parent(branch)
      BY <1>1, <3>1, CommitTypes
    <3>2. ASSUME NEW n \in Names, patchRefs[n] # NoCommit, branch' = patchRefs[n]
          PROVE  branch' \in Commits
      <4>1. patchRefs[n] \in MaybeCommits
        BY DEF IInv, TypeOK, PatchMaps
      <4> QED BY <3>2, <4>1 DEF MaybeCommits, Commits, NoCommit
    <3> QED BY <2>1, <3>1, <3>2
  <2>3. Tree(branch') \in Trees
    BY <2>2, CommitTypes
  <2>4. wd' \in Workdirs
    BY <1>1, <2>1, <2>3, WorkdirTypes
  <2> QED BY <2>1, <2>2, <2>4, UserStep
<1> QED BY <1>2, <1>3, <1>4, <1>5 DEF User

\* from_branch and the start of a transaction establish the invariant for it.
LEMMA OpenStackIInv == IInv /\ OpenStack => IInv'
<1> SUFFICES ASSUME IInv, OpenStack PROVE IInv'
  OBVIOUS
<1>1. PICK o \in OptionSets : opts' = o /\ txn' = Begin(State, branch, o.conflicts)
  BY DEF OpenStack
<1>2. /\ patchRefs' = State.patches /\ stk' = [state |-> State, head |-> branch]
      /\ pc' = "body" /\ err' = "none" /\ ops' = 0 /\ todo' = <<>> /\ temp' = NoTemp
      /\ outcome' = "none" /\ snap' = [branch |-> branch, state |-> State, wd |-> wd]
      /\ UNCHANGED <<stateLog, branch, wd>>
  BY DEF OpenStack
<1>3. o \in AllOptions /\ o.conflicts \in ConflictModes
  BY OptionsAssumption DEF AllOptions
<1>4. /\ stateLog \in Seq(States) \ {<<>>} /\ branch \in Commits /\ wd \in Workdirs
      /\ State \in States /\ Good(State)
  BY StateType DEF IInv, TypeOK
<1>5. State.patches \in PatchMaps
  BY <1>4 DEF States
<1>6. WF(txn', State.patches)
  BY <1>1, <1>3, <1>4, BeginOK
<1>7. txn' \in Transactions /\ txn'.patches = State.patches
  BY <1>1, <1>6 DEF WF, Begin
<1>8. stk'.state = State /\ State' = State /\ stk' \in [state : States, head : Commits]
  BY <1>2, <1>4 DEF State
<1>9. TypeOK'
  BY <1>1, <1>2, <1>3, <1>4, <1>5, <1>7, <1>8, NoTempType, NoCalls DEF TypeOK
<1>10. LogGood' /\ RefsFollow' /\ OpenedState'
  BY <1>2, <1>7, <1>8 DEF IInv, LogGood, RefsFollow, OpenedState
<1>11. Good(stk.state)' /\ WF(txn, stk.state.patches)' /\ Pending(txn, todo, stk.state.patches)'
  <2>1. Good(stk'.state) /\ WF(txn', stk'.state.patches) /\ Pending(txn', todo', stk'.state.patches)
    BY <1>2, <1>4, <1>6, <1>8, NoCalls
  <2> QED BY <2>1
<1> QED BY <1>2, <1>9, <1>10, <1>11 DEF IInv

\* A command that gives up at check_head_top_mismatch preserves the invariant.
LEMMA RefuseMismatchIInv == IInv /\ RefuseMismatch => IInv'
<1> SUFFICES ASSUME IInv, RefuseMismatch PROVE IInv'
  OBVIOUS
<1>1. /\ pc = "idle" /\ patchRefs' = State.patches /\ outcome' = "error"
      /\ UNCHANGED <<stateLog, branch, wd, pc, opts, stk, txn, todo, temp, err, ops, snap>>
  BY DEF RefuseMismatch
<1>2. State.patches \in PatchMaps /\ State' = State
  BY <1>1, StateType DEF IInv, States, State
<1>3. TypeOK'
  BY <1>1, <1>2 DEF IInv, TypeOK
<1>4. LogGood' /\ RefsFollow' /\ OpenedState'
  BY <1>1, <1>2 DEF IInv, LogGood, RefsFollow, OpenedState
<1>5. Good(stk.state)' /\ WF(txn, stk.state.patches)' /\ Pending(txn, todo, stk.state.patches)'
  <2>1. Good(stk'.state) /\ WF(txn', stk'.state.patches) /\ Pending(txn', todo', stk'.state.patches)
    BY <1>1 DEF IInv
  <2> QED BY <2>1
<1> QED BY <1>1, <1>3, <1>4, <1>5 DEF IInv
-----------------------------------------------------------------------------
\* The ways for a transaction to end.
Outcomes == {"none", "ok", "halted", "conflict", "aborted", "error",
             "stuck", "torn", "interrupted", "crashed", "panicked"}

\* Every end of execute() preserves the invariant if the log stays good and,
\* unless the process died or the references were torn, the patch references
\* are those of the state.
LEMMA EndIInv ==
  ASSUME IInv, NEW how \in Outcomes, End(how),
         stateLog' \in Seq(States) \ {<<>>}, LogGood',
         branch' \in Commits, patchRefs' \in PatchMaps, wd' \in Workdirs,
         how \notin {"torn", "crashed"} => patchRefs' = State'.patches
  PROVE  IInv'
<1>1. /\ pc' = "idle" /\ outcome' = how /\ opts' = NoOptions
      /\ stk' = [state |-> Oldest, head |-> Oldest.head]
      /\ txn' = Begin(Oldest, Oldest.head, "disallow") /\ todo' = <<>> /\ temp' = NoTemp
      /\ err' = "none" /\ ops' = 0 /\ snap' = NoSnap
  BY DEF End, NoStack, NoTxn
<1>2. Oldest \in States /\ Good(Oldest) /\ Oldest.head \in Commits /\ Tree(Oldest.head) \in Trees
  BY StateType, CommitTypes DEF IInv, States
<1>3. "disallow" \in ConflictModes /\ NoOptions \in AllOptions
  BY DEF ConflictModes, NoOptions, AllOptions, Methods
<1>4. WF(txn', Oldest.patches)
  BY <1>1, <1>2, <1>3, BeginOK
<1>5. stk' \in [state : States, head : Commits] /\ stk'.state = Oldest
  BY <1>1, <1>2
<1>6. snap' \in [branch : Commits, state : States, wd : Workdirs]
  <2>1. ReadTreeCheckoutHard(Tree(Oldest.head)) \in Workdirs
    BY <1>2 DEF ReadTreeCheckoutHard, Workdirs
  <2> QED BY <1>1, <1>2, <2>1 DEF NoSnap
<1>7. txn' \in Transactions /\ temp' \in Temps /\ todo' \in Seq(Calls)
  BY <1>1, <1>4, NoTempType, NoCalls DEF WF
<1>8. TypeOK'
  BY <1>1, <1>3, <1>5, <1>6, <1>7 DEF TypeOK, Outcomes
<1>9. RefsFollow' /\ OpenedState'
  BY <1>1 DEF RefsFollow, OpenedState
<1>10. Good(stk.state)' /\ WF(txn, stk.state.patches)' /\ Pending(txn, todo, stk.state.patches)'
  <2>1. Good(stk'.state) /\ WF(txn', stk'.state.patches) /\ Pending(txn', todo', stk'.state.patches)
    BY <1>1, <1>2, <1>4, <1>5, NoCalls
  <2> QED BY <2>1
<1> QED BY <1>1, <1>8, <1>9, <1>10 DEF IInv

\* The state that execute() builds from the transaction is good.
LEMMA NewStateGood ==
  ASSUME IInv
  PROVE  NewState \in States /\ Good(NewState) /\ NewState.patches = txn.patches
<1>1. PICK h : h = TransHead(txn)
  OBVIOUS
<1>2. NewState = [head |-> h, applied |-> txn.applied, unapplied |-> txn.unapplied,
                  hidden |-> txn.hidden, patches |-> txn.patches]
  BY <1>1 DEF NewState
<1>3. /\ h \in Commits /\ txn.applied \in Seq(Names) /\ txn.unapplied \in Seq(Names)
      /\ txn.hidden \in Seq(Names) /\ txn.patches \in PatchMaps /\ Good(txn)
  BY <1>1, TxnFacts
<1>4. NewState \in States
  BY <1>2, <1>3 DEF States
<1>5. Good(NewState)
  BY <1>2, <1>3 DEF Good, HasPatch, InLists
<1> QED BY <1>2, <1>4, <1>5

\* Whatever subset of the reference edits is made, the log stays good.
LEMMA EditTypesOK ==
  ASSUME IInv, NEW P \in SUBSET Names, NEW s \in BOOLEAN, NEW b \in BOOLEAN, EditReferences(P, s, b)
  PROVE  /\ stateLog' \in Seq(States) \ {<<>>} /\ LogGood'
         /\ branch' \in Commits /\ patchRefs' \in PatchMaps
         /\ s => State' = NewState
<1>1. /\ patchRefs' = [n \in Names |-> IF n \in P THEN txn.patches[n] ELSE patchRefs[n]]
      /\ stateLog' = IF s THEN Append(stateLog, NewState) ELSE stateLog
      /\ branch' = IF b THEN TransHead(txn) ELSE branch
  BY DEF EditReferences
<1>2. /\ stateLog \in Seq(States) \ {<<>>} /\ branch \in Commits /\ patchRefs \in PatchMaps
      /\ LogGood /\ txn.patches \in PatchMaps /\ TransHead(txn) \in Commits
  BY TxnFacts DEF IInv, TypeOK
<1>3. branch' \in Commits /\ patchRefs' \in PatchMaps
  BY <1>1, <1>2 DEF PatchMaps
<1>4. CASE s
  <2>1. stateLog' = Append(stateLog, NewState) /\ NewState \in States /\ Good(NewState)
    BY <1>1, <1>4, NewStateGood
  <2>2. /\ stateLog' \in Seq(States) \ {<<>>} /\ Len(stateLog') = Len(stateLog) + 1
        /\ stateLog'[Len(stateLog) + 1] = NewState /\ Len(stateLog) \in Nat
        /\ \A i \in 1..Len(stateLog) : stateLog'[i] = stateLog[i]
    BY <1>2, <2>1
  <2>3. \A i \in 1..Len(stateLog') : Good(stateLog'[i])
    BY <1>2, <2>1, <2>2 DEF LogGood
  <2>4. State' = NewState
    BY <2>2 DEF State
  <2> QED BY <1>3, <2>2, <2>3, <2>4 DEF LogGood
<1>5. CASE ~s
  BY <1>1, <1>2, <1>3, <1>5 DEF LogGood
<1> QED BY <1>4, <1>5

\* When all are made, the patch references are those of the new state: the
\* edits of the touched patches are enough.
LEMMA EditAllOK ==
  ASSUME IInv, pc # "idle", EditAll
  PROVE  /\ stateLog' \in Seq(States) \ {<<>>} /\ LogGood'
         /\ branch' \in Commits /\ patchRefs' \in PatchMaps
         /\ patchRefs' = State'.patches
<1>1. txn.touched \in SUBSET Names /\ opts.set_head \in BOOLEAN /\ txn.patches \in PatchMaps
  BY TxnFacts DEF IInv, TypeOK, AllOptions, Transactions
<1>2. EditReferences(txn.touched, TRUE, opts.set_head)
  BY DEF EditAll
<1>3. /\ stateLog' \in Seq(States) \ {<<>>} /\ LogGood'
      /\ branch' \in Commits /\ patchRefs' \in PatchMaps /\ State' = NewState
  BY <1>1, <1>2, EditTypesOK
<1>4. patchRefs = stk.state.patches
  BY DEF IInv, RefsFollow, OpenedState
<1>5. \A n \in Names \ txn.touched : txn.patches[n] = stk.state.patches[n]
  BY DEF IInv, WF, Tracks
<1>6. patchRefs' = [n \in Names |-> IF n \in txn.touched THEN txn.patches[n] ELSE patchRefs[n]]
  BY <1>2 DEF EditReferences
<1>7. patchRefs' = txn.patches
  BY <1>1, <1>4, <1>5, <1>6 DEF PatchMaps
<1> QED BY <1>3, <1>7, NewStateGood

\* When none is made, they are those of the old state.
LEMMA SameReferences ==
  ASSUME IInv, pc # "idle", UNCHANGED <<stateLog, branch, patchRefs>>
  PROVE  /\ stateLog' \in Seq(States) \ {<<>>} /\ LogGood'
         /\ branch' \in Commits /\ patchRefs' \in PatchMaps
         /\ patchRefs' = State'.patches
BY DEF IInv, TypeOK, LogGood, RefsFollow, State

\* The checkout and the rollback produce an index and a worktree.
LEMMA RollbackType ==
  ASSUME IInv, NEW from \in Trees, NEW to \in Trees
  PROVE  CheckedOut(wd, from, to) \in Workdirs /\ wd \in Workdirs /\ Tree(stk.head) \in Trees
<1>1. wd \in Workdirs /\ Tree(stk.head) \in Trees
  BY TxnFacts, CommitTypes DEF IInv, TypeOK
<1>2. ReadTreeCheckout(wd, from, to) \in Workdirs /\ ReadTreeCheckoutHard(to) \in Workdirs
  BY <1>1, WorkdirTypes
<1> QED BY <1>1, <1>2 DEF CheckedOut

\* The rollback closure preserves the invariant.
LEMMA RollbackIInv ==
  ASSUME IInv, NEW from \in Trees, NEW how \in Outcomes \ {"torn", "crashed"}, Rollback(from, how),
         stateLog' \in Seq(States) \ {<<>>}, LogGood',
         branch' \in Commits, patchRefs' \in PatchMaps, patchRefs' = State'.patches
  PROVE  IInv'
<1>1. CheckedOut(wd, from, Tree(stk.head)) \in Workdirs /\ wd \in Workdirs
  <2>1. Tree(stk.head) \in Trees
    BY TxnFacts, CommitTypes
  <2> QED BY <2>1, RollbackType
<1>2. wd' \in Workdirs /\ (End(how) \/ End("stuck")) /\ "stuck" \in Outcomes
  BY <1>1 DEF Rollback, Outcomes
<1>3. CASE End(how)
  BY <1>2, <1>3, EndIInv
<1>4. CASE End("stuck")
  BY <1>2, <1>4, EndIInv
<1> QED BY <1>2, <1>3, <1>4

\* log_external_mods preserves the invariant.
LEMMA ExecuteStartsIInv == IInv /\ ExecuteStarts => IInv'
<1> SUFFICES ASSUME IInv, ExecuteStarts PROVE IInv'
  OBVIOUS
<1>1. /\ pc = "execute" /\ pc' = "checkout"
      /\ UNCHANGED <<branch, patchRefs, wd, opts, txn, todo, temp, err, ops, outcome, snap>>
  BY DEF ExecuteStarts
<1>2. /\ stateLog \in Seq(States) \ {<<>>} /\ LogGood /\ stk \in [state : States, head : Commits]
      /\ Good(stk.state) /\ stk.state = State /\ patchRefs = State.patches
  BY <1>1 DEF IInv, TypeOK, OpenedState, RefsFollow
<1>3. PICK s : s = [stk.state EXCEPT !.head = stk.head]
  OBVIOUS
<1>4. /\ s \in States /\ s.patches = stk.state.patches /\ s.applied = stk.state.applied
      /\ s.unapplied = stk.state.unapplied /\ s.hidden = stk.state.hidden
  BY <1>2, <1>3 DEF States
<1>5. Good(s)
  BY <1>2, <1>4 DEF Good, HasPatch, InLists
<1>6. \/ UNCHANGED <<stateLog, stk>>
      \/ stateLog' = Append(stateLog, s) /\ stk' = [stk EXCEPT !.state = s]
  BY <1>3 DEF ExecuteStarts
<1>7. /\ stateLog' \in Seq(States) \ {<<>>} /\ LogGood' /\ stk' \in [state : States, head : Commits]
      /\ Good(stk'.state) /\ stk'.state = State' /\ stk'.state.patches = stk.state.patches
  <2>1. CASE UNCHANGED <<stateLog, stk>>
    BY <1>2, <2>1 DEF LogGood, State
  <2>2. CASE stateLog' = Append(stateLog, s) /\ stk' = [stk EXCEPT !.state = s]
    <3>1. /\ stateLog' \in Seq(States) \ {<<>>} /\ Len(stateLog') = Len(stateLog) + 1
          /\ stateLog'[Len(stateLog) + 1] = s /\ Len(stateLog) \in Nat
          /\ \A i \in 1..Len(stateLog) : stateLog'[i] = stateLog[i]
      BY <1>2, <1>4, <2>2
    <3>2. \A i \in 1..Len(stateLog') : Good(stateLog'[i])
      BY <1>2, <1>5, <3>1 DEF LogGood
    <3>3. State' = s
      BY <3>1 DEF State
    <3>4. stk' \in [state : States, head : Commits] /\ stk'.state = s
      BY <1>2, <1>4, <2>2
    <3> QED BY <1>4, <1>5, <3>1, <3>2, <3>3, <3>4 DEF LogGood
  <2> QED BY <1>6, <2>1, <2>2
<1>8. TypeOK'
  BY <1>1, <1>7 DEF IInv, TypeOK
<1>9. RefsFollow' /\ OpenedState'
  BY <1>1, <1>2, <1>7 DEF IInv, RefsFollow, OpenedState
<1>10. Good(stk.state)' /\ WF(txn, stk.state.patches)' /\ Pending(txn, todo, stk.state.patches)'
  <2>1. Good(stk'.state) /\ WF(txn', stk'.state.patches) /\ Pending(txn', todo', stk'.state.patches)
    BY <1>1, <1>7 DEF IInv
  <2> QED BY <2>1
<1>11. todo' = <<>>
  BY <1>1 DEF IInv
<1> QED BY <1>1, <1>7, <1>8, <1>9, <1>10, <1>11 DEF IInv

\* The checkout of execute() preserves the invariant.
LEMMA ExecuteChecksOutIInv == IInv /\ ExecuteChecksOut => IInv'
<1> SUFFICES ASSUME IInv, ExecuteChecksOut PROVE IInv'
  OBVIOUS
<1>1. /\ pc = "checkout" /\ pc' = "critical"
      /\ UNCHANGED <<stateLog, branch, patchRefs, opts, stk, txn, todo, temp, err, ops, outcome, snap>>
      /\ wd' = wd \/ wd' = CheckedOut(wd, txn.tree, HeadTree)
  BY DEF ExecuteChecksOut
<1>2. txn.tree \in Trees /\ HeadTree \in Trees
  BY TxnFacts, CommitTypes DEF HeadTree
<1>3. wd' \in Workdirs
  BY <1>1, <1>2, RollbackType
<1>4. TypeOK'
  BY <1>1, <1>3 DEF IInv, TypeOK
<1>5. LogGood' /\ RefsFollow' /\ OpenedState'
  BY <1>1 DEF IInv, LogGood, RefsFollow, OpenedState, State
<1>6. Good(stk.state)' /\ WF(txn, stk.state.patches)' /\ Pending(txn, todo, stk.state.patches)'
  <2>1. Good(stk'.state) /\ WF(txn', stk'.state.patches) /\ Pending(txn', todo', stk'.state.patches)
    BY <1>1 DEF IInv
  <2> QED BY <2>1
<1>7. todo' = <<>>
  BY <1>1 DEF IInv
<1> QED BY <1>1, <1>4, <1>5, <1>6, <1>7 DEF IInv

\* Every way for execute(), or the process, to end preserves the invariant.
LEMMA EndingsIInv ==
  IInv /\ (\/ NewAppliedPanics \/ ExecuteReturnsError \/ ExecuteCheckoutFails \/ CriticalSucceeds
           \/ CriticalInterrupted \/ CriticalRefused \/ CriticalTorn \/ Crash) => IInv'
<1> SUFFICES ASSUME IInv,
                    \/ NewAppliedPanics \/ ExecuteReturnsError \/ ExecuteCheckoutFails \/ CriticalSucceeds
                    \/ CriticalInterrupted \/ CriticalRefused \/ CriticalTorn \/ Crash
             PROVE  IInv'
  OBVIOUS
<1>1. /\ wd \in Workdirs /\ txn.tree \in Trees /\ HeadTree \in Trees /\ Tree(stk.head) \in Trees
      /\ txn.touched \in SUBSET Names
  BY TxnFacts, CommitTypes DEF IInv, TypeOK, HeadTree, Transactions
<1>2. CASE ExecuteReturnsError
  <2>1. pc # "idle" /\ End("error") /\ UNCHANGED <<stateLog, branch, patchRefs, wd>>
    BY <1>2 DEF ExecuteReturnsError, repo
  <2>2. wd' \in Workdirs /\ "error" \in Outcomes
    BY <1>1, <2>1 DEF Outcomes
  <2> QED BY <2>1, <2>2, SameReferences, EndIInv
<1>3. CASE ExecuteCheckoutFails
  <2>1. pc # "idle" /\ Rollback(txn.tree, "aborted") /\ UNCHANGED <<stateLog, branch, patchRefs>>
    BY <1>3 DEF ExecuteCheckoutFails
  <2>2. "aborted" \in Outcomes \ {"torn", "crashed"}
    BY DEF Outcomes
  <2> QED BY <1>1, <2>1, <2>2, SameReferences, RollbackIInv
<1>4. CASE CriticalSucceeds
  <2>1. PICK how \in {"ok", "halted", "conflict"} : End(how)
    BY <1>4 DEF CriticalSucceeds
  <2>2. pc # "idle" /\ EditAll /\ wd' = wd
    BY <1>4 DEF CriticalSucceeds
  <2>3. how \in Outcomes /\ wd' \in Workdirs
    BY <1>1, <2>2 DEF Outcomes
  <2> QED BY <2>1, <2>2, <2>3, EditAllOK, EndIInv
<1>5. CASE CriticalInterrupted
  <2>1. pc # "idle" /\ Rollback(HeadTree, "interrupted") /\ EditAll
    BY <1>5 DEF CriticalInterrupted
  <2>2. "interrupted" \in Outcomes \ {"torn", "crashed"}
    BY DEF Outcomes
  <2> QED BY <1>1, <2>1, <2>2, EditAllOK, RollbackIInv
<1>6. CASE CriticalRefused
  <2>1. pc # "idle" /\ Rollback(HeadTree, "aborted") /\ UNCHANGED <<stateLog, branch, patchRefs>>
    BY <1>6 DEF CriticalRefused
  <2>2. "aborted" \in Outcomes \ {"torn", "crashed"}
    BY DEF Outcomes
  <2> QED BY <1>1, <2>1, <2>2, SameReferences, RollbackIInv
<1>7. CASE CriticalTorn
  <2>1. PICK P \in SUBSET txn.touched, s \in BOOLEAN, b \in BOOLEAN : EditReferences(P, s, b)
    BY <1>7 DEF CriticalTorn
  <2>2. End("torn") /\ (wd' = CheckedOut(wd, HeadTree, Tree(stk.head)) \/ wd' = wd)
    BY <1>7 DEF CriticalTorn
  <2>3. wd' \in Workdirs /\ P \in SUBSET Names /\ "torn" \in Outcomes
    BY <1>1, <2>2, RollbackType DEF Outcomes
  <2> QED BY <2>1, <2>2, <2>3, EditTypesOK, EndIInv
<1>8. CASE Crash
  <2>1. pc # "idle" /\ End("crashed") /\ wd' = wd
    BY <1>8 DEF Crash
  <2>2. wd' \in Workdirs /\ "crashed" \in Outcomes
    BY <1>1, <2>1 DEF Outcomes
  <2>3. CASE UNCHANGED <<stateLog, branch, patchRefs>>
    BY <2>1, <2>2, <2>3, SameReferences, EndIInv
  <2>4. CASE \E P \in SUBSET txn.touched, s, b \in BOOLEAN : EditReferences(P, s, b)
    <3>1. PICK P \in SUBSET txn.touched, s \in BOOLEAN, b \in BOOLEAN : EditReferences(P, s, b)
      BY <2>4
    <3>2. P \in SUBSET Names
      BY <1>1
    <3> QED BY <2>1, <2>2, <3>1, <3>2, EditTypesOK, EndIInv
  <2> QED BY <1>8, <2>3, <2>4 DEF Crash
<1>9. CASE NewAppliedPanics
  <2>1. pc # "idle" /\ End("panicked") /\ UNCHANGED <<stateLog, branch, patchRefs, wd>>
    BY <1>9 DEF NewAppliedPanics, repo
  <2>2. wd' \in Workdirs /\ "panicked" \in Outcomes
    BY <1>1, <2>1 DEF Outcomes
  <2> QED BY <2>1, <2>2, SameReferences, EndIInv
<1> QED BY <1>2, <1>3, <1>4, <1>5, <1>6, <1>7, <1>8, <1>9

\* A step that changes nothing preserves the invariant.
LEMMA StutterIInv == IInv /\ UNCHANGED vars => IInv'
<1> SUFFICES ASSUME IInv, UNCHANGED vars PROVE IInv'
  OBVIOUS
<1>1. UNCHANGED <<stateLog, branch, patchRefs, wd, pc, opts, stk, txn, todo, temp, err, ops,
                  outcome, snap>>
  BY DEF vars, repo, proc
<1>2. TypeOK'
  BY <1>1 DEF IInv, TypeOK
<1>3. LogGood' /\ RefsFollow' /\ OpenedState'
  BY <1>1 DEF IInv, LogGood, RefsFollow, OpenedState, State
<1>4. Good(stk.state)' /\ WF(txn, stk.state.patches)' /\ Pending(txn, todo, stk.state.patches)'
  <2>1. Good(stk'.state) /\ WF(txn', stk'.state.patches) /\ Pending(txn', todo', stk'.state.patches)
    BY <1>1 DEF IInv
  <2> QED BY <2>1
<1> QED BY <1>1, <1>2, <1>3, <1>4 DEF IInv

\* Every step preserves the invariant.
LEMMA NextIInv == IInv /\ [Next]_vars => IInv'
<1> SUFFICES ASSUME IInv, [Next]_vars PROVE IInv'
  OBVIOUS
<1>1. CASE User
  BY <1>1, UserIInv
<1>2. CASE Open
  BY <1>2, OpenStackIInv, RefuseMismatchIInv DEF Open
<1>3. CASE Closure
  BY <1>3, PopIInv, DeleteIInv, PushIInv, PushSetTreeIInv, NewIInv, AddUnappliedIInv, UpdateIInv,
     ReorderIInv, HideIInv, UnhideIInv, RenameIInv, CommitIInv, UncommitIInv, RepairIInv,
     ResetIInv, ResetSomeIInv, BodyFailsIInv, BodyReturnsIInv DEF Closure
<1>4. CASE Steps
  BY <1>4, OpenTempIndexIInv, CloseTempIndexIInv, PushTriviallyIInv, PushAppliedIInv,
     PushHaltsIInv, PushMergedIInv, PushConflictsIInv, AssignListsIInv, MoveBaseIInv DEF Steps
<1>5. CASE Execute
  BY <1>5, ExecuteStartsIInv, ExecuteChecksOutIInv, EndingsIInv DEF Execute
<1>6. CASE UNCHANGED vars
  BY <1>6, StutterIInv
<1> QED BY <1>1, <1>2, <1>3, <1>4, <1>5, <1>6 DEF Next

\* The invariant holds in every reachable state.
LEMMA SpecIInv == Spec => []IInv
BY InitIInv, NextIInv, PTL DEF Spec

\* Every variable keeps its type, for every set of files, contents and names,
\* every set of commands and every bound: in particular the patch maps and
\* commits that the methods of StackTransaction build are well typed.
THEOREM TypeCorrect == Spec => []TypeOK
<1>1. IInv => TypeOK
  BY DEF IInv
<1> QED BY <1>1, SpecIInv, PTL

\* Every stack state that execute() ever installs has each patch in exactly one
\* of its lists, once, and a commit for exactly those, however long the
\* closure, wherever it halts and whatever fails afterwards.
THEOREM StatesPartitioned == Spec => []ListsPartitionPatches
<1>1. IInv => ListsPartitionPatches
  <2> SUFFICES ASSUME IInv, NEW i \in 1..Len(stateLog) PROVE Partitioned(stateLog[i])
    BY DEF ListsPartitionPatches
  <2>1. PICK s : s = stateLog[i]
    OBVIOUS
  <2>2. s \in States /\ Good(s)
    BY <2>1, StateType DEF IInv, LogGood
  <2>3. s.applied \in Seq(Names) /\ s.unapplied \in Seq(Names) /\ s.hidden \in Seq(Names)
    BY <2>2 DEF States
  <2> QED BY <2>1, <2>2, <2>3, GoodIsPartitioned
<1> QED BY <1>1, SpecIInv, PTL

\* The assertions of execute(), reorder_patches() and commit_patches() hold in
\* every transaction.
THEOREM NoAssertionFails == Spec => []AssertionsHold
<1>1. IInv => AssertionsHold
  <2> SUFFICES ASSUME IInv PROVE AssertionsHold
    OBVIOUS
  <2>1. ASSUME pc = "execute", NEW n \in txn.touched
        PROVE  IF HasPatch(txn, n) THEN n \in Existing ELSE HasPatch(stk.state, n)
    <3>1. n \in Names /\ Good(txn) /\ Existing = InLists(txn) /\ Tracks(txn, stk.state.patches)
      BY <2>1, TxnFacts DEF IInv, WF, Transactions
    <3> QED BY <2>1, <3>1 DEF Good, Tracks, HasPatch
  <2>2. ASSUME Doing("lists") PROVE txn.applied = Head(todo).names
    <3>1. /\ todo # <<>> /\ todo \in Seq(Calls) /\ Head(todo) = todo[1] /\ todo[1].op = "lists"
          /\ Pending(txn, todo, stk.state.patches)
      BY <2>2, DoingFacts
    <3>2. txn.applied \o <<>> = todo[1].names
      BY <3>1, PendingShape DEF OneLists, ListsAhead
    <3> QED BY <3>1, <3>2, TxnFacts
  <2>3. ASSUME Doing("base") PROVE IsPrefixOf(Head(todo).names, txn.applied)
    <3>1. /\ todo # <<>> /\ todo \in Seq(Calls) /\ Head(todo) = todo[1] /\ todo[1].op = "base"
          /\ Pending(txn, todo, stk.state.patches)
      BY <2>3, DoingFacts
    <3>2. IsPrefixOf(todo[1].names, txn.applied \o <<>>)
      BY <3>1, PendingShape DEF OneBase, BasePush, BaseAhead
    <3>3. txn.applied \o <<>> = txn.applied
      BY TxnFacts
    <3> QED BY <3>1, <3>2, <3>3
  <2> QED BY <2>1, <2>2, <2>3 DEF AssertionsHold
<1> QED BY <1>1, SpecIInv, PTL

\* The patch references written by execute() are those of the stack state it
\* installs, and from_branch() finds or makes them so, unless the process died
\* or the references were torn.
THEOREM PatchRefsCorrect == Spec => []PatchRefsFollowState
<1>1. IInv => PatchRefsFollowState
  BY DEF IInv, RefsFollow, PatchRefsFollowState
<1> QED BY <1>1, SpecIInv, PTL
=============================================================================
