--------------------------- MODULE BranchesProofs ---------------------------
(***************************************************************************)
(* Proofs about Branches, for every set of branches and patches, every     *)
(* initial repository and any number of commands and kills: a stack        *)
(* belongs to a branch, a protected stack stays, and no patch is lost.     *)
(*                                                                         *)
(* The properties speak of the repository; the inductive invariants tie it *)
(* to the step at which the running command is.                            *)
(***************************************************************************)
EXTENDS Branches, TLAPS

Ops == {"none", "create", "clone", "init clone", "rename", "delete", "cleanup", "protect",
        "unprotect", "init"}

\* The steps of Stack::from_branch.
OpenPcs == {"upgrade", "remove v4", "remove protected", "upgrade 3", "remove old refs",
            "remove version", "remove dir", "opened", "patch refs", "failed"}

Confs == [protect : BOOLEAN, parent : Branches \cup {NoBranch}, version : {0, 1, 2, 3}]

Pcs == OpenPcs \cup
  {"idle", "set parent", "checkout", "drop new stack", "copy stack", "copy branch", "move config", "move branch",
   "parent again", "permitted", "drop refs", "drop stack", "drop config", "leave",
   "delete branch", "protect", "unprotect", "end"}

V4s  == [patches : MaybeSets, first : BOOLEAN]
Dirs == [patches : MaybeSets, protected : BOOLEAN]

Cmds == [op : Ops, pc : Pcs, b : Branches \cup {NoBranch}, to : Branches \cup {NoBranch},
         force : BOOLEAN, policy : {"require", "must", "force"}, snap : Confs]

\* Each command has its own steps, and a branch to work on.
Flow ==
  /\ cmd.op = "none" <=> cmd.pc = "idle"
  /\ cmd.pc \in {"set parent", "checkout"} => cmd.op \in {"create", "clone", "init clone"}
  /\ cmd.pc = "drop new stack" => cmd.op = "create"
  /\ cmd.pc = "copy stack"  => cmd.op \in {"clone", "rename"}
  /\ cmd.pc = "copy branch" => cmd.op = "clone"
  /\ cmd.pc \in {"move config", "move branch", "parent again"} => cmd.op = "rename"
  /\ cmd.pc = "permitted"   => cmd.op \in {"delete", "cleanup"}
  /\ cmd.pc \in {"drop refs", "drop stack", "drop config"} => cmd.op \in {"rename", "delete", "cleanup"}
  /\ cmd.pc \in {"leave", "delete branch"} => cmd.op = "delete"
  /\ cmd.pc \in {"protect", "unprotect"} => cmd.op = cmd.pc
  /\ cmd.op # "none" => cmd.b \in Branches
  /\ cmd.op \in {"clone", "rename", "init clone"} => cmd.to \in Branches /\ cmd.to # cmd.b
  /\ cmd.policy = "force" <=> cmd.op = "create"
  /\ cmd.policy = "must"  <=> cmd.op \in {"init", "init clone"}

Typed == store \in Stores /\ cmd \in Cmds /\ forced \subseteq Patches /\ kills \in Nat /\ Flow

\* Branch b of the repository s has no stack of the formats 4 and 5.
Old(s, b, version) == s.stacks[b] = None /\ s.v4[b].patches = None /\ s.conf[b].version = version

\* What the steps of an opening, and those after it, know of the stack of the branch.
Found ==
  /\ cmd.pc \in {"remove v4", "remove old refs", "remove version", "remove dir", "patch refs",
                 "copy stack", "move config", "permitted", "drop refs", "drop stack"} => store.stacks[B] # None
  /\ cmd.pc \in {"remove protected", "upgrade 3"} => Old(store, B, 2)
  /\ cmd.pc = "opened" => store.stacks[B] # None \/ Old(store, B, 0)
  /\ cmd.pc = "failed" /\ cmd.policy # "must" => store.stacks[B] = None
  /\ cmd.pc \in {"drop config", "leave", "delete branch"} => store.stacks[B] = None
  /\ cmd.pc \in OpenPcs => B \in store.heads

StateInv == Typed /\ Found

\* A stack without a branch belongs to the clone or the renaming that is at work, or is
\* about to be taken back.
Pending(b) ==
  \/ cmd.pc = "drop new stack" /\ b = cmd.b
  \/ cmd.op = "clone" /\ cmd.pc = "copy branch" /\ b = cmd.to
  \/ cmd.op = "rename" /\ cmd.pc \in {"move config", "move branch"} /\ b = cmd.to
  \/ cmd.op = "rename" /\ cmd.pc \in {"drop refs", "drop stack"} /\ b = cmd.b

OrphanInv ==
  kills = 0 => \A b \in Branches : store.stacks[b] # None => b \in store.heads \/ Pending(b)

\* The new name is free as long as nothing but the stack reference was written for it.
NewName ==
  \/ cmd.op = "clone" /\ cmd.pc \in OpenPcs \cup {"copy stack", "copy branch"}
  \/ cmd.op = "rename" /\ cmd.pc \in OpenPcs \cup {"copy stack", "move config", "move branch"}

NameFree == NewName => cmd.to \notin store.heads

\* What delete and cleanup know of the protection is true, and it allows what they do.
ProtectInv ==
  cmd.op \in {"delete", "cleanup"} =>
    /\ cmd.pc # "remove protected"
    /\ cmd.pc = "upgrade" /\ Old(store, B, 2) => ~store.dir[B].protected
    /\ cmd.pc \in OpenPcs \cup {"permitted", "drop refs", "drop stack"} =>
         store.conf[B].protect = cmd.snap.protect
    /\ cmd.pc \in {"drop refs", "drop stack"} => ~cmd.snap.protect

\* Patch x is in the stack of branch b of the repository s, in any format.
Has(s, b, x) ==
  CASE s.stacks[b] # None -> x \in s.stacks[b]
    [] s.stacks[b] = None /\ s.v4[b].patches # None -> x \in s.v4[b].patches
    [] OTHER -> /\ s.conf[b].version \in {2, 3} /\ x \in s.refs[b]
                /\ s.dir[b].patches # None /\ x \in s.dir[b].patches

\* Every patch that was not given up is in the stack of one of these branches.
In(s, bs, gone) == \A x \in Patches \ gone : \E b \in bs : Has(s, b, x)

\* The command may do without the stack of its branch: it has just made that branch,
\* or found nothing in it, or was allowed to throw it away, or has moved it.
Dispensable ==
  \/ cmd.op = "create"
  \/ cmd.pc \in {"drop refs", "drop stack", "drop config", "leave", "delete branch"}
  \/ cmd.pc = "failed" /\ cmd.policy = "require"
  \/ cmd.pc = "move branch" /\ store.stacks[B] = None

\* What is left behind: no stack of format 4 that cannot be opened, no references of a
\* stack that is gone, and a stack that is moved is the same under both names.
Tidy ==
  /\ \A b \in Branches : ~store.v4[b].first
  /\ cmd.pc \in {"drop stack", "drop config"} => store.refs[B] = {}
  /\ cmd.pc \in {"move config", "move branch"} /\ store.stacks[B] # None =>
       store.stacks[cmd.to] = store.stacks[B]

ReachInv ==
  /\ In(store, store.heads, forced)
  /\ Dispensable => In(store, store.heads \ {B}, forced)
  /\ Tidy

\* What the theorems ask of the constants: no input that should have been refused, and
\* repositories that are in order, without a stack of format 4 that cannot be opened.
NothingUnchecked == Doubtful = {}

NoOrphanAtStart ==
  \A s \in InitStores : \A b \in Branches : s.stacks[b] # None => b \in s.heads

ReachableAtStart ==
  \A s \in InitStores : In(s, s.heads, {}) /\ \A b \in Branches : ~s.v4[b].first
-----------------------------------------------------------------------------
(* What a step does to the repository and to the command, field by field. *)

Is(t, heads, stacks, refs, v4, dir, conf) ==
  /\ t \in Stores /\ t.heads = heads /\ t.stacks = stacks /\ t.refs = refs
  /\ t.v4 = v4 /\ t.dir = dir /\ t.conf = conf

\* The store as it was, but perhaps for HEAD.
Unmoved == Is(store', store.heads, store.stacks, store.refs, store.v4, store.dir, store.conf)

\* One field of it has a new value.
NowHeads(h)  == Is(store', h, store.stacks, store.refs, store.v4, store.dir, store.conf)
NowStacks(s) == Is(store', store.heads, s, store.refs, store.v4, store.dir, store.conf)
NowRefs(r)   == Is(store', store.heads, store.stacks, r, store.v4, store.dir, store.conf)
NowV4(v)     == Is(store', store.heads, store.stacks, store.refs, v, store.dir, store.conf)
NowDir(d)    == Is(store', store.heads, store.stacks, store.refs, store.v4, d, store.conf)
NowConf(c)   == Is(store', store.heads, store.stacks, store.refs, store.v4, store.dir, c)

\* The command goes on at pc, is over, or begins.
Went(pc) ==
  /\ cmd' \in Cmds /\ cmd'.pc = pc /\ cmd'.op = cmd.op /\ cmd'.b = cmd.b /\ cmd'.to = cmd.to
  /\ cmd'.policy = cmd.policy /\ cmd'.snap = cmd.snap /\ cmd'.force = cmd.force

Ended == cmd' \in Cmds /\ cmd'.pc = "idle" /\ cmd'.op = "none" /\ cmd'.policy = "require"

Begun(op, b, to, policy) ==
  /\ cmd' \in Cmds /\ cmd'.pc = "upgrade" /\ cmd'.op = op /\ cmd'.b = b /\ cmd'.to = to
  /\ cmd'.policy = policy /\ cmd'.snap = store.conf[b]

\* The fields of a repository.
LEMMA Fields ==
  ASSUME NEW s \in Stores
  PROVE  /\ s.heads \subseteq Branches /\ s.current \in Branches
         /\ s.stacks \in [Branches -> MaybeSets] /\ s.refs \in [Branches -> SUBSET Patches]
         /\ s.v4 \in [Branches -> V4s] /\ s.dir \in [Branches -> Dirs] /\ s.conf \in [Branches -> Confs]
  BY DEF Stores, V4s, Dirs, Confs

\* Those of a command.
LEMMA CmdFields ==
  ASSUME NEW c \in Cmds
  PROVE  /\ c.op \in Ops /\ c.pc \in Pcs /\ c.b \in Branches \cup {NoBranch}
         /\ c.to \in Branches \cup {NoBranch} /\ c.force \in BOOLEAN
         /\ c.policy \in {"require", "must", "force"} /\ c.snap \in Confs
  BY DEF Cmds

\* What the version that get_format_version finds says of the stack.
LEMMA Versions ==
  ASSUME store \in Stores, NEW b \in Branches
  PROVE  /\ Version(b) = 5 => store.stacks[b] # None
         /\ Version(b) = 4 => store.stacks[b] = None /\ store.v4[b].patches # None
         /\ \A n \in {0, 1, 2, 3} : Version(b) = n <=> Old(store, b, n)
<1>1. store.conf[b].version \in {0, 1, 2, 3}
  BY Fields DEF Confs
<1>2. CASE store.stacks[b] # None
  BY <1>2 DEF Version, Old
<1>3. CASE store.stacks[b] = None /\ store.v4[b].patches # None
  BY <1>3 DEF Version, Old
<1>4. CASE store.stacks[b] = None /\ store.v4[b].patches = None
  <2>1. Version(b) = store.conf[b].version
    BY <1>4 DEF Version
  <2> QED BY <1>1, <1>4, <2>1 DEF Old
<1> QED
  BY <1>2, <1>3, <1>4

\* Updates of a section of the configuration and of what an old directory holds.
LEMMA ConfParts ==
  ASSUME NEW c \in Confs
  PROVE  /\ \A x : [c EXCEPT !.protect = x].protect = x /\ [c EXCEPT !.protect = x].version = c.version
         /\ \A x : /\ [c EXCEPT !.parent = x].protect = c.protect
                  /\ [c EXCEPT !.parent = x].version = c.version
         /\ [c EXCEPT !.version = 0].protect = c.protect /\ [c EXCEPT !.version = 0].version = 0
  BY DEF Confs

LEMMA DirParts ==
  ASSUME NEW d \in Dirs
  PROVE  [d EXCEPT !.protected = FALSE].patches = d.patches
  BY DEF Dirs

\* Goes, Ends and Opens.
LEMMA GoesDoes ==
  ASSUME cmd \in Cmds, NEW pc \in Pcs, Goes(pc)
  PROVE  Went(pc)
  BY DEF Goes, Cmds, Went

LEMMA EndsDoes ==
  ASSUME Ends
  PROVE  Ended
<1>1. NoConf \in Confs
  BY DEF NoConf, Confs
<1>2. NoCmd \in Cmds
  BY <1>1 DEF NoCmd, Cmds, Ops, Pcs
<1> QED
  BY <1>2 DEF Ends, Ended, NoCmd

LEMMA OpensDoes ==
  ASSUME store \in Stores, NEW op \in Ops, NEW b \in Branches, NEW to \in Branches \cup {NoBranch},
         NEW force \in BOOLEAN, NEW policy \in {"require", "must", "force"},
         Opens(op, b, to, force, policy)
  PROVE  Begun(op, b, to, policy)
<1>1. store.conf[b] \in Confs
  BY Fields
<1>2. cmd' = [op |-> op, pc |-> "upgrade", b |-> b, to |-> to, force |-> force,
              policy |-> policy, snap |-> store.conf[b]]
  BY DEF Opens, NoCmd
<1>3. cmd' \in Cmds
  BY <1>1, <1>2 DEF Cmds, Pcs, OpenPcs
<1> QED
  BY <1>2, <1>3 DEF Begun
(* Every update of the repository, field by field. *)

LEMMA SetHeads ==
  ASSUME NEW s \in Stores, NEW h \in SUBSET Branches, NEW t, t = [s EXCEPT !.heads = h]
  PROVE  Is(t, h, s.stacks, s.refs, s.v4, s.dir, s.conf)
  BY DEF Stores, Is

LEMMA SetCurrent ==
  ASSUME NEW s \in Stores, NEW c \in Branches, NEW t, t = [s EXCEPT !.current = c]
  PROVE  Is(t, s.heads, s.stacks, s.refs, s.v4, s.dir, s.conf)
  BY DEF Stores, Is

LEMMA SetHeadsCurrent ==
  ASSUME NEW s \in Stores, NEW h \in SUBSET Branches, NEW c \in Branches, NEW t, t = [s EXCEPT !.heads = h, !.current = c]
  PROVE  Is(t, h, s.stacks, s.refs, s.v4, s.dir, s.conf)
  BY DEF Stores, Is

LEMMA SetStack ==
  ASSUME NEW s \in Stores, NEW b \in Branches, NEW x \in MaybeSets, NEW t, t = [s EXCEPT !.stacks[b] = x]
  PROVE  Is(t, s.heads, [s.stacks EXCEPT ![b] = x], s.refs, s.v4, s.dir, s.conf)
  BY DEF Stores, Is

LEMMA SetRefs ==
  ASSUME NEW s \in Stores, NEW b \in Branches, NEW x \in SUBSET Patches, NEW t, t = [s EXCEPT !.refs[b] = x]
  PROVE  Is(t, s.heads, s.stacks, [s.refs EXCEPT ![b] = x], s.v4, s.dir, s.conf)
  BY DEF Stores, Is

LEMMA SetV4 ==
  ASSUME NEW s \in Stores, NEW b \in Branches, NEW t, t = [s EXCEPT !.v4[b] = NoV4]
  PROVE  Is(t, s.heads, s.stacks, s.refs, [s.v4 EXCEPT ![b] = NoV4], s.dir, s.conf)
  BY DEF Stores, MaybeSets, NoV4, Is

LEMMA SetDir ==
  ASSUME NEW s \in Stores, NEW b \in Branches, NEW d \in Dirs, NEW t, t = [s EXCEPT !.dir[b] = d]
  PROVE  Is(t, s.heads, s.stacks, s.refs, s.v4, [s.dir EXCEPT ![b] = d], s.conf)
  BY DEF Stores, Dirs, Is

LEMMA SetConf ==
  ASSUME NEW s \in Stores, NEW b \in Branches, NEW c \in Confs, NEW t, t = [s EXCEPT !.conf[b] = c]
  PROVE  Is(t, s.heads, s.stacks, s.refs, s.v4, s.dir, [s.conf EXCEPT ![b] = c])
  BY DEF Stores, Confs, Is

LEMMA MoveConf ==
  ASSUME NEW s \in Stores, NEW b \in Branches, NEW to \in Branches, NEW c \in Confs,
         NEW t, t = [s EXCEPT !.conf[to] = c, !.conf[b] = NoConf]
  PROVE  Is(t, s.heads, s.stacks, s.refs, s.v4, s.dir, [s.conf EXCEPT ![to] = c, ![b] = NoConf])
  BY DEF Stores, Confs, NoConf, Is

\* What two sections of one name are read as is a section.
LEMMA MergedType ==
  ASSUME NEW c \in Confs, NEW d \in Confs
  PROVE  Merged(c, d) \subseteq Confs
  BY DEF Merged, Confs
-----------------------------------------------------------------------------
(* The actions, field by field. *)

\* A command that works on a branch that is there.
Begins(op, b, to) ==
  /\ op \in Ops \ {"none", "create", "init clone"}
  /\ b \in store.heads /\ to \in Branches \cup {NoBranch}
  /\ op \in {"clone", "rename"} => to \in Branches /\ to # b /\ (to \in store.heads => Doubtful # {})
  /\ op \in {"delete", "cleanup"} => ~LateProtection(b)
  /\ Begun(op, b, to, IF op = "init" THEN "must" ELSE "require")

\* create makes its branch first.
LEMMA CreateDoes ==
  ASSUME store \in Stores, StartCreate
  PROVE  \E b \in Branches \ store.heads, to \in Branches \cup {NoBranch} :
           /\ Begun("create", b, to, "force")
           /\ Is(store', store.heads \cup {b}, store.stacks, store.refs, store.v4, store.dir, store.conf)
           /\ UNCHANGED <<forced, kills>>
<1>1. PICK b \in Branches \ store.heads, to \in store.heads \cup {NoBranch} :
        Opens("create", b, to, FALSE, "force") /\ store' = [store EXCEPT !.heads = @ \cup {b}]
  BY DEF StartCreate
<1>2. store.heads \subseteq Branches /\ store.heads \cup {b} \in SUBSET Branches
  BY Fields
<1>3. Begun("create", b, to, "force")
  BY <1>1, <1>2, OpensDoes DEF Ops
<1>4. Is(store', store.heads \cup {b}, store.stacks, store.refs, store.v4, store.dir, store.conf)
  BY <1>1, <1>2, SetHeads
<1> QED
  BY <1>2, <1>3, <1>4 DEF StartCreate

\* The store as it is.
LEMMA StoreKept ==
  ASSUME store \in Stores, store' = store
  PROVE  Unmoved
  BY DEF Unmoved, Is

\* The others find theirs.
LEMMA StartDoes ==
  ASSUME store \in Stores,
         \/ StartClone \/ StartRename \/ StartDelete \/ StartCleanup \/ StartProtect \/ StartUnprotect
         \/ StartInit
  PROVE  /\ \E op \in Ops, b \in Branches, to \in Branches \cup {NoBranch} : Begins(op, b, to)
         /\ Unmoved /\ UNCHANGED <<forced, kills>>
<1>0. store.heads \subseteq Branches /\ store.current \in Branches
      /\ \A b \in Branches : store.conf[b].parent \in Branches \cup {NoBranch}
  BY Fields DEF Confs
<1>1. Unmoved /\ UNCHANGED <<forced, kills>>
  BY StoreKept DEF StartClone, StartRename, StartDelete, StartCleanup, StartProtect, StartUnprotect, StartInit
<1>2. CASE StartClone
  <2>1. PICK b \in Branches \ {store.current} :
          /\ b \in store.heads => "clone existing" \in Doubtful
          /\ Opens("clone", store.current, b, FALSE, "require")
    BY <1>2 DEF StartClone
  <2>2. Begun("clone", store.current, b, "require") /\ store.current \in store.heads
    BY <1>0, <1>2, <2>1, OpensDoes DEF Ops, StartClone
  <2> QED BY <1>0, <1>1, <2>1, <2>2 DEF Begins, Ops
<1>3. CASE StartRename
  <2>1. PICK b \in store.heads, to \in Branches :
          /\ b # to /\ (to \in store.heads => "rename existing" \in Doubtful)
          /\ Opens("rename", b, to, FALSE, "require")
    BY <1>3 DEF StartRename
  <2>2. Begun("rename", b, to, "require")
    BY <1>0, <2>1, OpensDoes DEF Ops
  <2> QED BY <1>0, <1>1, <2>1, <2>2 DEF Begins, Ops
<1>4. CASE StartDelete
  <2>1. PICK b \in store.heads, force \in BOOLEAN :
          /\ ~LateProtection(b)
          /\ Opens("delete", b, IF b = store.current THEN store.conf[b].parent ELSE NoBranch, force, "require")
    BY <1>4 DEF StartDelete
  <2>2. PICK to \in Branches \cup {NoBranch} : Opens("delete", b, to, force, "require")
    BY <1>0, <2>1
  <2>3. Begun("delete", b, to, "require")
    BY <1>0, <2>2, OpensDoes DEF Ops
  <2> QED BY <1>0, <1>1, <2>1, <2>3 DEF Begins, Ops
<1>5. CASE StartCleanup
  <2>1. PICK b \in store.heads, force \in BOOLEAN :
          ~LateProtection(b) /\ Opens("cleanup", b, NoBranch, force, "require")
    BY <1>5 DEF StartCleanup
  <2>2. Begun("cleanup", b, NoBranch, "require")
    BY <1>0, <2>1, OpensDoes DEF Ops
  <2> QED BY <1>0, <1>1, <2>1, <2>2 DEF Begins, Ops
<1>6. CASE StartProtect
  <2>1. PICK b \in store.heads : Opens("protect", b, NoBranch, FALSE, "require")
    BY <1>6 DEF StartProtect
  <2>2. Begun("protect", b, NoBranch, "require")
    BY <1>0, <2>1, OpensDoes DEF Ops
  <2> QED BY <1>0, <1>1, <2>1, <2>2 DEF Begins, Ops
<1>7. CASE StartUnprotect
  <2>1. PICK b \in store.heads : Opens("unprotect", b, NoBranch, FALSE, "require")
    BY <1>7 DEF StartUnprotect
  <2>2. Begun("unprotect", b, NoBranch, "require")
    BY <1>0, <2>1, OpensDoes DEF Ops
  <2> QED BY <1>0, <1>1, <2>1, <2>2 DEF Begins, Ops
<1>8. CASE StartInit
  <2>1. PICK b \in store.heads : Opens("init", b, NoBranch, FALSE, "must")
    BY <1>8 DEF StartInit
  <2>2. Begun("init", b, NoBranch, "must")
    BY <1>0, <2>1, OpensDoes DEF Ops
  <2> QED BY <1>0, <1>1, <2>1, <2>2 DEF Begins, Ops
<1> QED
  BY <1>2, <1>3, <1>4, <1>5, <1>6, <1>7, <1>8

Facts ==
  /\ store.heads \subseteq Branches
  /\ store.stacks \in [Branches -> MaybeSets] /\ store.refs \in [Branches -> SUBSET Patches]
  /\ store.v4 \in [Branches -> V4s] /\ store.dir \in [Branches -> Dirs] /\ store.conf \in [Branches -> Confs]

\* Format 4: the stack reference is written.
LEMMA Upgrade4Does ==
  ASSUME StateInv, Upgrade4
  PROVE  /\ cmd.pc = "upgrade" /\ Version(B) = 4
         /\ UNCHANGED <<forced, kills>>
         /\ \/ store.v4[B].first /\ Unmoved /\ Went("failed")
            \/ store.stacks[B] # None /\ Unmoved /\ Went("failed")
            \/ NowStacks([store.stacks EXCEPT ![B] = store.v4[B].patches]) /\ Went("remove v4")
<1>1. store \in Stores /\ cmd \in Cmds /\ B \in Branches
  BY DEF StateInv, Typed, Flow, B, Upgrade4
<1>2. Facts
  BY <1>1, Fields DEF Facts
<1> QED
  BY <1>1, <1>2, GoesDoes, StoreKept, SetStack DEF Upgrade4, Facts, Keeps, Pcs, OpenPcs,
    NowStacks, V4s

\* The old reference goes.
LEMMA RemoveV4Does ==
  ASSUME StateInv, RemoveV4
  PROVE  /\ cmd.pc = "remove v4" /\ Went("opened")
         /\ UNCHANGED <<forced, kills>>
         /\ NowV4([store.v4 EXCEPT ![B] = NoV4])
<1>1. store \in Stores /\ cmd \in Cmds /\ B \in Branches
  BY DEF StateInv, Typed, Flow, B, RemoveV4
<1>2. Facts
  BY <1>1, Fields DEF Facts
<1> QED
  BY <1>1, <1>2, GoesDoes, SetV4 DEF RemoveV4, Facts, Keeps, Pcs, OpenPcs,
    NowV4

\* Format 2: the file `protected' becomes configuration.
LEMMA Upgrade2Does ==
  ASSUME StateInv, Upgrade2
  PROVE  /\ cmd.pc = "upgrade" /\ Version(B) = 2
         /\ UNCHANGED <<forced, kills>>
         /\ \/ store.dir[B].protected /\ NowConf([store.conf EXCEPT ![B] = [store.conf[B] EXCEPT !.protect = TRUE]]) /\ Went("remove protected")
            \/ ~store.dir[B].protected /\ Unmoved /\ Went("upgrade 3")
<1>1. store \in Stores /\ cmd \in Cmds /\ B \in Branches
  BY DEF StateInv, Typed, Flow, B, Upgrade2
<1>2. [store.conf[B] EXCEPT !.protect = TRUE] \in Confs
  <2>1. \A c \in Confs : [c EXCEPT !.protect = TRUE] \in Confs
    BY DEF Confs
  <2> QED BY <1>1, <2>1, Fields
<1>3. CASE store.dir[B].protected
  <2>1. store' = [store EXCEPT !.conf[B].protect = TRUE] /\ Goes("remove protected")
    BY <1>3 DEF Upgrade2
  <2>2. NowConf([store.conf EXCEPT ![B] = [store.conf[B] EXCEPT !.protect = TRUE]])
    BY <1>1, <1>2, <2>1, SetConf DEF NowConf
  <2> QED BY <1>1, <1>3, <2>1, <2>2, GoesDoes DEF Upgrade2, Keeps, Pcs, OpenPcs
<1>4. CASE ~store.dir[B].protected
  BY <1>1, <1>4, GoesDoes, StoreKept DEF Upgrade2, Keeps, Pcs, OpenPcs
<1> QED
  BY <1>3, <1>4

\* The file goes.
LEMMA RemoveProtectedDoes ==
  ASSUME StateInv, RemoveProtected
  PROVE  /\ cmd.pc = "remove protected" /\ Went("upgrade 3")
         /\ UNCHANGED <<forced, kills>>
         /\ NowDir([store.dir EXCEPT ![B] = [store.dir[B] EXCEPT !.protected = FALSE]])
<1>1. store \in Stores /\ cmd \in Cmds /\ B \in Branches
  BY DEF StateInv, Typed, Flow, B, RemoveProtected
<1>2. Facts
  BY <1>1, Fields DEF Facts
<1> QED
  BY <1>1, <1>2, GoesDoes, SetDir DEF RemoveProtected, Facts, Keeps, Pcs, OpenPcs,
    NowDir, Dirs

\* Format 3: the patches with a reference make the stack.
LEMMA Upgrade3Does ==
  ASSUME StateInv, Upgrade3
  PROVE  /\ cmd.pc = "upgrade 3" \/ (cmd.pc = "upgrade" /\ Version(B) = 3)
         /\ UNCHANGED <<forced, kills>>
         /\ \/ store.dir[B].patches = None /\ Unmoved /\ Went("failed")
            \/ store.stacks[B] # None /\ Unmoved /\ Went("failed")
            \/ store.dir[B].patches # None /\ NowStacks([store.stacks EXCEPT ![B] = store.dir[B].patches \cap store.refs[B]]) /\ Went("remove old refs")
<1>1. store \in Stores /\ cmd \in Cmds /\ B \in Branches
  BY DEF StateInv, Typed, Flow, B, Upgrade3
<1>2. Facts
  BY <1>1, Fields DEF Facts
<1> QED
  BY <1>1, <1>2, GoesDoes, StoreKept, SetStack DEF Upgrade3, Facts, Keeps, Pcs, OpenPcs,
    NowStacks, Dirs, MaybeSets

\* What is left of the older formats goes: the references,
LEMMA RemoveOldRefsDoes ==
  ASSUME StateInv, RemoveOldRefs
  PROVE  /\ cmd.pc = "remove old refs" /\ Went("remove version")
         /\ UNCHANGED <<forced, kills>>
         /\ NowV4([store.v4 EXCEPT ![B] = NoV4])
<1>1. store \in Stores /\ cmd \in Cmds /\ B \in Branches
  BY DEF StateInv, Typed, Flow, B, RemoveOldRefs
<1>2. Facts
  BY <1>1, Fields DEF Facts
<1> QED
  BY <1>1, <1>2, GoesDoes, SetV4 DEF RemoveOldRefs, Facts, Keeps, Pcs, OpenPcs,
    NowV4

\* the version,
LEMMA RemoveVersionDoes ==
  ASSUME StateInv, RemoveVersion
  PROVE  /\ cmd.pc = "remove version" /\ Went("remove dir")
         /\ UNCHANGED <<forced, kills>>
         /\ NowConf([store.conf EXCEPT ![B] = [store.conf[B] EXCEPT !.version = 0]])
<1>1. store \in Stores /\ cmd \in Cmds /\ B \in Branches
  BY DEF StateInv, Typed, Flow, B, RemoveVersion
<1>2. Facts
  BY <1>1, Fields DEF Facts
<1>3. cmd.pc = "remove version" /\ Goes("remove dir") /\ UNCHANGED <<forced, kills>>
  BY DEF RemoveVersion, Keeps
<1>4. Went("remove dir")
  BY <1>1, <1>3, GoesDoes DEF Pcs, OpenPcs
<1>5. PICK c : c = [store.conf[B] EXCEPT !.version = 0]
  OBVIOUS
<1>6. c \in Confs
  BY <1>1, <1>2, <1>5 DEF Facts, Confs
<1>7. store' = [store EXCEPT !.conf[B] = c]
  BY <1>5 DEF RemoveVersion
<1>8. NowConf([store.conf EXCEPT ![B] = c])
  BY <1>1, <1>6, <1>7, SetConf DEF NowConf
<1> QED BY <1>3, <1>4, <1>5, <1>8

\* and the directory.
LEMMA RemoveDirDoes ==
  ASSUME StateInv, RemoveDir
  PROVE  /\ cmd.pc = "remove dir" /\ Went("opened")
         /\ UNCHANGED <<forced, kills>>
         /\ NowDir([store.dir EXCEPT ![B] = [patches |-> None, protected |-> FALSE]])
<1>1. store \in Stores /\ cmd \in Cmds /\ B \in Branches
  BY DEF StateInv, Typed, Flow, B, RemoveDir
<1>2. Facts
  BY <1>1, Fields DEF Facts
<1> QED
  BY <1>1, <1>2, GoesDoes, SetDir DEF RemoveDir, Facts, Keeps, Pcs, OpenPcs,
    NowDir, Dirs, MaybeSets

\* There is nothing to upgrade.
LEMMA UpToDateDoes ==
  ASSUME StateInv, UpToDate
  PROVE  /\ cmd.pc = "upgrade" /\ Version(B) \in {0, 5} /\ Went("opened")
         /\ UNCHANGED <<forced, kills>>
         /\ Unmoved
<1>1. store \in Stores /\ cmd \in Cmds /\ B \in Branches
  BY DEF StateInv, Typed, Flow, B, UpToDate
<1>2. Facts
  BY <1>1, Fields DEF Facts
<1> QED
  BY <1>1, <1>2, GoesDoes, StoreKept DEF UpToDate, Facts, Keeps, Pcs, OpenPcs

\* A format that is not handled.
LEMMA UnhandledDoes ==
  ASSUME StateInv, Unhandled
  PROVE  /\ cmd.pc = "upgrade" /\ Version(B) = 1 /\ Went("failed")
         /\ UNCHANGED <<forced, kills>>
         /\ Unmoved
<1>1. store \in Stores /\ cmd \in Cmds /\ B \in Branches
  BY DEF StateInv, Typed, Flow, B, Unhandled
<1> QED
  BY <1>1, GoesDoes, StoreKept DEF Unhandled, Keeps, Pcs, OpenPcs

\* The policy decides.
LEMMA OpenedDoes ==
  ASSUME StateInv, Opened
  PROVE  /\ cmd.pc = "opened"
         /\ UNCHANGED <<forced, kills>>
         /\ \/ cmd.policy = "require" /\ store.stacks[B] = None /\ Unmoved /\ Went("failed")
            \/ cmd.policy = "must" /\ store.stacks[B] # None /\ Unmoved /\ Went("failed")
            \/ cmd.policy = "require" /\ store.stacks[B] # None /\ Unmoved /\ Went("patch refs")
            \/ /\ cmd.policy # "require" /\ (cmd.policy = "must" => store.stacks[B] = None)
               /\ NowStacks([store.stacks EXCEPT ![B] = {}]) /\ Went("patch refs")
<1>1. store \in Stores /\ cmd \in Cmds /\ B \in Branches /\ cmd.policy \in {"require", "must", "force"}
  BY CmdFields DEF StateInv, Typed, Flow, B, Opened
<1>2. "patch refs" \in Pcs /\ "failed" \in Pcs /\ {} \in MaybeSets
  BY DEF Pcs, OpenPcs, MaybeSets
<1>3. CASE cmd.policy = "require" /\ store.stacks[B] = None
  BY <1>1, <1>2, <1>3, GoesDoes, StoreKept DEF Opened, Keeps
<1>4. CASE cmd.policy = "must" /\ store.stacks[B] # None
  BY <1>1, <1>2, <1>4, GoesDoes, StoreKept DEF Opened, Keeps
<1>5. CASE cmd.policy = "require" /\ store.stacks[B] # None
  BY <1>1, <1>2, <1>5, GoesDoes, StoreKept DEF Opened, Keeps
<1>6. CASE cmd.policy # "require" /\ (cmd.policy = "must" => store.stacks[B] = None)
  BY <1>1, <1>2, <1>6, GoesDoes, SetStack DEF Opened, Keeps, NowStacks
<1> QED
  BY <1>3, <1>4, <1>5, <1>6

\* The patch references follow the stack.
LEMMA EnsurePatchRefsDoes ==
  ASSUME StateInv, EnsurePatchRefs
  PROVE  /\ cmd.pc = "patch refs" /\ Went(First(cmd.op))
         /\ UNCHANGED <<forced, kills>>
         /\ NowRefs([store.refs EXCEPT ![B] = store.stacks[B]])
<1>1. store \in Stores /\ cmd \in Cmds /\ B \in Branches /\ store.stacks[B] # None
  BY DEF StateInv, Typed, Flow, Found, B, EnsurePatchRefs
<1>2. First(cmd.op) \in Pcs
  BY <1>1, CmdFields DEF StateInv, Typed, Flow, EnsurePatchRefs, First, Ops, Pcs
<1>3. PICK x \in SUBSET Patches : x = store.stacks[B]
  BY <1>1, Fields DEF MaybeSets
<1>4. store' = [store EXCEPT !.refs[B] = x]
  BY <1>3 DEF EnsurePatchRefs
<1>5. NowRefs([store.refs EXCEPT ![B] = x])
  BY <1>1, <1>4, SetRefs DEF NowRefs
<1> QED
  BY <1>1, <1>2, <1>3, <1>5, GoesDoes DEF EnsurePatchRefs, Keeps

\* There is no stack to be had.
LEMMA OpenFailedDoes ==
  ASSUME StateInv, OpenFailed
  PROVE  /\ cmd.pc = "failed"
         /\ UNCHANGED <<forced, kills>>
         /\ \/ cmd.op = "create" /\ NowHeads(store.heads \ {B}) /\ Ended
            \/ cmd.op = "clone" /\ Unmoved /\ Went("copy branch")
            \/ cmd.op = "rename" /\ Unmoved /\ Went("move branch")
            \/ cmd.op = "delete" /\ Unmoved /\ Went("leave")
            \/ cmd.op \notin {"create", "clone", "rename", "delete"} /\ Unmoved /\ Ended
<1>1. store \in Stores /\ cmd \in Cmds /\ B \in Branches
  BY DEF StateInv, Typed, Flow, B, OpenFailed
<1>2. Facts
  BY <1>1, Fields DEF Facts
<1> QED
  BY <1>1, <1>2, GoesDoes, EndsDoes, StoreKept, SetHeads DEF OpenFailed, Facts, Keeps, Pcs, OpenPcs,
    NowHeads

\* The stack reference is copied to the new name; rename does not overwrite one.
LEMMA CopyStackDoes ==
  ASSUME StateInv, CopyStack
  PROVE  /\ cmd.pc = "copy stack"
         /\ UNCHANGED <<forced, kills>>
         /\ \/ cmd.op = "rename" /\ store.stacks[cmd.to] # None /\ Unmoved /\ Ended
            \/ cmd.op = "clone" /\ NowStacks([store.stacks EXCEPT ![cmd.to] = store.stacks[B]]) /\ Went("copy branch")
            \/ cmd.op = "rename" /\ store.stacks[cmd.to] = None /\ NowStacks([store.stacks EXCEPT ![cmd.to] = store.stacks[B]]) /\ Went("move config")
<1>1. store \in Stores /\ cmd \in Cmds /\ B \in Branches /\ cmd.to \in Branches /\ cmd.op \in {"clone", "rename"}
  BY DEF StateInv, Typed, Flow, B, CopyStack
<1>2. PICK x \in MaybeSets : x = store.stacks[B]
  BY <1>1, Fields
<1>3. CASE cmd.op = "rename" /\ store.stacks[cmd.to] # None
  BY <1>1, <1>3, EndsDoes, StoreKept DEF CopyStack, Keeps
<1>4. CASE ~(cmd.op = "rename" /\ store.stacks[cmd.to] # None)
  <2>1. /\ store' = [store EXCEPT !.stacks[cmd.to] = x]
        /\ Goes(IF cmd.op = "clone" THEN "copy branch" ELSE "move config")
    BY <1>2, <1>4 DEF CopyStack
  <2>2. NowStacks([store.stacks EXCEPT ![cmd.to] = store.stacks[B]])
    BY <1>1, <1>2, <2>1, SetStack DEF NowStacks
  <2>3. CASE cmd.op = "clone"
    BY <1>1, <2>1, <2>2, <2>3, GoesDoes DEF CopyStack, Keeps, Pcs
  <2>4. CASE cmd.op = "rename"
    BY <1>1, <1>4, <2>1, <2>2, <2>4, GoesDoes DEF CopyStack, Keeps, Pcs
  <2> QED BY <1>1, <2>3, <2>4
<1> QED
  BY <1>3, <1>4

\* git copies the branch; one without a stack is given one.
LEMMA CopyBranchDoes ==
  ASSUME StateInv, CopyBranch
  PROVE  /\ cmd.pc = "copy branch"
         /\ UNCHANGED <<forced, kills>>
         /\ \/ cmd.to \in store.heads /\ Unmoved /\ Ended
            \/ store.stacks[B] # None /\ NowHeads(store.heads \cup {cmd.to}) /\ Went("set parent")
            \/ NowHeads(store.heads \cup {cmd.to}) /\ cmd' \in Cmds /\ cmd'.op = "init clone" /\ cmd'.pc = "upgrade"
               /\ cmd'.policy = "must" /\ cmd'.b = cmd.to /\ cmd'.to = cmd.b
<1>1. store \in Stores /\ cmd \in Cmds /\ B \in Branches /\ cmd.to \in Branches
  BY DEF StateInv, Typed, Flow, B, CopyBranch
<1>2. store.heads \cup {cmd.to} \in SUBSET Branches
  BY <1>1, Fields
<1>3. CASE cmd.to \in store.heads
  BY <1>1, <1>3, EndsDoes, StoreKept DEF CopyBranch, Keeps
<1>4. CASE cmd.to \notin store.heads
  <2>1. NowHeads(store.heads \cup {cmd.to})
    BY <1>1, <1>2, <1>4, SetHeads DEF NowHeads, CopyBranch
  <2>2. CASE store.stacks[B] # None
    BY <1>1, <1>4, <2>1, <2>2, GoesDoes DEF CopyBranch, Keeps, Pcs
  <2>3. CASE store.stacks[B] = None
    <3>1. cmd' = [cmd EXCEPT !.op = "init clone", !.pc = "upgrade", !.policy = "must", !.b = cmd.to, !.to = B]
      BY <1>4, <2>3 DEF CopyBranch
    <3>2. cmd' = [op |-> "init clone", pc |-> "upgrade", b |-> cmd.to, to |-> B, force |-> cmd.force,
                  policy |-> "must", snap |-> cmd.snap]
      BY <1>1, <3>1 DEF Cmds
    <3>3. cmd' \in Cmds
      BY <1>1, <3>2, CmdFields DEF Cmds, Ops, Pcs, OpenPcs
    <3> QED BY <2>1, <3>2, <3>3 DEF CopyBranch, Keeps, B
  <2> QED BY <2>2, <2>3
<1> QED
  BY <1>3, <1>4

\* The new branch gets a parent.
LEMMA SetParentDoes ==
  ASSUME StateInv, SetParent
  PROVE  /\ cmd.pc = "set parent" /\ Went("checkout")
         /\ UNCHANGED <<forced, kills>>
         /\ \/ Unmoved
            \/ \E b \in Branches, x \in Branches : NowConf([store.conf EXCEPT ![b] = [store.conf[b] EXCEPT !.parent = x]])
<1>1. /\ store \in Stores /\ cmd \in Cmds /\ cmd.b \in Branches /\ cmd.to \in Branches \cup {NoBranch}
      /\ New \in Branches /\ (From # NoBranch => From \in Branches)
  BY CmdFields DEF StateInv, Typed, Flow, B, SetParent, New, From
<1>2. CASE From = NoBranch
  BY <1>1, <1>2, StoreKept, GoesDoes DEF SetParent, Keeps, Pcs
<1>3. CASE From # NoBranch
  <2>1. store' = [store EXCEPT !.conf[New].parent = From] /\ From \in Branches
    BY <1>1, <1>3 DEF SetParent
  <2>2. [store.conf[New] EXCEPT !.parent = From] \in Confs
    <3>1. \A c \in Confs, x \in Branches : [c EXCEPT !.parent = x] \in Confs
      BY DEF Confs
    <3> QED BY <1>1, <2>1, <3>1, Fields
  <2>3. NowConf([store.conf EXCEPT ![New] = [store.conf[New] EXCEPT !.parent = From]])
    BY <1>1, <2>1, <2>2, SetConf DEF NowConf
  <2> QED BY <1>1, <2>1, <2>3, GoesDoes DEF SetParent, Keeps, Pcs
<1> QED
  BY <1>2, <1>3

\* git switches to the new branch; if it fails, create takes it back,
LEMMA CheckoutDoes ==
  ASSUME StateInv, Checkout
  PROVE  /\ cmd.pc = "checkout"
         /\ UNCHANGED <<forced, kills>>
         /\ \/ Unmoved /\ Ended
            \/ cmd.op = "create" /\ NowHeads(store.heads \ {B}) /\ Went("drop new stack")
<1>1. store \in Stores /\ cmd \in Cmds /\ B \in Branches /\ New \in Branches /\ store.heads \ {B} \in SUBSET Branches
  BY Fields DEF StateInv, Typed, Flow, B, Checkout, New
<1>2. CASE store' = [store EXCEPT !.current = New] /\ Ends
  BY <1>1, <1>2, SetCurrent, EndsDoes DEF Checkout, Keeps, Unmoved
<1>3. CASE cmd.op = "create" /\ store' = [store EXCEPT !.heads = @ \ {B}] /\ Goes("drop new stack")
  BY <1>1, <1>3, SetHeads, GoesDoes DEF Checkout, Keeps, NowHeads, Pcs
<1>4. CASE UNCHANGED store /\ Ends
  BY <1>1, <1>4, StoreKept, EndsDoes DEF Checkout, Keeps
<1> QED
  BY <1>2, <1>3, <1>4 DEF Checkout

\* and its stack after it.
LEMMA DropNewStackDoes ==
  ASSUME StateInv, DropNewStack
  PROVE  /\ cmd.pc = "drop new stack" /\ Ended
         /\ UNCHANGED <<forced, kills>>
         /\ NowStacks([store.stacks EXCEPT ![B] = None])
<1>1. store \in Stores /\ cmd \in Cmds /\ B \in Branches /\ None \in MaybeSets
  BY DEF StateInv, Typed, Flow, B, DropNewStack, MaybeSets
<1> QED
  BY <1>1, EndsDoes, SetStack DEF DropNewStack, Keeps, NowStacks

\* rename moves the configuration, if there is any.
LEMMA MoveConfigDoes ==
  ASSUME StateInv, MoveConfig
  PROVE  /\ cmd.pc = "move config" /\ Went("move branch")
         /\ UNCHANGED <<forced, kills>>
         /\ \/ Unmoved
            \/ \E c \in Confs : NowConf([store.conf EXCEPT ![cmd.to] = c, ![B] = NoConf])
<1>1. store \in Stores /\ cmd \in Cmds /\ B \in Branches /\ cmd.to \in Branches /\ cmd.to # B
  BY DEF StateInv, Typed, Flow, B, MoveConfig
<1>2. store.conf[B] \in Confs /\ store.conf[cmd.to] \in Confs
  BY <1>1, Fields
<1>3. Went("move branch") /\ UNCHANGED <<forced, kills>>
  BY <1>1, GoesDoes DEF MoveConfig, Keeps, Pcs
<1>4. CASE store.conf[B] = NoConf
  BY <1>1, <1>3, <1>4, StoreKept DEF MoveConfig
<1>5. CASE store.conf[B] # NoConf
  <2>1. PICK c \in Merged(store.conf[B], store.conf[cmd.to]) :
          store' = [store EXCEPT !.conf[cmd.to] = c, !.conf[B] = NoConf]
    BY <1>5 DEF MoveConfig
  <2>2. c \in Confs
    BY <1>2, <2>1, MergedType
  <2>3. NowConf([store.conf EXCEPT ![cmd.to] = c, ![B] = NoConf])
    BY <1>1, <2>1, <2>2, MoveConf DEF NowConf
  <2> QED BY <1>3, <2>2, <2>3 DEF MoveConfig
<1> QED
  BY <1>4, <1>5

\* git moves the branch.
LEMMA MoveBranchDoes ==
  ASSUME StateInv, MoveBranch
  PROVE  /\ cmd.pc = "move branch"
         /\ UNCHANGED <<forced, kills>>
         /\ \/ cmd.to \in store.heads /\ Unmoved /\ Ended
            \/ NowHeads((store.heads \ {B}) \cup {cmd.to}) /\ Went(IF store.stacks[B] = None THEN "parent again" ELSE "drop refs")
<1>1. store \in Stores /\ cmd \in Cmds /\ B \in Branches /\ cmd.to \in Branches
  BY DEF StateInv, Typed, Flow, B, MoveBranch
<1>2. (store.heads \ {B}) \cup {cmd.to} \in SUBSET Branches /\ store.current \in Branches
  BY <1>1, Fields
<1>3. CASE cmd.to \in store.heads
  BY <1>1, <1>3, EndsDoes, StoreKept DEF MoveBranch, Keeps
<1>4. CASE cmd.to \notin store.heads
  <2>1. PICK c \in Branches : store' = [store EXCEPT !.heads = (@ \ {B}) \cup {cmd.to}, !.current = c]
    BY <1>1, <1>2, <1>4 DEF MoveBranch
  <2>2. NowHeads((store.heads \ {B}) \cup {cmd.to})
    BY <1>1, <1>2, <2>1, SetHeadsCurrent DEF NowHeads
  <2>3. Went(IF store.stacks[B] = None THEN "parent again" ELSE "drop refs")
    BY <1>1, <1>4, GoesDoes DEF MoveBranch, Pcs
  <2> QED BY <2>2, <2>3 DEF MoveBranch, Keeps
<1> QED
  BY <1>3, <1>4

\* The new name gets the parent that the old one had.
LEMMA ParentAgainDoes ==
  ASSUME StateInv, ParentAgain
  PROVE  /\ cmd.pc = "parent again" /\ Ended
         /\ UNCHANGED <<forced, kills>>
         /\ NowConf([store.conf EXCEPT ![cmd.to] = [store.conf[cmd.to] EXCEPT !.parent = cmd.snap.parent]])
<1>1. store \in Stores /\ cmd \in Cmds /\ cmd.to \in Branches /\ cmd.snap.parent \in Branches \cup {NoBranch}
  BY CmdFields DEF StateInv, Typed, Flow, ParentAgain, Confs
<1>2. [store.conf[cmd.to] EXCEPT !.parent = cmd.snap.parent] \in Confs
  <2>1. \A c \in Confs, x \in Branches \cup {NoBranch} : [c EXCEPT !.parent = x] \in Confs
    BY DEF Confs
  <2> QED BY <1>1, <2>1, Fields
<1>3. store' = [store EXCEPT !.conf[cmd.to] = [store.conf[cmd.to] EXCEPT !.parent = cmd.snap.parent]]
  BY DEF ParentAgain
<1>4. NowConf([store.conf EXCEPT ![cmd.to] = [store.conf[cmd.to] EXCEPT !.parent = cmd.snap.parent]])
  BY <1>1, <1>2, <1>3, SetConf DEF NowConf
<1> QED
  BY <1>4, EndsDoes DEF ParentAgain, Keeps

\* delete and cleanup ask for the protection and for --force.
LEMMA PermittedDoes ==
  ASSUME StateInv, Permitted
  PROVE  /\ cmd.pc = "permitted" /\ Unmoved /\ kills' = kills
         /\ \/ ~cmd.snap.protect /\ forced' = forced \cup store.stacks[B] /\ Went("drop refs")
            \/ forced' = forced /\ Ended
<1>1. store \in Stores /\ cmd \in Cmds /\ B \in Branches
  BY DEF StateInv, Typed, Flow, B, Permitted
<1>2. Facts
  BY <1>1, Fields DEF Facts
<1> QED
  BY <1>1, <1>2, GoesDoes, EndsDoes, StoreKept DEF Permitted, Facts, Keeps, Pcs, OpenPcs

\* deinitialize: the patch references,
LEMMA DropRefsDoes ==
  ASSUME StateInv, DropRefs
  PROVE  /\ cmd.pc = "drop refs" /\ Went("drop stack")
         /\ UNCHANGED <<forced, kills>>
         /\ NowRefs([store.refs EXCEPT ![B] = {}])
<1>1. store \in Stores /\ cmd \in Cmds /\ B \in Branches
  BY DEF StateInv, Typed, Flow, B, DropRefs
<1>2. Facts
  BY <1>1, Fields DEF Facts
<1> QED
  BY <1>1, <1>2, GoesDoes, SetRefs DEF DropRefs, Facts, Keeps, Pcs, OpenPcs,
    NowRefs

\* the stack reference,
LEMMA DropStackDoes ==
  ASSUME StateInv, DropStack
  PROVE  /\ cmd.pc = "drop stack" /\ Went("drop config")
         /\ UNCHANGED <<forced, kills>>
         /\ NowStacks([store.stacks EXCEPT ![B] = None])
<1>1. store \in Stores /\ cmd \in Cmds /\ B \in Branches
  BY DEF StateInv, Typed, Flow, B, DropStack
<1>2. Facts
  BY <1>1, Fields DEF Facts
<1> QED
  BY <1>1, <1>2, GoesDoes, SetStack DEF DropStack, Facts, Keeps, Pcs, OpenPcs,
    NowStacks, MaybeSets

\* and the configuration.
LEMMA DropConfigDoes ==
  ASSUME StateInv, DropConfig
  PROVE  /\ cmd.pc = "drop config"
         /\ UNCHANGED <<forced, kills>>
         /\ \/ cmd.op = "rename" /\ Went("parent again")
            \/ cmd.op = "delete" /\ Went("leave")
            \/ cmd.op = "cleanup" /\ Went("end")
         /\ NowConf([store.conf EXCEPT ![B] = NoConf])
<1>1. store \in Stores /\ cmd \in Cmds /\ B \in Branches /\ cmd.op \in {"rename", "delete", "cleanup"}
  BY DEF StateInv, Typed, Flow, B, DropConfig
<1>2. NoConf \in Confs /\ store' = [store EXCEPT !.conf[B] = NoConf]
  BY DEF NoConf, Confs, DropConfig
<1>3. NowConf([store.conf EXCEPT ![B] = NoConf])
  BY <1>1, <1>2, SetConf DEF NowConf
<1> QED
  BY <1>1, <1>3, GoesDoes DEF DropConfig, Keeps, Pcs

\* delete leaves the branch if it is the current one.
LEMMA LeaveDoes ==
  ASSUME StateInv, Leave
  PROVE  /\ cmd.pc = "leave" /\ Unmoved
         /\ UNCHANGED <<forced, kills>>
         /\ \/ Went("delete branch")
            \/ Ended
<1>1. store \in Stores /\ cmd \in Cmds /\ store.heads \subseteq Branches
  BY Fields DEF StateInv, Typed
<1> QED
  BY <1>1, GoesDoes, EndsDoes, StoreKept, SetCurrent DEF Leave, Keeps, Pcs, Unmoved

\* The branch goes.
LEMMA DeleteBranchDoes ==
  ASSUME StateInv, DeleteBranch
  PROVE  /\ cmd.pc = "delete branch" /\ Ended
         /\ UNCHANGED <<forced, kills>>
         /\ NowHeads(store.heads \ {B})
<1>1. store \in Stores /\ cmd \in Cmds /\ B \in Branches
  BY DEF StateInv, Typed, Flow, B, DeleteBranch
<1>2. Facts
  BY <1>1, Fields DEF Facts
<1> QED
  BY <1>1, <1>2, EndsDoes, SetHeads DEF DeleteBranch, Facts, Keeps, Pcs, OpenPcs,
    NowHeads

\* set_protected.
LEMMA ProtectDoes ==
  ASSUME StateInv, Protect
  PROVE  /\ cmd.pc \in {"protect", "unprotect"} /\ Ended
         /\ UNCHANGED <<forced, kills>>
         /\ NowConf([store.conf EXCEPT ![B] = [store.conf[B] EXCEPT !.protect = (cmd.pc = "protect")]])
<1>1. store \in Stores /\ cmd \in Cmds /\ B \in Branches
  BY DEF StateInv, Typed, Flow, B, Protect
<1>2. PICK x \in BOOLEAN : x = (cmd.pc = "protect")
  OBVIOUS
<1>3. [store.conf[B] EXCEPT !.protect = x] \in Confs
  <2>1. \A c \in Confs, y \in BOOLEAN : [c EXCEPT !.protect = y] \in Confs
    BY DEF Confs
  <2> QED BY <1>1, <2>1, Fields
<1>4. store' = [store EXCEPT !.conf[B] = [store.conf[B] EXCEPT !.protect = x]]
  BY <1>2 DEF Protect
<1>5. NowConf([store.conf EXCEPT ![B] = [store.conf[B] EXCEPT !.protect = x]])
  BY <1>1, <1>3, <1>4, SetConf DEF NowConf
<1> QED
  BY <1>2, <1>5, EndsDoes DEF Protect, Keeps

\* A command is over, or was killed, or HEAD moves.
LEMMA OverDoes ==
  ASSUME StateInv, Over
  PROVE  /\ cmd.pc = "end" /\ Ended
         /\ UNCHANGED <<forced, kills>>
         /\ Unmoved
  BY EndsDoes, StoreKept DEF Over, Keeps, StateInv, Typed

\* A kill changes nothing else.
LEMMA KillDoes ==
  ASSUME StateInv, Kill
  PROVE  /\ kills \in Nat /\ kills' = kills + 1 /\ forced' = forced /\ Ended
         /\ Unmoved
  BY EndsDoes, StoreKept DEF Kill, StateInv, Typed

\* Switching moves HEAD only.
LEMMA SwitchDoes ==
  ASSUME StateInv, Switch
  PROVE  /\ cmd.pc = "idle" /\ cmd' = cmd
         /\ UNCHANGED <<forced, kills>>
         /\ Unmoved
<1>1. store \in Stores /\ store.heads \subseteq Branches
  BY Fields DEF StateInv, Typed
<1> QED
  BY <1>1, SetCurrent DEF Switch, Keeps, Idle, Unmoved
-----------------------------------------------------------------------------
(* Types, and what the steps know of the stack. *)

\* No step takes a command to where it does not belong, and what it has found out of
\* the stack stays true until it uses it.
LEMMA NextState == StateInv /\ [Next]_vars => StateInv'
<1> SUFFICES ASSUME StateInv, [Next]_vars PROVE StateInv'
  OBVIOUS
<1>0. /\ store \in Stores /\ cmd \in Cmds /\ forced \subseteq Patches /\ kills \in Nat /\ Flow /\ Found
      /\ cmd.op \in Ops /\ cmd.pc \in Pcs /\ cmd.policy \in {"require", "must", "force"}
  BY CmdFields DEF StateInv, Typed
<1>a. Facts
  BY <1>0, Fields DEF Facts
<1>1. CASE StartCreate
  BY <1>0, <1>1, CreateDoes DEF Begun, Is, StateInv, Typed, Flow, Found, Old, B, Ops, OpenPcs
<1>2. CASE \/ StartClone \/ StartRename \/ StartDelete \/ StartCleanup \/ StartProtect \/ StartUnprotect
           \/ StartInit
  <2>1. PICK op \in Ops, b \in Branches, to \in Branches \cup {NoBranch} : Begins(op, b, to)
    BY <1>0, <1>2, StartDoes
  <2>2. Unmoved /\ UNCHANGED <<forced, kills>>
    BY <1>0, <1>2, StartDoes
  <2> QED BY <1>0, <2>1, <2>2 DEF Begins, Begun, Unmoved, Is, StateInv, Typed, Flow, Found, Old, B, Ops, OpenPcs
<1>3. CASE Switch
  BY <1>0, <1>3, SwitchDoes DEF Unmoved, Is, StateInv, Typed, Flow, Found, Old, B
<1>4. CASE Upgrade4
  <2>1. store' \in Stores /\ cmd' \in Cmds /\ forced' \subseteq Patches /\ kills' \in Nat
    BY <1>0, <1>a, <1>4, Upgrade4Does DEF NowStacks, Unmoved, Is, Went
  <2>2. Flow'
    BY <1>0, <1>4, Upgrade4Does DEF NowStacks, Unmoved, Is, Went, Flow, B
  <2>3. Found'
    <3>1. B \in store.heads /\ B \in Branches /\ store.stacks[B] = None /\ store.v4[B].patches # None
      BY <1>0, <1>4, Upgrade4Does, Versions DEF Flow, Found, B, OpenPcs
    <3>2. CASE Unmoved /\ Went("failed")
      BY <3>1, <3>2 DEF Unmoved, Is, Went, Found, B
    <3>3. CASE NowStacks([store.stacks EXCEPT ![B] = store.v4[B].patches]) /\ Went("remove v4")
      <4>0. PICK x : x = store.v4[B].patches /\ x # None
        BY <3>1
      <4>1. store'.stacks[B] = x /\ store'.heads = store.heads /\ B' = B
        BY <1>a, <3>1, <3>3, <4>0 DEF Facts, NowStacks, Is, Went, B
      <4> QED BY <3>1, <3>3, <4>0, <4>1 DEF Went, Found
    <3> QED BY <1>4, <3>1, <3>2, <3>3, Upgrade4Does
  <2> QED BY <2>1, <2>2, <2>3 DEF StateInv, Typed
<1>5. CASE RemoveV4
  <2>1. store' \in Stores /\ cmd' \in Cmds /\ forced' \subseteq Patches /\ kills' \in Nat
    BY <1>0, <1>a, <1>5, RemoveV4Does DEF NowV4, Is, Went
  <2>2. Flow'
    BY <1>0, <1>5, RemoveV4Does DEF NowV4, Is, Went, Flow, B
  <2>3. Found'
    <3>1. B \in Branches /\ B' = B /\ store.stacks[B] # None /\ store'.stacks = store.stacks
      BY <1>0, <1>a, <1>5, RemoveV4Does, Versions, ConfParts DEF NowV4, Is, Went, Flow, Found, Facts, Old, B
    <3> QED BY <1>0, <1>5, <3>1, RemoveV4Does, BranchesAssumption DEF NowV4, Is, Went, Found, Old, B, OpenPcs
  <2> QED BY <2>1, <2>2, <2>3 DEF StateInv, Typed
<1>6. CASE Upgrade2
  <2>1. store' \in Stores /\ cmd' \in Cmds /\ forced' \subseteq Patches /\ kills' \in Nat
    BY <1>0, <1>a, <1>6, Upgrade2Does DEF NowConf, Unmoved, Is, Went
  <2>2. Flow'
    BY <1>0, <1>6, Upgrade2Does DEF NowConf, Unmoved, Is, Went, Flow, B
  <2>3. Found'
    <3>1. B \in store.heads /\ B \in Branches /\ Old(store, B, 2) /\ store.conf[B] \in Confs
      BY <1>0, <1>a, <1>6, Upgrade2Does, Versions DEF Flow, Found, Facts, B, OpenPcs
    <3>2. CASE Unmoved /\ Went("upgrade 3")
      BY <3>1, <3>2 DEF Unmoved, Is, Went, Found, Old, B
    <3>3. CASE NowConf([store.conf EXCEPT ![B] = [store.conf[B] EXCEPT !.protect = TRUE]]) /\ Went("remove protected")
      <4>1. store'.conf[B] = [store.conf[B] EXCEPT !.protect = TRUE] /\ B' = B
        BY <1>a, <3>1, <3>3 DEF Facts, NowConf, Is, Went, B
      <4>2. store'.conf[B].version = store.conf[B].version
        BY <3>1, <4>1, ConfParts
      <4>3. Old(store', B, 2) /\ store'.heads = store.heads
        BY <3>1, <3>3, <4>2 DEF NowConf, Is, Old
      <4> QED BY <3>1, <3>3, <4>1, <4>3 DEF Went, Found
    <3> QED BY <1>6, <3>2, <3>3, Upgrade2Does
  <2> QED BY <2>1, <2>2, <2>3 DEF StateInv, Typed
<1>7. CASE RemoveProtected
  <2>1. store' \in Stores /\ cmd' \in Cmds /\ forced' \subseteq Patches /\ kills' \in Nat
    BY <1>0, <1>a, <1>7, RemoveProtectedDoes DEF NowDir, Is, Went
  <2>2. Flow'
    BY <1>0, <1>7, RemoveProtectedDoes DEF NowDir, Is, Went, Flow, B
  <2>3. Found'
    <3>1. B \in Branches /\ B' = B /\ Old(store, B, 2)
      BY <1>0, <1>a, <1>7, RemoveProtectedDoes, Versions, ConfParts DEF NowDir, Is, Went, Flow, Found, Facts, Old, B
    <3> QED BY <1>0, <1>7, <3>1, RemoveProtectedDoes, BranchesAssumption DEF NowDir, Is, Went, Found, Old, B, OpenPcs
  <2> QED BY <2>1, <2>2, <2>3 DEF StateInv, Typed
<1>8. CASE Upgrade3
  <2>1. store' \in Stores /\ cmd' \in Cmds /\ forced' \subseteq Patches /\ kills' \in Nat
    BY <1>0, <1>a, <1>8, Upgrade3Does DEF NowStacks, Unmoved, Is, Went
  <2>2. Flow'
    BY <1>0, <1>8, Upgrade3Does DEF NowStacks, Unmoved, Is, Went, Flow, B
  <2>3. Found'
    <3>1. B \in store.heads /\ B \in Branches /\ store.stacks[B] = None /\ store.refs[B] \in SUBSET Patches
      BY <1>0, <1>a, <1>8, Upgrade3Does, Versions DEF Flow, Found, Facts, B, OpenPcs, Old
    <3>2. CASE Unmoved /\ Went("failed")
      BY <3>1, <3>2 DEF Unmoved, Is, Went, Found, B
    <3>3. CASE NowStacks([store.stacks EXCEPT ![B] = store.dir[B].patches \cap store.refs[B]]) /\ Went("remove old refs")
      <4>1. store'.stacks[B] = store.dir[B].patches \cap store.refs[B] /\ store'.heads = store.heads /\ B' = B
        BY <1>a, <3>1, <3>3 DEF Facts, NowStacks, Is, Went, B
      <4>2. store'.stacks[B] # None
        BY <3>1, <4>1, BranchesAssumption
      <4> QED BY <3>1, <3>3, <4>1, <4>2 DEF Went, Found
    <3> QED BY <1>8, <3>1, <3>2, <3>3, Upgrade3Does
  <2> QED BY <2>1, <2>2, <2>3 DEF StateInv, Typed
<1>9. CASE RemoveOldRefs
  <2>1. store' \in Stores /\ cmd' \in Cmds /\ forced' \subseteq Patches /\ kills' \in Nat
    BY <1>0, <1>a, <1>9, RemoveOldRefsDoes DEF NowV4, Is, Went
  <2>2. Flow'
    BY <1>0, <1>9, RemoveOldRefsDoes DEF NowV4, Is, Went, Flow, B
  <2>3. Found'
    BY <1>0, <1>a, <1>9, RemoveOldRefsDoes, Versions, ConfParts, BranchesAssumption DEF NowV4, Is, Went, Flow, Found, Facts, Old, B, OpenPcs
  <2> QED BY <2>1, <2>2, <2>3 DEF StateInv, Typed
<1>10. CASE RemoveVersion
  <2>1. store' \in Stores /\ cmd' \in Cmds /\ forced' \subseteq Patches /\ kills' \in Nat
    BY <1>0, <1>a, <1>10, RemoveVersionDoes DEF NowConf, Is, Went
  <2>2. Flow'
    BY <1>0, <1>10, RemoveVersionDoes DEF NowConf, Is, Went, Flow, B
  <2>3. Found'
    BY <1>0, <1>a, <1>10, RemoveVersionDoes, Versions, ConfParts, BranchesAssumption DEF NowConf, Is, Went, Flow, Found, Facts, Old, B, OpenPcs
  <2> QED BY <2>1, <2>2, <2>3 DEF StateInv, Typed
<1>11. CASE RemoveDir
  <2>1. store' \in Stores /\ cmd' \in Cmds /\ forced' \subseteq Patches /\ kills' \in Nat
    BY <1>0, <1>a, <1>11, RemoveDirDoes DEF NowDir, Is, Went
  <2>2. Flow'
    BY <1>0, <1>11, RemoveDirDoes DEF NowDir, Is, Went, Flow, B
  <2>3. Found'
    <3>1. B \in Branches /\ B' = B /\ store.stacks[B] # None /\ store'.stacks = store.stacks
      BY <1>0, <1>a, <1>11, RemoveDirDoes, Versions, ConfParts DEF NowDir, Is, Went, Flow, Found, Facts, Old, B
    <3> QED BY <1>0, <1>11, <3>1, RemoveDirDoes, BranchesAssumption DEF NowDir, Is, Went, Found, Old, B, OpenPcs
  <2> QED BY <2>1, <2>2, <2>3 DEF StateInv, Typed
<1>12. CASE UpToDate
  <2>1. store' \in Stores /\ cmd' \in Cmds /\ forced' \subseteq Patches /\ kills' \in Nat
    BY <1>0, <1>a, <1>12, UpToDateDoes DEF Unmoved, Is, Went
  <2>2. Flow'
    BY <1>0, <1>12, UpToDateDoes DEF Unmoved, Is, Went, Flow, B
  <2>3. Found'
    BY <1>0, <1>a, <1>12, UpToDateDoes, Versions, ConfParts, BranchesAssumption DEF Unmoved, Is, Went, Flow, Found, Facts, Old, B, OpenPcs
  <2> QED BY <2>1, <2>2, <2>3 DEF StateInv, Typed
<1>13. CASE Opened
  <2>1. store' \in Stores /\ cmd' \in Cmds /\ forced' \subseteq Patches /\ kills' \in Nat
    BY <1>0, <1>a, <1>13, OpenedDoes DEF NowStacks, Unmoved, Is, Went
  <2>2. Flow'
    BY <1>0, <1>13, OpenedDoes DEF NowStacks, Unmoved, Is, Went, Flow, B, First, Ops
  <2>3. Found'
    BY <1>0, <1>a, <1>13, OpenedDoes, Versions, ConfParts, BranchesAssumption DEF NowStacks, Unmoved, Is, Went, Flow, Found, Facts, Old, B, OpenPcs, First, Ops
  <2> QED BY <2>1, <2>2, <2>3 DEF StateInv, Typed
<1>14. CASE OpenFailed
  <2>1. store' \in Stores /\ cmd' \in Cmds /\ forced' \subseteq Patches /\ kills' \in Nat
    BY <1>0, <1>a, <1>14, OpenFailedDoes DEF NowHeads, Unmoved, Is, Went, Ended
  <2>2. Flow'
    BY <1>0, <1>14, OpenFailedDoes DEF NowHeads, Unmoved, Is, Went, Ended, Flow, B
  <2>3. Found'
    BY <1>0, <1>a, <1>14, OpenFailedDoes, Versions, ConfParts, BranchesAssumption DEF NowHeads, Unmoved, Is, Went, Ended, Flow, Found, Facts, Old, B, OpenPcs
  <2> QED BY <2>1, <2>2, <2>3 DEF StateInv, Typed
<1>15. CASE CopyStack
  <2>1. store' \in Stores /\ cmd' \in Cmds /\ forced' \subseteq Patches /\ kills' \in Nat
    BY <1>0, <1>a, <1>15, CopyStackDoes DEF NowStacks, Unmoved, Is, Went, Ended
  <2>2. Flow'
    BY <1>0, <1>15, CopyStackDoes DEF NowStacks, Unmoved, Is, Went, Ended, Flow, B
  <2>3. Found'
    <3>1. B \in Branches /\ cmd.to \in Branches /\ cmd.to # B /\ store.stacks[B] # None
          /\ store.stacks \in [Branches -> MaybeSets]
      BY <1>0, <1>a, <1>15, CopyStackDoes, Versions, ConfParts DEF NowStacks, Unmoved, Is, Went, Ended, Flow, Found, Facts, Old, B
    <3> QED BY <1>0, <1>15, <3>1, CopyStackDoes, BranchesAssumption DEF NowStacks, Unmoved, Is, Went, Ended, Found, Old, B, OpenPcs
  <2> QED BY <2>1, <2>2, <2>3 DEF StateInv, Typed
<1>16. CASE CopyBranch
  <2>1. store' \in Stores /\ cmd' \in Cmds /\ forced' \subseteq Patches /\ kills' \in Nat
    BY <1>0, <1>a, <1>16, CopyBranchDoes DEF NowHeads, Unmoved, Is, Went, Ended
  <2>2. Flow'
    BY <1>0, <1>16, CopyBranchDoes DEF NowHeads, Unmoved, Is, Went, Ended, Flow, B
  <2>3. Found'
    BY <1>0, <1>a, <1>16, CopyBranchDoes, Versions, ConfParts, BranchesAssumption DEF NowHeads, Unmoved, Is, Went, Ended, Flow, Found, Facts, Old, B, OpenPcs
  <2> QED BY <2>1, <2>2, <2>3 DEF StateInv, Typed
<1>17. CASE SetParent
  <2>1. store' \in Stores /\ cmd' \in Cmds /\ forced' \subseteq Patches /\ kills' \in Nat
    BY <1>0, <1>a, <1>17, SetParentDoes DEF NowConf, Unmoved, Is, Went
  <2>2. Flow'
    BY <1>0, <1>17, SetParentDoes DEF NowConf, Unmoved, Is, Went, Flow, B
  <2>3. Found'
    BY <1>0, <1>a, <1>17, SetParentDoes, Versions, ConfParts, BranchesAssumption DEF NowConf, Unmoved, Is, Went, Flow, Found, Facts, Old, B, OpenPcs
  <2> QED BY <2>1, <2>2, <2>3 DEF StateInv, Typed
<1>18. CASE Checkout
  <2>1. store' \in Stores /\ cmd' \in Cmds /\ forced' \subseteq Patches /\ kills' \in Nat
    BY <1>0, <1>a, <1>18, CheckoutDoes DEF NowHeads, Unmoved, Is, Went, Ended
  <2>2. Flow'
    BY <1>0, <1>18, CheckoutDoes DEF NowHeads, Unmoved, Is, Went, Ended, Flow, B
  <2>3. Found'
    BY <1>0, <1>a, <1>18, CheckoutDoes, Versions, ConfParts, BranchesAssumption DEF NowHeads, Unmoved, Is, Went, Ended, Flow, Found, Facts, Old, B, OpenPcs
  <2> QED BY <2>1, <2>2, <2>3 DEF StateInv, Typed
<1>19. CASE MoveConfig
  <2>1. store' \in Stores /\ cmd' \in Cmds /\ forced' \subseteq Patches /\ kills' \in Nat
    BY <1>0, <1>a, <1>19, MoveConfigDoes DEF NowConf, Unmoved, Is, Went
  <2>2. Flow'
    BY <1>0, <1>19, MoveConfigDoes DEF NowConf, Unmoved, Is, Went, Flow, B
  <2>3. Found'
    BY <1>0, <1>a, <1>19, MoveConfigDoes, Versions, ConfParts, BranchesAssumption DEF NowConf, Unmoved, Is, Went, Flow, Found, Facts, Old, B, OpenPcs
  <2> QED BY <2>1, <2>2, <2>3 DEF StateInv, Typed
<1>20. CASE MoveBranch
  <2>1. store' \in Stores /\ cmd' \in Cmds /\ forced' \subseteq Patches /\ kills' \in Nat
    BY <1>0, <1>a, <1>20, MoveBranchDoes DEF NowHeads, Unmoved, Is, Went, Ended
  <2>2. Flow'
    BY <1>0, <1>20, MoveBranchDoes DEF NowHeads, Unmoved, Is, Went, Ended, Flow, B
  <2>3. Found'
    BY <1>0, <1>a, <1>20, MoveBranchDoes, Versions, ConfParts, BranchesAssumption DEF NowHeads, Unmoved, Is, Went, Ended, Flow, Found, Facts, Old, B, OpenPcs
  <2> QED BY <2>1, <2>2, <2>3 DEF StateInv, Typed
<1>21. CASE ParentAgain
  <2>1. store' \in Stores /\ cmd' \in Cmds /\ forced' \subseteq Patches /\ kills' \in Nat
    BY <1>0, <1>a, <1>21, ParentAgainDoes DEF NowConf, Is, Ended
  <2>2. Flow'
    BY <1>0, <1>21, ParentAgainDoes DEF NowConf, Is, Ended, Flow, B
  <2>3. Found'
    BY <1>0, <1>a, <1>21, ParentAgainDoes, Versions, ConfParts, BranchesAssumption DEF NowConf, Is, Ended, Flow, Found, Facts, Old, B, OpenPcs
  <2> QED BY <2>1, <2>2, <2>3 DEF StateInv, Typed
<1>22. CASE Permitted
  <2>1. store' \in Stores /\ cmd' \in Cmds /\ forced' \subseteq Patches /\ kills' \in Nat
    BY <1>0, <1>a, <1>22, PermittedDoes DEF Unmoved, Is, Went, Ended, Facts, MaybeSets, Found, Flow, B
  <2>2. Flow'
    BY <1>0, <1>22, PermittedDoes DEF Unmoved, Is, Went, Ended, Flow, B
  <2>3. Found'
    BY <1>0, <1>a, <1>22, PermittedDoes, Versions, ConfParts, BranchesAssumption DEF Unmoved, Is, Went, Ended, Flow, Found, Facts, Old, B, OpenPcs
  <2> QED BY <2>1, <2>2, <2>3 DEF StateInv, Typed
<1>23. CASE DropRefs
  <2>1. store' \in Stores /\ cmd' \in Cmds /\ forced' \subseteq Patches /\ kills' \in Nat
    BY <1>0, <1>a, <1>23, DropRefsDoes DEF NowRefs, Is, Went
  <2>2. Flow'
    BY <1>0, <1>23, DropRefsDoes DEF NowRefs, Is, Went, Flow, B
  <2>3. Found'
    BY <1>0, <1>a, <1>23, DropRefsDoes, Versions, ConfParts, BranchesAssumption DEF NowRefs, Is, Went, Flow, Found, Facts, Old, B, OpenPcs
  <2> QED BY <2>1, <2>2, <2>3 DEF StateInv, Typed
<1>24. CASE DropStack
  <2>1. store' \in Stores /\ cmd' \in Cmds /\ forced' \subseteq Patches /\ kills' \in Nat
    BY <1>0, <1>a, <1>24, DropStackDoes DEF NowStacks, Is, Went
  <2>2. Flow'
    BY <1>0, <1>24, DropStackDoes DEF NowStacks, Is, Went, Flow, B
  <2>3. Found'
    <3>1. store'.stacks[B] = None /\ B' = B
      BY <1>0, <1>a, <1>24, DropStackDoes DEF Facts, NowStacks, Is, Went, B, Flow
    <3> QED BY <1>24, <3>1, DropStackDoes DEF Went, Found, OpenPcs
  <2> QED BY <2>1, <2>2, <2>3 DEF StateInv, Typed
<1>25. CASE DropConfig
  <2>1. store' \in Stores /\ cmd' \in Cmds /\ forced' \subseteq Patches /\ kills' \in Nat
    BY <1>0, <1>a, <1>25, DropConfigDoes DEF NowConf, Is, Went
  <2>2. Flow'
    BY <1>0, <1>25, DropConfigDoes DEF NowConf, Is, Went, Flow, B
  <2>3. Found'
    BY <1>0, <1>a, <1>25, DropConfigDoes, Versions, ConfParts, BranchesAssumption DEF NowConf, Is, Went, Flow, Found, Facts, Old, B, OpenPcs
  <2> QED BY <2>1, <2>2, <2>3 DEF StateInv, Typed
<1>26. CASE Leave
  <2>1. store' \in Stores /\ cmd' \in Cmds /\ forced' \subseteq Patches /\ kills' \in Nat
    BY <1>0, <1>a, <1>26, LeaveDoes DEF Unmoved, Is, Went, Ended
  <2>2. Flow'
    BY <1>0, <1>26, LeaveDoes DEF Unmoved, Is, Went, Ended, Flow, B
  <2>3. Found'
    BY <1>0, <1>a, <1>26, LeaveDoes, Versions, ConfParts, BranchesAssumption DEF Unmoved, Is, Went, Ended, Flow, Found, Facts, Old, B, OpenPcs
  <2> QED BY <2>1, <2>2, <2>3 DEF StateInv, Typed
<1>27. CASE DeleteBranch
  <2>1. store' \in Stores /\ cmd' \in Cmds /\ forced' \subseteq Patches /\ kills' \in Nat
    BY <1>0, <1>a, <1>27, DeleteBranchDoes DEF NowHeads, Is, Ended
  <2>2. Flow'
    BY <1>0, <1>27, DeleteBranchDoes DEF NowHeads, Is, Ended, Flow, B
  <2>3. Found'
    BY <1>0, <1>a, <1>27, DeleteBranchDoes, Versions, ConfParts, BranchesAssumption DEF NowHeads, Is, Ended, Flow, Found, Facts, Old, B, OpenPcs
  <2> QED BY <2>1, <2>2, <2>3 DEF StateInv, Typed
<1>28. CASE Protect
  <2>1. store' \in Stores /\ cmd' \in Cmds /\ forced' \subseteq Patches /\ kills' \in Nat
    BY <1>0, <1>a, <1>28, ProtectDoes DEF NowConf, Is, Ended
  <2>2. Flow'
    BY <1>0, <1>28, ProtectDoes DEF NowConf, Is, Ended, Flow, B
  <2>3. Found'
    BY <1>0, <1>a, <1>28, ProtectDoes, Versions, ConfParts, BranchesAssumption DEF NowConf, Is, Ended, Flow, Found, Facts, Old, B, OpenPcs
  <2> QED BY <2>1, <2>2, <2>3 DEF StateInv, Typed
<1>29. CASE Over
  <2>1. store' \in Stores /\ cmd' \in Cmds /\ forced' \subseteq Patches /\ kills' \in Nat
    BY <1>0, <1>a, <1>29, OverDoes DEF Unmoved, Is, Ended
  <2>2. Flow'
    BY <1>0, <1>29, OverDoes DEF Unmoved, Is, Ended, Flow, B
  <2>3. Found'
    BY <1>0, <1>a, <1>29, OverDoes, Versions, ConfParts, BranchesAssumption DEF Unmoved, Is, Ended, Flow, Found, Facts, Old, B, OpenPcs
  <2> QED BY <2>1, <2>2, <2>3 DEF StateInv, Typed
<1>30. CASE Kill
  <2>1. store' \in Stores /\ cmd' \in Cmds /\ forced' \subseteq Patches /\ kills' \in Nat
    BY <1>0, <1>a, <1>30, KillDoes DEF Unmoved, Is, Ended
  <2>2. Flow'
    BY <1>0, <1>30, KillDoes DEF Unmoved, Is, Ended, Flow, B
  <2>3. Found'
    BY <1>0, <1>a, <1>30, KillDoes, Versions, ConfParts, BranchesAssumption DEF Unmoved, Is, Ended, Flow, Found, Facts, Old, B, OpenPcs
  <2> QED BY <2>1, <2>2, <2>3 DEF StateInv, Typed
<1>32. CASE Unhandled
  <2>1. store' \in Stores /\ cmd' \in Cmds /\ forced' \subseteq Patches /\ kills' \in Nat
    BY <1>0, <1>a, <1>32, UnhandledDoes DEF Unmoved, Is, Went
  <2>2. Flow'
    BY <1>0, <1>32, UnhandledDoes DEF Unmoved, Is, Went, Flow, B
  <2>3. Found'
    BY <1>0, <1>a, <1>32, UnhandledDoes, Versions, BranchesAssumption DEF Unmoved, Is, Went, Flow, Found, Facts, Old, B, OpenPcs
  <2> QED BY <2>1, <2>2, <2>3 DEF StateInv, Typed
<1>33. CASE EnsurePatchRefs
  <2>1. store' \in Stores /\ cmd' \in Cmds /\ forced' \subseteq Patches /\ kills' \in Nat
    BY <1>0, <1>a, <1>33, EnsurePatchRefsDoes DEF NowRefs, Is, Went
  <2>2. Flow'
    BY <1>0, <1>33, EnsurePatchRefsDoes DEF NowRefs, Is, Went, Flow, B, First, Ops
  <2>3. Found'
    BY <1>0, <1>a, <1>33, EnsurePatchRefsDoes, Versions, BranchesAssumption DEF NowRefs, Is, Went, Flow, Found, Facts, Old, B, OpenPcs, First, Ops
  <2> QED BY <2>1, <2>2, <2>3 DEF StateInv, Typed
<1>34. CASE DropNewStack
  <2>1. store' \in Stores /\ cmd' \in Cmds /\ forced' \subseteq Patches /\ kills' \in Nat
    BY <1>0, <1>a, <1>34, DropNewStackDoes DEF NowStacks, Is, Ended
  <2>2. Flow'
    BY <1>0, <1>34, DropNewStackDoes DEF NowStacks, Is, Ended, Flow, B
  <2>3. Found'
    BY <1>0, <1>a, <1>34, DropNewStackDoes, Versions, BranchesAssumption DEF NowStacks, Is, Ended, Flow, Found, Facts, Old, B, OpenPcs
  <2> QED BY <2>1, <2>2, <2>3 DEF StateInv, Typed
<1>31. CASE UNCHANGED vars
  BY <1>0, <1>31 DEF vars, StateInv, Typed, Flow, Found, Old, B
<1> QED
  BY <1>1, <1>2, <1>3, <1>4, <1>5, <1>6, <1>7, <1>8, <1>9, <1>10, <1>11, <1>12, <1>13, <1>14, <1>15, <1>16, <1>17, <1>18, <1>19, <1>20, <1>21, <1>22, <1>23, <1>24, <1>25, <1>26, <1>27, <1>28, <1>29, <1>30, <1>31, <1>32, <1>33, <1>34 DEF Next, Start, Step, Opening, Rest
\* Types, flow and knowledge are invariant.
LEMMA SpecState == Spec => []StateInv
<1>1. Init => StateInv
  <2> SUFFICES ASSUME Init PROVE StateInv
    OBVIOUS
  <2>1. cmd \in Cmds /\ cmd.op = "none" /\ cmd.pc = "idle" /\ cmd.policy = "require"
    <3>1. NoConf \in Confs
      BY DEF NoConf, Confs
    <3> QED BY <3>1 DEF Init, NoCmd, Cmds, Ops, Pcs
  <2> QED BY <2>1, InitStoresAssumption DEF Init, StateInv, Typed, Flow, Found, OpenPcs
<1> QED
  BY <1>1, NextState, PTL DEF Spec
-----------------------------------------------------------------------------
(* Every stack has a branch. *)

\* A stack without a branch is one that a clone or a renaming is about to move.
LEMMA NextOrphan ==
  ASSUME StateInv, OrphanInv, [Next]_vars
  PROVE  OrphanInv'
<1>0. /\ store \in Stores /\ cmd \in Cmds /\ forced \subseteq Patches /\ kills \in Nat /\ Flow /\ Found
      /\ cmd.op \in Ops /\ cmd.pc \in Pcs
  BY CmdFields DEF StateInv, Typed
<1>a. Facts
  BY <1>0, Fields DEF Facts
<1>1. CASE StartCreate
  BY <1>0, <1>1, CreateDoes DEF Begun, Is, OrphanInv, Pending, Flow, StartCreate, Idle
<1>2. CASE \/ StartClone \/ StartRename \/ StartDelete \/ StartCleanup \/ StartProtect \/ StartUnprotect
           \/ StartInit
  <2>1. PICK op \in Ops, b \in Branches, to \in Branches \cup {NoBranch} : Begins(op, b, to)
    BY <1>0, <1>2, StartDoes
  <2>2. Unmoved /\ UNCHANGED <<forced, kills>>
    BY <1>0, <1>2, StartDoes
  <2> QED BY <1>0, <1>2, <2>1, <2>2 DEF Begins, Begun, Unmoved, Is, OrphanInv, Pending, Flow, Idle, StartClone,
    StartRename, StartDelete, StartCleanup, StartProtect, StartUnprotect, StartInit
<1>3. CASE Switch
  BY <1>0, <1>3, SwitchDoes DEF Unmoved, Is, OrphanInv, Pending
<1>4. CASE Upgrade4
  BY <1>0, <1>a, <1>4, Upgrade4Does DEF NowStacks, Unmoved, Is, Went, OrphanInv, Pending, Flow, Found, Facts, B, OpenPcs
<1>5. CASE RemoveV4
  BY <1>0, <1>a, <1>5, RemoveV4Does DEF NowV4, Is, Went, OrphanInv, Pending, Flow, Found, Facts, B, OpenPcs
<1>6. CASE Upgrade2
  BY <1>0, <1>a, <1>6, Upgrade2Does DEF NowConf, Unmoved, Is, Went, OrphanInv, Pending, Flow, Found, Facts, B, OpenPcs
<1>7. CASE RemoveProtected
  BY <1>0, <1>a, <1>7, RemoveProtectedDoes DEF NowDir, Is, Went, OrphanInv, Pending, Flow, Found, Facts, B, OpenPcs
<1>8. CASE Upgrade3
  BY <1>0, <1>a, <1>8, Upgrade3Does DEF NowStacks, Unmoved, Is, Went, OrphanInv, Pending, Flow, Found, Facts, B, OpenPcs
<1>9. CASE RemoveOldRefs
  BY <1>0, <1>a, <1>9, RemoveOldRefsDoes DEF NowV4, Is, Went, OrphanInv, Pending, Flow, Found, Facts, B, OpenPcs
<1>10. CASE RemoveVersion
  BY <1>0, <1>a, <1>10, RemoveVersionDoes DEF NowConf, Is, Went, OrphanInv, Pending, Flow, Found, Facts, B, OpenPcs
<1>11. CASE RemoveDir
  BY <1>0, <1>a, <1>11, RemoveDirDoes DEF NowDir, Is, Went, OrphanInv, Pending, Flow, Found, Facts, B, OpenPcs
<1>12. CASE UpToDate
  BY <1>0, <1>a, <1>12, UpToDateDoes DEF Unmoved, Is, Went, OrphanInv, Pending, Flow, Found, Facts, B, OpenPcs
<1>13. CASE Opened
  BY <1>0, <1>a, <1>13, OpenedDoes DEF NowStacks, Unmoved, Is, Went, OrphanInv, Pending, Flow, Found, Facts, B, OpenPcs
<1>14. CASE OpenFailed
  BY <1>0, <1>a, <1>14, OpenFailedDoes DEF NowHeads, Unmoved, Is, Went, Ended, OrphanInv, Pending, Flow, Found, Facts, B, OpenPcs
<1>15. CASE CopyStack
  BY <1>0, <1>a, <1>15, CopyStackDoes DEF NowStacks, Unmoved, Is, Went, Ended, OrphanInv, Pending, Flow, Found, Facts, B, OpenPcs
<1>16. CASE CopyBranch
  BY <1>0, <1>a, <1>16, CopyBranchDoes DEF NowHeads, Unmoved, Is, Went, Ended, OrphanInv, Pending, Flow, Found, Facts, B, OpenPcs
<1>17. CASE SetParent
  BY <1>0, <1>a, <1>17, SetParentDoes DEF NowConf, Unmoved, Is, Went, OrphanInv, Pending, Flow, Found, Facts, B, OpenPcs
<1>18. CASE Checkout
  BY <1>0, <1>a, <1>18, CheckoutDoes DEF NowHeads, Unmoved, Is, Went, Ended, OrphanInv, Pending, Flow, Found, Facts, B, OpenPcs
<1>19. CASE MoveConfig
  BY <1>0, <1>a, <1>19, MoveConfigDoes DEF NowConf, Unmoved, Is, Went, OrphanInv, Pending, Flow, Found, Facts, B, OpenPcs
<1>20. CASE MoveBranch
  BY <1>0, <1>a, <1>20, MoveBranchDoes DEF NowHeads, Unmoved, Is, Went, Ended, OrphanInv, Pending, Flow, Found, Facts, B, OpenPcs
<1>21. CASE ParentAgain
  BY <1>0, <1>a, <1>21, ParentAgainDoes DEF NowConf, Is, Ended, OrphanInv, Pending, Flow, Found, Facts, B, OpenPcs
<1>22. CASE Permitted
  BY <1>0, <1>a, <1>22, PermittedDoes DEF Unmoved, Is, Went, Ended, OrphanInv, Pending, Flow, Found, Facts, B, OpenPcs
<1>23. CASE DropRefs
  <2>1. /\ store'.heads = store.heads /\ store'.stacks = store.stacks /\ kills' = kills
        /\ cmd.pc = "drop refs" /\ cmd'.pc = "drop stack" /\ cmd'.op = cmd.op /\ cmd'.b = cmd.b
    BY <1>23, DropRefsDoes DEF NowRefs, Is, Went
  <2> QED BY <2>1 DEF OrphanInv, Pending
<1>24. CASE DropStack
  BY <1>0, <1>a, <1>24, DropStackDoes DEF NowStacks, Is, Went, OrphanInv, Pending, Flow, Found, Facts, B, OpenPcs
<1>25. CASE DropConfig
  BY <1>0, <1>a, <1>25, DropConfigDoes DEF NowConf, Is, Went, OrphanInv, Pending, Flow, Found, Facts, B, OpenPcs
<1>26. CASE Leave
  BY <1>0, <1>a, <1>26, LeaveDoes DEF Unmoved, Is, Went, Ended, OrphanInv, Pending, Flow, Found, Facts, B, OpenPcs
<1>27. CASE DeleteBranch
  BY <1>0, <1>a, <1>27, DeleteBranchDoes DEF NowHeads, Is, Ended, OrphanInv, Pending, Flow, Found, Facts, B, OpenPcs
<1>28. CASE Protect
  BY <1>0, <1>a, <1>28, ProtectDoes DEF NowConf, Is, Ended, OrphanInv, Pending, Flow, Found, Facts, B, OpenPcs
<1>29. CASE Over
  BY <1>0, <1>a, <1>29, OverDoes DEF Unmoved, Is, Ended, OrphanInv, Pending, Flow, Found, Facts, B, OpenPcs
<1>30. CASE Kill
  <2>1. kills' # 0
    BY <1>30, KillDoes
  <2> QED BY <2>1 DEF OrphanInv
<1>32. CASE Unhandled
  BY <1>0, <1>a, <1>32, UnhandledDoes DEF Unmoved, Is, Went, OrphanInv, Pending, Flow, Found, Facts, B, OpenPcs
<1>33. CASE EnsurePatchRefs
  BY <1>0, <1>a, <1>33, EnsurePatchRefsDoes DEF NowRefs, Is, Went, OrphanInv, Pending, Flow, Found, Facts, B, OpenPcs, First, Ops
<1>34. CASE DropNewStack
  BY <1>0, <1>a, <1>34, DropNewStackDoes DEF NowStacks, Is, Ended, OrphanInv, Pending, Flow, Found, Facts, B, OpenPcs
<1>31. CASE UNCHANGED vars
  BY <1>31 DEF vars, OrphanInv, Pending, Flow, Found, Facts, B, OpenPcs
<1> QED
  BY <1>1, <1>2, <1>3, <1>4, <1>5, <1>6, <1>7, <1>8, <1>9, <1>10, <1>11, <1>12, <1>13, <1>14, <1>15, <1>16, <1>17, <1>18, <1>19, <1>20, <1>21, <1>22, <1>23, <1>24, <1>25, <1>26, <1>27, <1>28, <1>29, <1>30, <1>31, <1>32, <1>33, <1>34 DEF Next, Start, Step, Opening, Rest

\* Unless a process was killed, every stack belongs to a branch whenever no command runs:
\* whatever commands were run before, in whichever order and however they failed, for
\* every number of branches.
THEOREM StacksHaveBranches ==
  ASSUME NoOrphanAtStart
  PROVE  Spec => []NoOrphanStacks
<1>1. Init => OrphanInv
  BY DEF Init, OrphanInv, NoOrphanAtStart
<1>2. StateInv /\ OrphanInv /\ [Next]_vars => OrphanInv'
  BY NextOrphan
<1>3. StateInv /\ OrphanInv => NoOrphanStacks
  BY DEF StateInv, Typed, Flow, OrphanInv, Pending, NoOrphanStacks, Idle
<1> QED
  BY <1>1, <1>2, <1>3, SpecState, PTL DEF Spec
-----------------------------------------------------------------------------
(* A protected stack stays. *)

\* The new name of a clone or a renaming is free until its branch is made.
LEMMA NextName ==
  ASSUME NothingUnchecked, StateInv, NameFree, [Next]_vars
  PROVE  NameFree'
<1>0. /\ store \in Stores /\ cmd \in Cmds /\ forced \subseteq Patches /\ kills \in Nat /\ Flow /\ Found
      /\ cmd.op \in Ops /\ cmd.pc \in Pcs
  BY CmdFields DEF StateInv, Typed
<1>a. Facts
  BY <1>0, Fields DEF Facts
<1>1. CASE StartCreate
  BY <1>0, <1>1, CreateDoes DEF Begun, Is, NameFree, NewName
<1>2. CASE \/ StartClone \/ StartRename \/ StartDelete \/ StartCleanup \/ StartProtect \/ StartUnprotect
           \/ StartInit
  <2>1. PICK op \in Ops, b \in Branches, to \in Branches \cup {NoBranch} : Begins(op, b, to)
    BY <1>0, <1>2, StartDoes
  <2>2. Unmoved /\ UNCHANGED <<forced, kills>>
    BY <1>0, <1>2, StartDoes
  <2> QED BY <1>0, <2>1, <2>2 DEF Begins, Begun, Unmoved, Is, NameFree, NewName, NothingUnchecked
<1>3. CASE Switch
  BY <1>0, <1>3, SwitchDoes DEF Unmoved, Is, NameFree, NewName
<1>4. CASE Upgrade4
  BY <1>0, <1>a, <1>4, Upgrade4Does DEF NowStacks, Unmoved, Is, Went, NameFree, NewName, Flow, Facts, B, OpenPcs
<1>5. CASE RemoveV4
  BY <1>0, <1>a, <1>5, RemoveV4Does DEF NowV4, Is, Went, NameFree, NewName, Flow, Facts, B, OpenPcs
<1>6. CASE Upgrade2
  BY <1>0, <1>a, <1>6, Upgrade2Does DEF NowConf, Unmoved, Is, Went, NameFree, NewName, Flow, Facts, B, OpenPcs
<1>7. CASE RemoveProtected
  BY <1>0, <1>a, <1>7, RemoveProtectedDoes DEF NowDir, Is, Went, NameFree, NewName, Flow, Facts, B, OpenPcs
<1>8. CASE Upgrade3
  BY <1>0, <1>a, <1>8, Upgrade3Does DEF NowStacks, Unmoved, Is, Went, NameFree, NewName, Flow, Facts, B, OpenPcs
<1>9. CASE RemoveOldRefs
  BY <1>0, <1>a, <1>9, RemoveOldRefsDoes DEF NowV4, Is, Went, NameFree, NewName, Flow, Facts, B, OpenPcs
<1>10. CASE RemoveVersion
  BY <1>0, <1>a, <1>10, RemoveVersionDoes DEF NowConf, Is, Went, NameFree, NewName, Flow, Facts, B, OpenPcs
<1>11. CASE RemoveDir
  BY <1>0, <1>a, <1>11, RemoveDirDoes DEF NowDir, Is, Went, NameFree, NewName, Flow, Facts, B, OpenPcs
<1>12. CASE UpToDate
  BY <1>0, <1>a, <1>12, UpToDateDoes DEF Unmoved, Is, Went, NameFree, NewName, Flow, Facts, B, OpenPcs
<1>13. CASE Opened
  BY <1>0, <1>a, <1>13, OpenedDoes DEF NowStacks, Unmoved, Is, Went, NameFree, NewName, Flow, Facts, B, OpenPcs, First, Ops
<1>14. CASE OpenFailed
  BY <1>0, <1>a, <1>14, OpenFailedDoes DEF NowHeads, Unmoved, Is, Went, Ended, NameFree, NewName, Flow, Facts, B, OpenPcs
<1>15. CASE CopyStack
  BY <1>0, <1>a, <1>15, CopyStackDoes DEF NowStacks, Unmoved, Is, Went, Ended, NameFree, NewName, Flow, Facts, B, OpenPcs
<1>16. CASE CopyBranch
  BY <1>0, <1>a, <1>16, CopyBranchDoes DEF NowHeads, Unmoved, Is, Went, Ended, NameFree, NewName, Flow, Facts, B, OpenPcs
<1>17. CASE SetParent
  BY <1>0, <1>a, <1>17, SetParentDoes DEF NowConf, Unmoved, Is, Went, NameFree, NewName, Flow, Facts, B, OpenPcs
<1>18. CASE Checkout
  BY <1>0, <1>a, <1>18, CheckoutDoes DEF NowHeads, Unmoved, Is, Went, Ended, NameFree, NewName, Flow, Facts, B, OpenPcs
<1>19. CASE MoveConfig
  BY <1>0, <1>a, <1>19, MoveConfigDoes DEF NowConf, Unmoved, Is, Went, NameFree, NewName, Flow, Facts, B, OpenPcs
<1>20. CASE MoveBranch
  BY <1>0, <1>a, <1>20, MoveBranchDoes DEF NowHeads, Unmoved, Is, Went, Ended, NameFree, NewName, Flow, Facts, B, OpenPcs
<1>21. CASE ParentAgain
  BY <1>0, <1>a, <1>21, ParentAgainDoes DEF NowConf, Is, Ended, NameFree, NewName, Flow, Facts, B, OpenPcs
<1>22. CASE Permitted
  BY <1>0, <1>a, <1>22, PermittedDoes DEF Unmoved, Is, Went, Ended, NameFree, NewName, Flow, Facts, B, OpenPcs
<1>23. CASE DropRefs
  BY <1>0, <1>a, <1>23, DropRefsDoes DEF NowRefs, Is, Went, NameFree, NewName, Flow, Facts, B, OpenPcs
<1>24. CASE DropStack
  BY <1>0, <1>a, <1>24, DropStackDoes DEF NowStacks, Is, Went, NameFree, NewName, Flow, Facts, B, OpenPcs
<1>25. CASE DropConfig
  BY <1>0, <1>a, <1>25, DropConfigDoes DEF NowConf, Is, Went, NameFree, NewName, Flow, Facts, B, OpenPcs
<1>26. CASE Leave
  BY <1>0, <1>a, <1>26, LeaveDoes DEF Unmoved, Is, Went, Ended, NameFree, NewName, Flow, Facts, B, OpenPcs
<1>27. CASE DeleteBranch
  BY <1>0, <1>a, <1>27, DeleteBranchDoes DEF NowHeads, Is, Ended, NameFree, NewName, Flow, Facts, B, OpenPcs
<1>28. CASE Protect
  BY <1>0, <1>a, <1>28, ProtectDoes DEF NowConf, Is, Ended, NameFree, NewName, Flow, Facts, B, OpenPcs
<1>29. CASE Over
  BY <1>0, <1>a, <1>29, OverDoes DEF Unmoved, Is, Ended, NameFree, NewName, Flow, Facts, B, OpenPcs
<1>30. CASE Kill
  BY <1>0, <1>a, <1>30, KillDoes DEF Unmoved, Is, Ended, NameFree, NewName, Flow, Facts, B, OpenPcs
<1>32. CASE Unhandled
  BY <1>0, <1>a, <1>32, UnhandledDoes DEF Unmoved, Is, Went, NameFree, NewName, Flow, Facts, B, OpenPcs
<1>33. CASE EnsurePatchRefs
  BY <1>0, <1>a, <1>33, EnsurePatchRefsDoes DEF NowRefs, Is, Went, NameFree, NewName, Flow, Facts, B, OpenPcs, First, Ops
<1>34. CASE DropNewStack
  BY <1>0, <1>a, <1>34, DropNewStackDoes DEF NowStacks, Is, Ended, NameFree, NewName, Flow, Facts, B, OpenPcs
<1>31. CASE UNCHANGED vars
  BY <1>31 DEF vars, NameFree, NewName, Flow, Facts, B, OpenPcs
<1> QED
  BY <1>1, <1>2, <1>3, <1>4, <1>5, <1>6, <1>7, <1>8, <1>9, <1>10, <1>11, <1>12, <1>13, <1>14, <1>15, <1>16, <1>17, <1>18, <1>19, <1>20, <1>21, <1>22, <1>23, <1>24, <1>25, <1>26, <1>27, <1>28, <1>29, <1>30, <1>31, <1>32, <1>33, <1>34 DEF Next, Start, Step, Opening, Rest

\* delete and cleanup know the protection of the branch from the start.
LEMMA NextProtect ==
  ASSUME NothingUnchecked, StateInv, ProtectInv, [Next]_vars
  PROVE  ProtectInv'
<1>0. /\ store \in Stores /\ cmd \in Cmds /\ forced \subseteq Patches /\ kills \in Nat /\ Flow /\ Found
      /\ cmd.op \in Ops /\ cmd.pc \in Pcs
  BY CmdFields DEF StateInv, Typed
<1>a. Facts
  BY <1>0, Fields DEF Facts
<1>1. CASE StartCreate
  BY <1>0, <1>1, CreateDoes DEF Begun, Is, ProtectInv
<1>2. CASE \/ StartClone \/ StartRename \/ StartDelete \/ StartCleanup \/ StartProtect \/ StartUnprotect
           \/ StartInit
  <2>1. PICK op \in Ops, b \in Branches, to \in Branches \cup {NoBranch} : Begins(op, b, to)
    BY <1>0, <1>2, StartDoes
  <2>2. Unmoved /\ UNCHANGED <<forced, kills>>
    BY <1>0, <1>2, StartDoes
  <2> QED BY <1>0, <2>1, <2>2, Versions DEF Begins, Begun, Unmoved, Is, ProtectInv, NothingUnchecked, LateProtection, Old, B, OpenPcs
<1>3. CASE Switch
  BY <1>0, <1>3, SwitchDoes DEF Unmoved, Is, ProtectInv, Old, B
<1>4. CASE Upgrade4
  BY <1>0, <1>a, <1>4, Upgrade4Does, Versions, ConfParts DEF NowStacks, Unmoved, Is, Went, ProtectInv, Flow, Facts, Found, Old, B, OpenPcs
<1>5. CASE RemoveV4
  BY <1>0, <1>a, <1>5, RemoveV4Does, Versions, ConfParts DEF NowV4, Is, Went, ProtectInv, Flow, Facts, Found, Old, B, OpenPcs
<1>6. CASE Upgrade2
  BY <1>0, <1>a, <1>6, Upgrade2Does, Versions, ConfParts DEF NowConf, Unmoved, Is, Went, ProtectInv, Flow, Facts, Found, Old, B, OpenPcs
<1>7. CASE RemoveProtected
  BY <1>0, <1>a, <1>7, RemoveProtectedDoes, Versions, ConfParts DEF NowDir, Is, Went, ProtectInv, Flow, Facts, Found, Old, B, OpenPcs
<1>8. CASE Upgrade3
  BY <1>0, <1>a, <1>8, Upgrade3Does, Versions, ConfParts DEF NowStacks, Unmoved, Is, Went, ProtectInv, Flow, Facts, Found, Old, B, OpenPcs
<1>9. CASE RemoveOldRefs
  BY <1>0, <1>a, <1>9, RemoveOldRefsDoes, Versions, ConfParts DEF NowV4, Is, Went, ProtectInv, Flow, Facts, Found, Old, B, OpenPcs
<1>10. CASE RemoveVersion
  <2>1. B \in Branches /\ store.conf[B] \in Confs /\ B' = B
    BY <1>0, <1>a, <1>10, RemoveVersionDoes DEF Facts, Flow, B, Went
  <2>2. store'.conf[B] = [store.conf[B] EXCEPT !.version = 0]
    BY <1>a, <1>10, <2>1, RemoveVersionDoes DEF Facts, NowConf, Is
  <2>3. store'.conf[B].protect = store.conf[B].protect
    BY <2>1, <2>2, ConfParts
  <2> QED BY <1>10, <2>1, <2>3, RemoveVersionDoes DEF Went, ProtectInv, OpenPcs
<1>11. CASE RemoveDir
  BY <1>0, <1>a, <1>11, RemoveDirDoes, Versions, ConfParts DEF NowDir, Is, Went, ProtectInv, Flow, Facts, Found, Old, B, OpenPcs
<1>12. CASE UpToDate
  BY <1>0, <1>a, <1>12, UpToDateDoes, Versions, ConfParts DEF Unmoved, Is, Went, ProtectInv, Flow, Facts, Found, Old, B, OpenPcs
<1>13. CASE Opened
  BY <1>0, <1>a, <1>13, OpenedDoes, Versions, ConfParts DEF NowStacks, Unmoved, Is, Went, ProtectInv, Flow, Facts, Found, Old, B, OpenPcs, First, Ops
<1>14. CASE OpenFailed
  BY <1>0, <1>a, <1>14, OpenFailedDoes, Versions, ConfParts DEF NowHeads, Unmoved, Is, Went, Ended, ProtectInv, Flow, Facts, Found, Old, B, OpenPcs
<1>15. CASE CopyStack
  BY <1>0, <1>a, <1>15, CopyStackDoes, Versions, ConfParts DEF NowStacks, Unmoved, Is, Went, Ended, ProtectInv, Flow, Facts, Found, Old, B, OpenPcs
<1>16. CASE CopyBranch
  BY <1>0, <1>a, <1>16, CopyBranchDoes, Versions, ConfParts DEF NowHeads, Unmoved, Is, Went, Ended, ProtectInv, Flow, Facts, Found, Old, B, OpenPcs
<1>17. CASE SetParent
  BY <1>0, <1>a, <1>17, SetParentDoes, Versions, ConfParts DEF NowConf, Unmoved, Is, Went, ProtectInv, Flow, Facts, Found, Old, B, OpenPcs
<1>18. CASE Checkout
  BY <1>0, <1>a, <1>18, CheckoutDoes, Versions, ConfParts DEF NowHeads, Unmoved, Is, Went, Ended, ProtectInv, Flow, Facts, Found, Old, B, OpenPcs
<1>19. CASE MoveConfig
  BY <1>0, <1>a, <1>19, MoveConfigDoes, Versions, ConfParts DEF NowConf, Unmoved, Is, Went, ProtectInv, Flow, Facts, Found, Old, B, OpenPcs
<1>20. CASE MoveBranch
  BY <1>0, <1>a, <1>20, MoveBranchDoes, Versions, ConfParts DEF NowHeads, Unmoved, Is, Went, Ended, ProtectInv, Flow, Facts, Found, Old, B, OpenPcs
<1>21. CASE ParentAgain
  BY <1>0, <1>a, <1>21, ParentAgainDoes, Versions, ConfParts DEF NowConf, Is, Ended, ProtectInv, Flow, Facts, Found, Old, B, OpenPcs
<1>22. CASE Permitted
  BY <1>0, <1>a, <1>22, PermittedDoes, Versions, ConfParts DEF Unmoved, Is, Went, Ended, ProtectInv, Flow, Facts, Found, Old, B, OpenPcs
<1>23. CASE DropRefs
  BY <1>0, <1>a, <1>23, DropRefsDoes, Versions, ConfParts DEF NowRefs, Is, Went, ProtectInv, Flow, Facts, Found, Old, B, OpenPcs
<1>24. CASE DropStack
  BY <1>0, <1>a, <1>24, DropStackDoes, Versions, ConfParts DEF NowStacks, Is, Went, ProtectInv, Flow, Facts, Found, Old, B, OpenPcs
<1>25. CASE DropConfig
  BY <1>0, <1>a, <1>25, DropConfigDoes, Versions, ConfParts DEF NowConf, Is, Went, ProtectInv, Flow, Facts, Found, Old, B, OpenPcs
<1>26. CASE Leave
  BY <1>0, <1>a, <1>26, LeaveDoes, Versions, ConfParts DEF Unmoved, Is, Went, Ended, ProtectInv, Flow, Facts, Found, Old, B, OpenPcs
<1>27. CASE DeleteBranch
  BY <1>0, <1>a, <1>27, DeleteBranchDoes, Versions, ConfParts DEF NowHeads, Is, Ended, ProtectInv, Flow, Facts, Found, Old, B, OpenPcs
<1>28. CASE Protect
  BY <1>0, <1>a, <1>28, ProtectDoes, Versions, ConfParts DEF NowConf, Is, Ended, ProtectInv, Flow, Facts, Found, Old, B, OpenPcs
<1>29. CASE Over
  BY <1>0, <1>a, <1>29, OverDoes, Versions, ConfParts DEF Unmoved, Is, Ended, ProtectInv, Flow, Facts, Found, Old, B, OpenPcs
<1>30. CASE Kill
  BY <1>0, <1>a, <1>30, KillDoes, Versions, ConfParts DEF Unmoved, Is, Ended, ProtectInv, Flow, Facts, Found, Old, B, OpenPcs
<1>32. CASE Unhandled
  BY <1>0, <1>a, <1>32, UnhandledDoes, Versions DEF Unmoved, Is, Went, ProtectInv, Flow, Facts, Found, Old, B, OpenPcs
<1>33. CASE EnsurePatchRefs
  BY <1>0, <1>a, <1>33, EnsurePatchRefsDoes, Versions DEF NowRefs, Is, Went, ProtectInv, Flow, Facts, Found, Old, B, OpenPcs, First, Ops
<1>34. CASE DropNewStack
  BY <1>0, <1>a, <1>34, DropNewStackDoes, Versions DEF NowStacks, Is, Ended, ProtectInv, Flow, Facts, Found, Old, B, OpenPcs
<1>31. CASE UNCHANGED vars
  BY <1>31 DEF vars, ProtectInv, Flow, Facts, Found, Old, B, OpenPcs
<1> QED
  BY <1>1, <1>2, <1>3, <1>4, <1>5, <1>6, <1>7, <1>8, <1>9, <1>10, <1>11, <1>12, <1>13, <1>14, <1>15, <1>16, <1>17, <1>18, <1>19, <1>20, <1>21, <1>22, <1>23, <1>24, <1>25, <1>26, <1>27, <1>28, <1>29, <1>30, <1>31, <1>32, <1>33, <1>34 DEF Next, Start, Step, Opening, Rest

\* What the property says of one step.
ProtectedStep ==
  \A b \in Branches : Protected(b) /\ ~(cmd.op \in {"rename", "create"} /\ cmd.b = b) =>
    /\ store'.stacks[b] = store.stacks[b] /\ b \in store'.heads
    /\ store'.conf[b].protect \/ (cmd.op = "unprotect" /\ cmd.b = b)

\* It holds of a step that only writes a section, if that does not end the protection,
LEMMA SectionStep ==
  ASSUME Facts, NEW c \in Branches, NEW d, NowConf([store.conf EXCEPT ![c] = d]),
         (store.conf[c].protect => d.protect) \/ (cmd.op = "unprotect" /\ cmd.b = c)
  PROVE  ProtectedStep
<1>1. store'.conf[c] = d /\ (\A b \in Branches \ {c} : store'.conf[b] = store.conf[b])
  BY DEF Facts, NowConf, Is
<1> QED
  BY <1>1 DEF NowConf, Is, ProtectedStep, Protected

\* and of one that writes a stack where none is.
LEMMA StackStep ==
  ASSUME Facts, NEW c \in Branches, NEW x, NowStacks([store.stacks EXCEPT ![c] = x]),
         store.stacks[c] = None
  PROVE  ProtectedStep
<1>1. \A b \in Branches \ {c} : store'.stacks[b] = store.stacks[b]
  BY DEF Facts, NowStacks, Is
<1> QED
  BY <1>1 DEF NowStacks, Is, ProtectedStep, Protected

\* No step of a command takes the stack or the protection of a protected branch away.
LEMMA ProtectedSteps ==
  ASSUME StateInv, NameFree, ProtectInv, [Next]_vars
  PROVE  [ProtectedStep]_vars
<1>0. /\ store \in Stores /\ cmd \in Cmds /\ forced \subseteq Patches /\ kills \in Nat /\ Flow /\ Found
      /\ cmd.op \in Ops /\ cmd.pc \in Pcs
  BY CmdFields DEF StateInv, Typed
<1>a. Facts
  BY <1>0, Fields DEF Facts
<1>1. CASE StartCreate
  BY <1>0, <1>1, CreateDoes DEF Begun, Is, ProtectedStep, Protected
<1>2. CASE \/ StartClone \/ StartRename \/ StartDelete \/ StartCleanup \/ StartProtect \/ StartUnprotect
           \/ StartInit
  <2>1. PICK op \in Ops, b \in Branches, to \in Branches \cup {NoBranch} : Begins(op, b, to)
    BY <1>0, <1>2, StartDoes
  <2>2. Unmoved /\ UNCHANGED <<forced, kills>>
    BY <1>0, <1>2, StartDoes
  <2> QED BY <2>2 DEF Unmoved, Is, ProtectedStep, Protected
<1>3. CASE Switch
  BY <1>0, <1>3, SwitchDoes DEF Unmoved, Is, ProtectedStep, Protected
<1>4. CASE Upgrade4
  <2>1. B \in Branches /\ store.stacks[B] = None
    BY <1>0, <1>4, Upgrade4Does, Versions DEF Flow, B
  <2>2. CASE Unmoved
    BY <2>2 DEF Unmoved, Is, ProtectedStep, Protected
  <2>3. CASE NowStacks([store.stacks EXCEPT ![B] = store.v4[B].patches])
    BY <1>a, <2>1, <2>3, StackStep
  <2> QED BY <1>4, <2>2, <2>3, Upgrade4Does
<1>5. CASE RemoveV4
  BY <1>0, <1>a, <1>5, RemoveV4Does DEF NowV4, Is, Went, ProtectedStep, Protected, NameFree, NewName, ProtectInv, Flow, Facts, Found, B, OpenPcs
<1>6. CASE Upgrade2
  <2>1. B \in Branches /\ store.conf[B] \in Confs
    BY <1>0, <1>a, <1>6, Upgrade2Does DEF Flow, Facts, B
  <2>2. CASE Unmoved
    BY <2>2 DEF Unmoved, Is, ProtectedStep, Protected
  <2>3. CASE NowConf([store.conf EXCEPT ![B] = [store.conf[B] EXCEPT !.protect = TRUE]])
    <3>1. [store.conf[B] EXCEPT !.protect = TRUE].protect
      BY <2>1, ConfParts
    <3> QED BY <1>a, <2>1, <2>3, <3>1, SectionStep
  <2> QED BY <1>6, <2>2, <2>3, Upgrade2Does
<1>7. CASE RemoveProtected
  BY <1>0, <1>a, <1>7, RemoveProtectedDoes DEF NowDir, Is, Went, ProtectedStep, Protected, NameFree, NewName, ProtectInv, Flow, Facts, Found, B, OpenPcs
<1>8. CASE Upgrade3
  <2>1. B \in Branches /\ store.stacks[B] = None
    BY <1>0, <1>8, Upgrade3Does, Versions DEF Flow, Found, Old, B
  <2>2. CASE Unmoved
    BY <2>2 DEF Unmoved, Is, ProtectedStep, Protected
  <2>3. CASE NowStacks([store.stacks EXCEPT ![B] = store.dir[B].patches \cap store.refs[B]])
    BY <1>a, <2>1, <2>3, StackStep
  <2> QED BY <1>8, <2>2, <2>3, Upgrade3Does
<1>9. CASE RemoveOldRefs
  BY <1>0, <1>a, <1>9, RemoveOldRefsDoes DEF NowV4, Is, Went, ProtectedStep, Protected, NameFree, NewName, ProtectInv, Flow, Facts, Found, B, OpenPcs
<1>10. CASE RemoveVersion
  <2>1. B \in Branches /\ store.conf[B] \in Confs
    BY <1>0, <1>a, <1>10, RemoveVersionDoes DEF Flow, Facts, B
  <2>2. [store.conf[B] EXCEPT !.version = 0].protect = store.conf[B].protect
    BY <2>1, ConfParts
  <2> QED BY <1>a, <1>10, <2>1, <2>2, RemoveVersionDoes, SectionStep
<1>11. CASE RemoveDir
  BY <1>0, <1>a, <1>11, RemoveDirDoes DEF NowDir, Is, Went, ProtectedStep, Protected, NameFree, NewName, ProtectInv, Flow, Facts, Found, B, OpenPcs
<1>12. CASE UpToDate
  BY <1>0, <1>a, <1>12, UpToDateDoes DEF Unmoved, Is, Went, ProtectedStep, Protected, NameFree, NewName, ProtectInv, Flow, Facts, Found, B, OpenPcs
<1>13. CASE Opened
  <2>1. B \in Branches
    BY <1>0, <1>13, OpenedDoes DEF Flow, B
  <2>2. CASE Unmoved
    BY <2>2 DEF Unmoved, Is, ProtectedStep, Protected
  <2>3. CASE /\ cmd.policy # "require" /\ (cmd.policy = "must" => store.stacks[B] = None)
             /\ NowStacks([store.stacks EXCEPT ![B] = {}])
    <3>1. \A b \in Branches \ {B} : store'.stacks[b] = store.stacks[b]
      BY <1>a, <2>1, <2>3 DEF Facts, NowStacks, Is
    <3>2. cmd.op = "create" \/ store.stacks[B] = None
      BY <1>0, <2>3, CmdFields DEF Flow
    <3> QED BY <2>3, <3>1, <3>2 DEF NowStacks, Is, ProtectedStep, Protected, B
  <2> QED BY <1>13, <2>2, <2>3, OpenedDoes
<1>14. CASE OpenFailed
  BY <1>0, <1>a, <1>14, OpenFailedDoes DEF NowHeads, Unmoved, Is, Went, Ended, ProtectedStep, Protected, NameFree, NewName, ProtectInv, Flow, Facts, Found, B, OpenPcs
<1>15. CASE CopyStack
  BY <1>0, <1>a, <1>15, CopyStackDoes DEF NowStacks, Unmoved, Is, Went, Ended, ProtectedStep, Protected, NameFree, NewName, ProtectInv, Flow, Facts, Found, B, OpenPcs
<1>16. CASE CopyBranch
  BY <1>0, <1>a, <1>16, CopyBranchDoes DEF NowHeads, Unmoved, Is, Went, Ended, ProtectedStep, Protected, NameFree, NewName, ProtectInv, Flow, Facts, Found, B, OpenPcs
<1>17. CASE SetParent
  <2>1. CASE Unmoved
    BY <2>1 DEF Unmoved, Is, ProtectedStep, Protected
  <2>2. ASSUME NEW b \in Branches, NEW x \in Branches,
               NowConf([store.conf EXCEPT ![b] = [store.conf[b] EXCEPT !.parent = x]])
        PROVE  ProtectedStep
    <3>1. [store.conf[b] EXCEPT !.parent = x].protect = store.conf[b].protect
      BY <1>a, ConfParts DEF Facts
    <3> QED BY <1>a, <2>2, <3>1, SectionStep
  <2> QED BY <1>17, <2>1, <2>2, SetParentDoes
<1>18. CASE Checkout
  BY <1>0, <1>a, <1>18, CheckoutDoes DEF NowHeads, Unmoved, Is, Went, Ended, ProtectedStep, Protected, NameFree, NewName, ProtectInv, Flow, Facts, Found, B, OpenPcs
<1>19. CASE MoveConfig
  BY <1>0, <1>a, <1>19, MoveConfigDoes DEF NowConf, Unmoved, Is, Went, ProtectedStep, Protected, NameFree, NewName, ProtectInv, Flow, Facts, Found, B, OpenPcs
<1>20. CASE MoveBranch
  <2>1. cmd.op = "rename"
    BY <1>0, <1>20, MoveBranchDoes DEF Flow
  <2> QED BY <1>20, <2>1, MoveBranchDoes DEF NowHeads, Unmoved, Is, ProtectedStep, Protected, B
<1>21. CASE ParentAgain
  <2>1. cmd.to \in Branches
    BY <1>0, <1>21, ParentAgainDoes DEF Flow
  <2>2. [store.conf[cmd.to] EXCEPT !.parent = cmd.snap.parent].protect = store.conf[cmd.to].protect
    BY <1>a, <2>1, ConfParts DEF Facts
  <2> QED BY <1>a, <1>21, <2>1, <2>2, ParentAgainDoes, SectionStep
<1>22. CASE Permitted
  BY <1>0, <1>a, <1>22, PermittedDoes DEF Unmoved, Is, Went, Ended, ProtectedStep, Protected, NameFree, NewName, ProtectInv, Flow, Facts, Found, B, OpenPcs
<1>23. CASE DropRefs
  BY <1>0, <1>a, <1>23, DropRefsDoes DEF NowRefs, Is, Went, ProtectedStep, Protected, NameFree, NewName, ProtectInv, Flow, Facts, Found, B, OpenPcs
<1>24. CASE DropStack
  BY <1>0, <1>a, <1>24, DropStackDoes DEF NowStacks, Is, Went, ProtectedStep, Protected, NameFree, NewName, ProtectInv, Flow, Facts, Found, B, OpenPcs
<1>25. CASE DropConfig
  <2>1. B \in Branches /\ store.stacks[B] = None
    BY <1>0, <1>25, DropConfigDoes DEF Flow, Found, B
  <2>2. \A b \in Branches \ {B} : store'.conf[b] = store.conf[b]
    BY <1>a, <1>25, <2>1, DropConfigDoes DEF Facts, NowConf, Is
  <2> QED BY <1>25, <2>1, <2>2, DropConfigDoes DEF NowConf, Is, ProtectedStep, Protected
<1>26. CASE Leave
  BY <1>0, <1>a, <1>26, LeaveDoes DEF Unmoved, Is, Went, Ended, ProtectedStep, Protected, NameFree, NewName, ProtectInv, Flow, Facts, Found, B, OpenPcs
<1>27. CASE DeleteBranch
  BY <1>0, <1>a, <1>27, DeleteBranchDoes DEF NowHeads, Is, Ended, ProtectedStep, Protected, NameFree, NewName, ProtectInv, Flow, Facts, Found, B, OpenPcs
<1>28. CASE Protect
  <2>1. B \in Branches /\ store.conf[B] \in Confs /\ cmd.op = cmd.pc /\ cmd.b = B
    BY <1>0, <1>a, <1>28, ProtectDoes DEF Flow, Facts, B
  <2>2. [store.conf[B] EXCEPT !.protect = (cmd.pc = "protect")].protect = (cmd.pc = "protect")
    BY <2>1, ConfParts
  <2> QED BY <1>a, <1>28, <2>1, <2>2, ProtectDoes, SectionStep
<1>29. CASE Over
  BY <1>0, <1>a, <1>29, OverDoes DEF Unmoved, Is, Ended, ProtectedStep, Protected, NameFree, NewName, ProtectInv, Flow, Facts, Found, B, OpenPcs
<1>30. CASE Kill
  BY <1>0, <1>a, <1>30, KillDoes DEF Unmoved, Is, Ended, ProtectedStep, Protected, NameFree, NewName, ProtectInv, Flow, Facts, Found, B, OpenPcs
<1>32. CASE Unhandled
  BY <1>0, <1>a, <1>32, UnhandledDoes DEF Unmoved, Is, Went, ProtectedStep, Protected, NameFree, NewName, ProtectInv, Flow, Facts, Found, B, OpenPcs
<1>33. CASE EnsurePatchRefs
  BY <1>0, <1>a, <1>33, EnsurePatchRefsDoes DEF NowRefs, Is, Went, ProtectedStep, Protected, NameFree, NewName, ProtectInv, Flow, Facts, Found, B, OpenPcs, First, Ops
<1>34. CASE DropNewStack
  BY <1>0, <1>a, <1>34, DropNewStackDoes DEF NowStacks, Is, Ended, ProtectedStep, Protected, NameFree, NewName, ProtectInv, Flow, Facts, Found, B, OpenPcs
<1> QED
  BY <1>1, <1>2, <1>3, <1>4, <1>5, <1>6, <1>7, <1>8, <1>9, <1>10, <1>11, <1>12, <1>13, <1>14, <1>15, <1>16, <1>17, <1>18, <1>19, <1>20, <1>21, <1>22, <1>23, <1>24, <1>25, <1>26, <1>27, <1>28, <1>29, <1>30, <1>32, <1>33, <1>34 DEF Next, Start, Step, Opening, Rest

\* A protected branch keeps its stack and its protection, whatever other commands are
\* run and wherever they are killed, until it is renamed or unprotected.
THEOREM ProtectedStay ==
  ASSUME NothingUnchecked
  PROVE  Spec => ProtectedStacksStay
<1>1. Init => NameFree /\ ProtectInv
  BY DEF Init, NoCmd, NameFree, NewName, ProtectInv, OpenPcs
<1>2. StateInv /\ NameFree /\ ProtectInv /\ [Next]_vars => NameFree' /\ ProtectInv'
  BY NextName, NextProtect
<1>3. StateInv /\ NameFree /\ ProtectInv /\ [Next]_vars => [ProtectedStep]_vars
  BY ProtectedSteps
<1> QED
  BY <1>1, <1>2, <1>3, SpecState, PTL DEF Spec, ProtectedStacksStay, ProtectedStep
-----------------------------------------------------------------------------
(* No patch is lost. *)

\* The step leaves the patches of branch b where they are.
Still(b) == \A x \in Patches : Has(store, b, x) => Has(store', b, x)

\* This is so if nothing of the branch changes,
LEMMA SameStill ==
  ASSUME NEW b, store'.stacks[b] = store.stacks[b], store'.v4[b] = store.v4[b],
         store'.refs[b] = store.refs[b], store'.dir[b].patches = store.dir[b].patches,
         store'.conf[b].version = store.conf[b].version
  PROVE  Still(b)
  BY DEF Still, Has

\* or if it has a stack that stays.
LEMMA StackStill ==
  ASSUME NEW b, store.stacks[b] # None, store'.stacks[b] = store.stacks[b]
  PROVE  Still(b)
  BY DEF Still, Has

\* The updates one by one: of nothing but the branches,
LEMMA StillHeads ==
  ASSUME NEW h, NowHeads(h) \/ Unmoved
  PROVE  \A b : Still(b)
  BY SameStill DEF NowHeads, Unmoved, Is

\* of the old reference,
LEMMA StillV4 ==
  ASSUME Facts, NEW c \in Branches, NEW y, NowV4([store.v4 EXCEPT ![c] = y])
  PROVE  \A b \in Branches : b # c \/ store.stacks[c] # None => Still(b)
<1> SUFFICES ASSUME NEW b \in Branches, b # c \/ store.stacks[c] # None PROVE Still(b)
  OBVIOUS
<1>1. CASE b # c
  <2>1. store'.v4[b] = store.v4[b]
    BY <1>1 DEF Facts, NowV4, Is
  <2> QED BY <2>1, SameStill DEF NowV4, Is
<1>2. CASE b = c
  BY <1>2, StackStill DEF NowV4, Is
<1> QED BY <1>1, <1>2

\* of the old directory,
LEMMA StillDir ==
  ASSUME Facts, NEW c \in Branches, NEW y, NowDir([store.dir EXCEPT ![c] = y])
  PROVE  \A b \in Branches :
           (b # c \/ store.stacks[c] # None \/ y.patches = store.dir[c].patches) => Still(b)
<1> SUFFICES ASSUME NEW b \in Branches,
                    b # c \/ store.stacks[c] # None \/ y.patches = store.dir[c].patches
             PROVE  Still(b)
  OBVIOUS
<1>1. CASE b # c
  <2>1. store'.dir[b] = store.dir[b]
    BY <1>1 DEF Facts, NowDir, Is
  <2> QED BY <2>1, SameStill DEF NowDir, Is
<1>2. CASE b = c /\ store.stacks[c] # None
  BY <1>2, StackStill DEF NowDir, Is
<1>3. CASE b = c /\ y.patches = store.dir[c].patches
  <2>1. store'.dir[b] = y
    BY <1>3 DEF Facts, NowDir, Is
  <2> QED BY <1>3, <2>1, SameStill DEF NowDir, Is
<1> QED BY <1>1, <1>2, <1>3

\* of the configuration,
LEMMA StillConf ==
  ASSUME Facts, NEW c \in Branches, NEW y, NowConf([store.conf EXCEPT ![c] = y])
  PROVE  \A b \in Branches :
           (b # c \/ store.stacks[c] # None \/ y.version = store.conf[c].version) => Still(b)
<1> SUFFICES ASSUME NEW b \in Branches,
                    b # c \/ store.stacks[c] # None \/ y.version = store.conf[c].version
             PROVE  Still(b)
  OBVIOUS
<1>1. CASE b # c
  <2>1. store'.conf[b] = store.conf[b]
    BY <1>1 DEF Facts, NowConf, Is
  <2> QED BY <2>1, SameStill DEF NowConf, Is
<1>2. CASE b = c /\ store.stacks[c] # None
  BY <1>2, StackStill DEF NowConf, Is
<1>3. CASE b = c /\ y.version = store.conf[c].version
  <2>1. store'.conf[b] = y
    BY <1>3 DEF Facts, NowConf, Is
  <2> QED BY <1>3, <2>1, SameStill DEF NowConf, Is
<1> QED BY <1>1, <1>2, <1>3

\* of the patch references,
LEMMA StillRefs ==
  ASSUME Facts, NEW c \in Branches, NEW y, NowRefs([store.refs EXCEPT ![c] = y])
  PROVE  \A b \in Branches : b # c \/ store.stacks[c] # None => Still(b)
<1> SUFFICES ASSUME NEW b \in Branches, b # c \/ store.stacks[c] # None PROVE Still(b)
  OBVIOUS
<1>1. CASE b # c
  <2>1. store'.refs[b] = store.refs[b]
    BY <1>1 DEF Facts, NowRefs, Is
  <2> QED BY <2>1, SameStill DEF NowRefs, Is
<1>2. CASE b = c
  BY <1>2, StackStill DEF NowRefs, Is
<1> QED BY <1>1, <1>2

\* and of a stack.
LEMMA StillStacks ==
  ASSUME Facts, NEW c \in Branches, NEW y, NowStacks([store.stacks EXCEPT ![c] = y])
  PROVE  \A b \in Branches \ {c} : Still(b)
<1> SUFFICES ASSUME NEW b \in Branches \ {c} PROVE Still(b)
  OBVIOUS
<1>1. store'.stacks[b] = store.stacks[b]
  BY DEF Facts, NowStacks, Is
<1> QED BY <1>1, SameStill DEF NowStacks, Is

\* Patches that a set of branches has are there after a step that leaves these alone.
LEMMA Carry ==
  ASSUME NEW S, NEW T, NEW g, NEW h, In(store, S, g), S \subseteq T, g \subseteq h, \A b \in S : Still(b)
  PROVE  In(store', T, h)
  BY DEF In, Still

\* A branch without patches is dispensable.
LEMMA Spare ==
  ASSUME NEW S, NEW g, NEW c, In(store, S, g), \A x \in Patches \ g : ~Has(store, c, x)
  PROVE  In(store, S \ {c}, g)
  BY DEF In

\* What has to be there after a step.
Reaches ==
  /\ In(store', store'.heads, forced')
  /\ Dispensable' => In(store', store'.heads \ {B'}, forced')

\* The rule for a step: what it takes away was dispensable.
LEMMA Reach ==
  ASSUME In(store, store.heads, forced), Dispensable => In(store, store.heads \ {B}, forced),
         forced' = forced,
         \A b \in store.heads \ {B} : Still(b) /\ b \in store'.heads,
         \/ Dispensable
         \/ B \in store.heads => B \in store'.heads /\ Still(B),
         Dispensable' => Dispensable /\ B' = B
  PROVE  Reaches
<1>1. CASE Dispensable
  <2>1. In(store', store'.heads, forced')
    <3>1. store.heads \ {B} \subseteq store'.heads
      OBVIOUS
    <3> QED BY <1>1, <3>1, Carry
  <2>2. ASSUME Dispensable' PROVE In(store', store'.heads \ {B'}, forced')
    <3>1. store.heads \ {B} \subseteq store'.heads \ {B'}
      BY <2>2
    <3> QED BY <1>1, <3>1, Carry
  <2> QED BY <2>1, <2>2 DEF Reaches
<1>2. CASE ~Dispensable
  <2>1. store.heads \subseteq store'.heads /\ \A b \in store.heads : Still(b)
    BY <1>2
  <2> QED BY <1>2, <2>1, Carry DEF Reaches
<1> QED BY <1>1, <1>2
\* What is left behind stays harmless.
LEMMA NextTidy ==
  ASSUME StateInv, Tidy, [Next]_vars
  PROVE  Tidy'
<1>0. /\ store \in Stores /\ cmd \in Cmds /\ forced \subseteq Patches /\ kills \in Nat /\ Flow /\ Found
      /\ cmd.op \in Ops /\ cmd.pc \in Pcs
  BY CmdFields DEF StateInv, Typed
<1>a. Facts
  BY <1>0, Fields DEF Facts
<1>1. CASE StartCreate
  BY <1>0, <1>1, CreateDoes DEF Begun, Is, Tidy
<1>2. CASE \/ StartClone \/ StartRename \/ StartDelete \/ StartCleanup \/ StartProtect \/ StartUnprotect
           \/ StartInit
  <2>1. PICK op \in Ops, b \in Branches, to \in Branches \cup {NoBranch} : Begins(op, b, to)
    BY <1>0, <1>2, StartDoes
  <2>2. Unmoved /\ UNCHANGED <<forced, kills>>
    BY <1>0, <1>2, StartDoes
  <2> QED BY <2>1, <2>2 DEF Begins, Begun, Unmoved, Is, Tidy
<1>3. CASE Switch
  BY <1>0, <1>3, SwitchDoes DEF Unmoved, Is, Tidy, B
<1>4. CASE Upgrade4
  BY <1>0, <1>a, <1>4, Upgrade4Does DEF NowStacks, Unmoved, Is, Went, Tidy, Flow, Facts, Found, B
<1>5. CASE RemoveV4
  <2>1. B \in Branches /\ B' = B
    BY <1>0, <1>5, RemoveV4Does DEF Flow, B, Went
  <2>2. \A b \in Branches : store'.v4[b] = store.v4[b] \/ store'.v4[b] = NoV4
    BY <1>a, <1>5, <2>1, RemoveV4Does DEF Facts, NowV4, Is
  <2>3. ~NoV4.first
    BY DEF NoV4
  <2>4. \A b \in Branches : ~store'.v4[b].first
    BY <2>2, <2>3 DEF Tidy
  <2> QED BY <1>5, <2>4, RemoveV4Does DEF Went, Tidy
<1>6. CASE Upgrade2
  BY <1>0, <1>a, <1>6, Upgrade2Does DEF NowConf, Unmoved, Is, Went, Tidy, Flow, Facts, Found, B
<1>7. CASE RemoveProtected
  BY <1>0, <1>a, <1>7, RemoveProtectedDoes DEF NowDir, Is, Went, Tidy, Flow, Facts, Found, B
<1>8. CASE Upgrade3
  BY <1>0, <1>a, <1>8, Upgrade3Does DEF NowStacks, Unmoved, Is, Went, Tidy, Flow, Facts, Found, B
<1>9. CASE RemoveOldRefs
  <2>1. B \in Branches /\ B' = B
    BY <1>0, <1>9, RemoveOldRefsDoes DEF Flow, B, Went
  <2>2. \A b \in Branches : store'.v4[b] = store.v4[b] \/ store'.v4[b] = NoV4
    BY <1>a, <1>9, <2>1, RemoveOldRefsDoes DEF Facts, NowV4, Is
  <2>3. ~NoV4.first
    BY DEF NoV4
  <2>4. \A b \in Branches : ~store'.v4[b].first
    BY <2>2, <2>3 DEF Tidy
  <2> QED BY <1>9, <2>4, RemoveOldRefsDoes DEF Went, Tidy
<1>10. CASE RemoveVersion
  BY <1>0, <1>a, <1>10, RemoveVersionDoes DEF NowConf, Is, Went, Tidy, Flow, Facts, Found, B
<1>11. CASE RemoveDir
  BY <1>0, <1>a, <1>11, RemoveDirDoes DEF NowDir, Is, Went, Tidy, Flow, Facts, Found, B
<1>12. CASE UpToDate
  BY <1>0, <1>a, <1>12, UpToDateDoes DEF Unmoved, Is, Went, Tidy, Flow, Facts, Found, B
<1>13. CASE Opened
  BY <1>0, <1>a, <1>13, OpenedDoes DEF NowStacks, Unmoved, Is, Went, Tidy, Flow, Facts, Found, B, First, Ops
<1>14. CASE OpenFailed
  BY <1>0, <1>a, <1>14, OpenFailedDoes DEF NowHeads, Unmoved, Is, Went, Ended, Tidy, Flow, Facts, Found, B
<1>15. CASE CopyStack
  <2>1. B \in Branches /\ cmd.to \in Branches /\ cmd.to # B
    BY <1>0, <1>15, CopyStackDoes DEF Flow, B
  <2>2. CASE Unmoved /\ Ended
    BY <2>2 DEF Unmoved, Is, Ended, Tidy
  <2>3. CASE /\ NowStacks([store.stacks EXCEPT ![cmd.to] = store.stacks[B]])
             /\ Went("copy branch") \/ Went("move config")
    <3>1. store'.stacks[cmd.to] = store.stacks[B] /\ store'.stacks[B] = store.stacks[B]
      BY <1>a, <2>1, <2>3 DEF Facts, NowStacks, Is
    <3> QED BY <2>3, <3>1 DEF NowStacks, Is, Went, Tidy, B
  <2> QED BY <1>15, <2>2, <2>3, CopyStackDoes
<1>16. CASE CopyBranch
  BY <1>0, <1>a, <1>16, CopyBranchDoes DEF NowHeads, Unmoved, Is, Went, Ended, Tidy, Flow, Facts, Found, B
<1>17. CASE SetParent
  BY <1>0, <1>a, <1>17, SetParentDoes DEF NowConf, Unmoved, Is, Went, Tidy, Flow, Facts, Found, B
<1>18. CASE Checkout
  BY <1>0, <1>a, <1>18, CheckoutDoes DEF NowHeads, Unmoved, Is, Went, Ended, Tidy, Flow, Facts, Found, B
<1>19. CASE MoveConfig
  BY <1>0, <1>a, <1>19, MoveConfigDoes DEF NowConf, Unmoved, Is, Went, Tidy, Flow, Facts, Found, B
<1>20. CASE MoveBranch
  BY <1>0, <1>a, <1>20, MoveBranchDoes DEF NowHeads, Unmoved, Is, Went, Ended, Tidy, Flow, Facts, Found, B
<1>21. CASE ParentAgain
  BY <1>0, <1>a, <1>21, ParentAgainDoes DEF NowConf, Is, Ended, Tidy, Flow, Facts, Found, B
<1>22. CASE Permitted
  BY <1>0, <1>a, <1>22, PermittedDoes DEF Unmoved, Is, Went, Ended, Tidy, Flow, Facts, Found, B
<1>23. CASE DropRefs
  <2>1. B \in Branches /\ B' = B
    BY <1>0, <1>23, DropRefsDoes DEF Flow, B, Went
  <2>2. store'.refs[B] = {}
    BY <1>a, <1>23, <2>1, DropRefsDoes DEF Facts, NowRefs, Is
  <2> QED BY <1>23, <2>1, <2>2, DropRefsDoes DEF NowRefs, Is, Went, Tidy
<1>24. CASE DropStack
  BY <1>0, <1>a, <1>24, DropStackDoes DEF NowStacks, Is, Went, Tidy, Flow, Facts, Found, B
<1>25. CASE DropConfig
  BY <1>0, <1>a, <1>25, DropConfigDoes DEF NowConf, Is, Went, Tidy, Flow, Facts, Found, B
<1>26. CASE Leave
  BY <1>0, <1>a, <1>26, LeaveDoes DEF Unmoved, Is, Went, Ended, Tidy, Flow, Facts, Found, B
<1>27. CASE DeleteBranch
  BY <1>0, <1>a, <1>27, DeleteBranchDoes DEF NowHeads, Is, Ended, Tidy, Flow, Facts, Found, B
<1>28. CASE Protect
  BY <1>0, <1>a, <1>28, ProtectDoes DEF NowConf, Is, Ended, Tidy, Flow, Facts, Found, B
<1>29. CASE Over
  BY <1>0, <1>a, <1>29, OverDoes DEF Unmoved, Is, Ended, Tidy, Flow, Facts, Found, B
<1>30. CASE Kill
  BY <1>0, <1>a, <1>30, KillDoes DEF Unmoved, Is, Ended, Tidy, Flow, Facts, Found, B
<1>32. CASE Unhandled
  BY <1>0, <1>a, <1>32, UnhandledDoes DEF Unmoved, Is, Went, Tidy, Flow, Facts, Found, B
<1>33. CASE EnsurePatchRefs
  BY <1>0, <1>a, <1>33, EnsurePatchRefsDoes DEF NowRefs, Is, Went, Tidy, Flow, Facts, Found, B, First, Ops
<1>34. CASE DropNewStack
  BY <1>0, <1>a, <1>34, DropNewStackDoes DEF NowStacks, Is, Ended, Tidy, Flow, Facts, Found, B
<1>31. CASE UNCHANGED vars
  BY <1>31 DEF vars, Tidy, Flow, Facts, Found, B
<1> QED
  BY <1>1, <1>2, <1>3, <1>4, <1>5, <1>6, <1>7, <1>8, <1>9, <1>10, <1>11, <1>12, <1>13, <1>14, <1>15, <1>16, <1>17, <1>18, <1>19, <1>20, <1>21, <1>22, <1>23, <1>24, <1>25, <1>26, <1>27, <1>28, <1>29, <1>30, <1>31, <1>32, <1>33, <1>34 DEF Next, Start, Step, Opening, Rest

\* The rule for a step that changes nothing but HEAD and the command.
LEMMA ReachUnmoved ==
  ASSUME ReachInv, Unmoved, forced' = forced, Dispensable' => Dispensable /\ B' = B
  PROVE  Reaches
<1>1. store'.heads = store.heads /\ \A b : Still(b)
  BY StillHeads DEF Unmoved, Is
<1> QED BY <1>1, Reach DEF ReachInv

\* A command that is over needs every stack.
LEMMA EndedNeeds ==
  ASSUME Ended
  PROVE  ~Dispensable'
  BY DEF Ended, Dispensable

\* What a stack is upgraded to is what it was.
LEMMA UpgradedStill ==
  ASSUME Facts, NEW c \in Branches, NEW y \in SUBSET Patches, store.stacks[c] = None,
         NowStacks([store.stacks EXCEPT ![c] = y]), \A x \in Patches : Has(store, c, x) => x \in y
  PROVE  \A b \in Branches : Still(b)
<1>1. store'.stacks[c] = y /\ y # None
  BY BranchesAssumption DEF Facts, NowStacks, Is
<1>2. \A x \in Patches : x \in y => Has(store', c, x)
  BY <1>1 DEF Has
<1> QED BY <1>2, StillStacks DEF Still

\* The rule for a step that finds out that there is nothing in the stack.
LEMMA ReachNothing ==
  ASSUME ReachInv, Unmoved, forced' = forced, B' = B, \A x \in Patches : ~Has(store, B, x)
  PROVE  Reaches
<1>1. In(store, store.heads \ {B}, forced)
  BY Spare DEF ReachInv
<1>2. store'.heads = store.heads /\ \A b : Still(b)
  BY StillHeads DEF Unmoved, Is
<1> QED BY <1>1, <1>2, Carry DEF Reaches

\* No step of a command loses a patch, or makes a stack dispensable that is not.
LEMMA NextReaches ==
  ASSUME StateInv, NameFree, ReachInv, [Next]_vars
  PROVE  Reaches
<1>0. /\ store \in Stores /\ cmd \in Cmds /\ forced \subseteq Patches /\ kills \in Nat /\ Flow /\ Found
      /\ cmd.op \in Ops /\ cmd.pc \in Pcs
  BY CmdFields DEF StateInv, Typed
<1>a. Facts
  BY <1>0, Fields DEF Facts
<1>1. CASE StartCreate
  <2>1. PICK b \in Branches \ store.heads, to \in Branches \cup {NoBranch} :
          /\ Begun("create", b, to, "force") /\ NowHeads(store.heads \cup {b}) /\ UNCHANGED <<forced, kills>>
    BY <1>0, <1>1, CreateDoes DEF NowHeads
  <2>2. store'.heads = store.heads \cup {b} /\ (\A c : Still(c)) /\ B' = b
    BY <2>1, StillHeads DEF NowHeads, Is, Begun, B
  <2>3. store.heads \subseteq store'.heads /\ store.heads \subseteq store'.heads \ {B'}
    BY <2>2
  <2> QED BY <2>1, <2>2, <2>3, Carry DEF Reaches, ReachInv
<1>2. CASE \/ StartClone \/ StartRename \/ StartDelete \/ StartCleanup \/ StartProtect \/ StartUnprotect
           \/ StartInit
  <2>1. PICK op \in Ops, b \in Branches, to \in Branches \cup {NoBranch} : Begins(op, b, to)
    BY <1>0, <1>2, StartDoes
  <2>2. Unmoved /\ UNCHANGED <<forced, kills>>
    BY <1>0, <1>2, StartDoes
  <2>3. ~Dispensable'
    BY <2>1 DEF Begins, Begun, Dispensable
  <2> QED BY <2>2, <2>3, ReachUnmoved
<1>3. CASE Switch
  BY <1>3, SwitchDoes, ReachUnmoved DEF Unmoved, Is, Dispensable, B
<1>4. CASE Upgrade4
  <2>1. B \in Branches /\ store.stacks[B] = None /\ store.v4[B].patches # None /\ ~store.v4[B].first
    BY <1>0, <1>4, Upgrade4Does, Versions DEF Flow, B, ReachInv, Tidy
  <2>2. NowStacks([store.stacks EXCEPT ![B] = store.v4[B].patches]) /\ Went("remove v4") /\ forced' = forced
    BY <1>4, <2>1, Upgrade4Does
  <2>3. store.v4[B].patches \in SUBSET Patches
    BY <1>a, <2>1 DEF Facts, V4s, MaybeSets
  <2>4. \A x \in Patches : Has(store, B, x) => x \in store.v4[B].patches
    BY <2>1 DEF Has
  <2>5. store'.heads = store.heads /\ \A b \in Branches : Still(b)
    BY <1>a, <2>1, <2>2, <2>3, <2>4, UpgradedStill DEF NowStacks, Is
  <2>6. Dispensable' => Dispensable /\ B' = B
    BY <2>2 DEF Went, Dispensable, B
  <2> QED BY <1>a, <2>2, <2>5, <2>6, Reach DEF ReachInv, Facts
<1>5. CASE RemoveV4
  <2>1. B \in Branches /\ store.stacks[B] # None
    BY <1>0, <1>a, <1>5, RemoveV4Does DEF Flow, Found, Facts, B
  <2>2. store'.heads = store.heads /\ \A b \in Branches : Still(b)
    BY <1>a, <1>5, <2>1, RemoveV4Does, StillV4 DEF NowV4, Is
  <2>3. Dispensable' => Dispensable /\ B' = B
    BY <1>5, RemoveV4Does, EndedNeeds DEF Went, Dispensable, B
  <2> QED BY <1>a, <1>5, <2>2, <2>3, RemoveV4Does, Reach DEF ReachInv, Facts
<1>6. CASE Upgrade2
  <2>1. B \in Branches /\ store.conf[B] \in Confs
    BY <1>0, <1>a, <1>6, Upgrade2Does DEF Flow, Facts, B
  <2>2. Dispensable' => Dispensable /\ B' = B
    BY <1>6, Upgrade2Does DEF Went, Dispensable, B
  <2>3. CASE Unmoved
    BY <1>6, <2>2, <2>3, Upgrade2Does, ReachUnmoved
  <2>4. CASE NowConf([store.conf EXCEPT ![B] = [store.conf[B] EXCEPT !.protect = TRUE]])
    <3>0. [store.conf[B] EXCEPT !.protect = TRUE].version = store.conf[B].version
      BY <2>1, ConfParts
    <3>1. store'.heads = store.heads /\ \A b \in Branches : Still(b)
      BY <1>a, <2>1, <2>4, <3>0, StillConf DEF NowConf, Is
    <3> QED BY <1>a, <1>6, <2>2, <3>1, Upgrade2Does, Reach DEF ReachInv, Facts
  <2> QED BY <1>6, <2>3, <2>4, Upgrade2Does
<1>7. CASE RemoveProtected
  <2>1. B \in Branches /\ store.dir[B] \in Dirs
    BY <1>0, <1>a, <1>7, RemoveProtectedDoes DEF Flow, Found, Facts, B
  <2>2. store'.heads = store.heads /\ \A b \in Branches : Still(b)
    BY <1>a, <1>7, <2>1, RemoveProtectedDoes, StillDir, DirParts DEF NowDir, Is
  <2>3. Dispensable' => Dispensable /\ B' = B
    BY <1>7, RemoveProtectedDoes, EndedNeeds DEF Went, Dispensable, B
  <2> QED BY <1>a, <1>7, <2>2, <2>3, RemoveProtectedDoes, Reach DEF ReachInv, Facts
<1>8. CASE Upgrade3
  <2>1. B \in Branches /\ (Old(store, B, 2) \/ Old(store, B, 3)) /\ store.refs[B] \subseteq Patches
    BY <1>0, <1>a, <1>8, Upgrade3Does, Versions DEF Flow, Found, B, Facts
  <2>2. store.stacks[B] = None
    BY <2>1 DEF Old
  <2>3. CASE store.dir[B].patches = None /\ Unmoved /\ Went("failed")
    <3>1. \A x \in Patches : ~Has(store, B, x)
      BY <2>1, <2>3 DEF Old, Has
    <3> QED BY <1>8, <2>3, <3>1, Upgrade3Does, ReachNothing DEF Went, B
  <2>4. CASE NowStacks([store.stacks EXCEPT ![B] = store.dir[B].patches \cap store.refs[B]]) /\ Went("remove old refs")
    <3>1. \A x \in Patches : Has(store, B, x) => x \in store.dir[B].patches \cap store.refs[B]
      BY <2>1 DEF Old, Has
    <3>2. store'.heads = store.heads /\ \A b \in Branches : Still(b)
      BY <1>a, <2>1, <2>2, <2>4, <3>1, UpgradedStill DEF NowStacks, Is
    <3>3. Dispensable' => Dispensable /\ B' = B
      BY <2>4 DEF Went, Dispensable, B
    <3> QED BY <1>a, <1>8, <3>2, <3>3, Upgrade3Does, Reach DEF ReachInv, Facts
  <2> QED BY <1>8, <2>2, <2>3, <2>4, Upgrade3Does
<1>9. CASE RemoveOldRefs
  <2>1. B \in Branches /\ store.stacks[B] # None
    BY <1>0, <1>a, <1>9, RemoveOldRefsDoes DEF Flow, Found, Facts, B
  <2>2. store'.heads = store.heads /\ \A b \in Branches : Still(b)
    BY <1>a, <1>9, <2>1, RemoveOldRefsDoes, StillV4 DEF NowV4, Is
  <2>3. Dispensable' => Dispensable /\ B' = B
    BY <1>9, RemoveOldRefsDoes, EndedNeeds DEF Went, Dispensable, B
  <2> QED BY <1>a, <1>9, <2>2, <2>3, RemoveOldRefsDoes, Reach DEF ReachInv, Facts
<1>10. CASE RemoveVersion
  <2>1. B \in Branches /\ store.stacks[B] # None
    BY <1>0, <1>a, <1>10, RemoveVersionDoes DEF Flow, Found, Facts, B
  <2>2. store'.heads = store.heads /\ \A b \in Branches : Still(b)
    BY <1>a, <1>10, <2>1, RemoveVersionDoes, StillConf DEF NowConf, Is
  <2>3. Dispensable' => Dispensable /\ B' = B
    BY <1>10, RemoveVersionDoes, EndedNeeds DEF Went, Dispensable, B
  <2> QED BY <1>a, <1>10, <2>2, <2>3, RemoveVersionDoes, Reach DEF ReachInv, Facts
<1>11. CASE RemoveDir
  <2>1. B \in Branches /\ store.stacks[B] # None
    BY <1>0, <1>a, <1>11, RemoveDirDoes DEF Flow, Found, Facts, B
  <2>2. store'.heads = store.heads /\ \A b \in Branches : Still(b)
    BY <1>a, <1>11, <2>1, RemoveDirDoes, StillDir DEF NowDir, Is
  <2>3. Dispensable' => Dispensable /\ B' = B
    BY <1>11, RemoveDirDoes, EndedNeeds DEF Went, Dispensable, B
  <2> QED BY <1>a, <1>11, <2>2, <2>3, RemoveDirDoes, Reach DEF ReachInv, Facts
<1>12. CASE UpToDate
  BY <1>12, UpToDateDoes, ReachUnmoved DEF Went, Dispensable, B
<1>13. CASE Opened
  <2>1. B \in Branches /\ forced' = forced /\ (store.stacks[B] # None \/ Old(store, B, 0))
    BY <1>0, <1>13, OpenedDoes DEF Flow, Found, B
  <2>2. Old(store, B, 0) => \A x \in Patches : ~Has(store, B, x)
    BY DEF Old, Has
  <2>3. CASE cmd.policy = "require" /\ store.stacks[B] = None /\ Unmoved /\ Went("failed")
    BY <2>1, <2>2, <2>3, ReachNothing DEF Went, B
  <2>4. CASE cmd.policy = "must" /\ Unmoved /\ Went("failed")
    BY <2>1, <2>4, ReachUnmoved DEF Went, Dispensable, B
  <2>5. CASE cmd.policy = "require" /\ Unmoved /\ Went("patch refs")
    BY <2>1, <2>5, ReachUnmoved DEF Went, Dispensable, B
  <2>6. CASE /\ cmd.policy # "require" /\ (cmd.policy = "must" => store.stacks[B] = None)
             /\ NowStacks([store.stacks EXCEPT ![B] = {}]) /\ Went("patch refs")
    <3>1. store'.heads = store.heads /\ \A b \in Branches \ {B} : Still(b)
      BY <1>a, <2>1, <2>6, StillStacks DEF NowStacks, Is
    <3>2. Dispensable \/ Still(B)
      <4>1. cmd.policy = "force" \/ Old(store, B, 0)
        BY <1>0, <2>1, <2>6, CmdFields
      <4> QED BY <1>0, <2>2, <4>1 DEF Still, Dispensable, Flow
    <3>3. Dispensable' => Dispensable /\ B' = B
      BY <2>6 DEF Went, Dispensable, B
    <3> QED BY <1>a, <2>1, <3>1, <3>2, <3>3, Reach DEF ReachInv, Facts
  <2> QED BY <1>13, <2>3, <2>4, <2>5, <2>6, OpenedDoes
<1>14. CASE OpenFailed
  <2>1. CASE cmd.op = "create" /\ NowHeads(store.heads \ {B}) /\ Ended
    <3>1. store'.heads = store.heads \ {B} /\ \A b : Still(b)
      BY <2>1, StillHeads DEF NowHeads, Is
    <3> QED BY <1>14, <2>1, <3>1, OpenFailedDoes, EndedNeeds, Reach DEF ReachInv, Dispensable
  <2>2. CASE /\ cmd.op \in {"clone", "rename", "delete"} /\ Unmoved
             /\ \/ cmd.op = "clone" /\ Went("copy branch")
                \/ cmd.op = "rename" /\ Went("move branch")
                \/ cmd.op = "delete" /\ Went("leave")
    <3>1. cmd.policy = "require" /\ cmd.pc = "failed"
      BY <1>0, <1>14, <2>2, OpenFailedDoes, CmdFields DEF Flow
    <3> QED BY <1>14, <2>2, <3>1, OpenFailedDoes, ReachUnmoved DEF Went, Dispensable, B
  <2>3. CASE Unmoved /\ Ended
    BY <1>14, <2>3, OpenFailedDoes, ReachUnmoved, EndedNeeds
  <2> QED BY <1>14, <2>1, <2>2, <2>3, OpenFailedDoes
<1>15. CASE CopyStack
  <2>1. cmd.to \in Branches /\ cmd.to \notin store.heads
    BY <1>0, <1>15, CopyStackDoes DEF Flow, NameFree, NewName
  <2>2. CASE Unmoved /\ Ended
    BY <1>15, <2>2, CopyStackDoes, ReachUnmoved, EndedNeeds
  <2>3. CASE /\ NowStacks([store.stacks EXCEPT ![cmd.to] = store.stacks[B]])
             /\ cmd.op \in {"clone", "rename"} /\ (Went("copy branch") \/ Went("move config"))
    <3>1. store'.heads = store.heads /\ \A b \in store.heads : Still(b)
      BY <1>a, <2>1, <2>3, StillStacks DEF NowStacks, Is, Facts
    <3>2. ~Dispensable'
      BY <2>3 DEF Went, Dispensable
    <3> QED BY <1>15, <3>1, <3>2, CopyStackDoes, Reach DEF ReachInv
  <2> QED BY <1>15, <2>2, <2>3, CopyStackDoes
<1>16. CASE CopyBranch
  <2>1. CASE Unmoved /\ Ended
    BY <1>16, <2>1, CopyBranchDoes, ReachUnmoved, EndedNeeds
  <2>2. CASE NowHeads(store.heads \cup {cmd.to})
    <3>1. store'.heads = store.heads \cup {cmd.to} /\ \A b : Still(b)
      BY <2>2, StillHeads DEF NowHeads, Is
    <3>2. ~Dispensable'
      BY <1>0, <1>16, CopyBranchDoes, EndedNeeds DEF Went, Dispensable, Flow
    <3> QED BY <1>16, <3>1, <3>2, CopyBranchDoes, Reach DEF ReachInv
  <2> QED BY <1>16, <2>1, <2>2, CopyBranchDoes
<1>17. CASE SetParent
  <2>1. Dispensable' => Dispensable /\ B' = B
    BY <1>17, SetParentDoes DEF Went, Dispensable, B
  <2>2. CASE Unmoved
    BY <1>17, <2>1, <2>2, SetParentDoes, ReachUnmoved
  <2>3. ASSUME NEW b \in Branches, NEW x \in Branches,
               NowConf([store.conf EXCEPT ![b] = [store.conf[b] EXCEPT !.parent = x]])
        PROVE  Reaches
    <3>1. [store.conf[b] EXCEPT !.parent = x].version = store.conf[b].version
      BY <1>a, ConfParts DEF Facts
    <3>2. store'.heads = store.heads /\ \A c \in Branches : Still(c)
      BY <1>a, <2>3, <3>1, StillConf DEF NowConf, Is
    <3> QED BY <1>a, <1>17, <2>1, <3>2, SetParentDoes, Reach DEF ReachInv, Facts
  <2> QED BY <1>17, <2>2, <2>3, SetParentDoes
<1>18. CASE Checkout
  <2>1. CASE Unmoved /\ Ended
    BY <1>18, <2>1, CheckoutDoes, ReachUnmoved, EndedNeeds
  <2>2. CASE cmd.op = "create" /\ NowHeads(store.heads \ {B}) /\ Went("drop new stack")
    <3>1. store'.heads = store.heads \ {B} /\ \A b : Still(b)
      BY <2>2, StillHeads DEF NowHeads, Is
    <3>2. Dispensable /\ B' = B
      BY <2>2 DEF Went, Dispensable, B
    <3> QED BY <1>18, <3>1, <3>2, CheckoutDoes, Reach DEF ReachInv
  <2> QED BY <1>18, <2>1, <2>2, CheckoutDoes
<1>19. CASE MoveConfig
  <2>1. /\ B \in Branches /\ store.stacks[B] # None
        /\ cmd.to \in Branches /\ cmd.to \notin store.heads /\ cmd.op = "rename"
    BY <1>0, <1>19, MoveConfigDoes DEF Flow, Found, NameFree, NewName, B
  <2>2. store'.stacks = store.stacks /\ B' = B /\ ~Dispensable'
    BY <1>19, <2>1, MoveConfigDoes DEF Unmoved, NowConf, Is, Went, Dispensable, B
  <2>3. CASE Unmoved
    BY <1>19, <2>2, <2>3, MoveConfigDoes, ReachUnmoved
  <2>4. ASSUME NEW c \in Confs, NowConf([store.conf EXCEPT ![cmd.to] = c, ![B] = NoConf])
        PROVE  Reaches
    <3>1. \A b \in Branches \ {B, cmd.to} : store'.conf[b] = store.conf[b]
      BY <1>a, <2>1, <2>4 DEF Facts, NowConf, Is
    <3>2. \A b \in store.heads \ {B} : Still(b)
      BY <1>a, <2>1, <2>4, <3>1, SameStill DEF Facts, NowConf, Is
    <3>3. Still(B)
      BY <2>1, <2>2, StackStill
    <3>4. store'.heads = store.heads
      BY <2>4 DEF NowConf, Is
    <3> QED BY <1>19, <2>2, <3>2, <3>3, <3>4, MoveConfigDoes, Reach DEF ReachInv
  <2> QED BY <1>19, <2>3, <2>4, MoveConfigDoes
<1>20. CASE MoveBranch
  <2>1. cmd.pc = "move branch" /\ cmd.to # B /\ cmd.op = "rename" /\ forced' = forced
    BY <1>0, <1>20, MoveBranchDoes DEF Flow, B
  <2>2. CASE Unmoved /\ Ended
    BY <2>1, <2>2, ReachUnmoved, EndedNeeds
  <2>3. CASE NowHeads((store.heads \ {B}) \cup {cmd.to}) /\ store.stacks[B] = None /\ Went("parent again")
    <3>1. Dispensable /\ ~Dispensable'
      BY <2>1, <2>3 DEF Went, Dispensable
    <3>2. store'.heads = (store.heads \ {B}) \cup {cmd.to} /\ \A b : Still(b)
      BY <2>3, StillHeads DEF NowHeads, Is
    <3> QED BY <2>1, <3>1, <3>2, Reach DEF ReachInv
  <2>4. CASE NowHeads((store.heads \ {B}) \cup {cmd.to}) /\ store.stacks[B] # None /\ Went("drop refs")
    <3>1. store.stacks[cmd.to] = store.stacks[B]
      BY <2>1, <2>4 DEF ReachInv, Tidy
    <3>2. \A x \in Patches : Has(store, B, x) => Has(store, cmd.to, x)
      BY <2>4, <3>1 DEF Has
    <3>3. In(store, (store.heads \ {B}) \cup {cmd.to}, forced)
      BY <3>2 DEF ReachInv, In
    <3>4. store'.heads = (store.heads \ {B}) \cup {cmd.to} /\ (\A b : Still(b)) /\ B' = B
      BY <2>4, StillHeads DEF NowHeads, Is, Went, B
    <3>5. (store.heads \ {B}) \cup {cmd.to} \subseteq store'.heads \ {B'}
      BY <2>1, <3>4
    <3> QED BY <2>1, <3>3, <3>4, <3>5, Carry DEF Reaches
  <2> QED BY <1>20, <2>2, <2>3, <2>4, MoveBranchDoes
<1>21. CASE ParentAgain
  <2>1. cmd.to \in Branches /\ store.conf[cmd.to] \in Confs
    BY <1>0, <1>a, <1>21, ParentAgainDoes DEF Flow, Facts
  <2>2. [store.conf[cmd.to] EXCEPT !.parent = cmd.snap.parent].version = store.conf[cmd.to].version
    BY <2>1, ConfParts
  <2>3. store'.heads = store.heads /\ \A b \in Branches : Still(b)
    BY <1>a, <1>21, <2>1, <2>2, ParentAgainDoes, StillConf DEF NowConf, Is
  <2> QED BY <1>a, <1>21, <2>3, ParentAgainDoes, EndedNeeds, Reach DEF ReachInv, Facts
<1>22. CASE Permitted
  <2>1. store.stacks[B] # None
    BY <1>0, <1>22, PermittedDoes DEF Found
  <2>2. CASE forced' = forced /\ Ended
    BY <1>22, <2>2, PermittedDoes, ReachUnmoved, EndedNeeds
  <2>3. CASE forced' = forced \cup store.stacks[B] /\ Went("drop refs")
    <3>1. \A x \in Patches \ (forced \cup store.stacks[B]) : ~Has(store, B, x)
      BY <2>1 DEF Has
    <3>2. In(store, store.heads, forced \cup store.stacks[B])
      BY DEF ReachInv, In
    <3>3. In(store, store.heads \ {B}, forced \cup store.stacks[B])
      BY <3>1, <3>2, Spare
    <3>4. store'.heads = store.heads /\ (\A b : Still(b)) /\ B' = B
      BY <1>22, <2>3, PermittedDoes, StillHeads DEF Unmoved, Is, Went, B
    <3> QED BY <2>3, <3>2, <3>3, <3>4, Carry DEF Reaches
  <2> QED BY <1>22, <2>2, <2>3, PermittedDoes
<1>23. CASE DropRefs
  <2>1. B \in Branches /\ Dispensable
    BY <1>0, <1>23, DropRefsDoes DEF Flow, Dispensable, B
  <2>2. store'.heads = store.heads /\ \A b \in Branches \ {B} : Still(b)
    BY <1>a, <1>23, <2>1, DropRefsDoes, StillRefs DEF NowRefs, Is
  <2>3. Dispensable' => B' = B
    BY <1>23, DropRefsDoes DEF Went, B
  <2> QED BY <1>a, <1>23, <2>1, <2>2, <2>3, DropRefsDoes, Reach DEF ReachInv, Facts
<1>24. CASE DropStack
  <2>1. B \in Branches /\ Dispensable
    BY <1>0, <1>24, DropStackDoes DEF Flow, Dispensable, B
  <2>2. store'.heads = store.heads /\ \A b \in Branches \ {B} : Still(b)
    BY <1>a, <1>24, <2>1, DropStackDoes, StillStacks DEF NowStacks, Is
  <2>3. Dispensable' => B' = B
    BY <1>24, DropStackDoes DEF Went, B
  <2> QED BY <1>a, <1>24, <2>1, <2>2, <2>3, DropStackDoes, Reach DEF ReachInv, Facts
<1>25. CASE DropConfig
  <2>1. B \in Branches /\ Dispensable
    BY <1>0, <1>25, DropConfigDoes DEF Flow, Dispensable, B
  <2>2. store'.heads = store.heads /\ \A b \in Branches \ {B} : Still(b)
    BY <1>a, <1>25, <2>1, DropConfigDoes, StillConf DEF NowConf, Is
  <2>3. Dispensable' => B' = B
    BY <1>25, DropConfigDoes DEF Went, B
  <2> QED BY <1>a, <1>25, <2>1, <2>2, <2>3, DropConfigDoes, Reach DEF ReachInv, Facts
<1>26. CASE Leave
  BY <1>26, LeaveDoes, ReachUnmoved, EndedNeeds DEF Went, Dispensable, B
<1>27. CASE DeleteBranch
  <2>1. Dispensable
    BY <1>27, DeleteBranchDoes DEF Dispensable
  <2>2. store'.heads = store.heads \ {B} /\ \A b : Still(b)
    BY <1>27, DeleteBranchDoes, StillHeads DEF NowHeads, Is
  <2> QED BY <1>27, <2>1, <2>2, DeleteBranchDoes, EndedNeeds, Reach DEF ReachInv
<1>28. CASE Protect
  <2>1. B \in Branches /\ store.conf[B] \in Confs
    BY <1>0, <1>a, <1>28, ProtectDoes DEF Flow, Found, Facts, B
  <2>0. [store.conf[B] EXCEPT !.protect = (cmd.pc = "protect")].version = store.conf[B].version
    BY <2>1, ConfParts
  <2>2. store'.heads = store.heads /\ \A b \in Branches : Still(b)
    BY <1>a, <1>28, <2>0, <2>1, ProtectDoes, StillConf DEF NowConf, Is
  <2>3. Dispensable' => Dispensable /\ B' = B
    BY <1>28, ProtectDoes, EndedNeeds DEF Went, Dispensable, B
  <2> QED BY <1>a, <1>28, <2>2, <2>3, ProtectDoes, Reach DEF ReachInv, Facts
<1>29. CASE Over
  BY <1>29, OverDoes, ReachUnmoved, EndedNeeds
<1>30. CASE Kill
  BY <1>30, KillDoes, ReachUnmoved, EndedNeeds
<1>32. CASE Unhandled
  <2>1. B \in Branches /\ Old(store, B, 1)
    BY <1>0, <1>32, UnhandledDoes, Versions DEF Flow, B
  <2>2. \A x \in Patches : ~Has(store, B, x)
    BY <2>1 DEF Old, Has
  <2> QED BY <1>32, <2>2, UnhandledDoes, ReachNothing DEF Went, B
<1>33. CASE EnsurePatchRefs
  <2>1. B \in Branches /\ store.stacks[B] # None
    BY <1>0, <1>33, EnsurePatchRefsDoes DEF Flow, Found, B
  <2>2. store'.heads = store.heads /\ \A b \in Branches : Still(b)
    BY <1>a, <1>33, <2>1, EnsurePatchRefsDoes, StillRefs DEF NowRefs, Is
  <2>3. Dispensable' => Dispensable /\ B' = B
    <3>1. cmd'.pc = First(cmd.op) /\ cmd'.op = cmd.op /\ cmd'.b = cmd.b
      BY <1>33, EnsurePatchRefsDoes DEF Went
    <3>2. /\ cmd.op \in Ops \ {"none"}
          /\ First(cmd.op) \in {"set parent", "copy stack", "permitted", "protect", "unprotect", "end"}
      BY <1>0, <1>33, EnsurePatchRefsDoes DEF Flow, First, Ops
    <3> QED BY <3>1, <3>2 DEF Dispensable, B
  <2> QED BY <1>a, <1>33, <2>2, <2>3, EnsurePatchRefsDoes, Reach DEF ReachInv, Facts
<1>34. CASE DropNewStack
  <2>1. B \in Branches /\ Dispensable
    BY <1>0, <1>34, DropNewStackDoes DEF Flow, Dispensable, B
  <2>2. store'.heads = store.heads /\ \A b \in Branches \ {B} : Still(b)
    BY <1>a, <1>34, <2>1, DropNewStackDoes, StillStacks DEF NowStacks, Is
  <2> QED BY <1>a, <1>34, <2>1, <2>2, DropNewStackDoes, EndedNeeds, Reach DEF ReachInv, Facts
<1>31. CASE UNCHANGED vars
  BY <1>0, <1>31, StoreKept, ReachUnmoved DEF vars, Dispensable, B
<1> QED
  BY <1>1, <1>2, <1>3, <1>4, <1>5, <1>6, <1>7, <1>8, <1>9, <1>10, <1>11, <1>12, <1>13, <1>14, <1>15, <1>16, <1>17, <1>18, <1>19, <1>20, <1>21, <1>22, <1>23, <1>24, <1>25, <1>26, <1>27, <1>28, <1>29, <1>30, <1>31, <1>32, <1>33, <1>34 DEF Next, Start, Step, Opening, Rest

\* A stack that has a patch is one from which get_format_version and the upgrades get it.
LEMMA HasFound ==
  ASSUME store \in Stores, NEW b \in Branches, NEW x, Has(store, b, x)
  PROVE  CASE Version(b) = 5 -> x \in store.stacks[b]
           [] Version(b) = 4 -> x \in store.v4[b].patches
           [] Version(b) \in {2, 3} -> x \in store.refs[b] /\ store.dir[b].patches # None /\ x \in store.dir[b].patches
           [] OTHER -> FALSE
<1>1. CASE store.stacks[b] # None
  <2>1. Version(b) = 5
    BY <1>1 DEF Version
  <2> QED BY <1>1, <2>1 DEF Has
<1>2. CASE store.stacks[b] = None /\ store.v4[b].patches # None
  <2>1. Version(b) = 4
    BY <1>2 DEF Version
  <2> QED BY <1>2, <2>1 DEF Has
<1>3. CASE store.stacks[b] = None /\ store.v4[b].patches = None
  <2>1. Version(b) = store.conf[b].version
    BY <1>3 DEF Version
  <2> QED BY <1>3, <2>1 DEF Has
<1> QED
  BY <1>1, <1>2, <1>3

\* Every patch that the user did not give up with --force is in the stack of some branch
\* that exists, in whatever format, at any point of any command at which it may be killed.
THEOREM PatchesReachable ==
  ASSUME NothingUnchecked, ReachableAtStart
  PROVE  Spec => []PatchesStayReachable
<1>1. Init => NameFree /\ ReachInv
  BY DEF Init, NoCmd, NameFree, NewName, OpenPcs, ReachInv, Dispensable, Tidy, ReachableAtStart
<1>2. StateInv /\ NameFree /\ ReachInv /\ [Next]_vars => NameFree' /\ ReachInv'
  BY NextName, NextReaches, NextTidy DEF ReachInv, Reaches
<1>3. StateInv /\ ReachInv => PatchesStayReachable
  BY HasFound, Fields DEF StateInv, Typed, ReachInv, In, PatchesStayReachable
<1> QED
  BY <1>1, <1>2, <1>3, SpecState, PTL DEF Spec
=============================================================================
