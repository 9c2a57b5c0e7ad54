------------------------------ MODULE Branches ------------------------------
(***************************************************************************)
(* `stg branch' and `stg init': which branches exist, which of them has a  *)
(* stack, and the configuration that goes with it; and the upgrade of the  *)
(* older stack formats, which happens whenever a stack is opened.          *)
(*                                                                         *)
(* Each of these commands is a row of single updates (a reference, a       *)
(* section of the configuration, a git command) that nothing ties          *)
(* together: a step here is one of them, and the process may be killed     *)
(* between any two.  One process runs at a time.  A stack is the set of    *)
(* its patches.                                                            *)
(***************************************************************************)
EXTENDS Integers, FiniteSets

CONSTANTS Branches,    \* branch names
          Patches,     \* patches, wherever they are
          NoBranch,    \* "none" for branches
          None,        \* and for stacks
          InitStores,  \* the repositories a behaviour may start from
          Doubtful,    \* inputs that are let in, a subset of AllDoubtful
          MaxCommands, \* bound: commands started
          MaxKills     \* bound: kills

\* Inputs that a command takes although it should not; the README has each of them.
AllDoubtful == {"clone existing",     \* the clone gets the name of a branch that exists
                "rename existing",    \* and so does the renamed branch
                "protected format 2"} \* the first command after an update is delete, cleanup

ASSUME BranchesAssumption ==
  /\ NoBranch \notin Branches /\ Doubtful \subseteq AllDoubtful
  /\ \A stack \in SUBSET Patches : stack # None

VARIABLES
  store,   \* the repository, see Stores
  cmd,     \* the running command
  forced,  \* history: patches that the user gave up with --force
  cmds,    \* commands started
  kills    \* and processes killed

vars == <<store, cmd, forced, cmds, kills>>

MaybeSets == (SUBSET Patches) \cup {None}

\* heads: refs/heads; stacks: refs/stacks/<b>, format 5; refs: refs/patches/<b>/;
\* v4: refs/heads/<b>.stgit, `first' if its state has no previous one; dir: the
\* directory .git/patches/<b> of formats 2 and 3; conf: the section
\* branch.<b>.stgit, version 0 if it names none, 1 for every format that is not handled;
\* current: HEAD.  The section branch.<b> with the description of the branch is left
\* out: no command of these reads it.
Stores ==
  [heads : SUBSET Branches, current : Branches,
   stacks : [Branches -> MaybeSets], refs : [Branches -> SUBSET Patches],
   v4   : [Branches -> [patches : MaybeSets, first : BOOLEAN]],
   dir  : [Branches -> [patches : MaybeSets, protected : BOOLEAN]],
   conf : [Branches -> [protect : BOOLEAN, parent : Branches \cup {NoBranch}, version : {0, 1, 2, 3}]]]

ASSUME InitStoresAssumption == InitStores \subseteq Stores

NoConf == [protect |-> FALSE, parent |-> NoBranch, version |-> 0]

\* b: the branch whose stack is opened; to: another branch; snap: the section of b in
\* config_snapshot(), which is read when the process starts and never again.
NoCmd == [op |-> "none", pc |-> "idle", b |-> NoBranch, to |-> NoBranch, force |-> FALSE,
          policy |-> "require", snap |-> NoConf]

Init ==
  /\ store \in InitStores
  /\ cmd = NoCmd /\ forced = {} /\ cmds = 0 /\ kills = 0

Idle == cmd.pc = "idle"

Goes(pc) == cmd' = [cmd EXCEPT !.pc = pc]

Ends == cmd' = NoCmd

\* Only the store changes, beside cmd.
Keeps == UNCHANGED <<forced, cmds, kills>>

\* Mutation of Version: the older format is looked for first.
VersionOldFirst(b) ==
  IF store.v4[b].patches # None THEN 4
  ELSE IF store.stacks[b] # None THEN 5
  ELSE store.conf[b].version

\* get_format_version.
Version(b) ==
  IF store.stacks[b] # None THEN 5
  ELSE IF store.v4[b].patches # None THEN 4
  ELSE store.conf[b].version
-----------------------------------------------------------------------------
(* The commands start.  A refusal changes nothing and is no step. *)

\* A process starts, and opens the stack of b first.
Opens(op, b, to, force, policy) ==
  /\ cmds < MaxCommands /\ cmds' = cmds + 1
  /\ cmd' = [NoCmd EXCEPT !.op = op, !.pc = "upgrade", !.b = b, !.to = to, !.force = force,
                          !.policy = policy, !.snap = store.conf[b]]

\* create: the new branch comes first, its stack after it.  The parent is a local
\* branch or unknown.
StartCreate ==
  /\ Idle
  /\ \E b \in Branches \ store.heads, parent \in store.heads \cup {NoBranch} :
       /\ Opens("create", b, parent, FALSE, "force")
       /\ store' = [store EXCEPT !.heads = @ \cup {b}]
  /\ UNCHANGED <<forced, kills>>

\* clone: of the current branch, which is refused if there is none (a branch that is its
\* own parent can be deleted while it is checked out).
StartClone ==
  /\ Idle /\ store.current \in store.heads
  /\ \E b \in Branches \ {store.current} :
       /\ b \in store.heads => "clone existing" \in Doubtful
       /\ Opens("clone", store.current, b, FALSE, "require")
  /\ UNCHANGED <<store, forced, kills>>

StartRename ==
  /\ Idle
  /\ \E b \in store.heads, to \in Branches :
       /\ b # to /\ (to \in store.heads => "rename existing" \in Doubtful)
       /\ Opens("rename", b, to, FALSE, "require")
  /\ UNCHANGED <<store, forced, kills>>

\* This branch gets its protection from the upgrade that precedes the check of it.
LateProtection(b) == Version(b) = 2 /\ store.dir[b].protected /\ "protected format 2" \notin Doubtful

\* The current branch is deleted only if it has a parent to switch to.
StartDelete ==
  /\ Idle
  /\ \E b \in store.heads, force \in BOOLEAN :
       /\ ~LateProtection(b)
       /\ b = store.current => store.conf[b].parent # NoBranch
       /\ Opens("delete", b, IF b = store.current THEN store.conf[b].parent ELSE NoBranch, force, "require")
  /\ UNCHANGED <<store, forced, kills>>

StartCleanup ==
  /\ Idle
  /\ \E b \in store.heads, force \in BOOLEAN :
       ~LateProtection(b) /\ Opens("cleanup", b, NoBranch, force, "require")
  /\ UNCHANGED <<store, forced, kills>>

StartProtect ==
  /\ Idle
  /\ \E b \in store.heads : Opens("protect", b, NoBranch, FALSE, "require")
  /\ UNCHANGED <<store, forced, kills>>

StartUnprotect ==
  /\ Idle
  /\ \E b \in store.heads : Opens("unprotect", b, NoBranch, FALSE, "require")
  /\ UNCHANGED <<store, forced, kills>>

StartInit ==
  /\ Idle
  /\ \E b \in store.heads : Opens("init", b, NoBranch, FALSE, "must")
  /\ UNCHANGED <<store, forced, kills>>

Switch ==
  /\ Idle
  /\ \E b \in store.heads \ {store.current} : store' = [store EXCEPT !.current = b]
  /\ UNCHANGED cmd /\ Keeps
-----------------------------------------------------------------------------
(* Stack::from_branch: stack_upgrade, then the policy, then ensure_patch_refs. *)

B == cmd.b

\* stack_upgrade_from_4 up to its new reference; a first state is refused, because
\* its `Previous: None' is taken for a missing line, and so is a stack that is there.
Upgrade4 ==
  /\ cmd.pc = "upgrade" /\ Version(B) = 4
  /\ IF store.v4[B].first \/ store.stacks[B] # None THEN Goes("failed") /\ UNCHANGED store
     ELSE store' = [store EXCEPT !.stacks[B] = store.v4[B].patches] /\ Goes("remove v4")
  /\ Keeps

NoV4 == [patches |-> None, first |-> FALSE]

RemoveV4 ==
  /\ cmd.pc = "remove v4"
  /\ store' = [store EXCEPT !.v4[B] = NoV4]
  /\ Goes("opened") /\ Keeps

\* stack_upgrade_from_2 does this first: the file `protected' becomes configuration.
Upgrade2 ==
  /\ cmd.pc = "upgrade" /\ Version(B) = 2
  /\ IF store.dir[B].protected
       THEN store' = [store EXCEPT !.conf[B].protect = TRUE] /\ Goes("remove protected")
       ELSE UNCHANGED store /\ Goes("upgrade 3")
  /\ Keeps

RemoveProtected ==
  /\ cmd.pc = "remove protected"
  /\ store' = [store EXCEPT !.dir[B].protected = FALSE]
  /\ Goes("upgrade 3") /\ Keeps

\* Mutation of Upgrade3: the directory and with it the lists go first.
Upgrade3Late ==
  /\ cmd.pc = "upgrade 3" \/ (cmd.pc = "upgrade" /\ Version(B) = 3)
  /\ store' = [store EXCEPT !.dir[B].patches = None]
  /\ Goes("remove old refs") /\ Keeps

\* stack_upgrade_from_3: the patches that are listed and have a reference.
Upgrade3 ==
  /\ cmd.pc = "upgrade 3" \/ (cmd.pc = "upgrade" /\ Version(B) = 3)
  /\ IF store.dir[B].patches = None \/ store.stacks[B] # None THEN Goes("failed") /\ UNCHANGED store
     ELSE store' = [store EXCEPT !.stacks[B] = store.dir[B].patches \cap store.refs[B]]
            /\ Goes("remove old refs")
  /\ Keeps

RemoveOldRefs ==
  /\ cmd.pc = "remove old refs"
  /\ store' = [store EXCEPT !.v4[B] = NoV4]
  /\ Goes("remove version") /\ Keeps

\* rm_stackformatversion.
RemoveVersion ==
  /\ cmd.pc = "remove version"
  /\ store' = [store EXCEPT !.conf[B].version = 0]
  /\ Goes("remove dir") /\ Keeps

RemoveDir ==
  /\ cmd.pc = "remove dir"
  /\ store' = [store EXCEPT !.dir[B] = [patches |-> None, protected |-> FALSE]]
  /\ Goes("opened") /\ Keeps

UpToDate ==
  /\ cmd.pc = "upgrade" /\ Version(B) \in {0, 5}
  /\ Goes("opened") /\ UNCHANGED store /\ Keeps

\* `not handled yet', or unknown.
Unhandled ==
  /\ cmd.pc = "upgrade" /\ Version(B) = 1
  /\ Goes("failed") /\ UNCHANGED store /\ Keeps

\* Where an opened stack leads.
First(op) ==
  CASE op = "create" -> "set parent"     [] op = "clone" -> "copy stack"
    [] op = "rename" -> "copy stack"     [] op \in {"delete", "cleanup"} -> "permitted"
    [] op \in {"protect", "unprotect"} -> op
    [] op = "init"   -> "end"            [] op = "init clone" -> "set parent"

\* The policy: "require" needs a stack, "must" needs that there is none, "force"
\* writes a new one in any case.
Opened ==
  /\ cmd.pc = "opened"
  /\ LET there == store.stacks[B] # None
         new == cmd.policy = "force" \/ (cmd.policy = "must" /\ ~there)
     IN  IF new THEN store' = [store EXCEPT !.stacks[B] = {}] /\ Goes("patch refs")
         ELSE /\ UNCHANGED store
              /\ Goes(IF cmd.policy = "require" /\ there THEN "patch refs" ELSE "failed")
  /\ Keeps

\* ensure_patch_refs.
EnsurePatchRefs ==
  /\ cmd.pc = "patch refs"
  /\ store' = [store EXCEPT !.refs[B] = store.stacks[B]]
  /\ Goes(First(cmd.op)) /\ Keeps

\* The stack cannot be opened: create removes the branch again, clone, rename and
\* delete do without a stack, the others are over.
OpenFailed ==
  /\ cmd.pc = "failed"
  /\ CASE cmd.op = "create" -> store' = [store EXCEPT !.heads = @ \ {B}] /\ Ends
       [] cmd.op = "clone"  -> UNCHANGED store /\ Goes("copy branch")
       [] cmd.op = "rename" -> UNCHANGED store /\ Goes("move branch")
       [] cmd.op = "delete" -> UNCHANGED store /\ Goes("leave")
       [] OTHER             -> UNCHANGED store /\ Ends
  /\ Keeps

Opening ==
  \/ Upgrade4 \/ RemoveV4 \/ Upgrade2 \/ RemoveProtected \/ Upgrade3 \/ RemoveOldRefs
  \/ RemoveVersion \/ RemoveDir \/ UpToDate \/ Unhandled \/ Opened \/ EnsurePatchRefs \/ OpenFailed
-----------------------------------------------------------------------------
(* The rest of the commands. *)

\* The stack reference under the new name: clone overwrites, rename does not.
CopyStack ==
  /\ cmd.pc = "copy stack"
  /\ IF cmd.op = "rename" /\ store.stacks[cmd.to] # None THEN Ends /\ UNCHANGED store
     ELSE /\ store' = [store EXCEPT !.stacks[cmd.to] = store.stacks[B]]
          /\ Goes(IF cmd.op = "clone" THEN "copy branch" ELSE "move config")
  /\ Keeps

\* clone: `git branch --copy', which fails if the branch exists; a branch without a
\* stack is given one then.
CopyBranch ==
  /\ cmd.pc = "copy branch"
  /\ IF cmd.to \in store.heads THEN Ends /\ UNCHANGED store
     ELSE /\ store' = [store EXCEPT !.heads = @ \cup {cmd.to}]
          /\ IF store.stacks[B] # None THEN Goes("set parent")
             ELSE cmd' = [cmd EXCEPT !.op = "init clone", !.pc = "upgrade", !.policy = "must",
                                     !.b = cmd.to, !.to = B]
  /\ Keeps

\* The new branch and its parent, for create and for both ways to clone.
New == IF cmd.op = "clone" THEN cmd.to ELSE B
From == IF cmd.op = "clone" THEN B ELSE cmd.to

SetParent ==
  /\ cmd.pc = "set parent"
  /\ store' = IF From = NoBranch THEN store ELSE [store EXCEPT !.conf[New].parent = From]
  /\ Goes("checkout") /\ Keeps

\* Mutation of Checkout: the branch is removed if that fails, the stack is not.
CheckoutLeaves ==
  /\ cmd.pc = "checkout"
  /\ \/ store' = [store EXCEPT !.current = New]
     \/ store' = [store EXCEPT !.heads = IF cmd.op = "create" THEN @ \ {B} ELSE @]
  /\ Ends /\ Keeps

\* `git checkout' may fail; create takes back the branch then, and its stack after it.
Checkout ==
  /\ cmd.pc = "checkout"
  /\ \/ store' = [store EXCEPT !.current = New] /\ Ends
     \/ cmd.op = "create" /\ store' = [store EXCEPT !.heads = @ \ {B}] /\ Goes("drop new stack")
     \/ cmd.op # "create" /\ UNCHANGED store /\ Ends
  /\ Keeps

DropNewStack ==
  /\ cmd.pc = "drop new stack"
  /\ store' = [store EXCEPT !.stacks[B] = None]
  /\ Ends /\ Keeps

\* Two sections of one name: of a value that both have, the one that stands last counts.
Merged(c, d) ==
  LET Values(x, y, none) == IF x = none THEN {y} ELSE IF y = none THEN {x} ELSE {x, y}
  IN  [protect : {c.protect \/ d.protect}, parent : Values(c.parent, d.parent, NoBranch),
       version : Values(c.version, d.version, 0)]

\* rename: the section is renamed, if there is one; one that has the new name stays.
MoveConfig ==
  /\ cmd.pc = "move config"
  /\ IF store.conf[B] = NoConf THEN UNCHANGED store
     ELSE \E c \in Merged(store.conf[B], store.conf[cmd.to]) :
            store' = [store EXCEPT !.conf[cmd.to] = c, !.conf[B] = NoConf]
  /\ Goes("move branch") /\ Keeps

\* `git branch --move' fails if there is such a branch, and takes HEAD along.
MoveBranch ==
  /\ cmd.pc = "move branch"
  /\ IF cmd.to \in store.heads THEN Ends /\ UNCHANGED store
     ELSE /\ store' = [store EXCEPT !.heads = (@ \ {B}) \cup {cmd.to},
                                    !.current = IF @ = B THEN cmd.to ELSE @]
          /\ Goes(IF store.stacks[B] = None THEN "parent again" ELSE "drop refs")
  /\ Keeps

\* What get_stgit_parent said at the start is set for the new name.
ParentAgain ==
  /\ cmd.pc = "parent again"
  /\ store' = [store EXCEPT !.conf[cmd.to].parent = cmd.snap.parent]
  /\ Ends /\ Keeps

\* Mutation of Permitted: --force overrides the protection as well.
PermittedByForce ==
  /\ cmd.pc = "permitted"
  /\ IF cmd.force \/ (~cmd.snap.protect /\ store.stacks[B] = {})
       THEN Goes("drop refs") /\ forced' = forced \cup store.stacks[B]
       ELSE Ends /\ UNCHANGED forced
  /\ UNCHANGED <<store, cmds, kills>>

\* delete and cleanup look at the protection, as the configuration was when the
\* process started, and want --force for a stack that has patches.
Permitted ==
  /\ cmd.pc = "permitted"
  /\ IF ~cmd.snap.protect /\ (cmd.force \/ store.stacks[B] = {})
       THEN Goes("drop refs") /\ forced' = forced \cup store.stacks[B]
       ELSE Ends /\ UNCHANGED forced
  /\ UNCHANGED <<store, cmds, kills>>

\* deinitialize: the patch references, the stack reference, the configuration.
DropRefs ==
  /\ cmd.pc = "drop refs"
  /\ store' = [store EXCEPT !.refs[B] = {}]
  /\ Goes("drop stack") /\ Keeps

DropStack ==
  /\ cmd.pc = "drop stack"
  /\ store' = [store EXCEPT !.stacks[B] = None]
  /\ Goes("drop config") /\ Keeps

DropConfig ==
  /\ cmd.pc = "drop config"
  /\ store' = [store EXCEPT !.conf[B] = NoConf]
  /\ Goes(CASE cmd.op = "rename" -> "parent again" [] cmd.op = "delete" -> "leave" [] OTHER -> "end")
  /\ Keeps

\* delete: switch to the parent, which may fail, then remove the branch.
Leave ==
  /\ cmd.pc = "leave"
  /\ IF cmd.to = NoBranch THEN Goes("delete branch") /\ UNCHANGED store
     ELSE \/ cmd.to \in store.heads /\ store' = [store EXCEPT !.current = cmd.to] /\ Goes("delete branch")
          \/ Ends /\ UNCHANGED store
  /\ Keeps

DeleteBranch ==
  /\ cmd.pc = "delete branch"
  /\ store' = [store EXCEPT !.heads = @ \ {B}]
  /\ Ends /\ Keeps

\* set_protected.
Protect ==
  /\ cmd.pc \in {"protect", "unprotect"}
  /\ store' = [store EXCEPT !.conf[B].protect = (cmd.pc = "protect")]
  /\ Ends /\ Keeps

Over == cmd.pc = "end" /\ Ends /\ UNCHANGED store /\ Keeps

Kill ==
  /\ ~Idle /\ kills < MaxKills /\ kills' = kills + 1
  /\ Ends /\ UNCHANGED <<store, forced, cmds>>
-----------------------------------------------------------------------------
Start ==
  \/ StartCreate \/ StartClone \/ StartRename \/ StartDelete \/ StartCleanup
  \/ StartProtect \/ StartUnprotect \/ StartInit \/ Switch

Step ==
  \/ Opening \/ CopyStack \/ CopyBranch \/ SetParent \/ Checkout \/ DropNewStack \/ MoveConfig
  \/ MoveBranch \/ ParentAgain \/ Permitted \/ DropRefs \/ DropStack \/ DropConfig \/ Leave
  \/ DeleteBranch \/ Protect \/ Over

\* No command runs, and none needs to.
Rest == Idle /\ UNCHANGED vars

Next == Start \/ Step \/ Kill \/ Rest

\* A process that runs goes on until it ends or is killed; no user is assumed to
\* start one.
Spec == Init /\ [][Next]_vars /\ WF_vars(Step)
-----------------------------------------------------------------------------
(* Properties. *)

\* No patch gets lost unless the user said --force: there is a branch in whose stack
\* it is, in the format of today or in an old one from which it is upgraded.
PatchesStayReachable ==
  \A p \in Patches \ forced : \E b \in store.heads :
    CASE Version(b) = 5 -> p \in store.stacks[b]
      [] Version(b) = 4 -> p \in store.v4[b].patches
      [] Version(b) \in {2, 3} -> p \in store.refs[b] /\ store.dir[b].patches # None /\ p \in store.dir[b].patches
      [] OTHER -> FALSE

Protected(b) == b \in store.heads /\ store.stacks[b] # None /\ store.conf[b].protect

\* "Prevent StGit from modifying a branch" (stg branch --protect): a protected
\* branch keeps its stack and its protection until it is renamed or unprotected.
\* (What create finds of a branch whose renaming was killed is nobody's.)
ProtectedStacksStay ==
  [][\A b \in Branches : Protected(b) /\ ~(cmd.op \in {"rename", "create"} /\ cmd.b = b) =>
       /\ store'.stacks[b] = store.stacks[b] /\ b \in store'.heads
       /\ store'.conf[b].protect \/ (cmd.op = "unprotect" /\ cmd.b = b)]_vars

\* Unless a process was killed, every stack belongs to a branch once the command is
\* over.  (rename refuses the name of one that does not, create overwrites it.)
NoOrphanStacks ==
  Idle /\ kills = 0 => \A b \in Branches : store.stacks[b] # None => b \in store.heads

\* An upgrade may have been killed at any point: whoever opens the branch next and is
\* not killed finds its stack, brought to the format of today.  (Not so a format that
\* is not handled.)
UpgradeConverges ==
  \A b \in Branches, k \in 0..MaxKills :
    cmd.pc = "upgrade" /\ cmd.b = b /\ Version(b) # 1 /\ kills = k ~>
      Version(b) \in {0, 5} \/ kills > k
=============================================================================
