----------------------------- MODULE MCBranches -----------------------------
(* Small instances of Branches. *)
EXTENDS Branches

CONSTANTS main, topic, other,  \* branches
          p, q                 \* patches

\* main and topic exist; p is in the stack of main, q in the one of topic.
Plain ==
  [heads |-> {main, topic}, current |-> main,
   stacks |-> [b \in Branches |-> CASE b = main -> {p} [] b = topic -> {q} [] OTHER -> None],
   refs |-> [b \in Branches |-> CASE b = main -> {p} [] b = topic -> {q} [] OTHER -> {}],
   v4 |-> [b \in Branches |-> NoV4],
   dir |-> [b \in Branches |-> [patches |-> None, protected |-> FALSE]],
   conf |-> [b \in Branches |-> NoConf]]

\* topic is protected and has main for its parent.
Guarded == [Plain EXCEPT !.conf[topic] = [NoConf EXCEPT !.protect = TRUE, !.parent = main]]

\* The stack of topic is of an older format, or there is none.
Format4 == [Plain EXCEPT !.stacks[topic] = None, !.refs[topic] = {q},
                         !.v4[topic] = [patches |-> {q}, first |-> FALSE]]

Format3 == [Plain EXCEPT !.stacks[topic] = None, !.conf[topic].version = 3,
                         !.dir[topic] = [patches |-> {q}, protected |-> FALSE]]

Format2 == [Plain EXCEPT !.stacks[topic] = None, !.conf[topic].version = 2,
                         !.dir[topic] = [patches |-> {q}, protected |-> TRUE]]

\* other is a branch with a stack of a format that is not handled.
Format1 == [Plain EXCEPT !.heads = {main, topic, other}, !.conf[other].version = 1]

MCInitStores == {Guarded, Format4, Format3, Format2, Format1}
JustGuarded  == {Guarded}

NothingDoubtful == {}
CloneExisting   == {"clone existing"}
=============================================================================
