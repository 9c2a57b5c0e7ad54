----------------------------- MODULE MCStateLog -----------------------------
(* StateLog with its symmetry: all its properties are safety properties.   *)
EXTENDS StateLog

LOCAL INSTANCE TLC

ProcsAndNames == Permutations(Procs) \cup Permutations(Names)
=============================================================================
