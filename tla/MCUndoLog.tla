------------------------------ MODULE MCUndoLog ------------------------------
(* Small instances of UndoLog. *)
EXTENDS UndoLog

OneToTwo == 1..2
=============================================================================
