------------------------------ MODULE MCEditor ------------------------------
(* Small instances of Editor for TLC. *)
EXTENDS Editor
=============================================================================
