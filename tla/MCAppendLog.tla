---------------------------- MODULE MCAppendLog ----------------------------
(* One file through up to three deaths of its process.                       *)
EXTENDS AppendLog
=============================================================================
