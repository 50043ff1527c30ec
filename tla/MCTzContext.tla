---------------------------- MODULE MCTzContext ----------------------------
(***************************************************************************)
(* Three threads over a table of two entries and five thread IDs: the      *)
(* table and the IDs both run out, and slots and control blocks are reused. *)
(***************************************************************************)
EXTENDS TzContext

MCThreadName == {"Thread_A", "seq_task", "test_thread"}
=============================================================================
