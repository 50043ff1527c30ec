-------------------------- MODULE MCMultiCoreTest --------------------------
(***************************************************************************)
(* The whole suite with up to two children on two slots, one round a test. *)
(***************************************************************************)
EXTENDS MultiCoreTest

MCTask == 0 .. 4
=============================================================================
