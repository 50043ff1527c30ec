-------------------------- MODULE MCTestFramework --------------------------
(***************************************************************************)
(* Two suites of up to two tests: a suite and a test before and after.     *)
(***************************************************************************)
EXTENDS TestFramework
=============================================================================
