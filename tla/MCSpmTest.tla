----------------------------- MODULE MCSpmTest -----------------------------
(***************************************************************************)
(* Three connections, so that two leaked ones matter; a working SPM with   *)
(* up to two refusals, and an SPM with each of the defects of Broken.      *)
(***************************************************************************)
EXTENDS SpmTest
=============================================================================
