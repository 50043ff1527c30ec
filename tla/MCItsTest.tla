----------------------------- MODULE MCItsTest -----------------------------
(***************************************************************************)
(* Two boots: one that is interrupted anywhere (or finishes), one that     *)
(* finds what the first has left.                                          *)
(***************************************************************************)
EXTENDS ItsTest
=============================================================================
