----------------------------- MODULE MCIrqTest -----------------------------
(***************************************************************************)
(* The limit of the code, ten interrupts, in every interleaving.           *)
(***************************************************************************)
EXTENDS IrqTest
=============================================================================
