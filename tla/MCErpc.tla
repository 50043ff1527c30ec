------------------------------- MODULE MCErpc -------------------------------
(***************************************************************************)
(* Two vectors at most, out of up to three of each direction, so that the  *)
(* limit is exceeded by one direction alone and by both together; the two  *)
(* long vectors do not fit the buffer; a failure at every point.           *)
(***************************************************************************)
EXTENDS Erpc
=============================================================================
