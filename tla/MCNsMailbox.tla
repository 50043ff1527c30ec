---------------------------- MODULE MCNsMailbox ----------------------------
(***************************************************************************)
(* Both builds, with more tasks than slots, so that the semaphore has      *)
(* waiters and the message queue is full, several replies per interrupt,   *)
(* and enough calls for every slot to be reused.                           *)
(***************************************************************************)
EXTENDS NsMailboxClients
=============================================================================
