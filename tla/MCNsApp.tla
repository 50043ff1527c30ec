------------------------------ MODULE MCNsApp ------------------------------
(***************************************************************************)
(* All the builds.  Five addresses for control blocks, one more than there *)
(* are library spaces, and four tasks, as many as it takes for task        *)
(* threads that linger to use up os_mem in the build with a mailbox        *)
(* thread.                                                                 *)
(***************************************************************************)
EXTENDS NsApp
=============================================================================
