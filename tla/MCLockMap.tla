------------------------------ MODULE MCLockMap ------------------------------
(***************************************************************************)
(* Three users on two keys.  Two of them are requests, whose future may be *)
(* dropped; the third is a task of the server.                             *)
(***************************************************************************)
EXTENDS LockMap
=============================================================================
