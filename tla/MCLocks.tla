------------------------------ MODULE MCLocks ------------------------------
(***************************************************************************)
(* Locks with two attempts, one row in a pass and two elements in a list.  *)
(***************************************************************************)
EXTENDS Locks
=============================================================================
