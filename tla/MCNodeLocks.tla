---------------------------- MODULE MCNodeLocks ----------------------------
(***************************************************************************)
(* Model-checking instances of NodeLocks; the goroutines are model values. *)
(***************************************************************************)
EXTENDS NodeLocks
=============================================================================
