---------------------------- MODULE MCLoginOrder ----------------------------
(***************************************************************************)
(* LoginOrder on a small instance with two session lifetimes.              *)
(***************************************************************************)
EXTENDS LoginOrder

\* Authenticators for the checker: codes repeat after three steps.
CodeCycle(seed, step) == step % 3
=============================================================================
