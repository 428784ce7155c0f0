------------------------------ MODULE MCPages -------------------------------
(***************************************************************************)
(* Pages on a small instance: three cookies and two calls at a time for    *)
(* the account; two contents, two versions, two tests and two calls at a   *)
(* time for the connection.                                                *)
(***************************************************************************)
EXTENDS Pages, TLC

Contents == Permutations(Value)
=============================================================================
