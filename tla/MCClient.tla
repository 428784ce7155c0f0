----------------------------- MODULE MCClient -------------------------------
(***************************************************************************)
(* Client on a small instance: one tab with two calls at a time, which     *)
(* share its cached token.  Either may be a form; beside it the tab saves, *)
(* signs out, or reads the status.  What another tab does to the cookie,   *)
(* a form does whose answer is no longer awaited.                          *)
(***************************************************************************)
EXTENDS Client, TLC

CONSTANTS t1, c1, c2

OneTab == c1 :> t1 @@ c2 :> t1

FormsAndPage == c1 :> {"proof", "logout"} @@ c2 :> {"proof", "save", "status"}
=============================================================================
