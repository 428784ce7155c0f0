----------------------------- MODULE MCSettings -----------------------------
(***************************************************************************)
(* Settings on a small instance: one connection that is off, on, or on and *)
(* without a host, and two tests of it that compete for one slot.          *)
(***************************************************************************)
EXTENDS Settings

Off == [host |-> FALSE, complete |-> FALSE, enabled |-> FALSE, skipped |-> FALSE, target |-> 0]
On == [host |-> TRUE, complete |-> TRUE, enabled |-> TRUE, skipped |-> FALSE, target |-> 1]
NoHost == [On EXCEPT !.host = FALSE]
Skipped == [On EXCEPT !.enabled = FALSE, !.skipped = TRUE]

SomeFields == {Off, On, NoHost, Skipped}
=============================================================================
