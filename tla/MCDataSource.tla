---------------------------- MODULE MCDataSource ----------------------------
(***************************************************************************)
(* DataSource on a small instance: the connection to TeslaMate off, or on  *)
(* with one of two hosts, and requests that overlap with the saves.        *)
(***************************************************************************)
EXTENDS DataSource

Off == [host |-> FALSE, complete |-> FALSE, enabled |-> FALSE, skipped |-> FALSE, target |-> 0]
On(t) == [host |-> TRUE, complete |-> TRUE, enabled |-> TRUE, skipped |-> FALSE, target |-> t]

SomeFields == {Off, On(1)}
=============================================================================
