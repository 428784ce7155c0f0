------------------------------- MODULE Pages --------------------------------
(***************************************************************************)
(* The forms of the settings page beside each other: those of the account  *)
(* and one connection's.  They share the page but no state, so that every  *)
(* behaviour of one is explored with the other at rest.                    *)
(***************************************************************************)
EXTENDS Account, ConnectionForm

VARIABLE focus     \* the forms that are in use

\* The forms at rest are in one of their initial states.
PagesInit ==
  /\ AccountInit /\ ConnectionInit
  /\ \/ focus = "account" /\ ~Persisted.skipped
     \/ focus = "connection" /\ route = "settings" /\ ~server.factor

PagesNext ==
  \/ focus = "account" /\ AccountNext /\ UNCHANGED <<focus, connectionVars>>
  \/ focus = "connection" /\ ConnectionNext /\ UNCHANGED <<focus, accountVars>>

PagesSpec == PagesInit /\ [][PagesNext]_<<focus, accountVars, connectionVars>>

\* The states that the forms and the server can be in, and what each says of another.
PagesTypeOK == AccountTypeOK /\ ConnectionTypeOK
=============================================================================
