------------------------------ MODULE MCHistory -----------------------------
(***************************************************************************)
(* History on a small instance: two cars, the lower of which has no        *)
(* history, and a trip of the other.                                       *)
(***************************************************************************)
EXTENDS History, TLC

CONSTANTS v1, v2, r1

Owners == r1 :> v2
Kinds == r1 :> "trips"
\* A bare list, a bare record, a record in all of the history of a car that is not
\* its owner, and a car that does not exist.
Addresses ==
  {Bare("trips", None), Bare("trips", r1),
   [Bare("trips", r1) EXCEPT !.vehicle = v1, !.preset = AllHistory],
   [Bare("trips", None) EXCEPT !.vehicle = Unknown]}
=============================================================================
