--------------------------- MODULE MCSecondFactor ---------------------------
(***************************************************************************)
(* SecondFactor on a small instance: seconds are counted in units of half  *)
(* a TOTP step, and the windows shrink to a few of them.                   *)
(***************************************************************************)
EXTENDS SecondFactor, TLC

\* What the authenticator of the instance shows: one code means two steps of a
\* window (0 and 1), a code comes round three steps after its first use, while
\* its record is still on the used list, and again much later.
Shown == <<0, 0, 1, 2, 0, 1>>
CodesShown(seed, step) == Shown[(step % 6) + 1]

Symmetric == Permutations(RecoveryCode) \cup Permutations(Seed)
=============================================================================
