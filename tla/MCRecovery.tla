----------------------------- MODULE MCRecovery -----------------------------
(***************************************************************************)
(* Recovery on a small instance.                                           *)
(***************************************************************************)
EXTENDS Recovery, TLC

\* Authenticators for the checker: codes repeat after three steps, so within the
\* window of three steps every code means one step.
CodeCycle(seed, step) == step % 3

Symmetric ==
  Permutations(Password) \cup Permutations(Token) \cup Permutations(ChallengeToken)
    \cup Permutations(RecoveryCode) \cup Permutations(Seed)
=============================================================================
