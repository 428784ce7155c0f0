------------------------------- MODULE MCAuth -------------------------------
(***************************************************************************)
(* Auth on small instances.                                                *)
(***************************************************************************)
EXTENDS Auth, TLC

\* Authenticators for the checker: codes repeat after three steps, so within the
\* window of three steps every code below 3 means one step, and a code used two
\* steps ago comes round again while its record is still on the used list.
CodeCycle(seed, step) == step % 3

Symmetric ==
  Permutations(Password) \cup Permutations(Token) \cup Permutations(ChallengeToken)
    \cup Permutations(RecoveryCode) \cup Permutations(Seed)
=============================================================================
