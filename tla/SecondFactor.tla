---------------------------- MODULE SecondFactor ----------------------------
(***************************************************************************)
(* What the second factor promises, apart from who asks: the administrator *)
(* row and its recovery codes while proofs are presented, accepted and     *)
(* refused against a moving clock.  It knows no sessions, challenges or    *)
(* cookies; Auth.tla adds the handlers and is shown to implement           *)
(* FactorSpec.                                                             *)
(*                                                                         *)
(* Seeds and recovery codes are random: a fresh one is any value that is   *)
(* not in use and was never accepted.                                      *)
(***************************************************************************)
EXTENDS Factor

CONSTANTS
  NoAdmin,                   \* the administrator table is empty
  ClockSteps,                \* how far the wall clock moves at once
  MaxTime, MaxVersion        \* bounds of the model: clock and auth_version

ASSUME SecondFactorAssumption ==
  /\ NoAdmin \notin Administrator
  /\ ClockSteps \subseteq Int
  /\ MaxTime \in Nat /\ MaxVersion \in Nat

VARIABLES
  admin,            \* the administrator row, or NoAdmin
  recovery_codes,   \* recovery_code: the hashes still valid
  now,              \* int(time.time()), read once per handler
  spent,            \* auxiliary: every proof that was ever accepted
  wrong             \* auxiliary: the refusals of the last LongWindow seconds

factorVars == <<admin, recovery_codes, now, spent, wrong>>

SpentTotp == [seed : Seed, code : Otp, match : Nat, step : Nat]

FactorTypeOK ==
  /\ admin \in Administrator \cup {NoAdmin}
  /\ recovery_codes \in SUBSET RecoveryCode
  /\ now \in Nat
  /\ spent \in [totp : SUBSET SpentTotp, recovery : SUBSET RecoveryCode]
  /\ wrong \in SUBSET Failure

FactorInit ==
  /\ admin = NoAdmin
  /\ recovery_codes = {}
  /\ now = 0
  /\ spent = [totp |-> {}, recovery |-> {}]
  /\ wrong = {}

UnspentSeeds == Seed \ {p.seed : p \in spent.totp}

\* new_recovery_codes(): a batch of codes that were never valid before.
FreshBatches ==
  {B \in SUBSET (RecoveryCode \ (recovery_codes \cup spent.recovery)) :
     Cardinality(B) = RecoveryCount}

NewAdministrator(p) ==
  [password |-> p, auth_version |-> 0, totp_seed |-> NoSeed, totp_last_step |-> -1,
   factor_failures |-> {}, totp_used_codes |-> {}]

\* Variant: revoke_auth() leaves the version alone.
RevokedSameVersion(a) == a
\* Variant: the version moves the wrong way.
RevokedBackwards(a) == [a EXCEPT !.auth_version = @ - 1]
\* revoke_auth() on the administrator row.
Revoked(a) == [a EXCEPT !.auth_version = @ + 1]

\* Variant: the watermark of the old seed is kept.
WithoutFactorKeepingStep(a) ==
  [a EXCEPT !.totp_seed = NoSeed, !.totp_used_codes = {}]
\* The row without its factor, as disable leaves it.
WithoutFactor(a) ==
  [a EXCEPT !.totp_seed = NoSeed, !.totp_last_step = -1, !.totp_used_codes = {}]

-----------------------------------------------------------------------------
(* verify_factor() within a handler. *)

WrongWithin(window) == {f \in wrong : f.at > now - window}

ProofAccepted(proof, enrolling) ==
  /\ FactorStateOK(admin, recovery_codes)
  /\ ~Throttled(admin, now)
  /\ ProofValid(admin, recovery_codes, proof, enrolling, now)
  /\ spent' =
       IF proof.method = "totp"
       THEN LET seed == FactorSeed(admin, enrolling)
            IN  [spent EXCEPT !.totp = @ \cup
                  {[seed |-> seed, code |-> proof.code, step |-> Step(now),
                    match |-> Max(Matches(seed, proof.code, now))]}]
       ELSE [spent EXCEPT !.recovery = @ \cup {proof.code}]
  /\ wrong' = wrong

\* The 401 of every handler that asks for a proof: the failure is committed
\* before the error is raised, and nothing else of the request is.
ProofRejected(proof, enrolling) ==
  /\ FactorStateOK(admin, recovery_codes)
  /\ ~Throttled(admin, now)
  /\ ~ProofValid(admin, recovery_codes, proof, enrolling, now)
  /\ admin' = Rejected(admin, now)
  /\ wrong' = WrongWithin(LongWindow) \cup {FailureAt(WrongWithin(LongWindow), now)}
  /\ UNCHANGED <<recovery_codes, spent>>

AdminAfter(proof, enrolling) == Accepted(admin, proof, enrolling, now)
CodesLeft(proof) == CodesAfter(recovery_codes, proof)

-----------------------------------------------------------------------------
(* Actions. *)

SetUp(p) ==
  /\ admin = NoAdmin
  /\ admin' = NewAdministrator(p)
  /\ UNCHANGED <<recovery_codes, now, spent, wrong>>

\* The first code of a new seed turns the factor on.
TurnOn(seed, proof) ==
  /\ admin # NoAdmin /\ admin.totp_seed = NoSeed
  /\ admin.auth_version < MaxVersion
  /\ ProofAccepted(proof, seed)
  /\ admin' = Revoked([AdminAfter(proof, seed) EXCEPT !.totp_seed = seed])
  /\ recovery_codes' \in FreshBatches
  /\ now' = now

\* An accepted proof signs in, changes the password, turns the factor off or
\* draws new recovery codes.
SignIn(proof) ==
  /\ ProofAccepted(proof, NoSeed)
  /\ admin' = AdminAfter(proof, NoSeed)
  /\ recovery_codes' = CodesLeft(proof)

NewPassword(proof, q) ==
  /\ ProofAccepted(proof, NoSeed)
  /\ admin' = Revoked([AdminAfter(proof, NoSeed) EXCEPT !.password = q])
  /\ recovery_codes' = CodesLeft(proof)

TurnOff(proof) ==
  /\ ProofAccepted(proof, NoSeed)
  /\ admin' = Revoked(WithoutFactor(AdminAfter(proof, NoSeed)))
  /\ recovery_codes' = {}

DrawCodes(proof) ==
  /\ ProofAccepted(proof, NoSeed)
  /\ admin' = Revoked(AdminAfter(proof, NoSeed))
  /\ recovery_codes' \in FreshBatches

UseProof(proof) ==
  /\ admin # NoAdmin /\ admin.totp_seed # NoSeed
  /\ \/ SignIn(proof)
     \/ /\ admin.auth_version < MaxVersion
        /\ \/ \E q \in Password : NewPassword(proof, q)
           \/ TurnOff(proof)
           \/ DrawCodes(proof)
  /\ now' = now

Refuse(proof, enrolling) ==
  /\ admin # NoAdmin
  /\ (admin.totp_seed = NoSeed) <=> (enrolling # NoSeed)
  /\ ProofRejected(proof, enrolling)
  /\ now' = now

\* Without a factor a password change needs no proof.
NewPasswordAlone(q) ==
  /\ admin # NoAdmin /\ admin.totp_seed = NoSeed
  /\ admin.auth_version < MaxVersion
  /\ admin' = Revoked([admin EXCEPT !.password = q])
  /\ UNCHANGED <<recovery_codes, now, spent, wrong>>

ClockMoves ==
  /\ now' \in {now + d : d \in ClockSteps} \cap (0 .. MaxTime)
  /\ UNCHANGED <<admin, recovery_codes, spent, wrong>>

FactorNext ==
  \/ \E p \in Password : SetUp(p)
  \/ \E seed \in UnspentSeeds, proof \in TotpProof : TurnOn(seed, proof)
  \/ \E proof \in Proof : UseProof(proof)
  \/ \E proof \in Proof \cup {NoProof} : Refuse(proof, NoSeed)
  \/ \E seed \in UnspentSeeds, proof \in TotpProof : Refuse(proof, seed)
  \/ \E q \in Password : NewPasswordAlone(q)
  \/ ClockMoves

FactorSpec == FactorInit /\ [][FactorNext]_factorVars

-----------------------------------------------------------------------------
(* Properties. *)

\* No sequence of requests leads to the state every handler answers with 503:
\* the administrator cannot be locked out by the program's own writes.
NeverLockedOut == admin # NoAdmin => FactorStateOK(admin, recovery_codes)

\* An accepted proof is dead: a recovery code for good, a TOTP code at least
\* until the last step it could be meant for is over, even when another step of
\* the seed happens to show the same six digits; and no step of a seed ever
\* proves the factor twice.
SpentProofsStayDead ==
  admin # NoAdmin =>
    /\ recovery_codes \cap spent.recovery = {}
    /\ \A p \in spent.totp :
         p.seed = admin.totp_seed /\ now < (p.step + 3) * Period
           => ~TotpValid(admin, p.seed, p.code, now)
    /\ \A p, q \in spent.totp : p.seed = q.seed /\ p.match = q.match => p = q

\* All endpoints together refuse at most ShortLimit guesses in any ShortWindow
\* seconds and LongLimit in any LongWindow seconds; a success forgives none.
GuessesBounded ==
  /\ Cardinality(WrongWithin(ShortWindow)) <= ShortLimit
  /\ Cardinality(WrongWithin(LongWindow)) <= LongLimit

\* Retry-After is exact: a client that waits that long is not turned away again,
\* and one that comes any earlier is.
RetryAfterIsExact ==
  admin # NoAdmin /\ Throttled(admin, now) =>
    LET wait == RetryAfter(admin, now)
    IN  /\ wait > 0
        /\ ~Throttled(admin, now + wait)
        /\ \A t \in now .. now + wait - 1 : Throttled(admin, t)
=============================================================================
