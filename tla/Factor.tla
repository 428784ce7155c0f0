------------------------------- MODULE Factor -------------------------------
(***************************************************************************)
(* The second-factor rules of backend/matescope/twofactor.py, as operators *)
(* over the administrator row.  Every caller holds the SQLite writer lock  *)
(* (Storage.transaction), so each rule is evaluated on one row at one      *)
(* instant; Auth.tla turns them into steps.                                *)
(*                                                                         *)
(* A one-time code is a member of Otp and CodeAt(seed, step) is the code   *)
(* an authenticator holding seed shows during a step: a six-digit value,   *)
(* so two steps of one seed may show the same code.  The row stores        *)
(* totp_enabled_at beside totp_seed; both are always written together, so  *)
(* totp_seed alone stands for the pair.                                    *)
(***************************************************************************)
EXTENDS Integers, FiniteSetsExt

CONSTANTS
  Password,         \* administrator passwords
  Seed, NoSeed,     \* TOTP secrets; totp_seed IS NULL
  Otp,              \* six-digit codes a request can carry
  CodeAt(_, _),     \* CodeAt(seed, step): the code shown by an authenticator
  RecoveryCode,     \* recovery-code hashes, issued or made up
  Period,           \* seconds of a TOTP step (30)
  ShortWindow, ShortLimit,   \* 5 failures in 60 seconds
  LongWindow, LongLimit,     \* 20 failures in 900 seconds
  MaxUsed,          \* codes the used list may hold (6)
  RecoveryCount     \* recovery codes per batch (10)

ASSUME FactorAssumption ==
  /\ NoSeed \notin Seed
  /\ Period \in Nat \ {0}
  /\ ShortWindow \in Nat \ {0} /\ ShortLimit \in Nat \ {0}
  /\ LongWindow \in Nat /\ ShortWindow <= LongWindow
  /\ LongLimit \in Nat \ {0}
  /\ MaxUsed \in Nat /\ MaxUsed >= 5
  /\ RecoveryCount \in Nat \ {0}
  /\ IsFiniteSet(RecoveryCode)

\* factor_failures is a list of seconds; n tells apart the failures of one second.
Failure == [at : Nat, n : Nat]

\* totp_used_codes: the HMAC of seed and code, and the second it may be forgotten.
UsedCode == [seed : Seed, code : Otp, expires : Nat]

Administrator ==
  [password : Password, auth_version : Nat, totp_seed : Seed \cup {NoSeed},
   totp_last_step : Nat \cup {-1}, factor_failures : SUBSET Failure,
   totp_used_codes : SUBSET UsedCode]

TotpProof == [method : {"totp"}, code : Otp]
RecoveryProof == [method : {"recovery_code"}, code : RecoveryCode]
NoProof == [method |-> "none"]
Proof == TotpProof \cup RecoveryProof

(***************************************************************************)
(* state(): the row and its recovery codes are consistent; every handler   *)
(* answers 503 otherwise.                                                  *)
(***************************************************************************)
FactorStateOK(a, codes) ==
  /\ a.auth_version >= 0
  /\ a.totp_last_step >= -1
  /\ a.totp_seed # NoSeed => a.totp_last_step >= 0
  /\ a.totp_seed = NoSeed => /\ a.totp_last_step = -1
                             /\ codes = {}
                             /\ a.totp_used_codes = {}
  /\ Cardinality(a.factor_failures) <= LongLimit
  /\ Cardinality(a.totp_used_codes) <= MaxUsed
  /\ \A r, s \in a.totp_used_codes :
        r.seed = s.seed /\ r.code = s.code => r = s
  /\ Cardinality(codes) <= RecoveryCount

-----------------------------------------------------------------------------
(* verify_factor(): the two rolling windows. *)

KeptFailures(a, t) == {f \in a.factor_failures : f.at > t - LongWindow}

RecentFailures(a, t) == {f \in KeptFailures(a, t) : f.at > t - ShortWindow}

Earliest(F) == Min({f.at : f \in F})

ShortWait(a, t) ==
  IF Cardinality(RecentFailures(a, t)) >= ShortLimit
  THEN {Earliest(RecentFailures(a, t)) + ShortWindow - t} ELSE {}

LongWait(a, t) ==
  IF Cardinality(KeptFailures(a, t)) >= LongLimit
  THEN {Earliest(KeptFailures(a, t)) + LongWindow - t} ELSE {}

Waits(a, t) == ShortWait(a, t) \cup LongWait(a, t)

\* 429: nothing is recorded and the proof is not looked at.
Throttled(a, t) == Waits(a, t) # {}

\* Variant: the header announces the shorter of the two waits.
RetryAfterShortest(a, t) == Min(Waits(a, t))
\* The Retry-After header of that answer.
RetryAfter(a, t) == Max(Waits(a, t))

-----------------------------------------------------------------------------
(* verify_factor(): one-time codes. *)

Step(t) == t \div Period

\* The steps whose code the supplied one equals: the current one and its neighbours.
Matches(seed, code, t) ==
  {s \in (Step(t) - 1) .. (Step(t) + 1) : s >= 0 /\ CodeAt(seed, s) = code}

ActiveUsed(a, t) == {r \in a.totp_used_codes : r.expires > t}

\* Variant: the list of used codes is not consulted.
TotpValidStepOnly(a, seed, code, t) ==
  /\ Matches(seed, code, t) # {}
  /\ Max(Matches(seed, code, t)) > a.totp_last_step
TotpValid(a, seed, code, t) ==
  /\ Matches(seed, code, t) # {}
  /\ Max(Matches(seed, code, t)) > a.totp_last_step
  /\ \A r \in ActiveUsed(a, t) : r.seed # seed \/ r.code # code

\* A recovery code counts only for a factor in force, never while enrolling.
RecoveryValid(a, codes, code, enrolling) ==
  /\ enrolling = NoSeed
  /\ a.totp_seed # NoSeed
  /\ code \in codes

FactorSeed(a, enrolling) == IF enrolling # NoSeed THEN enrolling ELSE a.totp_seed

ProofValid(a, codes, proof, enrolling, t) ==
  \/ /\ proof.method = "recovery_code"
     /\ RecoveryValid(a, codes, proof.code, enrolling)
  \/ /\ proof.method = "totp"
     /\ FactorSeed(a, enrolling) # NoSeed
     /\ TotpValid(a, FactorSeed(a, enrolling), proof.code, t)

-----------------------------------------------------------------------------
(* verify_factor(): what it writes. *)

\* One more failure at t, told apart from those of the same second in F.
FailureAt(F, t) == [at |-> t, n |-> Cardinality({f \in F : f.at = t})]

\* A wrong proof is appended to the failures still in the long window.
Rejected(a, t) ==
  [a EXCEPT !.factor_failures =
     KeptFailures(a, t) \cup {FailureAt(KeptFailures(a, t), t)}]

\* Variant: a right proof forgives the wrong ones before it.
FailuresForgiven(a, t) == {}
\* A right proof drops only the failures that have left the long window.
FailuresAfterSuccess(a, t) == KeptFailures(a, t)

\* A TOTP code also moves the watermark past every step it could have meant and
\* joins the used list.
Accepted(a, proof, enrolling, t) ==
  LET seed == FactorSeed(a, enrolling)
  IN  IF proof.method = "totp"
      THEN [a EXCEPT
              !.factor_failures = FailuresAfterSuccess(a, t),
              !.totp_last_step = Max(Matches(seed, proof.code, t)),
              !.totp_used_codes =
                 ActiveUsed(a, t)
                   \cup {[seed |-> seed, code |-> proof.code,
                          expires |-> (Step(t) + 3) * Period]}]
      ELSE [a EXCEPT !.factor_failures = FailuresAfterSuccess(a, t)]

\* The recovery code that proved the factor is deleted with it.
CodesAfter(codes, proof) ==
  IF proof.method = "recovery_code" THEN codes \ {proof.code} ELSE codes
=============================================================================
