------------------------- MODULE SecondFactorProofs -------------------------
(***************************************************************************)
(* Proofs about SecondFactor, for every value of its constants.            *)
(***************************************************************************)
EXTENDS SecondFactor, FiniteSetTheorems, WellFoundedInduction, TLAPS

-----------------------------------------------------------------------------
(* The row invariant. *)

\* A record of the used list was written when its code matched the step match
\* of the seed in force, within one step of the step that dates its expiry.
UsedRecordFits(a, r) ==
  /\ r.seed = a.totp_seed
  /\ \E step \in Nat, match \in Nat :
       /\ r.expires = (step + 3) * Period
       /\ match >= step - 1
       /\ match <= a.totp_last_step
       /\ CodeAt(r.seed, match) = r.code

\* What every reachable administrator row satisfies.
RowOK(a) ==
  /\ a \in Administrator
  /\ IsFiniteSet(a.factor_failures)
  /\ Cardinality(a.factor_failures) <= LongLimit
  /\ IsFiniteSet(a.totp_used_codes)
  /\ Cardinality(a.totp_used_codes) <= 5
  /\ \A r, s \in a.totp_used_codes :
        r.seed = s.seed /\ r.code = s.code => r = s
  /\ \A r \in a.totp_used_codes : UsedRecordFits(a, r)
  /\ a.totp_seed # NoSeed => a.totp_last_step >= 0
  /\ a.totp_seed = NoSeed => a.totp_last_step = -1 /\ a.totp_used_codes = {}

-----------------------------------------------------------------------------
(* Lemmas on the operators of Factor. *)

\* A step starts at a natural number and the clock is within it.
LEMMA StepOf ==
  ASSUME NEW t \in Nat
  PROVE  /\ Step(t) \in Nat
         /\ Step(t) * Period <= t
         /\ t < (Step(t) + 1) * Period
  BY FactorAssumption DEF Step

\* Steps do not run backwards when the clock does not.
LEMMA StepsAdvance ==
  ASSUME NEW t \in Nat, NEW u \in Nat, t <= u
  PROVE  Step(t) <= Step(u)
<1>1. /\ Step(t) \in Nat /\ Step(t) * Period <= t
      /\ Step(u) \in Nat /\ u < (Step(u) + 1) * Period
  BY StepOf
<1>2. Period \in Nat /\ Period > 0
  BY FactorAssumption
<1>3. ASSUME Step(u) + 1 <= Step(t) PROVE FALSE
  <2>1. (Step(u) + 1) * Period <= Step(t) * Period
    BY <1>1, <1>2, <1>3
  <2>2. (Step(u) + 1) * Period \in Int /\ Step(t) * Period \in Int
    BY <1>1, <1>2
  <2> QED BY <1>1, <2>1, <2>2
<1> QED BY <1>1, <1>3

\* A record that has not expired was written at most three steps ago.
LEMMA UnexpiredStep ==
  ASSUME NEW t \in Nat, NEW s \in Int, s * Period > t
  PROVE  s > Step(t)
<1>1. Step(t) \in Nat /\ Step(t) * Period <= t
  BY StepOf
<1>2. Period \in Nat /\ Period > 0
  BY FactorAssumption
<1>3. ASSUME s <= Step(t) PROVE FALSE
  <2>1. s * Period <= Step(t) * Period
    BY <1>1, <1>2, <1>3
  <2> QED BY <1>1, <1>2, <2>1
<1> QED BY <1>1, <1>3

\* The latest step a code matches is one of the steps it matches.
LEMMA LatestMatch ==
  ASSUME NEW t \in Nat, NEW seed, NEW code, Matches(seed, code, t) # {}
  PROVE  /\ Max(Matches(seed, code, t)) \in Matches(seed, code, t)
         /\ Max(Matches(seed, code, t)) \in Nat
         /\ Max(Matches(seed, code, t)) >= Step(t) - 1
         /\ Max(Matches(seed, code, t)) <= Step(t) + 1
         /\ CodeAt(seed, Max(Matches(seed, code, t))) = code
<1> DEFINE M == Matches(seed, code, t)
<1>1. Step(t) \in Nat
  BY StepOf
<1>2. /\ M \subseteq {Step(t) - 1, Step(t), Step(t) + 1}
      /\ M \subseteq Int
      /\ \A m \in M : m >= 0 /\ CodeAt(seed, m) = code
  BY <1>1 DEF Matches
<1>3. \E m \in M : \A n \in M : m >= n
  <2>1. CASE Step(t) + 1 \in M
    BY <1>1, <1>2, <2>1
  <2>2. CASE Step(t) + 1 \notin M /\ Step(t) \in M
    BY <1>1, <1>2, <2>2
  <2>3. CASE Step(t) + 1 \notin M /\ Step(t) \notin M
    BY <1>1, <1>2, <2>3
  <2> QED BY <2>1, <2>2, <2>3
<1>4. Max(M) \in M
  BY <1>3 DEF Max
<1> QED BY <1>1, <1>2, <1>4

\* Pruning and filtering only shrink the finite sets of the row.
LEMMA FilteredRow ==
  ASSUME NEW a, RowOK(a), NEW t \in Nat
  PROVE  /\ IsFiniteSet(KeptFailures(a, t))
         /\ KeptFailures(a, t) \subseteq a.factor_failures
         /\ Cardinality(KeptFailures(a, t)) \in Nat
         /\ Cardinality(KeptFailures(a, t)) <= Cardinality(a.factor_failures)
         /\ IsFiniteSet(RecentFailures(a, t))
         /\ Cardinality(RecentFailures(a, t)) \in Nat
         /\ IsFiniteSet(ActiveUsed(a, t))
<1>1. KeptFailures(a, t) \in SUBSET a.factor_failures
  BY DEF KeptFailures
<1>2. RecentFailures(a, t) \in SUBSET KeptFailures(a, t)
  BY DEF RecentFailures
<1>3. ActiveUsed(a, t) \in SUBSET a.totp_used_codes
  BY DEF ActiveUsed
<1>4. IsFiniteSet(a.factor_failures) /\ IsFiniteSet(a.totp_used_codes)
  BY DEF RowOK
<1>5. IsFiniteSet(KeptFailures(a, t))
      /\ Cardinality(KeptFailures(a, t)) <= Cardinality(a.factor_failures)
  BY <1>1, <1>4, FS_Subset
<1>6. IsFiniteSet(RecentFailures(a, t)) /\ IsFiniteSet(ActiveUsed(a, t))
  BY <1>2, <1>3, <1>4, <1>5, FS_Subset
<1> QED BY <1>1, <1>5, <1>6, FS_CardinalityType

\* A row that is not throttled has room in both windows.
LEMMA RoomForFailure ==
  ASSUME NEW a, RowOK(a), NEW t \in Nat, ~Throttled(a, t)
  PROVE  /\ Cardinality(KeptFailures(a, t)) < LongLimit
         /\ Cardinality(RecentFailures(a, t)) < ShortLimit
<1>1. LongWait(a, t) = {} /\ ShortWait(a, t) = {}
  BY DEF Throttled, Waits
<1>2. ~(Cardinality(KeptFailures(a, t)) >= LongLimit)
  BY <1>1 DEF LongWait
<1>3. ~(Cardinality(RecentFailures(a, t)) >= ShortLimit)
  BY <1>1 DEF ShortWait
<1> QED BY <1>2, <1>3, FilteredRow, FactorAssumption

\* The failure appended to a finite list is well-formed.
LEMMA NewFailure ==
  ASSUME NEW F, IsFiniteSet(F), NEW t \in Nat
  PROVE  FailureAt(F, t) \in Failure
<1>1. {f \in F : f.at = t} \in SUBSET F
  OBVIOUS
<1>2. Cardinality({f \in F : f.at = t}) \in Nat
  BY <1>1, FS_Subset, FS_CardinalityType
<1> QED BY <1>2 DEF FailureAt, Failure

\* Refusing a proof keeps the row well-formed: the list it appends to had room.
LEMMA RejectedRow ==
  ASSUME NEW a, RowOK(a), NEW t \in Nat, ~Throttled(a, t)
  PROVE  RowOK(Rejected(a, t))
<1> DEFINE F == KeptFailures(a, t) \cup {FailureAt(KeptFailures(a, t), t)}
           b == Rejected(a, t)
<1>3. FailureAt(KeptFailures(a, t), t) \in Failure
  BY FilteredRow, NewFailure
<1>4. a \in Administrator
  BY DEF RowOK
<1>5. F \in SUBSET Failure
  BY <1>3, <1>4, FilteredRow DEF Administrator
<1>6. IsFiniteSet(F) /\ Cardinality(F) <= Cardinality(KeptFailures(a, t)) + 1
  <2> DEFINE K == KeptFailures(a, t)
             x == FailureAt(K, t)
  <2>1. IsFiniteSet(K) /\ Cardinality(K) \in Nat
    BY FilteredRow
  <2> HIDE DEF K, x
  <2>2. IsFiniteSet(K \cup {x})
        /\ (Cardinality(K \cup {x}) = Cardinality(K)
            \/ Cardinality(K \cup {x}) = Cardinality(K) + 1)
    BY <2>1, FS_AddElement
  <2>3. IsFiniteSet(K \cup {x}) /\ Cardinality(K \cup {x}) <= Cardinality(K) + 1
    BY <2>1, <2>2
  <2> QED BY <2>3 DEF K, x
<1>7. Cardinality(F) <= LongLimit
  <2>1. Cardinality(F) \in Nat
    BY <1>6, FS_CardinalityType
  <2>2. Cardinality(KeptFailures(a, t)) \in Nat
    BY FilteredRow
  <2>3. Cardinality(KeptFailures(a, t)) < LongLimit
    BY RoomForFailure
  <2> HIDE DEF F
  <2> QED BY <1>6, <2>1, <2>2, <2>3, FactorAssumption
<1>8. b = [a EXCEPT !.factor_failures = F]
  BY DEF Rejected
<1>9. /\ b \in Administrator
      /\ b.factor_failures = F
      /\ b.totp_used_codes = a.totp_used_codes
      /\ b.totp_seed = a.totp_seed
      /\ b.totp_last_step = a.totp_last_step
  BY <1>4, <1>5, <1>8 DEF Administrator
<1>10. \A r \in b.totp_used_codes : UsedRecordFits(b, r)
  BY <1>9 DEF RowOK, UsedRecordFits
<1> QED BY <1>6, <1>7, <1>9, <1>10 DEF RowOK

\* When a code beyond the watermark is shown, at most four records are still
\* active: each stands for another step among the last four.
LEMMA FewActiveRecords ==
  ASSUME NEW a, RowOK(a), NEW t \in Nat, a.totp_last_step <= Step(t)
  PROVE  IsFiniteSet(ActiveUsed(a, t)) /\ Cardinality(ActiveUsed(a, t)) <= 4
<1> DEFINE U == ActiveUsed(a, t)
           W == (Step(t) - 3) .. Step(t)
           Means(r, m) == m \in W /\ CodeAt(r.seed, m) = r.code
           f == [r \in U |-> CHOOSE m : Means(r, m)]
<1>1. Step(t) \in Nat
  BY StepOf
<1>2. /\ a.totp_last_step \in Int
      /\ \A r \in U : r \in a.totp_used_codes /\ r.expires > t
  BY DEF RowOK, Administrator, ActiveUsed
<1>3. ASSUME NEW r \in U PROVE \E m : Means(r, m)
  <2>1. PICK step \in Nat, match \in Nat :
          /\ r.expires = (step + 3) * Period
          /\ match >= step - 1
          /\ match <= a.totp_last_step
          /\ CodeAt(r.seed, match) = r.code
    BY <1>2 DEF RowOK, UsedRecordFits
  <2>2. step + 3 > Step(t)
    BY <1>2, <2>1, UnexpiredStep
  <2>3. match \in W
    BY <1>1, <1>2, <2>1, <2>2
  <2> QED BY <2>1, <2>3
<1>4. \A r \in U : f[r] \in W /\ CodeAt(r.seed, f[r]) = r.code
  BY <1>3
<1>5. \A r, s \in U : r.seed = a.totp_seed /\ s.seed = a.totp_seed
  BY <1>2 DEF RowOK, UsedRecordFits
<1>6. \A r, s \in U : f[r] = f[s] => r.seed = s.seed /\ r.code = s.code
  BY <1>4, <1>5
<1>7. \A r, s \in U : f[r] = f[s] => r = s
  BY <1>2, <1>6 DEF RowOK
<1>8. f \in Injection(U, W)
  <2>1. f \in [U -> W] /\ DOMAIN f = U
    BY <1>4
  <2> HIDE DEF f, U, W
  <2> QED BY <1>7, <2>1 DEF Injection, IsInjective
<1>9. IsFiniteSet(W) /\ Cardinality(W) = 4
  <2>1. \A x, y \in Int :
          IsFiniteSet(x .. y)
          /\ Cardinality(x .. y) = IF x > y THEN 0 ELSE y - x + 1
    BY FS_Interval
  <2>2. PICK x, y \in Int : x = Step(t) - 3 /\ y = Step(t)
    BY <1>1
  <2>3. W = x .. y /\ ~(x > y) /\ y - x + 1 = 4
    BY <1>1, <2>2
  <2> HIDE DEF W
  <2> QED BY <2>1, <2>2, <2>3
<1> HIDE DEF f, W
<1>10. IsFiniteSet(U) /\ Cardinality(U) <= Cardinality(W)
  BY <1>8, <1>9, FS_Injection
<1> QED BY <1>9, <1>10

\* What a right one-time code leaves: the row of its seed, with the watermark at
\* the latest step it meant and one record more.
LEMMA AcceptedTotpRow ==
  ASSUME NEW a, RowOK(a), NEW t \in Nat, NEW proof \in TotpProof,
         NEW enrolling \in Seed \cup {NoSeed},
         (a.totp_seed = NoSeed) <=> (enrolling # NoSeed),
         FactorSeed(a, enrolling) # NoSeed,
         TotpValid(a, FactorSeed(a, enrolling), proof.code, t)
  PROVE  RowOK([Accepted(a, proof, enrolling, t)
                  EXCEPT !.totp_seed = FactorSeed(a, enrolling)])
<1> DEFINE seed == FactorSeed(a, enrolling)
           code == proof.code
           L == Max(Matches(seed, code, t))
           new == [seed |-> seed, code |-> code, expires |-> (Step(t) + 3) * Period]
           U == ActiveUsed(a, t)
           F == KeptFailures(a, t)
           b == [Accepted(a, proof, enrolling, t) EXCEPT !.totp_seed = seed]
<1>1. /\ proof.method = "totp" /\ code \in Otp
      /\ seed \in Seed
      /\ a \in Administrator
  BY DEF TotpProof, FactorSeed, RowOK, Administrator
<1>2. /\ Step(t) \in Nat
      /\ L \in Nat /\ L >= Step(t) - 1 /\ L <= Step(t) + 1
      /\ CodeAt(seed, L) = code
      /\ L > a.totp_last_step
  BY StepOf, LatestMatch DEF TotpValid
<1>3. /\ IsFiniteSet(F) /\ F \subseteq a.factor_failures
      /\ Cardinality(F) <= Cardinality(a.factor_failures)
      /\ Cardinality(F) \in Nat /\ Cardinality(a.factor_failures) \in Nat
  BY FilteredRow, FS_CardinalityType DEF RowOK
<1>4. a.totp_last_step \in Int /\ a.totp_last_step <= Step(t)
  BY <1>1, <1>2 DEF Administrator
<1>5. IsFiniteSet(U) /\ Cardinality(U) <= 4 /\ Cardinality(U) \in Nat
  BY <1>4, FewActiveRecords, FS_CardinalityType
<1>6. IsFiniteSet(U \cup {new}) /\ Cardinality(U \cup {new}) <= 5
  <2> HIDE DEF U, new
  <2>1. IsFiniteSet(U \cup {new})
        /\ (Cardinality(U \cup {new}) = Cardinality(U)
            \/ Cardinality(U \cup {new}) = Cardinality(U) + 1)
    BY <1>5, FS_AddElement
  <2> QED BY <1>5, <2>1
<1>7. new \in UsedCode
  <2>1. (Step(t) + 3) * Period \in Nat
    BY <1>2, FactorAssumption
  <2> QED BY <1>1, <2>1 DEF UsedCode
<1>8. U \subseteq a.totp_used_codes /\ \A r \in U : r.seed # seed \/ r.code # code
  BY DEF ActiveUsed, TotpValid
<1>9. b = [a EXCEPT !.factor_failures = F, !.totp_last_step = L,
                    !.totp_used_codes = U \cup {new}, !.totp_seed = seed]
  BY <1>1 DEF Accepted, FailuresAfterSuccess
<1> HIDE DEF seed, code, L, new, U, F, b
<1>10. /\ b \in Administrator
       /\ b.factor_failures = F
       /\ b.totp_last_step = L
       /\ b.totp_used_codes = U \cup {new}
       /\ b.totp_seed = seed
  BY <1>1, <1>2, <1>3, <1>7, <1>8, <1>9 DEF Administrator
<1>11. \A r, s \in U \cup {new} : r.seed = s.seed /\ r.code = s.code => r = s
  BY <1>8 DEF RowOK, new
<1>12. \A r \in U \cup {new} : UsedRecordFits(b, r)
  <2>1. UsedRecordFits(b, new)
    BY <1>2, <1>10 DEF UsedRecordFits, new
  <2>2. ASSUME NEW r \in U PROVE UsedRecordFits(b, r)
    <3>1. UsedRecordFits(a, r) /\ a.totp_seed # NoSeed
      BY <1>8 DEF RowOK
    <3>2. seed = a.totp_seed
      BY <3>1 DEF seed, FactorSeed
    <3> QED BY <1>2, <1>4, <1>10, <3>1, <3>2 DEF UsedRecordFits
  <2> QED BY <2>1, <2>2
<1>13. Cardinality(F) <= LongLimit
  BY <1>3, FactorAssumption DEF RowOK
<1>14. seed # NoSeed /\ L >= 0
  BY <1>1, <1>2, FactorAssumption
<1>15. RowOK(b)
  BY <1>3, <1>6, <1>10, <1>11, <1>12, <1>13, <1>14 DEF RowOK
<1> QED BY <1>15 DEF b, seed

\* A recovery code changes nothing of the row but its list of failures.
LEMMA AcceptedRecoveryRow ==
  ASSUME NEW a, RowOK(a), NEW t \in Nat, NEW proof \in RecoveryProof
  PROVE  RowOK(Accepted(a, proof, NoSeed, t))
<1> DEFINE F == KeptFailures(a, t)
           b == Accepted(a, proof, NoSeed, t)
<1>1. b = [a EXCEPT !.factor_failures = F]
  BY DEF Accepted, FailuresAfterSuccess, RecoveryProof
<1>2. /\ IsFiniteSet(F) /\ F \subseteq a.factor_failures
      /\ Cardinality(F) <= Cardinality(a.factor_failures)
      /\ Cardinality(F) \in Nat /\ Cardinality(a.factor_failures) \in Nat
  BY FilteredRow, FS_CardinalityType DEF RowOK
<1>3. a \in Administrator
  BY DEF RowOK
<1> HIDE DEF F, b
<1>4. /\ b \in Administrator
      /\ b.factor_failures = F
      /\ b.totp_used_codes = a.totp_used_codes
      /\ b.totp_seed = a.totp_seed
      /\ b.totp_last_step = a.totp_last_step
  BY <1>1, <1>2, <1>3 DEF Administrator
<1>5. \A r \in b.totp_used_codes : UsedRecordFits(b, r)
  BY <1>4 DEF RowOK, UsedRecordFits
<1>6. Cardinality(F) <= LongLimit
  BY <1>2, FactorAssumption DEF RowOK
<1>7. RowOK(b)
  BY <1>2, <1>4, <1>5, <1>6 DEF RowOK
<1> QED BY <1>7 DEF b

\* An accepted proof of a factor in force leaves a well-formed row.
LEMMA AcceptedRow ==
  ASSUME NEW a, RowOK(a), NEW t \in Nat, NEW proof \in Proof, NEW codes,
         a.totp_seed # NoSeed, ProofValid(a, codes, proof, NoSeed, t)
  PROVE  RowOK(Accepted(a, proof, NoSeed, t))
<1>1. CASE proof \in RecoveryProof
  BY <1>1, AcceptedRecoveryRow
<1>2. CASE proof \in TotpProof
  <2> DEFINE b == Accepted(a, proof, NoSeed, t)
  <2>1. /\ proof.method = "totp"
        /\ FactorSeed(a, NoSeed) = a.totp_seed
        /\ TotpValid(a, FactorSeed(a, NoSeed), proof.code, t)
    BY <1>2 DEF ProofValid, TotpProof, FactorSeed
  <2>2. RowOK([b EXCEPT !.totp_seed = a.totp_seed])
    BY <1>2, <2>1, AcceptedTotpRow
  <2>3. b = [a EXCEPT !.factor_failures = FailuresAfterSuccess(a, t),
                      !.totp_last_step = b.totp_last_step,
                      !.totp_used_codes = b.totp_used_codes]
    BY <2>1 DEF Accepted, RowOK, Administrator
  <2>4. [b EXCEPT !.totp_seed = a.totp_seed] = b
    <3> HIDE DEF b
    <3> QED BY <2>3 DEF RowOK, Administrator
  <2> QED BY <2>2, <2>4
<1> QED BY <1>1, <1>2 DEF Proof

\* Rotating the version or the password does not touch the factor.
LEMMA RotatedRow ==
  ASSUME NEW a, RowOK(a), NEW q \in Password
  PROVE  RowOK(Revoked(a)) /\ RowOK([a EXCEPT !.password = q])
<1>1. a \in Administrator
  BY DEF RowOK
<1>2. ASSUME NEW b \in Administrator,
             b.factor_failures = a.factor_failures,
             b.totp_used_codes = a.totp_used_codes,
             b.totp_seed = a.totp_seed,
             b.totp_last_step = a.totp_last_step
      PROVE  RowOK(b)
  <2>1. \A r \in b.totp_used_codes : UsedRecordFits(b, r)
    BY <1>2 DEF RowOK, UsedRecordFits
  <2> QED BY <1>2, <2>1 DEF RowOK
<1>3. RowOK(Revoked(a))
  <2> DEFINE b == Revoked(a)
  <2>1. /\ b \in Administrator
        /\ b.factor_failures = a.factor_failures
        /\ b.totp_used_codes = a.totp_used_codes
        /\ b.totp_seed = a.totp_seed
        /\ b.totp_last_step = a.totp_last_step
    BY <1>1 DEF Revoked, Administrator
  <2> QED BY <1>2, <2>1
<1>4. RowOK([a EXCEPT !.password = q])
  <2> DEFINE b == [a EXCEPT !.password = q]
  <2>1. /\ b \in Administrator
        /\ b.factor_failures = a.factor_failures
        /\ b.totp_used_codes = a.totp_used_codes
        /\ b.totp_seed = a.totp_seed
        /\ b.totp_last_step = a.totp_last_step
    BY <1>1 DEF Administrator
  <2> QED BY <1>2, <2>1
<1> QED BY <1>3, <1>4

\* The row disable leaves is the row of an administrator without a factor.
LEMMA WithoutFactorRow ==
  ASSUME NEW a, RowOK(a)
  PROVE  RowOK(WithoutFactor(a)) /\ WithoutFactor(a).totp_seed = NoSeed
<1> DEFINE b == WithoutFactor(a)
<1>1. /\ b \in Administrator
      /\ b.factor_failures = a.factor_failures
      /\ b.totp_used_codes = {}
      /\ b.totp_seed = NoSeed
      /\ b.totp_last_step = -1
  BY DEF WithoutFactor, Administrator, RowOK
<1>2. IsFiniteSet({}) /\ Cardinality({}) <= 5
  BY FS_EmptySet
<1> HIDE DEF b
<1>3. RowOK(b)
  BY <1>1, <1>2 DEF RowOK
<1> QED BY <1>1, <1>3 DEF b

\* So is the row set-up writes.
LEMMA NewRow ==
  ASSUME NEW p \in Password
  PROVE  RowOK(NewAdministrator(p)) /\ NewAdministrator(p).totp_seed = NoSeed
<1> DEFINE b == NewAdministrator(p)
<1>1. /\ b \in Administrator
      /\ b.factor_failures = {}
      /\ b.totp_used_codes = {}
      /\ b.totp_seed = NoSeed
      /\ b.totp_last_step = -1
  BY DEF NewAdministrator, Administrator
<1>2. IsFiniteSet({}) /\ Cardinality({}) <= 5 /\ Cardinality({}) <= LongLimit
  BY FS_EmptySet, FactorAssumption
<1> HIDE DEF b
<1>3. RowOK(b)
  BY <1>1, <1>2 DEF RowOK
<1> QED BY <1>1, <1>3 DEF b

\* A batch of recovery codes is as large as the table may get.
LEMMA FreshBatch ==
  ASSUME NEW B \in FreshBatches
  PROVE  B \subseteq RecoveryCode /\ Cardinality(B) <= RecoveryCount
  BY FactorAssumption DEF FreshBatches

-----------------------------------------------------------------------------
(* The inductive invariant. *)

CodesOK ==
  /\ recovery_codes \subseteq RecoveryCode
  /\ Cardinality(recovery_codes) <= RecoveryCount
  /\ admin = NoAdmin \/ admin.totp_seed = NoSeed => recovery_codes = {}

AuxiliaryOK ==
  /\ spent \in [totp : SUBSET SpentTotp, recovery : SUBSET RecoveryCode]
  /\ wrong \subseteq Failure
  /\ IsFiniteSet(wrong)

FactorInv ==
  /\ now \in Nat
  /\ admin = NoAdmin \/ RowOK(admin)
  /\ CodesOK
  /\ AuxiliaryOK

\* An empty database satisfies the invariant.
LEMMA FactorInvInit == FactorInit => FactorInv
  BY FS_EmptySet, FactorAssumption
  DEF FactorInit, FactorInv, CodesOK, AuxiliaryOK

\* A proof is recorded as spent with the steps it stands for.
LEMMA AcceptedSpent ==
  ASSUME FactorInv, NEW proof \in Proof, NEW enrolling \in Seed \cup {NoSeed},
         admin # NoAdmin, ProofAccepted(proof, enrolling)
  PROVE  AuxiliaryOK'
<1>1. RowOK(admin) /\ now \in Nat /\ AuxiliaryOK
  BY DEF FactorInv
<1>2. wrong' = wrong
  BY DEF ProofAccepted
<1>3. CASE proof \in TotpProof
  <2> DEFINE seed == FactorSeed(admin, enrolling)
             L == Max(Matches(seed, proof.code, now))
             new == [seed |-> seed, code |-> proof.code, step |-> Step(now), match |-> L]
  <2>1. proof.method = "totp" /\ proof.code \in Otp
    BY <1>3 DEF TotpProof
  <2>2. TotpValid(admin, seed, proof.code, now) /\ seed # NoSeed
    BY <2>1 DEF ProofAccepted, ProofValid
  <2>3. seed \in Seed
    BY <1>1, <2>2 DEF FactorSeed, RowOK, Administrator
  <2>4. L \in Nat /\ Step(now) \in Nat
    BY <1>1, <2>2, StepOf, LatestMatch DEF TotpValid
  <2>5. new \in SpentTotp
    BY <2>1, <2>3, <2>4 DEF SpentTotp
  <2>6. spent' = [spent EXCEPT !.totp = @ \cup {new}]
    BY <2>1 DEF ProofAccepted
  <2> HIDE DEF new
  <2> QED BY <1>1, <1>2, <2>5, <2>6 DEF AuxiliaryOK
<1>4. CASE proof \in RecoveryProof
  <2>1. proof.method = "recovery_code" /\ proof.code \in RecoveryCode
    BY <1>4 DEF RecoveryProof
  <2>2. spent' = [spent EXCEPT !.recovery = @ \cup {proof.code}]
    BY <2>1 DEF ProofAccepted
  <2> QED BY <1>1, <1>2, <2>1, <2>2 DEF AuxiliaryOK
<1> QED BY <1>3, <1>4 DEF Proof

\* Deleting the code that was used leaves a table that fits.
LEMMA UsedCodes ==
  ASSUME FactorInv, NEW proof
  PROVE  /\ CodesLeft(proof) \subseteq RecoveryCode
         /\ Cardinality(CodesLeft(proof)) <= RecoveryCount
<1>1. recovery_codes \subseteq RecoveryCode /\ Cardinality(recovery_codes) <= RecoveryCount
  BY DEF FactorInv, CodesOK
<1>2. IsFiniteSet(recovery_codes)
  BY <1>1, FactorAssumption, FS_Subset
<1>3. CodesLeft(proof) \in SUBSET recovery_codes
  BY DEF CodesLeft, CodesAfter
<1>4. /\ Cardinality(CodesLeft(proof)) <= Cardinality(recovery_codes)
      /\ IsFiniteSet(CodesLeft(proof))
  BY <1>2, <1>3, FS_Subset
<1>5. Cardinality(CodesLeft(proof)) \in Nat /\ Cardinality(recovery_codes) \in Nat
  BY <1>2, <1>4, FS_CardinalityType
<1> QED BY <1>1, <1>3, <1>4, <1>5, FactorAssumption

\* A refused proof adds one failure to the row and to the record of refusals.
LEMMA RefusedInv ==
  ASSUME FactorInv, NEW proof, NEW enrolling,
         admin # NoAdmin, ProofRejected(proof, enrolling), now' = now
  PROVE  FactorInv'
<1>1. RowOK(admin) /\ now \in Nat /\ AuxiliaryOK /\ CodesOK
  BY DEF FactorInv
<1>2. RowOK(admin')
  BY <1>1, RejectedRow DEF ProofRejected
<1>3. admin'.totp_seed = admin.totp_seed
  BY <1>1 DEF ProofRejected, Rejected, RowOK, Administrator
<1>4. AuxiliaryOK'
  <2> DEFINE W == WrongWithin(LongWindow)
             x == FailureAt(W, now)
  <2>1. W \in SUBSET wrong /\ IsFiniteSet(wrong) /\ wrong \subseteq Failure
    BY <1>1 DEF WrongWithin, AuxiliaryOK
  <2>2. IsFiniteSet(W)
    BY <2>1, FS_Subset
  <2>3. x \in Failure
    BY <1>1, <2>2, NewFailure
  <2>4. IsFiniteSet(W \cup {x})
    BY <2>2, FS_AddElement
  <2>5. wrong' = W \cup {x} /\ spent' = spent
    BY DEF ProofRejected
  <2> QED BY <1>1, <2>1, <2>3, <2>4, <2>5 DEF AuxiliaryOK
<1>5. CodesOK'
  <2>1. admin' # NoAdmin
    BY <1>2, SecondFactorAssumption DEF RowOK
  <2> QED BY <1>1, <1>3, <2>1 DEF CodesOK, ProofRejected
<1> QED BY <1>1, <1>2, <1>4, <1>5 DEF FactorInv

\* An accepted proof keeps the invariant once its handler has written the row
\* and the codes.
LEMMA AcceptedInv ==
  ASSUME FactorInv, admin # NoAdmin, NEW proof \in Proof,
         NEW enrolling \in Seed \cup {NoSeed},
         ProofAccepted(proof, enrolling), now' = now,
         RowOK(admin'),
         recovery_codes' \subseteq RecoveryCode,
         Cardinality(recovery_codes') <= RecoveryCount,
         admin'.totp_seed = NoSeed => recovery_codes' = {}
  PROVE  FactorInv'
<1>1. AuxiliaryOK'
  BY AcceptedSpent
<1>2. admin' # NoAdmin
  BY SecondFactorAssumption DEF RowOK
<1> QED BY <1>1, <1>2 DEF FactorInv, CodesOK

\* Set-up writes the first row, with no factor and no codes.
LEMMA SetUpInv ==
  ASSUME FactorInv, NEW p \in Password, SetUp(p)
  PROVE  FactorInv'
<1>1. RowOK(admin') /\ admin'.totp_seed = NoSeed
  BY NewRow DEF SetUp
<1>2. recovery_codes' = {}
  BY DEF FactorInv, CodesOK, SetUp
<1>3. AuxiliaryOK' /\ now' \in Nat
  BY DEF FactorInv, AuxiliaryOK, SetUp
<1>4. CodesOK'
  BY <1>2, FS_EmptySet, FactorAssumption DEF CodesOK
<1> QED BY <1>1, <1>3, <1>4 DEF FactorInv

\* Turning the factor on: the row and the codes the handler leaves.
LEMMA TurnOnRow ==
  ASSUME FactorInv, NEW seed \in UnspentSeeds, NEW proof \in TotpProof,
         TurnOn(seed, proof)
  PROVE  /\ RowOK(admin')
         /\ admin'.factor_failures = KeptFailures(admin, now)
         /\ admin'.totp_seed = seed
         /\ admin'.totp_used_codes = AdminAfter(proof, seed).totp_used_codes
         /\ admin'.totp_last_step = AdminAfter(proof, seed).totp_last_step
<1> DEFINE after == AdminAfter(proof, seed)
           row == [after EXCEPT !.totp_seed = seed]
<1>1. /\ admin # NoAdmin /\ admin.totp_seed = NoSeed
      /\ ProofAccepted(proof, seed)
      /\ admin' = Revoked(row)
      /\ RowOK(admin) /\ now \in Nat /\ admin \in Administrator
  BY DEF TurnOn, FactorInv, RowOK
<1>2. seed \in Seed /\ seed # NoSeed /\ FactorSeed(admin, seed) = seed
  BY FactorAssumption DEF UnspentSeeds, FactorSeed
<1>3. TotpValid(admin, FactorSeed(admin, seed), proof.code, now)
  BY <1>1 DEF ProofAccepted, ProofValid, TotpProof
<1>4. RowOK(row) /\ row \in Administrator
  BY <1>1, <1>2, <1>3, AcceptedTotpRow DEF AdminAfter, RowOK
<1>5. after = [admin EXCEPT !.factor_failures = KeptFailures(admin, now),
                            !.totp_last_step = after.totp_last_step,
                            !.totp_used_codes = after.totp_used_codes]
  BY <1>1 DEF AdminAfter, Accepted, FailuresAfterSuccess, TotpProof, Administrator
<1> HIDE DEF after
<1>6. /\ row.totp_seed = seed
      /\ row.factor_failures = KeptFailures(admin, now)
      /\ row.totp_used_codes = after.totp_used_codes
      /\ row.totp_last_step = after.totp_last_step
  BY <1>1, <1>5 DEF Administrator
<1> HIDE DEF row
<1>7. RowOK(admin')
  BY <1>1, <1>4, RotatedRow DEF Administrator
<1>8. /\ admin'.totp_seed = row.totp_seed
      /\ admin'.factor_failures = row.factor_failures
      /\ admin'.totp_used_codes = row.totp_used_codes
      /\ admin'.totp_last_step = row.totp_last_step
  BY <1>1, <1>4 DEF Revoked, Administrator
<1> QED BY <1>6, <1>7, <1>8 DEF after

\* Turning the factor on keeps the invariant.
LEMMA TurnOnInv ==
  ASSUME FactorInv, NEW seed \in UnspentSeeds, NEW proof \in TotpProof,
         TurnOn(seed, proof)
  PROVE  FactorInv'
<1>1. seed \in Seed /\ seed # NoSeed
  BY FactorAssumption DEF UnspentSeeds
<1>2. /\ admin # NoAdmin /\ ProofAccepted(proof, seed)
      /\ recovery_codes' \in FreshBatches /\ now' = now
  BY DEF TurnOn
<1> QED BY <1>1, <1>2, TurnOnRow, FreshBatch, AcceptedInv DEF Proof

\* Using a proof: the factor is kept with the record the proof left, or dropped.
LEMMA UseProofRow ==
  ASSUME FactorInv, NEW proof \in Proof, UseProof(proof)
  PROVE  /\ RowOK(admin')
         /\ admin'.factor_failures = KeptFailures(admin, now)
         /\ \/ /\ admin'.totp_seed = admin.totp_seed
               /\ admin'.totp_used_codes = AdminAfter(proof, NoSeed).totp_used_codes
               /\ admin'.totp_last_step = AdminAfter(proof, NoSeed).totp_last_step
               /\ recovery_codes' \in FreshBatches \cup {CodesLeft(proof)}
            \/ /\ admin'.totp_seed = NoSeed
               /\ recovery_codes' = {}
<1> DEFINE row == AdminAfter(proof, NoSeed)
<1>1. /\ admin # NoAdmin /\ admin.totp_seed # NoSeed
      /\ ProofAccepted(proof, NoSeed)
      /\ RowOK(admin) /\ now \in Nat
  BY DEF UseProof, SignIn, NewPassword, TurnOff, DrawCodes, FactorInv
<1>2. RowOK(row) /\ row \in Administrator
  BY <1>1, AcceptedRow DEF AdminAfter, ProofAccepted, RowOK
<1>3. row.totp_seed = admin.totp_seed /\ row.factor_failures = KeptFailures(admin, now)
  BY <1>1 DEF AdminAfter, Accepted, FailuresAfterSuccess, RowOK, Administrator
<1> HIDE DEF row
<1>4. CASE SignIn(proof)
  BY <1>2, <1>3, <1>4 DEF SignIn, row
<1>5. ASSUME NEW q \in Password, NewPassword(proof, q)
      PROVE  /\ RowOK(admin')
             /\ admin'.factor_failures = row.factor_failures
             /\ admin'.totp_seed = row.totp_seed
             /\ admin'.totp_used_codes = row.totp_used_codes
             /\ admin'.totp_last_step = row.totp_last_step
  <2> DEFINE r == [row EXCEPT !.password = q]
  <2>1. admin' = Revoked(r)
    BY <1>5 DEF NewPassword, row
  <2>2. /\ RowOK(r) /\ r \in Administrator
        /\ r.factor_failures = row.factor_failures
        /\ r.totp_seed = row.totp_seed
        /\ r.totp_used_codes = row.totp_used_codes
        /\ r.totp_last_step = row.totp_last_step
    BY <1>2, RotatedRow DEF Administrator
  <2> HIDE DEF r
  <2> QED BY <2>1, <2>2, RotatedRow DEF Revoked, Administrator
<1>6. CASE TurnOff(proof)
  <2> DEFINE r == WithoutFactor(row)
  <2>1. admin' = Revoked(r) /\ recovery_codes' = {}
    BY <1>6 DEF TurnOff, row
  <2>2. /\ RowOK(r) /\ r \in Administrator /\ r.totp_seed = NoSeed
        /\ r.factor_failures = row.factor_failures
    BY <1>2, WithoutFactorRow DEF RowOK, WithoutFactor, Administrator
  <2> HIDE DEF r
  <2>3. /\ RowOK(admin') /\ admin'.totp_seed = NoSeed
        /\ admin'.factor_failures = row.factor_failures
    BY <2>1, <2>2, RotatedRow DEF Revoked, Administrator
  <2> QED BY <1>3, <2>1, <2>3
<1>7. CASE DrawCodes(proof)
  <2>1. admin' = Revoked(row) /\ recovery_codes' \in FreshBatches
    BY <1>7 DEF DrawCodes, row
  <2>2. /\ RowOK(admin')
        /\ admin'.factor_failures = row.factor_failures
        /\ admin'.totp_seed = row.totp_seed
        /\ admin'.totp_used_codes = row.totp_used_codes
        /\ admin'.totp_last_step = row.totp_last_step
    BY <1>2, <2>1, RotatedRow DEF Revoked, Administrator
  <2> QED BY <1>3, <2>1, <2>2 DEF row
<1>8. ASSUME NEW q \in Password, NewPassword(proof, q)
      PROVE  recovery_codes' = CodesLeft(proof)
  BY <1>8 DEF NewPassword
<1> QED BY <1>3, <1>4, <1>5, <1>6, <1>7, <1>8 DEF UseProof, row

\* So does every handler that spends a proof of the factor in force.
LEMMA UseProofInv ==
  ASSUME FactorInv, NEW proof \in Proof, UseProof(proof)
  PROVE  FactorInv'
<1>1. /\ admin # NoAdmin /\ admin.totp_seed # NoSeed
      /\ ProofAccepted(proof, NoSeed)
      /\ now' = now
  BY DEF UseProof, SignIn, NewPassword, TurnOff, DrawCodes
<1>2. /\ recovery_codes' \subseteq RecoveryCode
      /\ Cardinality(recovery_codes') <= RecoveryCount
  <2>1. \/ recovery_codes' \in FreshBatches
        \/ recovery_codes' = CodesLeft(proof)
        \/ recovery_codes' = {}
    BY UseProofRow
  <2>2. {} \subseteq RecoveryCode /\ Cardinality({}) <= RecoveryCount
    BY FS_EmptySet, FactorAssumption
  <2> QED BY <2>1, <2>2, UsedCodes, FreshBatch
<1> QED BY <1>1, <1>2, UseProofRow, AcceptedInv

\* A password change without a factor touches neither factor nor codes.
LEMMA NewPasswordAloneInv ==
  ASSUME FactorInv, NEW q \in Password, NewPasswordAlone(q)
  PROVE  /\ FactorInv' /\ RowOK(admin')
         /\ admin'.factor_failures = admin.factor_failures
         /\ admin'.totp_seed = NoSeed
<1> DEFINE r == [admin EXCEPT !.password = q]
<1>1. /\ admin # NoAdmin /\ admin.totp_seed = NoSeed
      /\ admin' = Revoked(r)
      /\ UNCHANGED <<recovery_codes, now, spent, wrong>>
      /\ RowOK(admin)
  BY DEF NewPasswordAlone, FactorInv
<1>2. RowOK(r) /\ r \in Administrator
  BY <1>1, RotatedRow DEF RowOK
<1>5. r.factor_failures = admin.factor_failures /\ r.totp_seed = NoSeed
  BY <1>1 DEF RowOK, Administrator
<1> HIDE DEF r
<1>3. /\ RowOK(admin')
      /\ admin'.factor_failures = r.factor_failures /\ admin'.totp_seed = r.totp_seed
  BY <1>1, <1>2, RotatedRow DEF Revoked, Administrator
<1>4. CodesOK' /\ AuxiliaryOK' /\ now' \in Nat
  BY <1>1 DEF FactorInv, CodesOK, AuxiliaryOK
<1> QED BY <1>3, <1>4, <1>5 DEF FactorInv

\* One step per action of FactorNext.
LEMMA FactorInvNext == FactorInv /\ [FactorNext]_factorVars => FactorInv'
<1> SUFFICES ASSUME FactorInv, [FactorNext]_factorVars PROVE FactorInv'
  OBVIOUS
<1>1. ASSUME NEW p \in Password, SetUp(p) PROVE FactorInv'
  BY <1>1, SetUpInv
<1>2. ASSUME NEW seed \in UnspentSeeds, NEW proof \in TotpProof, TurnOn(seed, proof)
      PROVE  FactorInv'
  BY <1>2, TurnOnInv
<1>3. ASSUME NEW proof \in Proof, UseProof(proof) PROVE FactorInv'
  BY <1>3, UseProofInv
<1>4. ASSUME NEW proof, NEW enrolling, Refuse(proof, enrolling) PROVE FactorInv'
  BY <1>4, RefusedInv DEF Refuse
<1>5. ASSUME NEW q \in Password, NewPasswordAlone(q) PROVE FactorInv'
  BY <1>5, NewPasswordAloneInv
<1>6. CASE ClockMoves
  BY <1>6 DEF ClockMoves, FactorInv, CodesOK, AuxiliaryOK
<1>7. CASE UNCHANGED factorVars
  BY <1>7 DEF factorVars, FactorInv, CodesOK, AuxiliaryOK
<1> QED BY <1>1, <1>2, <1>3, <1>4, <1>5, <1>6, <1>7 DEF FactorNext

\* Every reachable row and code table satisfies the invariant.
THEOREM FactorInvariant == FactorSpec => []FactorInv
  BY FactorInvInit, FactorInvNext, PTL DEF FactorSpec

\* The variables keep their types, at any clock the model admits: the counters
\* of the row never leave the range the code stores them in.
THEOREM FactorTypeCorrect == FactorSpec => []FactorTypeOK
<1>1. FactorInv => FactorTypeOK
  BY DEF FactorInv, CodesOK, AuxiliaryOK, FactorTypeOK, RowOK
<1> QED BY <1>1, FactorInvariant, PTL

\* A row and codes that satisfy the invariant pass the check of every handler.
LEMMA RowPasses == FactorInv => NeverLockedOut
<1> SUFFICES ASSUME FactorInv, admin # NoAdmin
             PROVE  FactorStateOK(admin, recovery_codes)
  BY DEF NeverLockedOut
<1>1. RowOK(admin) /\ CodesOK
  BY DEF FactorInv
<1>2. /\ admin.auth_version >= 0
      /\ admin.totp_last_step >= -1
      /\ Cardinality(admin.totp_used_codes) <= MaxUsed
  <2>1. Cardinality(admin.totp_used_codes) \in Nat
    BY <1>1, FS_CardinalityType DEF RowOK
  <2> QED BY <1>1, <2>1, FactorAssumption DEF RowOK, Administrator
<1> QED BY <1>1, <1>2 DEF RowOK, CodesOK, FactorStateOK

\* The row and its codes always pass the check every handler starts with: no
\* sequence of requests and clock movements, backwards ones included, makes the
\* program answer 503 to its only administrator.
THEOREM FactorNeverLockedOut == FactorSpec => []NeverLockedOut
  BY RowPasses, FactorInvariant, PTL

-----------------------------------------------------------------------------
(* Guessing, waiting and replay: what SecondFactor promises while the wall  *)
(* clock does not run backwards.                                           *)

ClockAdvances == ClockSteps \subseteq Nat

-----------------------------------------------------------------------------
(* The row counts exactly the refusals of the long window. *)

GuessInv ==
  /\ admin = NoAdmin => wrong = {}
  /\ admin # NoAdmin => KeptFailures(admin, now) = WrongWithin(LongWindow)
  /\ Cardinality(WrongWithin(ShortWindow)) <= ShortLimit

\* The refusals of the short window are those the row calls recent.
LEMMA RecentAreWrong ==
  ASSUME FactorInv, GuessInv, admin # NoAdmin
  PROVE  RecentFailures(admin, now) = WrongWithin(ShortWindow)
<1>1. now \in Nat /\ \A f \in wrong : f.at \in Nat
  BY DEF FactorInv, AuxiliaryOK, Failure
<1>2. \A f \in wrong : f.at > now - ShortWindow => f.at > now - LongWindow
  BY <1>1, FactorAssumption
<1>3. RecentFailures(admin, now) = {f \in WrongWithin(LongWindow) : f.at > now - ShortWindow}
  BY DEF GuessInv, RecentFailures
<1> QED BY <1>2, <1>3 DEF WrongWithin

\* What is in a window at u was in it at any earlier t.
LEMMA WindowShrinks ==
  ASSUME NEW n \in Nat, NEW t \in Nat, NEW u \in Nat, u >= t, NEW w \in Nat, n > u - w
  PROVE  n > t - w
  OBVIOUS

\* The windows only shrink when the row and the refusals keep what is in them.
LEMMA GuessInvKept ==
  ASSUME FactorInv, GuessInv, admin # NoAdmin, admin' # NoAdmin,
         now' \in Nat, now' >= now, wrong' = wrong,
         \/ admin'.factor_failures = admin.factor_failures
         \/ admin'.factor_failures = KeptFailures(admin, now)
  PROVE  GuessInv'
<1>1. /\ now \in Nat /\ IsFiniteSet(wrong)
      /\ \A f \in wrong : f.at \in Nat
      /\ \A f \in admin.factor_failures : f.at \in Nat
  BY DEF FactorInv, AuxiliaryOK, Failure, RowOK, Administrator
<1>a. LongWindow \in Nat /\ ShortWindow \in Nat /\ ShortLimit \in Nat
  BY FactorAssumption
<1>2. \A n \in Nat : n > now' - LongWindow => n > now - LongWindow
  BY <1>1, <1>a, WindowShrinks
<1>3. \A n \in Nat : n > now' - ShortWindow => n > now - ShortWindow
  BY <1>1, <1>a, WindowShrinks
<1>4. KeptFailures(admin, now)' = WrongWithin(LongWindow)'
  <2>1. KeptFailures(admin, now)' = {f \in KeptFailures(admin, now) : f.at > now' - LongWindow}
    BY <1>1, <1>2 DEF KeptFailures
  <2>2. WrongWithin(LongWindow)' = {f \in WrongWithin(LongWindow) : f.at > now' - LongWindow}
    BY <1>1, <1>2 DEF WrongWithin
  <2> QED BY <2>1, <2>2 DEF GuessInv
<1>5. WrongWithin(ShortWindow)' \in SUBSET WrongWithin(ShortWindow)
  BY <1>1, <1>3 DEF WrongWithin
<1>6. WrongWithin(ShortWindow) \in SUBSET wrong
  BY DEF WrongWithin
<1>7. IsFiniteSet(WrongWithin(ShortWindow))
  BY <1>1, <1>6, FS_Subset
<1>8. /\ Cardinality(WrongWithin(ShortWindow)') <= Cardinality(WrongWithin(ShortWindow))
      /\ IsFiniteSet(WrongWithin(ShortWindow)')
  BY <1>5, <1>7, FS_Subset
<1>9. Cardinality(WrongWithin(ShortWindow)') <= ShortLimit
  <2>1. /\ Cardinality(WrongWithin(ShortWindow)') \in Nat
        /\ Cardinality(WrongWithin(ShortWindow)) \in Nat
    BY <1>7, <1>8, FS_CardinalityType
  <2> QED BY <1>8, <2>1, FactorAssumption DEF GuessInv
<1> QED BY <1>4, <1>9 DEF GuessInv

\* A refusal is counted on both sides, and only when the short window had room.
LEMMA GuessInvRefused ==
  ASSUME FactorInv, GuessInv, admin # NoAdmin, NEW proof, NEW enrolling,
         ProofRejected(proof, enrolling), now' = now
  PROVE  GuessInv'
<1> DEFINE K == WrongWithin(LongWindow)
           R == WrongWithin(ShortWindow)
           x == FailureAt(K, now)
<1>1. /\ now \in Nat /\ RowOK(admin) /\ IsFiniteSet(wrong)
      /\ ~Throttled(admin, now)
      /\ admin' = Rejected(admin, now) /\ wrong' = K \cup {x}
      /\ KeptFailures(admin, now) = K
  BY DEF FactorInv, AuxiliaryOK, ProofRejected, GuessInv
<1>2. admin'.factor_failures = K \cup {x} /\ admin' # NoAdmin
  <2>1. admin' = [admin EXCEPT !.factor_failures = K \cup {x}]
    BY <1>1 DEF Rejected
  <2>2. RowOK(admin')
    BY <1>1, RejectedRow
  <2> HIDE DEF K, x
  <2> QED BY <1>1, <2>1, <2>2, SecondFactorAssumption DEF RowOK, Administrator
<1>3. x.at = now
  BY DEF FailureAt
<1>4. KeptFailures(admin, now)' = WrongWithin(LongWindow)'
  BY <1>1, <1>2 DEF KeptFailures, WrongWithin
<1>5. \A f \in wrong : f.at \in Nat
  BY DEF FactorInv, AuxiliaryOK, Failure
<1>6. {f \in K \cup {x} : f.at > now - ShortWindow} = R \cup {x}
  <2>1. now > now - ShortWindow
    BY <1>1, FactorAssumption
  <2>2. \A f \in wrong : f.at > now - ShortWindow => f.at > now - LongWindow
    BY <1>1, <1>5, FactorAssumption
  <2> QED BY <1>3, <2>1, <2>2 DEF WrongWithin
<1>7. WrongWithin(ShortWindow)' = R \cup {x}
  BY <1>1, <1>6 DEF WrongWithin
<1>8. Cardinality(R) < ShortLimit /\ IsFiniteSet(R) /\ Cardinality(R) \in Nat
  BY <1>1, RecentAreWrong, RoomForFailure, FilteredRow
<1>9. Cardinality(R \cup {x}) <= ShortLimit
  <2> HIDE DEF R, x
  <2>1. \/ Cardinality(R \cup {x}) = Cardinality(R)
        \/ Cardinality(R \cup {x}) = Cardinality(R) + 1
    BY <1>8, FS_AddElement
  <2> QED BY <1>8, <2>1, FactorAssumption
<1> QED BY <1>2, <1>4, <1>7, <1>9 DEF GuessInv

\* Every step keeps the count of refusals and the row's list in step.
LEMMA GuessInvNext ==
  ASSUME ClockAdvances, FactorInv, GuessInv, [FactorNext]_factorVars
  PROVE  GuessInv'
<1>0. now \in Nat
  BY DEF FactorInv
<1>1. ASSUME NEW p \in Password, SetUp(p) PROVE GuessInv'
  <2>1. /\ admin = NoAdmin /\ wrong = {} /\ wrong' = {}
        /\ admin' # NoAdmin /\ admin'.factor_failures = {}
    <3>1. RowOK(admin') /\ admin'.factor_failures = {}
      BY <1>1, NewRow DEF SetUp, NewAdministrator
    <3> QED BY <1>1, <3>1, SecondFactorAssumption DEF SetUp, GuessInv, RowOK
  <2>2. KeptFailures(admin, now)' = {} /\ WrongWithin(LongWindow)' = {}
        /\ WrongWithin(ShortWindow)' = {}
    BY <2>1 DEF KeptFailures, WrongWithin
  <2>3. Cardinality({}) <= ShortLimit
    BY FS_EmptySet, FactorAssumption
  <2> QED BY <2>1, <2>2, <2>3 DEF GuessInv
<1>2. ASSUME NEW seed \in UnspentSeeds, NEW proof \in TotpProof, TurnOn(seed, proof)
      PROVE  GuessInv'
  <2>1. /\ admin # NoAdmin /\ now' = now /\ wrong' = wrong
        /\ RowOK(admin') /\ admin'.factor_failures = KeptFailures(admin, now)
    BY <1>2, TurnOnRow DEF TurnOn, ProofAccepted
  <2>2. admin' # NoAdmin
    BY <2>1, SecondFactorAssumption DEF RowOK
  <2> QED BY <1>0, <2>1, <2>2, GuessInvKept
<1>3. ASSUME NEW proof \in Proof, UseProof(proof) PROVE GuessInv'
  <2>1. /\ admin # NoAdmin /\ now' = now /\ wrong' = wrong
        /\ RowOK(admin') /\ admin'.factor_failures = KeptFailures(admin, now)
    BY <1>3, UseProofRow
    DEF UseProof, SignIn, NewPassword, TurnOff, DrawCodes, ProofAccepted
  <2>2. admin' # NoAdmin
    BY <2>1, SecondFactorAssumption DEF RowOK
  <2> QED BY <1>0, <2>1, <2>2, GuessInvKept
<1>4. ASSUME NEW proof, NEW enrolling, Refuse(proof, enrolling) PROVE GuessInv'
  BY <1>4, GuessInvRefused DEF Refuse
<1>5. ASSUME NEW q \in Password, NewPasswordAlone(q) PROVE GuessInv'
  <2>1. /\ admin # NoAdmin /\ now' = now /\ wrong' = wrong
        /\ RowOK(admin') /\ admin'.factor_failures = admin.factor_failures
    BY <1>5, NewPasswordAloneInv DEF NewPasswordAlone
  <2>2. admin' # NoAdmin
    BY <2>1, SecondFactorAssumption DEF RowOK
  <2> QED BY <1>0, <2>1, <2>2, GuessInvKept
<1>6. CASE ClockMoves
  <2>1. admin' = admin /\ wrong' = wrong /\ now' \in Nat /\ now' >= now
    BY <1>0, <1>6 DEF ClockMoves, ClockAdvances
  <2>2. CASE admin = NoAdmin
    <3>1. WrongWithin(ShortWindow)' = {} /\ wrong' = {}
      BY <2>1, <2>2 DEF GuessInv, WrongWithin
    <3>2. Cardinality({}) <= ShortLimit
      BY FS_EmptySet, FactorAssumption
    <3> QED BY <2>1, <2>2, <3>1, <3>2 DEF GuessInv
  <2>3. CASE admin # NoAdmin
    BY <2>1, <2>3, GuessInvKept
  <2> QED BY <2>2, <2>3
<1>7. CASE UNCHANGED factorVars
  BY <1>7 DEF factorVars, GuessInv, KeptFailures, WrongWithin
<1> QED BY <1>1, <1>2, <1>3, <1>4, <1>5, <1>6, <1>7 DEF FactorNext

\* As long as the clock does not run backwards, all endpoints together refuse no
\* more guesses than the two windows allow: no success, rotation, change of the
\* factor or order of requests forgets a refusal early.
THEOREM FactorGuessesBounded ==
  ASSUME ClockAdvances
  PROVE  FactorSpec => []GuessesBounded
<1>1. FactorInit => GuessInv
  BY FS_EmptySet, FactorAssumption DEF FactorInit, GuessInv, WrongWithin
<1>2. FactorInv /\ GuessInv /\ [FactorNext]_factorVars => GuessInv'
  BY GuessInvNext
<1>3. FactorInv /\ GuessInv => GuessesBounded
  <2> SUFFICES ASSUME FactorInv, GuessInv PROVE GuessesBounded
    OBVIOUS
  <2>1. CASE admin = NoAdmin
    <3>1. WrongWithin(LongWindow) = {} /\ WrongWithin(ShortWindow) = {}
      BY <2>1 DEF GuessInv, WrongWithin
    <3> QED BY <3>1, FS_EmptySet, FactorAssumption DEF GuessesBounded
  <2>2. CASE admin # NoAdmin
    <3>1. RowOK(admin) /\ now \in Nat /\ KeptFailures(admin, now) = WrongWithin(LongWindow)
      BY <2>2 DEF FactorInv, GuessInv
    <3>2. /\ Cardinality(WrongWithin(LongWindow)) <= Cardinality(admin.factor_failures)
          /\ Cardinality(WrongWithin(LongWindow)) \in Nat
      BY <3>1, FilteredRow
    <3>3. Cardinality(admin.factor_failures) \in Nat
          /\ Cardinality(admin.factor_failures) <= LongLimit
      BY <3>1, FS_CardinalityType DEF RowOK
    <3> QED BY <3>2, <3>3, FactorAssumption DEF GuessesBounded, GuessInv
  <2> QED BY <2>1, <2>2
<1> QED BY <1>1, <1>2, <1>3, FactorInvariant, PTL DEF FactorSpec

-----------------------------------------------------------------------------
(* Waiting. *)

\* The order of the natural numbers, as a set of pairs.
Below == {ss \in Nat \X Nat : ss[1] < ss[2]}

\* It is well-founded.
LEMMA BelowWellFounded == IsWellFoundedOn(Below, Nat)
<1>1. Below = OpToRel(<, Nat)
  BY Zenon DEF Below, OpToRel
<1> QED BY <1>1, NatLessThanWellFounded, Zenon

\* Every non-empty set of natural numbers has a least member.
LEMMA LeastNumber ==
  ASSUME NEW S \in SUBSET Nat, S # {}
  PROVE  Min(S) \in S /\ \A n \in S : Min(S) <= n
<1>1. PICK m \in S : \A n \in S : ~ (<<n, m>> \in Below)
  BY BelowWellFounded, WFMin
<1>2. ASSUME NEW n \in S PROVE m <= n
  <2>1. n \in Nat /\ m \in Nat /\ ~ (<<n, m>> \in Below)
    BY <1>1
  <2>2. <<n, m>> \in Nat \X Nat /\ <<n, m>>[1] = n /\ <<n, m>>[2] = m
    BY <2>1
  <2>3. ~(n < m)
    BY <2>1, <2>2, Zenon DEF Below
  <2> QED BY <2>1, <2>3
<1> QED BY <1>2 DEF Min

\* The failures of F within the window of w seconds that ends at t.
Within(F, w, t) == {f \in F : f.at > t - w}

\* Nothing enters a window as time passes.
LEMMA WithinShrinks ==
  ASSUME NEW F \in SUBSET Failure, IsFiniteSet(F), NEW w \in Nat,
         NEW t \in Nat, NEW u \in Nat, t <= u
  PROVE  /\ Within(F, w, u) \in SUBSET Within(F, w, t)
         /\ IsFiniteSet(Within(F, w, t))
         /\ Cardinality(Within(F, w, u)) \in Nat /\ Cardinality(Within(F, w, t)) \in Nat
         /\ Cardinality(Within(F, w, u)) <= Cardinality(Within(F, w, t))
<1>1. Within(F, w, u) \in SUBSET Within(F, w, t)
  BY DEF Within, Failure
<1>2. Within(F, w, t) \in SUBSET F
  BY DEF Within
<1>3. IsFiniteSet(Within(F, w, t))
  BY <1>2, FS_Subset
<1>4. /\ IsFiniteSet(Within(F, w, u))
      /\ Cardinality(Within(F, w, u)) <= Cardinality(Within(F, w, t))
  BY <1>1, <1>3, FS_Subset
<1> QED BY <1>1, <1>3, <1>4, FS_CardinalityType

\* How long after t the window takes to lose its earliest failure.
WaitFor(F, w, t) == Earliest(Within(F, w, t)) + w - t

\* A window that is full stays so until its earliest failure leaves it, and has
\* room from then on.
LEMMA FullWindow ==
  ASSUME NEW F \in SUBSET Failure, IsFiniteSet(F), NEW w \in Nat,
         NEW limit \in Nat \ {0}, NEW t \in Nat,
         Cardinality(Within(F, w, t)) = limit
  PROVE  /\ WaitFor(F, w, t) \in Nat \ {0}
         /\ \A u \in Nat : t <= u /\ u < t + WaitFor(F, w, t)
                           => Cardinality(Within(F, w, u)) = limit
         /\ \A u \in Nat : t + WaitFor(F, w, t) <= u
                           => Cardinality(Within(F, w, u)) < limit
<1> DEFINE K == Within(F, w, t)
           at == {f.at : f \in K}
           e == Earliest(K)
<1>1. K # {}
  BY FS_EmptySet
<1>2. at \in SUBSET Nat /\ at # {}
  BY <1>1 DEF Within, Failure
<1>3. e \in at /\ \A n \in at : e <= n
  BY <1>2, LeastNumber DEF Earliest
<1>4. PICK first \in K : first.at = e
  BY <1>3
<1>5. e \in Nat /\ e > t - w /\ \A f \in K : f.at \in Nat /\ e <= f.at
  BY <1>2, <1>3 DEF Within
<1> HIDE DEF e, at
<1>6. e + w - t \in Nat \ {0} /\ t + (e + w - t) = e + w
  BY <1>5
<1>7. ASSUME NEW u \in Nat, t <= u, u < e + w
      PROVE  Cardinality(Within(F, w, u)) = limit
  <2>1. Within(F, w, u) \in SUBSET K
    BY <1>7, WithinShrinks
  <2>2. \A f \in K : f \in Within(F, w, u)
    BY <1>5, <1>7 DEF Within
  <2>3. Within(F, w, u) = K
    BY <2>1, <2>2
  <2> QED BY <2>3
<1>8. ASSUME NEW u \in Nat, e + w <= u
      PROVE  Cardinality(Within(F, w, u)) < limit
  <2>1. t <= u
    BY <1>6, <1>5, <1>8
  <2>2. /\ Within(F, w, u) \in SUBSET K /\ IsFiniteSet(K)
        /\ Cardinality(Within(F, w, u)) \in Nat
        /\ Cardinality(Within(F, w, u)) <= limit
    BY <2>1, WithinShrinks
  <2>3. first \notin Within(F, w, u)
    BY <1>4, <1>5, <1>8 DEF Within
  <2>4. Cardinality(Within(F, w, u)) # limit
    BY <2>2, <2>3, <1>4, FS_Subset
  <2> QED BY <2>2, <2>4
<1>9. WaitFor(F, w, t) = e + w - t
  BY DEF WaitFor, e
<1> QED BY <1>6, <1>7, <1>8, <1>9

\* The two windows of a row, and when it is throttled.
LEMMA WindowsOfRow ==
  ASSUME NEW a \in Administrator, NEW t \in Nat
  PROVE  /\ KeptFailures(a, t) = Within(a.factor_failures, LongWindow, t)
         /\ RecentFailures(a, t) = Within(a.factor_failures, ShortWindow, t)
         /\ Throttled(a, t) <=>
              \/ Cardinality(Within(a.factor_failures, ShortWindow, t)) >= ShortLimit
              \/ Cardinality(Within(a.factor_failures, LongWindow, t)) >= LongLimit
<1>1. KeptFailures(a, t) = Within(a.factor_failures, LongWindow, t)
  BY DEF KeptFailures, Within
<1>2. \A f \in a.factor_failures : f.at > t - ShortWindow => f.at > t - LongWindow
  BY FactorAssumption DEF Administrator, Failure
<1>3. RecentFailures(a, t) = Within(a.factor_failures, ShortWindow, t)
  BY <1>1, <1>2 DEF RecentFailures, Within
<1>4. Throttled(a, t) <=> ShortWait(a, t) # {} \/ LongWait(a, t) # {}
  BY DEF Throttled, Waits
<1>5. ShortWait(a, t) # {} <=> Cardinality(RecentFailures(a, t)) >= ShortLimit
  BY DEF ShortWait
<1>6. LongWait(a, t) # {} <=> Cardinality(KeptFailures(a, t)) >= LongLimit
  BY DEF LongWait
<1> QED BY <1>1, <1>3, <1>4, <1>5, <1>6

\* The larger of at most two numbers.
LEMMA LargerOfTwo ==
  ASSUME NEW S \in SUBSET Int, S # {}, NEW x \in Int, NEW y \in Int, S \subseteq {x, y}
  PROVE  Max(S) \in S /\ \A n \in S : n <= Max(S)
<1>1. \E m \in S : \A n \in S : m >= n
  <2>1. CASE x \in S /\ y \in S /\ x >= y
    <3>1. \A n \in S : x >= n
      BY <2>1
    <3> QED BY <2>1, <3>1
  <2>2. CASE x \in S /\ y \in S /\ y >= x
    <3>1. \A n \in S : y >= n
      BY <2>2
    <3> QED BY <2>2, <3>1
  <2>3. ASSUME ~(x \in S /\ y \in S)
        PROVE  \E m \in S : \A n \in S : m >= n
    <3>1. PICK m \in S : TRUE
      OBVIOUS
    <3>2. \A n \in S : n = m
      BY <2>3, <3>1
    <3>3. \A n \in S : m >= n
      BY <3>2
    <3> QED BY <3>3
  <2> QED BY <2>1, <2>2, <2>3
<1>2. PICK m \in S : m = Max(S) /\ \A n \in S : m >= n
  BY <1>1 DEF Max
<1> QED BY <1>2

\* When neither window holds more than its limit, the announced wait is exact.
LEMMA ExactWait ==
  ASSUME NEW a \in Administrator, NEW t \in Nat, Throttled(a, t),
         IsFiniteSet(a.factor_failures),
         Cardinality(Within(a.factor_failures, ShortWindow, t)) <= ShortLimit,
         Cardinality(Within(a.factor_failures, LongWindow, t)) <= LongLimit
  PROVE  /\ RetryAfter(a, t) \in Nat \ {0}
         /\ ~Throttled(a, t + RetryAfter(a, t))
         /\ \A u \in t .. t + RetryAfter(a, t) - 1 : Throttled(a, u)
<1> DEFINE F == a.factor_failures
           S(u) == Cardinality(Within(F, ShortWindow, u))
           L(u) == Cardinality(Within(F, LongWindow, u))
           s == WaitFor(F, ShortWindow, t)
           l == WaitFor(F, LongWindow, t)
           wait == RetryAfter(a, t)
<1>1. /\ F \in SUBSET Failure
      /\ ShortWindow \in Nat /\ LongWindow \in Nat
      /\ ShortLimit \in Nat \ {0} /\ LongLimit \in Nat \ {0}
  BY FactorAssumption DEF Administrator
<1>2. ASSUME NEW u \in Nat, t <= u
      PROVE  /\ S(u) \in Nat /\ S(t) \in Nat /\ S(u) <= S(t)
             /\ L(u) \in Nat /\ L(t) \in Nat /\ L(u) <= L(t)
  <2>1. S(u) \in Nat /\ S(t) \in Nat /\ S(u) <= S(t)
    BY <1>1, <1>2, WithinShrinks
  <2>2. L(u) \in Nat /\ L(t) \in Nat /\ L(u) <= L(t)
    BY <1>1, <1>2, WithinShrinks
  <2> QED BY <2>1, <2>2
<1>3. S(t) \in Nat /\ L(t) \in Nat
  BY <1>2
<1>4. ShortWait(a, t) = IF S(t) = ShortLimit THEN {s} ELSE {}
  <2>1. RecentFailures(a, t) = Within(F, ShortWindow, t)
    BY WindowsOfRow
  <2>2. S(t) >= ShortLimit <=> S(t) = ShortLimit
    BY <1>1, <1>3
  <2> QED BY <2>1, <2>2 DEF ShortWait, WaitFor
<1>5. LongWait(a, t) = IF L(t) = LongLimit THEN {l} ELSE {}
  <2>1. KeptFailures(a, t) = Within(F, LongWindow, t)
    BY WindowsOfRow
  <2>2. L(t) >= LongLimit <=> L(t) = LongLimit
    BY <1>1, <1>3
  <2> QED BY <2>1, <2>2 DEF LongWait, WaitFor
<1>6. S(t) = ShortLimit =>
        /\ s \in Nat \ {0}
        /\ \A u \in Nat : t <= u /\ u < t + s => S(u) = ShortLimit
        /\ \A u \in Nat : t + s <= u => S(u) < ShortLimit
  BY <1>1, FullWindow
<1>7. L(t) = LongLimit =>
        /\ l \in Nat \ {0}
        /\ \A u \in Nat : t <= u /\ u < t + l => L(u) = LongLimit
        /\ \A u \in Nat : t + l <= u => L(u) < LongLimit
  BY <1>1, FullWindow
<1>8. \A u \in Nat : Throttled(a, u) <=> S(u) >= ShortLimit \/ L(u) >= LongLimit
  BY WindowsOfRow
<1>9. wait = Max(Waits(a, t)) /\ Waits(a, t) # {}
      /\ Waits(a, t) = ShortWait(a, t) \cup LongWait(a, t)
  BY DEF RetryAfter, Waits, Throttled
<1> HIDE DEF S, L, s, l, F, wait
<1>10. /\ wait \in Nat \ {0}
       /\ \/ wait = s /\ S(t) = ShortLimit
          \/ wait = l /\ L(t) = LongLimit
       /\ S(t) = ShortLimit => s <= wait
       /\ L(t) = LongLimit => l <= wait
  <2>1. CASE S(t) = ShortLimit /\ L(t) = LongLimit
    <3>1. Waits(a, t) = {s, l} /\ s \in Nat \ {0} /\ l \in Nat \ {0}
      BY <1>4, <1>5, <1>6, <1>7, <1>9, <2>1
    <3>2. {s, l} \in SUBSET Int /\ {s, l} # {} /\ s \in Int /\ l \in Int
      BY <3>1
    <3>3. Max({s, l}) \in {s, l} /\ \A n \in {s, l} : n <= Max({s, l})
      BY <3>2, LargerOfTwo
    <3>4. wait \in {s, l} /\ s <= wait /\ l <= wait
      BY <1>9, <3>1, <3>3
    <3> QED BY <2>1, <3>1, <3>4
  <2>2. CASE S(t) = ShortLimit /\ L(t) # LongLimit
    <3>1. Waits(a, t) = {s} /\ s \in Nat \ {0}
      BY <1>4, <1>5, <1>6, <1>9, <2>2
    <3>2. Max({s}) = s
      BY <3>1, LargerOfTwo
    <3> QED BY <1>9, <2>2, <3>1, <3>2
  <2>3. CASE S(t) # ShortLimit /\ L(t) = LongLimit
    <3>1. Waits(a, t) = {l} /\ l \in Nat \ {0}
      BY <1>4, <1>5, <1>7, <1>9, <2>3
    <3>2. Max({l}) = l
      BY <3>1, LargerOfTwo
    <3> QED BY <1>9, <2>3, <3>1, <3>2
  <2>4. CASE S(t) # ShortLimit /\ L(t) # LongLimit
    BY <1>4, <1>5, <1>9, <2>4
  <2> QED BY <2>1, <2>2, <2>3, <2>4
<1>11. ~Throttled(a, t + wait)
  <2>1. t + wait \in Nat /\ t <= t + wait
    BY <1>10
  <2>2. S(t + wait) < ShortLimit
    <3>1. CASE S(t) = ShortLimit
      BY <1>6, <1>10, <2>1, <3>1
    <3>2. CASE S(t) # ShortLimit
      <4>1. S(t) < ShortLimit /\ S(t + wait) <= S(t) /\ S(t + wait) \in Nat
        BY <1>1, <1>2, <1>3, <2>1, <3>2 DEF S, F
      <4> QED BY <1>1, <1>3, <4>1
    <3> QED BY <3>1, <3>2
  <2>3. L(t + wait) < LongLimit
    <3>1. CASE L(t) = LongLimit
      BY <1>7, <1>10, <2>1, <3>1
    <3>2. CASE L(t) # LongLimit
      <4>1. L(t) < LongLimit /\ L(t + wait) <= L(t) /\ L(t + wait) \in Nat
        BY <1>1, <1>2, <1>3, <2>1, <3>2 DEF L, F
      <4> QED BY <1>1, <1>3, <4>1
    <3> QED BY <3>1, <3>2
  <2>4. S(t + wait) \in Nat /\ L(t + wait) \in Nat
    BY <1>2, <2>1
  <2> QED BY <1>1, <1>8, <2>1, <2>2, <2>3, <2>4
<1>12. ASSUME NEW u \in t .. t + wait - 1 PROVE Throttled(a, u)
  <2>1. u \in Nat /\ t <= u /\ u < t + wait
    BY <1>10
  <2>2. S(u) = ShortLimit \/ L(u) = LongLimit
    BY <1>6, <1>7, <1>10, <2>1
  <2> QED BY <1>1, <1>8, <2>1, <2>2
<1> QED BY <1>10, <1>11, <1>12 DEF wait

\* As long as the clock does not run backwards, Retry-After is exact: whoever
\* waits that long is heard, and whoever asks earlier is turned away again.
THEOREM FactorRetryAfterExact ==
  ASSUME ClockAdvances
  PROVE  FactorSpec => []RetryAfterIsExact
<1>1. FactorInit => GuessInv
  BY FS_EmptySet, FactorAssumption DEF FactorInit, GuessInv, WrongWithin
<1>2. FactorInv /\ GuessInv /\ [FactorNext]_factorVars => GuessInv'
  BY GuessInvNext
<1>3. FactorInv /\ GuessInv => RetryAfterIsExact
  <2> SUFFICES ASSUME FactorInv, GuessInv, admin # NoAdmin, Throttled(admin, now)
               PROVE  LET wait == RetryAfter(admin, now)
                      IN  /\ wait > 0
                          /\ ~Throttled(admin, now + wait)
                          /\ \A t \in now .. now + wait - 1 : Throttled(admin, t)
    BY DEF RetryAfterIsExact
  <2>1. RowOK(admin) /\ admin \in Administrator /\ now \in Nat
    BY DEF FactorInv, RowOK
  <2>2. Cardinality(Within(admin.factor_failures, ShortWindow, now)) <= ShortLimit
    <3>1. RecentFailures(admin, now) = WrongWithin(ShortWindow)
      BY RecentAreWrong
    <3> QED BY <2>1, <3>1, WindowsOfRow DEF GuessInv
  <2>3. Cardinality(Within(admin.factor_failures, LongWindow, now)) <= LongLimit
    <3>1. /\ Cardinality(KeptFailures(admin, now)) \in Nat
          /\ Cardinality(KeptFailures(admin, now)) <= Cardinality(admin.factor_failures)
          /\ Cardinality(admin.factor_failures) \in Nat
          /\ Cardinality(admin.factor_failures) <= LongLimit
      BY <2>1, FilteredRow, FS_CardinalityType DEF RowOK
    <3>2. Cardinality(KeptFailures(admin, now)) <= LongLimit
      BY <3>1, FactorAssumption
    <3> QED BY <2>1, <3>2, WindowsOfRow
  <2> QED BY <2>1, <2>2, <2>3, ExactWait DEF RowOK
<1> QED BY <1>1, <1>2, <1>3, FactorInvariant, PTL DEF FactorSpec

-----------------------------------------------------------------------------
(* Spent proofs. *)

\* No spent recovery code is in the table, no spent step of the seed in force is
\* past the watermark, and no step was spent twice.
NeverTwice ==
  /\ recovery_codes \cap spent.recovery = {}
  /\ \A p, q \in spent.totp : p.seed = q.seed /\ p.match = q.match => p = q
  /\ admin # NoAdmin =>
       \A p \in spent.totp : p.seed = admin.totp_seed => p.match <= admin.totp_last_step

\* An accepted proof is a new one: a step after every spent step of its seed, or
\* a recovery code that goes from the table to the spent ones.
LEMMA SpentOnce ==
  ASSUME FactorInv, NeverTwice, admin # NoAdmin, NEW proof \in Proof,
         NEW enrolling \in UnspentSeeds \cup {NoSeed},
         ProofAccepted(proof, enrolling)
  PROVE  /\ \A p, q \in spent'.totp : p.seed = q.seed /\ p.match = q.match => p = q
         /\ CodesLeft(proof) \cap spent'.recovery = {}
         /\ \A B \in FreshBatches : B \cap spent'.recovery = {}
<1>1. /\ now \in Nat /\ admin \in Administrator
      /\ spent \in [totp : SUBSET SpentTotp, recovery : SUBSET RecoveryCode]
  BY DEF FactorInv, RowOK, AuxiliaryOK
<1>2. CASE proof \in TotpProof
  <2> DEFINE seed == FactorSeed(admin, enrolling)
             L == Max(Matches(seed, proof.code, now))
             new == [seed |-> seed, code |-> proof.code, step |-> Step(now), match |-> L]
  <2>1. proof.method = "totp"
    BY <1>2 DEF TotpProof
  <2>2. TotpValid(admin, seed, proof.code, now)
    BY <2>1 DEF ProofAccepted, ProofValid
  <2>3. L \in Nat /\ L > admin.totp_last_step
    BY <1>1, <2>2, LatestMatch DEF TotpValid
  <2>4. /\ spent'.totp = spent.totp \cup {new}
        /\ spent'.recovery = spent.recovery
    BY <1>1, <2>1 DEF ProofAccepted
  <2>5. new.seed = seed /\ new.match = L
    OBVIOUS
  <2>6. ASSUME NEW p \in spent.totp, p.seed = seed PROVE p.match # L
    <3>1. p.seed = admin.totp_seed
      BY <2>6 DEF FactorSeed, UnspentSeeds
    <3>2. p.match <= admin.totp_last_step
      BY <3>1 DEF NeverTwice
    <3>3. p.match \in Nat /\ admin.totp_last_step \in Int
      BY <1>1 DEF SpentTotp, Administrator
    <3> HIDE DEF L
    <3> QED BY <2>3, <3>2, <3>3
  <2> HIDE DEF new, L, seed
  <2>7. \A p, q \in spent'.totp : p.seed = q.seed /\ p.match = q.match => p = q
    BY <2>4, <2>5, <2>6 DEF NeverTwice
  <2> QED BY <2>4, <2>7 DEF NeverTwice, FreshBatches, CodesLeft, CodesAfter
<1>3. CASE proof \in RecoveryProof
  <2>1. proof.method = "recovery_code"
    BY <1>3 DEF RecoveryProof
  <2>2. proof.code \in recovery_codes
    BY <2>1 DEF ProofAccepted, ProofValid, RecoveryValid
  <2>3. /\ spent'.totp = spent.totp
        /\ spent'.recovery = spent.recovery \cup {proof.code}
    BY <1>1, <2>1 DEF ProofAccepted
  <2> QED BY <2>1, <2>2, <2>3 DEF NeverTwice, FreshBatches, CodesLeft, CodesAfter
<1> QED BY <1>2, <1>3 DEF Proof

\* Accepting a proof moves the watermark to the step it spends.
LEMMA AcceptedOnce ==
  ASSUME FactorInv, NeverTwice, admin # NoAdmin, admin' # NoAdmin,
         NEW proof \in Proof, NEW enrolling \in UnspentSeeds \cup {NoSeed},
         enrolling # NoSeed => proof \in TotpProof,
         ProofAccepted(proof, enrolling),
         admin'.totp_seed = FactorSeed(admin, enrolling),
         admin'.totp_last_step = AdminAfter(proof, enrolling).totp_last_step,
         recovery_codes' \in FreshBatches \cup {CodesLeft(proof)}
  PROVE  NeverTwice'
<1> DEFINE seed == FactorSeed(admin, enrolling)
<1>1. /\ now \in Nat /\ admin \in Administrator
      /\ spent \in [totp : SUBSET SpentTotp, recovery : SUBSET RecoveryCode]
  BY DEF FactorInv, RowOK, AuxiliaryOK
<1>2. ASSUME NEW p \in spent.totp, p.seed = seed
      PROVE  p.match \in Nat /\ p.match <= admin.totp_last_step
  <2>1. p.seed = admin.totp_seed
    BY <1>2 DEF FactorSeed, UnspentSeeds
  <2> QED BY <1>1, <2>1 DEF NeverTwice, SpentTotp
<1>3. \A p \in spent'.totp : p.seed = seed => p.match <= admin'.totp_last_step
  <2>1. CASE proof \in TotpProof
    <3> DEFINE L == Max(Matches(seed, proof.code, now))
               new == [seed |-> seed, code |-> proof.code, step |-> Step(now), match |-> L]
    <3>1. proof.method = "totp"
      BY <2>1 DEF TotpProof
    <3>2. TotpValid(admin, seed, proof.code, now)
      BY <3>1 DEF ProofAccepted, ProofValid
    <3>3. L \in Nat /\ L > admin.totp_last_step
      BY <1>1, <3>2, LatestMatch DEF TotpValid
    <3>4. admin'.totp_last_step = L
      BY <1>1, <3>1 DEF AdminAfter, Accepted, Administrator
    <3>5. spent'.totp = spent.totp \cup {new} /\ new.match = L
      BY <1>1, <3>1 DEF ProofAccepted
    <3>6. admin.totp_last_step \in Int
      BY <1>1 DEF Administrator
    <3> HIDE DEF new, L, seed
    <3>7. ASSUME NEW p \in spent.totp, p.seed = seed PROVE p.match <= L
      BY <1>2, <3>3, <3>6, <3>7
    <3> QED BY <3>3, <3>4, <3>5, <3>7
  <2>2. CASE proof \in RecoveryProof
    <3>1. proof.method = "recovery_code"
      BY <2>2 DEF RecoveryProof
    <3>2. spent'.totp = spent.totp /\ admin'.totp_last_step = admin.totp_last_step
      BY <1>1, <3>1 DEF ProofAccepted, AdminAfter, Accepted, Administrator
    <3> QED BY <1>2, <3>2
  <2> QED BY <2>1, <2>2 DEF Proof
<1> QED BY <1>3, SpentOnce DEF NeverTwice

\* Without a factor nothing can be spent again: no spent code is of seed NoSeed.
LEMMA NothingToSpend ==
  ASSUME FactorInv',
         admin' = NoAdmin \/ admin'.totp_seed = NoSeed,
         \A p, q \in spent'.totp : p.seed = q.seed /\ p.match = q.match => p = q,
         recovery_codes' \cap spent'.recovery = {}
  PROVE  NeverTwice'
<1>1. \A p \in spent'.totp : p.seed \in Seed
  BY DEF FactorInv, AuxiliaryOK, SpentTotp
<1> QED BY <1>1, FactorAssumption DEF NeverTwice

\* Every step of the second factor, at any clock.
LEMMA NeverTwiceNext ==
  ASSUME FactorInv, NeverTwice, [FactorNext]_factorVars
  PROVE  NeverTwice'
<1>0. FactorInv'
  BY FactorInvNext
<1>1. ASSUME NEW p \in Password, SetUp(p) PROVE NeverTwice'
  <2>1. /\ spent' = spent /\ recovery_codes' = recovery_codes
        /\ admin'.totp_seed = NoSeed
    BY <1>1, NewRow DEF SetUp
  <2> QED BY <1>0, <2>1, NothingToSpend DEF NeverTwice
<1>2. ASSUME NEW seed \in UnspentSeeds, NEW proof \in TotpProof, TurnOn(seed, proof)
      PROVE  NeverTwice'
  <2>1. RowOK(admin') /\ admin' # NoAdmin
    BY <1>2, TurnOnRow, SecondFactorAssumption DEF RowOK
  <2>2. /\ seed # NoSeed /\ FactorSeed(admin, seed) = seed
        /\ admin # NoAdmin /\ ProofAccepted(proof, seed)
        /\ recovery_codes' \in FreshBatches
    BY <1>2, FactorAssumption DEF TurnOn, UnspentSeeds, FactorSeed
  <2>3. /\ admin'.totp_seed = seed
        /\ admin'.totp_last_step = AdminAfter(proof, seed).totp_last_step
    BY <1>2, TurnOnRow
  <2> QED BY <2>1, <2>2, <2>3, AcceptedOnce DEF Proof
<1>3. ASSUME NEW proof \in Proof, UseProof(proof) PROVE NeverTwice'
  <2>1. RowOK(admin') /\ admin' # NoAdmin
    BY <1>3, UseProofRow, SecondFactorAssumption DEF RowOK
  <2>2. /\ admin # NoAdmin /\ ProofAccepted(proof, NoSeed)
        /\ FactorSeed(admin, NoSeed) = admin.totp_seed
    BY <1>3 DEF UseProof, SignIn, NewPassword, TurnOff, DrawCodes, FactorSeed
  <2>3. CASE admin'.totp_seed = NoSeed
    <3>1. recovery_codes' = {}
      BY <1>0, <2>1, <2>3 DEF FactorInv, CodesOK
    <3> QED BY <1>0, <2>2, <2>3, <3>1, SpentOnce, NothingToSpend
  <2>4. CASE admin'.totp_seed # NoSeed
    <3>1. /\ admin'.totp_seed = admin.totp_seed
          /\ admin'.totp_last_step = AdminAfter(proof, NoSeed).totp_last_step
          /\ recovery_codes' \in FreshBatches \cup {CodesLeft(proof)}
      BY <1>3, <2>4, UseProofRow
    <3> QED BY <2>1, <2>2, <3>1, AcceptedOnce
  <2> QED BY <2>3, <2>4
<1>4. ASSUME NEW proof, NEW enrolling, Refuse(proof, enrolling) PROVE NeverTwice'
  <2>1. /\ admin # NoAdmin /\ admin' = Rejected(admin, now)
        /\ recovery_codes' = recovery_codes /\ spent' = spent
        /\ admin \in Administrator
    BY <1>4 DEF Refuse, ProofRejected, FactorInv, RowOK
  <2>2. /\ admin'.totp_seed = admin.totp_seed
        /\ admin'.totp_last_step = admin.totp_last_step
    BY <2>1 DEF Rejected, Administrator
  <2> QED BY <2>1, <2>2 DEF NeverTwice
<1>5. ASSUME NEW q \in Password, NewPasswordAlone(q) PROVE NeverTwice'
  <2>1. admin'.totp_seed = NoSeed
    BY <1>5, NewPasswordAloneInv
  <2>2. spent' = spent /\ recovery_codes' = recovery_codes
    BY <1>5 DEF NewPasswordAlone
  <2> QED BY <1>0, <2>1, <2>2, NothingToSpend DEF NeverTwice
<1>6. CASE ClockMoves \/ UNCHANGED factorVars
  BY <1>6 DEF ClockMoves, factorVars, NeverTwice
<1> QED BY <1>1, <1>2, <1>3, <1>4, <1>5, <1>6 DEF FactorNext

\* Whatever the clock does, no recovery code and no step of a seed proves the
\* factor twice: the watermark alone, without the list of used codes, sees to it.
THEOREM FactorNeverTwice == FactorSpec => []NeverTwice
<1>1. FactorInit => NeverTwice
  BY DEF FactorInit, NeverTwice
<1>2. FactorInv /\ NeverTwice /\ [FactorNext]_factorVars => NeverTwice'
  BY NeverTwiceNext
<1> QED BY <1>1, <1>2, FactorInvariant, PTL DEF FactorSpec

\* The record of a spent code is on the used list until it expires.
Remembered(p, used, t) ==
  \/ (p.step + 3) * Period <= t
  \/ \E r \in used :
       r.seed = p.seed /\ r.code = p.code /\ r.expires = (p.step + 3) * Period

\* What is remembered of the codes spent for the seed in force.
ReplayInv ==
  /\ NeverTwice
  /\ admin = NoAdmin => spent.totp = {}
  /\ \A p \in spent.totp :
       p.seed = admin.totp_seed => Remembered(p, admin.totp_used_codes, now)

\* A right one-time code is remembered, and so are the ones before it.
LEMMA TotpSpent ==
  ASSUME FactorInv, ReplayInv, admin # NoAdmin,
         NEW proof \in TotpProof, NEW enrolling \in UnspentSeeds \cup {NoSeed},
         ProofAccepted(proof, enrolling), now' = now,
         admin'.totp_seed = FactorSeed(admin, enrolling),
         admin'.totp_used_codes = AdminAfter(proof, enrolling).totp_used_codes
  PROVE  \A p \in spent'.totp :
           p.seed = admin'.totp_seed => Remembered(p, admin'.totp_used_codes, now')
<1> DEFINE seed == FactorSeed(admin, enrolling)
           code == proof.code
           L == Max(Matches(seed, code, now))
           new == [seed |-> seed, code |-> code, step |-> Step(now), match |-> L]
           rec == [seed |-> seed, code |-> code, expires |-> (Step(now) + 3) * Period]
           U == ActiveUsed(admin, now)
<1>1. /\ proof.method = "totp" /\ now \in Nat /\ admin \in Administrator
      /\ spent \in [totp : SUBSET SpentTotp, recovery : SUBSET RecoveryCode]
  BY DEF FactorInv, TotpProof, RowOK, AuxiliaryOK
<1>2. spent' = [spent EXCEPT !.totp = @ \cup {new}]
  BY <1>1 DEF ProofAccepted
<1>3. admin'.totp_used_codes = U \cup {rec} /\ admin'.totp_seed = seed
  BY <1>1 DEF AdminAfter, Accepted, Administrator
<1>4. ASSUME NEW p \in spent.totp, p.seed = seed
      PROVE  p.seed = admin.totp_seed
  BY <1>4 DEF FactorSeed, UnspentSeeds
<1>5. new.seed = seed /\ new.code = code /\ new.step = Step(now)
  OBVIOUS
<1>6. rec.seed = seed /\ rec.code = code /\ rec.expires = (Step(now) + 3) * Period
  OBVIOUS
<1>7. spent'.totp = spent.totp \cup {new}
  BY <1>1, <1>2
<1>8. \A r \in admin.totp_used_codes : r \in U \/ r.expires <= now
  <2>1. \A r \in admin.totp_used_codes : r.expires \in Nat
    BY <1>1 DEF Administrator, UsedCode
  <2> QED BY <1>1, <2>1 DEF ActiveUsed
<1> HIDE DEF seed, code, L, new, rec, U
<1>9. ASSUME NEW p \in spent.totp, p.seed = seed
      PROVE  Remembered(p, admin'.totp_used_codes, now')
  <2>1. Remembered(p, admin.totp_used_codes, now)
    BY <1>4, <1>9 DEF ReplayInv
  <2>2. CASE (p.step + 3) * Period <= now
    BY <2>2 DEF Remembered
  <2>3. ASSUME NEW r \in admin.totp_used_codes, r.seed = p.seed, r.code = p.code,
               r.expires = (p.step + 3) * Period
        PROVE  Remembered(p, admin'.totp_used_codes, now')
    BY <1>3, <1>8, <2>3 DEF Remembered
  <2> QED BY <2>1, <2>2, <2>3 DEF Remembered
<1>10. Remembered(new, admin'.totp_used_codes, now')
  BY <1>3, <1>5, <1>6 DEF Remembered
<1> QED BY <1>3, <1>7, <1>9, <1>10, Zenon

\* Every step keeps what is remembered of each spent proof.
LEMMA ReplayInvNext ==
  ASSUME ClockAdvances, FactorInv, ReplayInv, [FactorNext]_factorVars
  PROVE  ReplayInv'
<1> DEFINE R == \A p \in spent.totp :
                  p.seed = admin.totp_seed => Remembered(p, admin.totp_used_codes, now)
           Good == (admin = NoAdmin => spent.totp = {})' /\ R'
<1>0. FactorInv' /\ NeverTwice' /\ now \in Nat
  BY FactorInvNext, NeverTwiceNext DEF FactorInv, ReplayInv
<1>s. \A p \in spent'.totp : p.seed # NoSeed
  BY <1>0, FactorAssumption DEF FactorInv, AuxiliaryOK, SpentTotp
<1>1. ASSUME NEW p \in Password, SetUp(p) PROVE Good
  <2>1. spent' = spent /\ spent.totp = {}
    BY <1>1 DEF SetUp, ReplayInv
  <2> QED BY <2>1
<1>2. ASSUME NEW seed \in UnspentSeeds, NEW proof \in TotpProof, TurnOn(seed, proof)
      PROVE  Good
  <2>1. RowOK(admin') /\ admin' # NoAdmin
    BY <1>2, TurnOnRow, SecondFactorAssumption DEF RowOK
  <2>2. /\ seed # NoSeed /\ FactorSeed(admin, seed) = seed
        /\ admin # NoAdmin /\ ProofAccepted(proof, seed) /\ now' = now
    BY <1>2, FactorAssumption DEF TurnOn, UnspentSeeds, FactorSeed
  <2>3. /\ admin'.totp_seed = seed
        /\ admin'.totp_used_codes = AdminAfter(proof, seed).totp_used_codes
    BY <1>2, TurnOnRow
  <2> QED BY <2>1, <2>2, <2>3, TotpSpent
<1>3. ASSUME NEW proof \in Proof, UseProof(proof) PROVE Good
  <2>1. RowOK(admin') /\ admin' # NoAdmin
    BY <1>3, UseProofRow, SecondFactorAssumption DEF RowOK
  <2>2. /\ admin # NoAdmin /\ FactorSeed(admin, NoSeed) = admin.totp_seed
        /\ ProofAccepted(proof, NoSeed) /\ now' = now
    BY <1>3 DEF UseProof, SignIn, NewPassword, TurnOff, DrawCodes, FactorSeed
  <2>3. CASE admin'.totp_seed = NoSeed
    BY <1>s, <2>1, <2>3
  <2>4. ASSUME admin'.totp_seed # NoSeed
        PROVE  /\ admin'.totp_seed = admin.totp_seed
               /\ admin'.totp_used_codes = AdminAfter(proof, NoSeed).totp_used_codes
    BY <1>3, <2>4, UseProofRow
  <2>5. CASE admin'.totp_seed # NoSeed /\ proof \in TotpProof
    BY <2>1, <2>2, <2>4, <2>5, TotpSpent
  <2>6. CASE admin'.totp_seed # NoSeed /\ proof \in RecoveryProof
    <3>1. /\ proof.method = "recovery_code" /\ admin \in Administrator
          /\ spent \in [totp : SUBSET SpentTotp, recovery : SUBSET RecoveryCode]
      BY <2>2, <2>6 DEF FactorInv, RecoveryProof, RowOK, AuxiliaryOK
    <3>2. /\ spent'.totp = spent.totp
          /\ admin'.totp_used_codes = admin.totp_used_codes
      BY <2>2, <2>4, <2>6, <3>1 DEF ProofAccepted, AdminAfter, Accepted, Administrator
    <3> QED BY <2>1, <2>2, <2>4, <2>6, <3>2 DEF ReplayInv
  <2> QED BY <2>3, <2>5, <2>6 DEF Proof
<1>4. ASSUME NEW proof, NEW enrolling, Refuse(proof, enrolling) PROVE Good
  <2>1. /\ admin # NoAdmin /\ admin' = Rejected(admin, now) /\ now' = now
        /\ spent' = spent /\ admin \in Administrator /\ RowOK(admin')
    BY <1>0, <1>4, RejectedRow DEF Refuse, ProofRejected, FactorInv, RowOK
  <2>2. /\ admin'.totp_seed = admin.totp_seed
        /\ admin'.totp_used_codes = admin.totp_used_codes
        /\ admin' # NoAdmin
    BY <2>1, SecondFactorAssumption DEF Rejected, Administrator, RowOK
  <2> QED BY <2>1, <2>2 DEF ReplayInv
<1>5. ASSUME NEW q \in Password, NewPasswordAlone(q) PROVE Good
  <2>1. RowOK(admin') /\ admin'.totp_seed = NoSeed /\ admin' # NoAdmin
    BY <1>5, NewPasswordAloneInv, SecondFactorAssumption DEF RowOK
  <2> QED BY <1>s, <2>1
<1>6. ASSUME ClockMoves PROVE Good
  <2>0. now \in Nat
    BY <1>0
  <2>1. /\ admin' = admin /\ spent' = spent
        /\ now' \in Nat /\ now' >= now
    BY <1>6, <2>0 DEF ClockMoves, ClockAdvances
  <2>2. \A p \in spent.totp : (p.step + 3) * Period <= now => (p.step + 3) * Period <= now'
    <3>1. \A p \in spent.totp : (p.step + 3) * Period \in Int
      <4>1. \A p \in spent.totp : p.step \in Nat
        BY DEF FactorInv, AuxiliaryOK, SpentTotp
      <4> QED BY <4>1, FactorAssumption
    <3> QED BY <1>0, <2>1, <3>1
  <2> QED BY <2>1, <2>2 DEF ReplayInv, Remembered
<1>7. ASSUME UNCHANGED factorVars PROVE Good
  BY <1>7 DEF factorVars, ReplayInv, Remembered
<1> HIDE DEF Good
<1>8. Good
  BY <1>1, <1>2, <1>3, <1>4, <1>5, <1>6, <1>7 DEF FactorNext
<1> QED BY <1>0, <1>8 DEF ReplayInv, Good

\* As long as the clock does not run backwards, no spent proof works again: not
\* a recovery code, not a one-time code before it expires, not a step of a seed.
THEOREM FactorSpentProofsStayDead ==
  ASSUME ClockAdvances
  PROVE  FactorSpec => []SpentProofsStayDead
<1>1. FactorInit => ReplayInv
  BY DEF FactorInit, ReplayInv, NeverTwice
<1>2. FactorInv /\ ReplayInv /\ [FactorNext]_factorVars => ReplayInv'
  BY ReplayInvNext
<1>3. FactorInv /\ ReplayInv => SpentProofsStayDead
  <2> SUFFICES ASSUME FactorInv, ReplayInv, admin # NoAdmin,
                      NEW p \in spent.totp, p.seed = admin.totp_seed,
                      now < (p.step + 3) * Period
               PROVE  ~TotpValid(admin, p.seed, p.code, now)
    BY DEF SpentProofsStayDead, ReplayInv, NeverTwice
  <2>1. now \in Nat /\ (p.step + 3) * Period \in Int
    <3>1. p.step \in Nat
      BY DEF FactorInv, AuxiliaryOK, SpentTotp
    <3> QED BY <3>1, FactorAssumption DEF FactorInv
  <2>2. PICK r \in admin.totp_used_codes :
          r.seed = p.seed /\ r.code = p.code /\ r.expires = (p.step + 3) * Period
    BY <2>1 DEF ReplayInv, Remembered
  <2>3. r \in ActiveUsed(admin, now)
    BY <2>1, <2>2 DEF ActiveUsed
  <2> QED BY <2>2, <2>3 DEF TotpValid
<1> QED BY <1>1, <1>2, <1>3, FactorInvariant, PTL DEF FactorSpec
=============================================================================
