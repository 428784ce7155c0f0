---------------------------- MODULE RecoveryProofs ---------------------------
(***************************************************************************)
(* Proofs about Recovery: whatever the service and the commands do, the    *)
(* commands accept the database, and restoring an archive revives nothing. *)
(***************************************************************************)
EXTENDS Recovery, AuthProofs

\* The archive holds a row the service wrote, or none.
ArchiveOK ==
  archive = NoArchive \/ archive.admin = NoAdmin \/ RowOK(archive.admin)

RecoveryInv == AuthInv /\ ArchiveOK

\* An empty database without an archive satisfies it.
LEMMA RecoveryInvInit == RecoveryInit => RecoveryInv
  BY AuthInvInit DEF RecoveryInit, RecoveryInv, ArchiveOK

\* The invariant of Auth is all that the commands check.
LEMMA SoundIsValid == AuthInv => ValidDatabase
<1> SUFFICES ASSUME AuthInv PROVE ValidDatabase
  OBVIOUS
<1>1. /\ FactorInv /\ CodesOK /\ RowsTyped /\ RowsCurrent /\ PendingRowsFit /\ RowsBounded
  BY DEF AuthInv, FactorInv, RowsInv, RowsSound
<1>2. CASE admin = NoAdmin
  <2>1. sessions = {} /\ challenges = {} /\ enrollments = {}
    BY <1>1, <1>2 DEF RowsCurrent
  <2>2. recovery_codes = {}
    BY <1>1, <1>2 DEF CodesOK
  <2> QED BY <1>2, <2>1, <2>2 DEF ValidDatabase
<1>3. CASE admin # NoAdmin
  <2>1. FactorStateOK(admin, recovery_codes)
    BY <1>1, <1>3, RowPasses DEF NeverLockedOut
  <2>2. ValidSessions /\ ValidChallenges /\ ValidEnrollments
    BY <1>1 DEF RowsCurrent, RowsBounded, PendingRowsFit,
                ValidSessions, ValidChallenges, ValidEnrollments
  <2> QED BY <1>1, <1>3, <2>1, <2>2 DEF ValidDatabase, PendingRowsFit
<1> QED BY <1>2, <1>3

-----------------------------------------------------------------------------
(* The rows the commands write. *)

\* A row whose failures are forgotten is a row.
LEMMA ForgivenRow ==
  ASSUME NEW a, RowOK(a)
  PROVE  RowOK([a EXCEPT !.factor_failures = {}])
<1> DEFINE b == [a EXCEPT !.factor_failures = {}]
<1>1. /\ b \in Administrator
      /\ b.factor_failures = {}
      /\ b.totp_used_codes = a.totp_used_codes
      /\ b.totp_seed = a.totp_seed
      /\ b.totp_last_step = a.totp_last_step
  BY DEF RowOK, Administrator
<1>2. \A r \in b.totp_used_codes : UsedRecordFits(b, r)
  BY <1>1 DEF RowOK, UsedRecordFits
<1>3. IsFiniteSet({}) /\ Cardinality({}) <= LongLimit
  BY FS_EmptySet, FactorAssumption
<1> HIDE DEF b
<1>4. RowOK(b)
  BY <1>1, <1>2, <1>3 DEF RowOK
<1> QED BY <1>4 DEF b

\* The larger of the archived watermark and the step after this one.
LEMMA RestoredStep ==
  ASSUME NEW a, RowOK(a), a.totp_seed # NoSeed, now \in Nat
  PROVE  /\ Max({a.totp_last_step, Step(now) + 1}) \in {a.totp_last_step, Step(now) + 1}
         /\ a.totp_last_step <= Max({a.totp_last_step, Step(now) + 1})
         /\ Step(now) + 1 <= Max({a.totp_last_step, Step(now) + 1})
         /\ Max({a.totp_last_step, Step(now) + 1}) \in Nat
<1> DEFINE S == {a.totp_last_step, Step(now) + 1}
<1>1. a.totp_last_step \in Nat /\ Step(now) + 1 \in Nat
  BY StepOf DEF RowOK, Administrator
<1>2. S \in SUBSET Int /\ S # {} /\ S \subseteq {a.totp_last_step, Step(now) + 1}
  BY <1>1
<1>3. Max(S) \in S /\ \A n \in S : n <= Max(S)
  BY <1>1, <1>2, LargerOfTwo
<1> QED BY <1>1, <1>3

\* The row restore writes: the archived factor, nothing counted, no code used, and
\* every step up to the next one behind the watermark.
LEMMA RestoredRowOK ==
  ASSUME NEW a, RowOK(a), now \in Nat
  PROVE  /\ RowOK(RestoredRow(a))
         /\ RestoredRow(a).factor_failures = {}
         /\ RestoredRow(a).totp_used_codes = {}
         /\ RestoredRow(a).totp_seed = a.totp_seed
         /\ a.totp_seed # NoSeed =>
              RestoredRow(a).totp_last_step = Max({a.totp_last_step, Step(now) + 1})
<1> DEFINE r == Revoked(a)
           last == IF a.totp_seed = NoSeed THEN -1
                   ELSE Max({a.totp_last_step, Step(now) + 1})
           b == RestoredRow(a)
<1>1. /\ r \in Administrator /\ r.totp_seed = a.totp_seed
      /\ r.totp_last_step = a.totp_last_step
  BY DEF RowOK, Revoked, Administrator
<1>2. b = [r EXCEPT !.factor_failures = {}, !.totp_used_codes = {}, !.totp_last_step = last]
  BY <1>1 DEF RestoredRow
<1>3. /\ last \in Nat \cup {-1}
      /\ a.totp_seed = NoSeed => last = -1
      /\ a.totp_seed # NoSeed => last >= 0
  BY RestoredStep
<1> HIDE DEF r, last, b
<1>4. /\ b \in Administrator
      /\ b.factor_failures = {} /\ b.totp_used_codes = {}
      /\ b.totp_seed = a.totp_seed /\ b.totp_last_step = last
  BY <1>1, <1>2, <1>3 DEF Administrator
<1>5. IsFiniteSet({}) /\ Cardinality({}) <= 5 /\ Cardinality({}) <= LongLimit
  BY FS_EmptySet, FactorAssumption
<1>6. RowOK(b)
  BY <1>3, <1>4, <1>5 DEF RowOK
<1> QED BY <1>4, <1>6 DEF b, last

-----------------------------------------------------------------------------
(* The steps of the commands. *)

\* An empty code table and no record of refusals suit any row.
LEMMA ClearedInv ==
  ASSUME FactorInv, admin' = NoAdmin \/ RowOK(admin'), recovery_codes' = {},
         wrong' = {}, spent' = spent, now' = now
  PROVE  FactorInv'
<1>1. CodesOK'
  BY FS_EmptySet, FactorAssumption DEF CodesOK
<1>2. AuxiliaryOK'
  BY FS_EmptySet DEF FactorInv, AuxiliaryOK
<1> QED BY <1>1, <1>2 DEF FactorInv

\* restore keeps the invariant of the second factor.
LEMMA RestoreInv ==
  ASSUME RecoveryInv, RestoreArchive
  PROVE  AuthInv'
<1>1. FactorInv /\ now \in Nat /\ session_ttl \in SessionTTLs
  BY DEF RecoveryInv, AuthInv, FactorInv, RowsInv, RowsTyped
<1>2. admin' = NoAdmin \/ RowOK(admin')
  BY <1>1, RestoredRowOK DEF RecoveryInv, ArchiveOK, RestoreArchive
<1>3. FactorInv'
  BY <1>1, <1>2, ClearedInv DEF RestoreArchive
<1>4. RowsInv'
  BY <1>1, NoRowsLeft DEF RestoreArchive, RevokeRows
<1> QED BY <1>3, <1>4 DEF AuthInv

\* reset-password: the factor and its codes stay as they are.
LEMMA ResetPasswordInv ==
  ASSUME RecoveryInv, NEW q \in Password, ResetPassword(q)
  PROVE  /\ AuthInv'
         /\ admin'.totp_seed = admin.totp_seed
         /\ admin'.totp_last_step = admin.totp_last_step
<1> DEFINE r == [admin EXCEPT !.password = q]
<1>1. /\ FactorInv /\ now \in Nat /\ session_ttl \in SessionTTLs
      /\ RowOK(admin) /\ admin # NoAdmin
      /\ admin' = Revoked(r)
      /\ UNCHANGED <<recovery_codes, now, spent, wrong, session_ttl>>
  BY DEF RecoveryInv, AuthInv, FactorInv, RowsInv, RowsTyped, ResetPassword
<1>2. /\ RowOK(r) /\ r \in Administrator
      /\ r.totp_seed = admin.totp_seed /\ r.totp_last_step = admin.totp_last_step
  BY <1>1, RotatedRow DEF RowOK, Administrator
<1> HIDE DEF r
<1>3. /\ RowOK(admin')
      /\ admin'.totp_seed = r.totp_seed /\ admin'.totp_last_step = r.totp_last_step
  BY <1>1, <1>2, RotatedRow DEF Revoked, Administrator
<1>4. CodesOK' /\ AuxiliaryOK' /\ now' \in Nat
  BY <1>1, <1>2, <1>3, RowIsThere DEF FactorInv, CodesOK, AuxiliaryOK
<1>5. RowsInv'
  BY <1>1, NoRowsLeft DEF ResetPassword, RevokeRows
<1> QED BY <1>2, <1>3, <1>4, <1>5 DEF AuthInv, FactorInv

\* reset-2fa: the row of an administrator without a factor.
LEMMA ResetTwoFactorInv ==
  ASSUME RecoveryInv, ResetTwoFactor
  PROVE  AuthInv' /\ admin'.totp_seed = NoSeed
<1> DEFINE r == WithoutFactor(admin)
           s == Revoked(r)
<1>1. /\ FactorInv /\ now \in Nat /\ session_ttl \in SessionTTLs /\ RowOK(admin)
      /\ admin' = [s EXCEPT !.factor_failures = {}]
  BY DEF RecoveryInv, AuthInv, FactorInv, RowsInv, RowsTyped, ResetTwoFactor
<1>2. RowOK(r) /\ r.totp_seed = NoSeed /\ r \in Administrator
  BY <1>1, WithoutFactorRow DEF RowOK
<1> HIDE DEF r
<1>3. RowOK(s) /\ s.totp_seed = NoSeed /\ s \in Administrator
  BY <1>2, RotatedRow DEF Revoked, Administrator
<1> HIDE DEF s
<1>4. RowOK(admin') /\ admin'.totp_seed = NoSeed
  BY <1>1, <1>3, ForgivenRow DEF Administrator
<1>5. FactorInv'
  BY <1>1, <1>4, ClearedInv DEF ResetTwoFactor
<1>6. RowsInv'
  BY <1>1, NoRowsLeft DEF ResetTwoFactor, RevokeRows
<1> QED BY <1>4, <1>5, <1>6 DEF AuthInv

\* Every step of the service and the commands keeps the invariant.
LEMMA RecoveryInvNext == RecoveryInv /\ [RecoveryNext]_recoveryVars => RecoveryInv'
<1> SUFFICES ASSUME RecoveryInv, [RecoveryNext]_recoveryVars PROVE RecoveryInv'
  OBVIOUS
<1>1. CASE Next /\ UNCHANGED archive
  BY <1>1, AuthInvNext DEF RecoveryInv, ArchiveOK
<1>2. CASE Backup
  <2>1. AuthInv'
    BY <1>2, AuthInvNext DEF RecoveryInv, Backup
  <2>2. archive'.admin = admin
    BY <1>2 DEF Backup
  <2>3. admin = NoAdmin \/ RowOK(admin)
    BY DEF RecoveryInv, AuthInv, FactorInv
  <2> QED BY <2>1, <2>2, <2>3 DEF RecoveryInv, ArchiveOK
<1>3. CASE RestoreArchive
  BY <1>3, RestoreInv DEF RestoreArchive, RecoveryInv, ArchiveOK
<1>4. ASSUME NEW q \in Password, ResetPassword(q) PROVE RecoveryInv'
  BY <1>4, ResetPasswordInv DEF ResetPassword, RecoveryInv, ArchiveOK
<1>5. CASE ResetTwoFactor
  BY <1>5, ResetTwoFactorInv DEF ResetTwoFactor, RecoveryInv, ArchiveOK
<1>6. CASE UNCHANGED recoveryVars
  BY <1>6, AuthInvNext DEF recoveryVars, RecoveryInv, ArchiveOK
<1> QED BY <1>1, <1>2, <1>3, <1>4, <1>5, <1>6 DEF RecoveryNext

\* Every reachable state satisfies it.
THEOREM RecoveryInvariant == RecoverySpec => []RecoveryInv
  BY RecoveryInvInit, RecoveryInvNext, PTL DEF RecoverySpec

\* Whatever requests, restarts, clock movements and commands came before, the next
\* backup or reset accepts the database: an administrator is never left with a
\* database that none of the commands will touch.
THEOREM RecoveryAlwaysPossible == RecoverySpec => []AlwaysRecoverable
<1>1. RecoveryInv => AlwaysRecoverable
  BY SoundIsValid DEF RecoveryInv, AlwaysRecoverable
<1> QED BY <1>1, RecoveryInvariant, PTL

-----------------------------------------------------------------------------
(* Replay across a restore. *)

\* No step was spent ahead of the next one.
NoneAhead == \A p \in spent.totp : p.match <= Step(now) + 1

\* Accepting a proof spends a step no later than the next one.
LEMMA AcceptedNotAhead ==
  ASSUME FactorInv, NoneAhead, admin # NoAdmin, NEW proof \in Proof, NEW enrolling,
         ProofAccepted(proof, enrolling), now' = now
  PROVE  NoneAhead'
<1>1. /\ now \in Nat
      /\ spent \in [totp : SUBSET SpentTotp, recovery : SUBSET RecoveryCode]
  BY DEF FactorInv, AuxiliaryOK
<1>2. CASE proof.method = "totp"
  <2> DEFINE seed == FactorSeed(admin, enrolling)
             L == Max(Matches(seed, proof.code, now))
             new == [seed |-> seed, code |-> proof.code, step |-> Step(now), match |-> L]
  <2>1. TotpValid(admin, seed, proof.code, now)
    BY <1>2 DEF ProofAccepted, ProofValid
  <2>2. L <= Step(now) + 1
    BY <1>1, <2>1, LatestMatch DEF TotpValid
  <2>3. spent'.totp = spent.totp \cup {new} /\ new.match = L
    BY <1>1, <1>2 DEF ProofAccepted
  <2>4. Step(now)' = Step(now)
    BY DEF Step
  <2> HIDE DEF new, L, seed
  <2> QED BY <2>2, <2>3, <2>4 DEF NoneAhead
<1>3. CASE proof.method # "totp"
  <2>1. spent'.totp = spent.totp
    BY <1>1, <1>3 DEF ProofAccepted
  <2> QED BY <2>1 DEF NoneAhead, Step
<1> QED BY <1>2, <1>3

\* Nor does any other step, as long as the clock does not run backwards.
LEMMA NoneAheadNext ==
  ASSUME ClockAdvances, FactorInv, NoneAhead, [FactorNext]_factorVars
  PROVE  NoneAhead'
<1>0. now \in Nat /\ \A p \in spent.totp : p.match \in Nat
  BY DEF FactorInv, AuxiliaryOK, SpentTotp
<1>k. ASSUME spent' = spent, now' = now PROVE NoneAhead'
  BY <1>k DEF NoneAhead, Step
<1>1. ASSUME NEW p, SetUp(p) PROVE NoneAhead'
  BY <1>1, <1>k DEF SetUp
<1>2. ASSUME NEW seed, NEW proof \in TotpProof, TurnOn(seed, proof) PROVE NoneAhead'
  BY <1>2, AcceptedNotAhead DEF TurnOn, Proof
<1>3. ASSUME NEW proof \in Proof, UseProof(proof) PROVE NoneAhead'
  BY <1>3, AcceptedNotAhead DEF UseProof, SignIn, NewPassword, TurnOff, DrawCodes
<1>4. ASSUME NEW proof, NEW enrolling, Refuse(proof, enrolling) PROVE NoneAhead'
  BY <1>4, <1>k DEF Refuse, ProofRejected
<1>5. ASSUME NEW q, NewPasswordAlone(q) PROVE NoneAhead'
  BY <1>5, <1>k DEF NewPasswordAlone
<1>6. CASE ClockMoves
  <2>1. spent' = spent /\ now' \in Nat /\ now <= now'
    BY <1>0, <1>6 DEF ClockMoves, ClockAdvances
  <2>2. Step(now) <= Step(now') /\ Step(now) \in Nat /\ Step(now') \in Nat
    BY <1>0, <2>1, StepsAdvance, StepOf
  <2>3. Step(now)' = Step(now')
    BY DEF Step
  <2> HIDE DEF Step
  <2>4. \A p \in spent.totp : p.match <= Step(now') + 1
    BY <1>0, <2>2 DEF NoneAhead
  <2> QED BY <2>1, <2>3, <2>4 DEF NoneAhead
<1>7. CASE UNCHANGED factorVars
  BY <1>7, <1>k DEF factorVars
<1> QED BY <1>1, <1>2, <1>3, <1>4, <1>5, <1>6, <1>7 DEF FactorNext

\* Restoring puts the watermark past every spent step.
LEMMA RestoreNeverTwice ==
  ASSUME RecoveryInv, NeverTwice, NoneAhead, RestoreArchive
  PROVE  NeverTwice'
<1>1. FactorInv' /\ now \in Nat /\ \A p \in spent.totp : p.match \in Nat
  BY RestoreInv DEF RecoveryInv, AuthInv, FactorInv, AuxiliaryOK, SpentTotp
<1>2. spent' = spent /\ recovery_codes' = {}
  BY DEF RestoreArchive
<1>3. CASE archive.admin = NoAdmin \/ archive.admin.totp_seed = NoSeed
  <2>1. admin' = NoAdmin \/ admin'.totp_seed = NoSeed
    BY <1>1, <1>3, RestoredRowOK DEF RestoreArchive, RecoveryInv, ArchiveOK
  <2> QED BY <1>1, <1>2, <2>1, NothingToSpend DEF NeverTwice
<1>4. CASE archive.admin # NoAdmin /\ archive.admin.totp_seed # NoSeed
  <2>1. RowOK(archive.admin) /\ admin' = RestoredRow(archive.admin)
    BY <1>4 DEF RestoreArchive, RecoveryInv, ArchiveOK
  <2>2. /\ admin'.totp_last_step \in Nat
        /\ Step(now) \in Nat /\ Step(now) + 1 <= admin'.totp_last_step
    <3>1. admin'.totp_last_step = Max({archive.admin.totp_last_step, Step(now) + 1})
      BY <1>1, <1>4, <2>1, RestoredRowOK
    <3>2. /\ Max({archive.admin.totp_last_step, Step(now) + 1}) \in Nat
          /\ Step(now) + 1 <= Max({archive.admin.totp_last_step, Step(now) + 1})
      BY <1>1, <1>4, <2>1, RestoredStep
    <3> QED BY <1>1, <3>1, <3>2, StepOf
  <2>3. \A p \in spent.totp : p.match <= admin'.totp_last_step
    BY <1>1, <2>2 DEF NoneAhead
  <2> QED BY <1>2, <2>3 DEF NeverTwice
<1> QED BY <1>3, <1>4

\* Every step of the service and the commands.
LEMMA ReplayNext ==
  ASSUME ClockAdvances, RecoveryInv, NeverTwice, NoneAhead, [RecoveryNext]_recoveryVars
  PROVE  NeverTwice' /\ NoneAhead'
<1>0. AuthInv /\ FactorInv /\ SeedsUnspent /\ RecoveryInv'
  BY RecoveryInvNext DEF RecoveryInv, AuthInv, RowsInv
<1>k. ASSUME spent' = spent, now' = now PROVE NoneAhead'
  BY <1>k DEF NoneAhead, Step
<1>1. ASSUME [Next]_vars PROVE NeverTwice' /\ NoneAhead'
  BY <1>0, <1>1, FactorStep, NeverTwiceNext, NoneAheadNext
<1>2. CASE RestoreArchive
  BY <1>2, <1>k, RestoreNeverTwice DEF RestoreArchive
<1>3. ASSUME NEW q \in Password, ResetPassword(q) PROVE NeverTwice' /\ NoneAhead'
  <2>1. /\ admin # NoAdmin /\ spent' = spent /\ now' = now
        /\ recovery_codes' = recovery_codes
    BY <1>3 DEF ResetPassword
  <2> QED BY <1>3, <1>k, <2>1, ResetPasswordInv DEF NeverTwice
<1>4. CASE ResetTwoFactor
  <2>1. spent' = spent /\ now' = now /\ recovery_codes' = {} /\ admin'.totp_seed = NoSeed
    BY <1>4, ResetTwoFactorInv DEF ResetTwoFactor
  <2>2. FactorInv'
    BY <1>0 DEF RecoveryInv, AuthInv
  <2> QED BY <1>k, <2>1, <2>2, NothingToSpend DEF NeverTwice
<1>5. CASE Backup \/ UNCHANGED recoveryVars
  BY <1>1, <1>5 DEF Backup, recoveryVars
<1> QED BY <1>1, <1>2, <1>3, <1>4, <1>5 DEF RecoveryNext

\* As long as the clock does not run backwards, no archive of any age brings back a
\* recovery code that was used or a step of a seed that proved the factor.
THEOREM RecoveryRevivesNoProof ==
  ASSUME ClockAdvances
  PROVE  RecoverySpec => []RestoreRevivesNoProof
<1>1. RecoveryInit => NeverTwice /\ NoneAhead
  BY DEF RecoveryInit, Init, FactorInit, NeverTwice, NoneAhead
<1>2. RecoveryInv /\ NeverTwice /\ NoneAhead /\ [RecoveryNext]_recoveryVars
        => NeverTwice' /\ NoneAhead'
  BY ReplayNext
<1>3. NeverTwice => RestoreRevivesNoProof
  BY DEF NeverTwice, RestoreRevivesNoProof
<1> QED BY <1>1, <1>2, <1>3, RecoveryInvariant, PTL DEF RecoverySpec

-----------------------------------------------------------------------------
(* The way back in after a restore. *)

\* A step whose first second has come has begun.
LEMMA StepReached ==
  ASSUME NEW t \in Nat, NEW s \in Int, s * Period <= t
  PROVE  s <= Step(t)
<1>1. Step(t) \in Nat /\ t < (Step(t) + 1) * Period
  BY StepOf
<1>2. Period \in Nat /\ Period > 0
  BY FactorAssumption
<1>3. ASSUME Step(t) + 1 <= s PROVE FALSE
  <2>1. (Step(t) + 1) * Period <= s * Period
    BY <1>1, <1>2, <1>3
  <2>2. (Step(t) + 1) * Period \in Int /\ s * Period \in Int
    BY <1>1, <1>2
  <2> QED BY <1>1, <2>1, <2>2
<1> QED BY <1>1, <1>3

\* The code of the current step is taken for that step or the next, never for an
\* earlier one.
LEMMA CurrentCode ==
  ASSUME NEW t \in Nat, NEW seed
  PROVE  /\ Matches(seed, CodeAt(seed, Step(t)), t) # {}
         /\ Max(Matches(seed, CodeAt(seed, Step(t)), t)) \in Nat
         /\ Step(t) <= Max(Matches(seed, CodeAt(seed, Step(t)), t))
<1> DEFINE M == Matches(seed, CodeAt(seed, Step(t)), t)
<1>1. Step(t) \in Nat
  BY StepOf
<1>2. Step(t) \in M /\ M \subseteq {Step(t) - 1, Step(t), Step(t) + 1} /\ M \subseteq Nat
  BY <1>1 DEF Matches
<1> HIDE DEF M
<1>3. \E m \in M : \A n \in M : m >= n
  <2>1. CASE Step(t) + 1 \in M
    BY <1>1, <1>2, <2>1
  <2>2. CASE Step(t) + 1 \notin M
    BY <1>1, <1>2, <2>2
  <2> QED BY <2>1, <2>2
<1>4. Max(M) \in M /\ \A n \in M : Max(M) >= n
  BY <1>3 DEF Max
<1>5. M # {} /\ Max(M) \in Nat /\ Step(t) <= Max(M)
  BY <1>1, <1>2, <1>4
<1> QED BY <1>5 DEF M

\* A row with nothing counted against it, no code used and the watermark behind the
\* current step accepts the code of that step.
LEMMA OpenRow ==
  ASSUME NEW a, RowOK(a), a.factor_failures = {}, a.totp_used_codes = {},
         NEW t \in Nat, a.totp_last_step < Step(t)
  PROVE  OpensFrom(a, t)
<1>1. KeptFailures(a, t) = {} /\ RecentFailures(a, t) = {}
  BY DEF KeptFailures, RecentFailures
<1>2. Cardinality({}) = 0
  BY FS_EmptySet
<1>3. ShortWait(a, t) = {} /\ LongWait(a, t) = {}
  BY <1>1, <1>2, FactorAssumption DEF ShortWait, LongWait
<1>4. ~Throttled(a, t)
  BY <1>3 DEF Throttled, Waits
<1> DEFINE M == Matches(a.totp_seed, CodeAt(a.totp_seed, Step(t)), t)
<1>5. M # {} /\ Max(M) \in Nat /\ Step(t) <= Max(M)
  BY CurrentCode
<1>6. Step(t) \in Nat /\ a.totp_last_step \in Int
  BY StepOf DEF RowOK, Administrator
<1>7. Max(M) > a.totp_last_step
  <2> HIDE DEF M
  <2> QED BY <1>5, <1>6
<1>8. ActiveUsed(a, t) = {}
  BY DEF ActiveUsed
<1> QED BY <1>4, <1>5, <1>7, <1>8 DEF OpensFrom, TotpValid

\* Two steps later, or once the clock has passed the archived watermark, the
\* authenticator signs in on the row restore wrote.
LEMMA RestoredRowOpens ==
  ASSUME NEW a, RowOK(a), a.totp_seed # NoSeed, now \in Nat
  PROVE  OpensFrom(RestoredRow(a), Max({now + 2 * Period, (a.totp_last_step + 1) * Period}))
<1> DEFINE x == now + 2 * Period
           y == (a.totp_last_step + 1) * Period
           S == {x, y}
<1>1. /\ Period \in Nat /\ a.totp_last_step \in Nat
      /\ Step(now) \in Nat /\ Step(now) * Period <= now
  BY FactorAssumption, StepOf DEF RowOK, Administrator
<1>2. x \in Nat /\ y \in Nat
  BY <1>1
<1>3. (Step(now) + 2) * Period <= x
  BY <1>1
<1>4. Max(S) \in S /\ \A n \in S : n <= Max(S)
  <2> HIDE DEF x, y
  <2>1. S \in SUBSET Int /\ S # {} /\ S \subseteq {x, y}
    BY <1>2
  <2> QED BY <1>2, <2>1, LargerOfTwo
<1>5. Max(S) \in Nat /\ x <= Max(S) /\ y <= Max(S)
  BY <1>2, <1>4
<1>6. Step(now) + 2 <= Step(Max(S))
  <2>1. (Step(now) + 2) * Period \in Int /\ Step(now) + 2 \in Int
    BY <1>1
  <2>2. (Step(now) + 2) * Period <= Max(S)
    <3> HIDE DEF x, S
    <3> QED BY <1>2, <1>3, <1>5, <2>1
  <2> QED BY <1>5, <2>1, <2>2, StepReached
<1>7. a.totp_last_step + 1 <= Step(Max(S))
  BY <1>1, <1>5, StepReached
<1>8. /\ RowOK(RestoredRow(a))
      /\ RestoredRow(a).factor_failures = {} /\ RestoredRow(a).totp_used_codes = {}
      /\ RestoredRow(a).totp_last_step = Max({a.totp_last_step, Step(now) + 1})
  BY RestoredRowOK
<1>9. RestoredRow(a).totp_last_step \in {a.totp_last_step, Step(now) + 1}
  BY <1>8, RestoredStep
<1>10. Step(Max(S)) \in Nat
  BY <1>5, StepOf
<1> HIDE DEF S
<1>11. RestoredRow(a).totp_last_step < Step(Max(S))
  BY <1>1, <1>6, <1>7, <1>9, <1>10
<1>12. OpensFrom(RestoredRow(a), Max(S))
  BY <1>5, <1>8, <1>11, OpenRow
<1> QED BY <1>12 DEF S

\* The promise of the command line: after a restore, the authenticator of the archived
\* factor signs in two steps later or once the clock has passed the archived watermark.
THEOREM RecoveryRestoreReopens == RecoverySpec => RestoreReopens
<1> DEFINE T == Max({now + 2 * Period, (archive.admin.totp_last_step + 1) * Period})
<1>1. RecoveryInv /\ [RecoveryNext]_recoveryVars
        => [RestoreArchive /\ archive.admin # NoAdmin /\ archive.admin.totp_seed # NoSeed
              => OpensFrom(admin', T)]_recoveryVars
  <2> SUFFICES ASSUME RecoveryInv, RestoreArchive, archive.admin # NoAdmin,
                      archive.admin.totp_seed # NoSeed
               PROVE  OpensFrom(admin', T)
    OBVIOUS
  <2>1. RowOK(archive.admin) /\ admin' = RestoredRow(archive.admin)
    BY DEF RestoreArchive, RecoveryInv, ArchiveOK
  <2>2. now \in Nat
    BY DEF RecoveryInv, AuthInv, FactorInv, AuxiliaryOK
  <2> QED BY <2>1, <2>2, RestoredRowOpens
<1> QED BY <1>1, RecoveryInvariant, PTL DEF RecoverySpec, RestoreReopens
=============================================================================
