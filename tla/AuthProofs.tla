------------------------------ MODULE AuthProofs -----------------------------
(***************************************************************************)
(* Proofs about Auth: it implements the second factor, and the rows that   *)
(* grant something stay sound.                                             *)
(***************************************************************************)
EXTENDS Auth, SecondFactorProofs

-----------------------------------------------------------------------------
(* The inductive invariant. *)

RowsTyped ==
  /\ sessions \in SUBSET LoginSession /\ IsFiniteSet(sessions)
  /\ challenges \in SUBSET LoginChallenge /\ IsFiniteSet(challenges)
  /\ enrollments \in SUBSET FactorEnrollment /\ IsFiniteSet(enrollments)
  /\ session_ttl \in SessionTTLs

\* An enrolled seed has never proved anything.
SeedsUnspent == \A e \in enrollments : e.seed \in UnspentSeeds

RowsInv == RowsTyped /\ RowsSound /\ SeedsUnspent

AuthInv == FactorInv /\ RowsInv

\* An empty database satisfies it.
LEMMA AuthInvInit == Init => AuthInv
<1> SUFFICES ASSUME Init PROVE AuthInv
  OBVIOUS
<1>1. FactorInv
  BY FactorInvInit DEF Init
<1>2. RowsTyped /\ SeedsUnspent /\ RowsCurrent /\ PendingRowsFit
  BY FS_EmptySet DEF Init, RowsTyped, SeedsUnspent, RowsCurrent, PendingRowsFit
<1>3. RowsBounded
  BY FS_EmptySet, AuthAssumption DEF Init, RowsBounded
<1> QED BY <1>1, <1>2, <1>3 DEF AuthInv, RowsInv, RowsSound

-----------------------------------------------------------------------------
(* Every handler is a step of the second factor. *)

\* What an accepted proof leaves of the row it is not about.
LEMMA AcceptedFields ==
  ASSUME NEW a \in Administrator, NEW proof, NEW enrolling, NEW t
  PROVE  /\ Accepted(a, proof, enrolling, t).auth_version = a.auth_version
         /\ Accepted(a, proof, enrolling, t).password = a.password
         /\ Accepted(a, proof, enrolling, t).totp_seed = a.totp_seed
         /\ DOMAIN Accepted(a, proof, enrolling, t) = DOMAIN a
<1>1. CASE proof.method = "totp"
  BY <1>1 DEF Accepted, Administrator
<1>2. CASE proof.method # "totp"
  BY <1>2 DEF Accepted, Administrator
<1> QED BY <1>1, <1>2

\* What a refused one leaves.
LEMMA RejectedFields ==
  ASSUME NEW a \in Administrator, NEW t
  PROVE  /\ Rejected(a, t).auth_version = a.auth_version
         /\ Rejected(a, t).password = a.password
         /\ Rejected(a, t).totp_seed = a.totp_seed
  BY DEF Rejected, Administrator

\* The handlers of auth.py.
LEMMA SessionRequestFactorStep ==
  ASSUME SessionRequest
  PROVE  [FactorNext]_factorVars
<1>1. ASSUME NEW p \in Password, CreateAdministrator(p) PROVE SetUp(p)
  BY <1>1 DEF CreateAdministrator, SetUp
<1>2. ASSUME NEW p \in Password, LoginPassword(p) PROVE UNCHANGED factorVars
  BY <1>2 DEF LoginPassword
<1>3. ASSUME NEW p, NEW c, NEW h, LoginChallenged(p, c, h) PROVE UNCHANGED factorVars
  BY <1>3 DEF LoginChallenged
<1>4. ASSUME NEW c, NEW h, Logout(c, h) PROVE UNCHANGED factorVars
  BY <1>4 DEF Logout
<1>5. ASSUME NEW c, NEW p, NEW q \in Password, NEW proof \in Proof,
             ChangePassword(c, p, q, proof)
      PROVE  NewPasswordAlone(q) \/ UseProof(proof)
  <2>1. /\ admin # NoAdmin /\ admin.auth_version < MaxVersion /\ now' = now
    BY <1>5 DEF ChangePassword, Reauthenticated, FoundSession
  <2>2. CASE admin.totp_seed = NoSeed
    BY <1>5, <2>1, <2>2 DEF ChangePassword, NewPasswordAlone
  <2>3. CASE admin.totp_seed # NoSeed
    BY <1>5, <2>1, <2>3 DEF ChangePassword, UseProof, NewPassword
  <2> QED BY <2>2, <2>3
<1>6. ASSUME NEW h, Cancel(h) PROVE UNCHANGED factorVars
  BY <1>6 DEF Cancel
<1> QED BY <1>1, <1>2, <1>3, <1>4, <1>5, <1>6 DEF SessionRequest, FactorNext

\* The handlers of twofactor_routes.py.
LEMMA FactorRequestFactorStep ==
  ASSUME SeedsUnspent, FactorRequest
  PROVE  [FactorNext]_factorVars
<1>1. ASSUME NEW x, NEW proof, VerifyAccepted(x, proof) PROVE UseProof(proof)
  BY <1>1 DEF VerifyAccepted, UseProof, SignIn
<1>2. ASSUME NEW x, NEW proof, VerifyRejected(x, proof) PROVE Refuse(proof, NoSeed)
  BY <1>2 DEF VerifyRejected, Refuse
<1>3. ASSUME NEW c, NEW p, Enroll(c, p) PROVE UNCHANGED factorVars
  BY <1>3 DEF Enroll
<1>4. ASSUME NEW c, NEW p, NEW e \in enrollments, NEW proof, ConfirmAccepted(c, p, e, proof)
      PROVE  e.seed \in UnspentSeeds /\ TurnOn(e.seed, proof)
  BY <1>4 DEF SeedsUnspent, ConfirmAccepted, Reauthenticated, FoundSession, TurnOn
<1>5. ASSUME NEW c, NEW p, NEW e \in enrollments, NEW proof, ConfirmRejected(c, p, e, proof)
      PROVE  e.seed \in UnspentSeeds /\ Refuse(proof, e.seed)
  <2>1. e.seed \in UnspentSeeds /\ e.seed # NoSeed
    BY FactorAssumption DEF SeedsUnspent, UnspentSeeds
  <2> QED BY <1>5, <2>1 DEF ConfirmRejected, Reauthenticated, FoundSession, Refuse
<1>6. ASSUME NEW c, NEW p, NEW proof, Disable(c, p, proof) PROVE UseProof(proof)
  BY <1>6 DEF Disable, Reauthenticated, FoundSession, UseProof, TurnOff
<1>7. ASSUME NEW c, NEW p, NEW proof, Regenerate(c, p, proof) PROVE UseProof(proof)
  BY <1>7 DEF Regenerate, Reauthenticated, FoundSession, UseProof, DrawCodes
<1>8. ASSUME NEW c, NEW p, NEW proof, ManagementRejected(c, p, proof)
      PROVE  Refuse(proof, NoSeed)
  BY <1>8 DEF ManagementRejected, Reauthenticated, FoundSession, Refuse
<1> QED BY <1>1, <1>2, <1>3, <1>4, <1>5, <1>6, <1>7, <1>8 DEF FactorRequest, FactorNext

\* So is every step of Auth.
LEMMA FactorStep ==
  ASSUME SeedsUnspent, [Next]_vars
  PROVE  [FactorNext]_factorVars
<1>1. CASE Tick
  BY <1>1 DEF Tick, FactorNext
<1>2. CASE Restart
  BY <1>2 DEF Restart
<1>3. CASE UNCHANGED vars
  BY <1>3 DEF vars
<1> QED BY <1>1, <1>2, <1>3, SessionRequestFactorStep, FactorRequestFactorStep DEF Next

-----------------------------------------------------------------------------
(* The rows. *)

\* The newest rows are rows of the table, and not too many.
LEMMA NewestRows ==
  ASSUME NEW table, IsFiniteSet(table), NEW n \in Nat, NEW K \in Newest(table, n)
  PROVE  /\ K \in SUBSET table /\ IsFiniteSet(K)
         /\ Cardinality(K) \in Nat /\ Cardinality(K) <= n
<1>1. K \in SUBSET table
  BY DEF Newest
<1>2. IsFiniteSet(K) /\ Cardinality(K) \in Nat /\ Cardinality(table) \in Nat
  BY <1>1, FS_Subset, FS_CardinalityType
<1>3. Cardinality(K) = IF Cardinality(table) < n THEN Cardinality(table) ELSE n
  BY DEF Newest
<1> QED BY <1>1, <1>2, <1>3

\* A table that lost a row to make room takes one more.
LEMMA OneMoreRow ==
  ASSUME NEW K, IsFiniteSet(K), NEW n \in Nat \ {0}, Cardinality(K) <= n - 1, NEW r
  PROVE  IsFiniteSet(K \cup {r}) /\ Cardinality(K \cup {r}) <= n
<1>1. Cardinality(K) \in Nat
  BY FS_CardinalityType
<1>2. /\ IsFiniteSet(K \cup {r})
      /\ \/ Cardinality(K \cup {r}) = Cardinality(K)
         \/ Cardinality(K \cup {r}) = Cardinality(K) + 1
  BY FS_AddElement
<1> QED BY <1>1, <1>2

\* create_session(): one row more, within the limit, and no enrollment without
\* its session.
LEMMA CreatedSession ==
  ASSUME now \in Nat, session_ttl \in SessionTTLs,
         NEW table \in SUBSET LoginSession, IsFiniteSet(table),
         NEW pending, NEW version \in Nat,
         CreateSession(table, pending, version)
  PROVE  /\ sessions' \in SUBSET LoginSession /\ IsFiniteSet(sessions')
         /\ Cardinality(sessions') <= MaxSessions
         /\ \A s \in sessions' : s \in table \/ s.auth_version = version
         /\ enrollments' \in SUBSET pending
         /\ \A e \in enrollments' : \E s \in sessions' : s.token = e.session
<1>1. PICK kept \in KeptSessions(table), t \in FreshTokens :
        /\ sessions' = kept \cup {[token |-> t, expires_at |-> now + session_ttl,
                                   auth_version |-> version]}
        /\ enrollments' = KeptEnrollments(pending, kept)
  BY DEF CreateSession
<1> DEFINE new == [token |-> t, expires_at |-> now + session_ttl, auth_version |-> version]
<1>2. Live(table) \in SUBSET table
  BY DEF Live
<1>3. IsFiniteSet(Live(table))
  BY <1>2, FS_Subset
<1>4. MaxSessions - 1 \in Nat /\ MaxSessions \in Nat \ {0}
  BY AuthAssumption
<1>5. kept \in SUBSET Live(table) /\ IsFiniteSet(kept) /\ Cardinality(kept) <= MaxSessions - 1
  BY <1>3, <1>4, NewestRows DEF KeptSessions
<1>6. new \in LoginSession
  <2>1. now + session_ttl \in Nat /\ t \in Token
    BY AuthAssumption DEF FreshTokens
  <2> QED BY <2>1 DEF LoginSession
<1>7. new.auth_version = version
  OBVIOUS
<1> HIDE DEF new
<1>8. IsFiniteSet(kept \cup {new}) /\ Cardinality(kept \cup {new}) <= MaxSessions
  BY <1>4, <1>5, OneMoreRow
<1>9. sessions' = kept \cup {new}
  BY <1>1 DEF new
<1>10. /\ enrollments' \in SUBSET pending
       /\ \A e \in enrollments' : \E s \in kept : s.token = e.session
  BY <1>1 DEF KeptEnrollments, Live
<1>11. /\ sessions' \in SUBSET LoginSession
       /\ \A s \in sessions' : s \in table \/ s.auth_version = version
  BY <1>2, <1>5, <1>6, <1>7, <1>9
<1>12. \A e \in enrollments' : \E s \in sessions' : s.token = e.session
  BY <1>9, <1>10
<1> QED BY <1>8, <1>9, <1>10, <1>11, <1>12

\* No row is a sound table.
LEMMA NoRowsLeft ==
  ASSUME sessions' = {}, challenges' = {}, enrollments' = {}, session_ttl' \in SessionTTLs
  PROVE  RowsInv'
<1>1. IsFiniteSet({}) /\ Cardinality({}) = 0
  BY FS_EmptySet
<1>2. RowsTyped' /\ SeedsUnspent' /\ RowsCurrent' /\ PendingRowsFit'
  BY <1>1 DEF RowsTyped, SeedsUnspent, RowsCurrent, PendingRowsFit
<1>3. RowsBounded'
  BY <1>1, AuthAssumption DEF RowsBounded
<1> QED BY <1>2, <1>3 DEF RowsInv, RowsSound

\* Neither is the one session created under new credentials unsound.
LEMMA OneSessionLeft ==
  ASSUME now \in Nat, session_ttl \in SessionTTLs, session_ttl' = session_ttl,
         admin' # NoAdmin, admin'.auth_version \in Nat,
         CreateSession({}, {}, admin'.auth_version), challenges' = {}
  PROVE  RowsInv'
<1>1. IsFiniteSet({}) /\ Cardinality({}) = 0
  BY FS_EmptySet
<1>2. /\ sessions' \in SUBSET LoginSession /\ IsFiniteSet(sessions')
      /\ Cardinality(sessions') <= MaxSessions
      /\ \A s \in sessions' : s \in {} \/ s.auth_version = admin'.auth_version
      /\ enrollments' \in SUBSET {}
  <2>1. {} \in SUBSET LoginSession
    OBVIOUS
  <2> QED BY <1>1, <2>1, CreatedSession
<1>3. enrollments' = {}
  BY <1>2
<1>4. RowsTyped' /\ SeedsUnspent' /\ RowsCurrent' /\ PendingRowsFit'
  BY <1>1, <1>2, <1>3 DEF RowsTyped, SeedsUnspent, RowsCurrent, PendingRowsFit
<1>5. RowsBounded'
  BY <1>1, <1>2, <1>3, AuthAssumption DEF RowsBounded
<1> QED BY <1>4, <1>5 DEF RowsInv, RowsSound

\* The credentials a row refers to are those of before.
CredentialsKept ==
  admin # NoAdmin =>
    /\ admin' # NoAdmin
    /\ admin'.auth_version = admin.auth_version
    /\ admin'.totp_seed = admin.totp_seed

\* Deleting rows, with the enrollments of every session deleted, keeps them sound.
LEMMA FewerRows ==
  ASSUME RowsInv, CredentialsKept, spent' = spent, session_ttl' \in SessionTTLs,
         sessions' \in SUBSET sessions, challenges' \in SUBSET challenges,
         enrollments' \in SUBSET enrollments,
         \A e \in enrollments' : \E s \in sessions' : s.token = e.session
  PROVE  RowsInv'
<1>1. RowsTyped /\ RowsCurrent /\ PendingRowsFit /\ RowsBounded /\ SeedsUnspent
  BY DEF RowsInv, RowsSound
<1>2. /\ IsFiniteSet(sessions') /\ Cardinality(sessions') <= Cardinality(sessions)
      /\ IsFiniteSet(challenges') /\ Cardinality(challenges') <= Cardinality(challenges)
      /\ IsFiniteSet(enrollments') /\ Cardinality(enrollments') <= Cardinality(enrollments)
  BY <1>1, FS_Subset DEF RowsTyped
<1>3. /\ Cardinality(sessions) \in Nat /\ Cardinality(sessions') \in Nat
      /\ Cardinality(challenges) \in Nat /\ Cardinality(challenges') \in Nat
      /\ Cardinality(enrollments) \in Nat /\ Cardinality(enrollments') \in Nat
  BY <1>1, <1>2, FS_CardinalityType DEF RowsTyped
<1>4. RowsTyped'
  BY <1>1, <1>2 DEF RowsTyped
<1>5. RowsCurrent' /\ SeedsUnspent'
  BY <1>1 DEF RowsCurrent, SeedsUnspent, CredentialsKept, UnspentSeeds
<1>6. PendingRowsFit'
  BY <1>1 DEF PendingRowsFit, RowsCurrent, CredentialsKept
<1>7. RowsBounded'
  BY <1>1, <1>2, <1>3, AuthAssumption DEF RowsBounded
<1> QED BY <1>4, <1>5, <1>6, <1>7 DEF RowsInv, RowsSound

\* So does changing none.
LEMMA SameRows ==
  ASSUME RowsInv, CredentialsKept, spent' = spent, session_ttl' \in SessionTTLs,
         UNCHANGED rows
  PROVE  RowsInv'
<1>1. \A e \in enrollments : \E s \in sessions : s.token = e.session
  BY DEF RowsInv, RowsSound, PendingRowsFit
<1> QED BY <1>1, FewerRows DEF rows

\* A login without a factor adds a session to those that are live.
LEMMA LoginPasswordRows ==
  ASSUME FactorInv, RowsInv, NEW p \in Password, LoginPassword(p)
  PROVE  RowsInv'
<1>1. RowsTyped /\ RowsCurrent /\ PendingRowsFit /\ RowsBounded /\ SeedsUnspent
  BY DEF RowsInv, RowsSound
<1>2. /\ admin # NoAdmin /\ admin.totp_seed = NoSeed
      /\ CreateSession(sessions, enrollments, admin.auth_version)
      /\ UNCHANGED <<factorVars, challenges, session_ttl>>
      /\ now \in Nat /\ admin.auth_version \in Nat
  BY DEF LoginPassword, FactorInv, RowOK, Administrator
<1>3. /\ sessions' \in SUBSET LoginSession /\ IsFiniteSet(sessions')
      /\ Cardinality(sessions') <= MaxSessions
      /\ \A s \in sessions' : s \in sessions \/ s.auth_version = admin.auth_version
      /\ enrollments' \in SUBSET enrollments
      /\ \A e \in enrollments' : \E s \in sessions' : s.token = e.session
  BY <1>1, <1>2, CreatedSession DEF RowsTyped
<1>4. /\ IsFiniteSet(enrollments') /\ Cardinality(enrollments') <= 1
  <2>1. IsFiniteSet(enrollments') /\ Cardinality(enrollments') <= Cardinality(enrollments)
    BY <1>1, <1>3, FS_Subset DEF RowsTyped
  <2>2. Cardinality(enrollments') \in Nat /\ Cardinality(enrollments) \in Nat
    BY <1>1, <2>1, FS_CardinalityType DEF RowsTyped
  <2> QED BY <1>1, <2>1, <2>2 DEF RowsBounded
<1>5. RowsTyped'
  BY <1>1, <1>2, <1>3, <1>4 DEF RowsTyped
<1>6. RowsCurrent' /\ SeedsUnspent'
  BY <1>1, <1>2, <1>3 DEF RowsCurrent, SeedsUnspent, UnspentSeeds, factorVars
<1>7. PendingRowsFit'
  BY <1>1, <1>2, <1>3 DEF PendingRowsFit, factorVars
<1>8. RowsBounded'
  BY <1>1, <1>2, <1>3, <1>4 DEF RowsBounded
<1> QED BY <1>5, <1>6, <1>7, <1>8 DEF RowsInv, RowsSound

\* While the factor is on no enrollment is pending.
LEMMA NoEnrollment ==
  ASSUME RowsInv, admin.totp_seed # NoSeed
  PROVE  enrollments = {}
  BY DEF RowsInv, RowsSound, PendingRowsFit

\* A login with a factor adds a challenge instead.
LEMMA LoginChallengedRows ==
  ASSUME FactorInv, RowsInv, NEW p, NEW c, NEW h, LoginChallenged(p, c, h)
  PROVE  RowsInv'
<1>1. RowsTyped /\ RowsCurrent /\ RowsBounded
  BY DEF RowsInv, RowsSound
<1>2. /\ admin # NoAdmin /\ admin.totp_seed # NoSeed
      /\ sessions' \in SUBSET sessions
      /\ enrollments = {} /\ enrollments' = {}
      /\ UNCHANGED <<factorVars, session_ttl>>
      /\ now \in Nat /\ admin.auth_version \in Nat
  BY NoEnrollment DEF LoginChallenged, FactorInv, RowOK, Administrator
<1>3. PICK kept \in Newest(ChallengesLeft(h), MaxChallenges - 1), t \in FreshChallenges :
        challenges' = kept \cup {[token |-> t, expires_at |-> now + ChallengeTTL,
                                  auth_version |-> admin.auth_version, failures |-> 0]}
  BY DEF LoginChallenged
<1> DEFINE new == [token |-> t, expires_at |-> now + ChallengeTTL,
                   auth_version |-> admin.auth_version, failures |-> 0]
<1>4. MaxChallenges - 1 \in Nat /\ MaxChallenges \in Nat \ {0} /\ ChallengeTTL \in Nat
      /\ MaxSessions \in Nat /\ ChallengeTries \in Nat
  BY AuthAssumption
<1>5. ChallengesLeft(h) \in SUBSET challenges /\ IsFiniteSet(ChallengesLeft(h))
  <2>1. ChallengesLeft(h) \in SUBSET challenges
    BY DEF ChallengesLeft, Live
  <2> QED BY <1>1, <2>1, FS_Subset DEF RowsTyped
<1>6. /\ kept \in SUBSET challenges /\ IsFiniteSet(kept)
      /\ Cardinality(kept) <= MaxChallenges - 1
  BY <1>4, <1>5, NewestRows
<1>7. new \in LoginChallenge /\ new.auth_version = admin.auth_version /\ new.failures = 0
  BY <1>2, <1>4 DEF LoginChallenge, FreshChallenges
<1> HIDE DEF new
<1>8. IsFiniteSet(kept \cup {new}) /\ Cardinality(kept \cup {new}) <= MaxChallenges
  BY <1>4, <1>6, OneMoreRow
<1>9. challenges' = kept \cup {new}
  BY <1>3 DEF new
<1>10. IsFiniteSet(sessions') /\ Cardinality(sessions') <= MaxSessions
  <2>1. IsFiniteSet(sessions') /\ Cardinality(sessions') <= Cardinality(sessions)
    BY <1>1, <1>2, FS_Subset DEF RowsTyped
  <2>2. Cardinality(sessions') \in Nat /\ Cardinality(sessions) \in Nat
    BY <1>1, <2>1, FS_CardinalityType DEF RowsTyped
  <2> QED BY <1>1, <1>4, <2>1, <2>2 DEF RowsBounded
<1>11. RowsTyped'
  BY <1>1, <1>2, <1>6, <1>7, <1>8, <1>9, <1>10 DEF RowsTyped
<1>12. RowsCurrent' /\ SeedsUnspent' /\ PendingRowsFit'
  BY <1>1, <1>2, <1>6, <1>7, <1>9
  DEF RowsCurrent, SeedsUnspent, PendingRowsFit, factorVars
<1>13. RowsBounded'
  <2>1. \A x \in challenges' : x.failures <= ChallengeTries
    BY <1>1, <1>4, <1>6, <1>7, <1>9 DEF RowsBounded
  <2> QED BY <1>1, <1>2, <1>8, <1>9, <1>10, <2>1 DEF RowsBounded
<1> QED BY <1>11, <1>12, <1>13 DEF RowsInv, RowsSound

\* An accepted verification turns its challenge into a session.
LEMMA VerifyAcceptedRows ==
  ASSUME FactorInv, RowsInv, NEW x \in challenges, NEW proof \in Proof,
         VerifyAccepted(x, proof), RowOK(admin')
  PROVE  RowsInv'
<1>1. RowsTyped /\ RowsCurrent /\ RowsBounded
  BY DEF RowsInv, RowsSound
<1>2. /\ admin # NoAdmin /\ admin.totp_seed # NoSeed
      /\ CreateSession(sessions, enrollments, admin.auth_version)
      /\ challenges' \in SUBSET challenges /\ session_ttl' = session_ttl
      /\ now \in Nat /\ admin \in Administrator
      /\ admin' = Accepted(admin, proof, NoSeed, now)
  BY DEF VerifyAccepted, FactorInv, RowOK, AdminAfter
<1>3. /\ admin' # NoAdmin
      /\ admin'.auth_version = admin.auth_version /\ admin.auth_version \in Nat
      /\ admin'.totp_seed = admin.totp_seed
  BY <1>2, AcceptedFields, SecondFactorAssumption DEF RowOK, Administrator
<1>4. /\ sessions' \in SUBSET LoginSession /\ IsFiniteSet(sessions')
      /\ Cardinality(sessions') <= MaxSessions
      /\ \A s \in sessions' : s \in sessions \/ s.auth_version = admin.auth_version
      /\ enrollments' = {}
  <2>1. /\ sessions' \in SUBSET LoginSession /\ IsFiniteSet(sessions')
        /\ Cardinality(sessions') <= MaxSessions
        /\ \A s \in sessions' : s \in sessions \/ s.auth_version = admin.auth_version
        /\ enrollments' \in SUBSET enrollments
    BY <1>1, <1>2, <1>3, CreatedSession DEF RowsTyped
  <2> QED BY <1>2, <2>1, NoEnrollment
<1>5. IsFiniteSet(challenges') /\ Cardinality(challenges') <= MaxChallenges
  <2>1. IsFiniteSet(challenges') /\ Cardinality(challenges') <= Cardinality(challenges)
    BY <1>1, <1>2, FS_Subset DEF RowsTyped
  <2>2. Cardinality(challenges') \in Nat /\ Cardinality(challenges) \in Nat
    BY <1>1, <2>1, FS_CardinalityType DEF RowsTyped
  <2> QED BY <1>1, <2>1, <2>2, AuthAssumption DEF RowsBounded
<1>6. IsFiniteSet({}) /\ Cardinality({}) = 0
  BY FS_EmptySet
<1>7. RowsTyped'
  BY <1>1, <1>2, <1>4, <1>5, <1>6 DEF RowsTyped
<1>8. RowsCurrent' /\ SeedsUnspent' /\ PendingRowsFit'
  BY <1>1, <1>2, <1>3, <1>4 DEF RowsCurrent, SeedsUnspent, PendingRowsFit
<1>9. RowsBounded'
  BY <1>1, <1>2, <1>4, <1>5, <1>6 DEF RowsBounded
<1> QED BY <1>7, <1>8, <1>9 DEF RowsInv, RowsSound

\* A refused one is counted on its challenge, which was not worn out.
LEMMA VerifyRejectedRows ==
  ASSUME FactorInv, RowsInv, NEW x \in challenges, NEW proof,
         VerifyRejected(x, proof), RowOK(admin')
  PROVE  RowsInv'
<1> DEFINE y == [x EXCEPT !.failures = @ + 1]
           C == challenges \ {x}
<1>1. RowsTyped /\ RowsCurrent /\ RowsBounded
  BY DEF RowsInv, RowsSound
<1>2. /\ admin # NoAdmin /\ admin.totp_seed # NoSeed /\ enrollments = {}
      /\ admin \in Administrator /\ admin' = Rejected(admin, now)
      /\ x.failures < ChallengeTries
      /\ challenges' = C \cup {y}
      /\ UNCHANGED <<sessions, enrollments, session_ttl>>
  BY NoEnrollment
  DEF VerifyRejected, ProofRejected, OpenChallenge, FactorInv, RowOK
<1>3. /\ admin' # NoAdmin
      /\ admin'.auth_version = admin.auth_version
      /\ admin'.totp_seed = admin.totp_seed
  BY <1>2, RejectedFields, SecondFactorAssumption DEF RowOK
<1>4. /\ y \in LoginChallenge /\ y.auth_version = x.auth_version
      /\ y.failures <= ChallengeTries
  BY <1>1, <1>2, AuthAssumption DEF RowsTyped, LoginChallenge
<1> HIDE DEF y
<1>5. /\ IsFiniteSet(C) /\ Cardinality(C) = Cardinality(challenges) - 1
      /\ Cardinality(challenges) \in Nat
  BY <1>1, FS_RemoveElement, FS_CardinalityType DEF RowsTyped
<1>6. IsFiniteSet(C \cup {y}) /\ Cardinality(C \cup {y}) <= MaxChallenges
  <2> HIDE DEF C
  <2>1. Cardinality(C) <= MaxChallenges - 1
    BY <1>1, <1>5, AuthAssumption DEF RowsBounded
  <2> QED BY <1>5, <2>1, OneMoreRow, AuthAssumption
<1>7. RowsTyped'
  BY <1>1, <1>2, <1>4, <1>6 DEF RowsTyped
<1>8. RowsCurrent' /\ SeedsUnspent' /\ PendingRowsFit'
  BY <1>1, <1>2, <1>3, <1>4 DEF RowsCurrent, SeedsUnspent, PendingRowsFit
<1>9. RowsBounded'
  BY <1>1, <1>2, <1>4, <1>6 DEF RowsBounded
<1> QED BY <1>7, <1>8, <1>9 DEF RowsInv, RowsSound

\* A new enrollment belongs to the session that asked for it and has a new seed.
LEMMA EnrollRows ==
  ASSUME FactorInv, RowsInv, NEW c \in Token, NEW p, Enroll(c, p)
  PROVE  RowsInv'
<1>1. RowsTyped /\ RowsCurrent /\ PendingRowsFit /\ RowsBounded
  BY DEF RowsInv, RowsSound
<1>2. /\ admin # NoAdmin /\ admin.totp_seed = NoSeed
      /\ \E s \in sessions : s.token = c
      /\ UNCHANGED <<factorVars, sessions, challenges, session_ttl>>
      /\ now \in Nat /\ admin.auth_version \in Nat
  BY DEF Enroll, Reauthenticated, FoundSession, Live, FactorInv, RowOK, Administrator
<1>3. PICK seed \in FreshSeeds :
        enrollments' = {[session |-> c, expires_at |-> now + EnrollTTL,
                         auth_version |-> admin.auth_version, seed |-> seed]}
  BY DEF Enroll
<1> DEFINE new == [session |-> c, expires_at |-> now + EnrollTTL,
                   auth_version |-> admin.auth_version, seed |-> seed]
<1>4. seed \in UnspentSeeds /\ seed \in Seed
  BY DEF FreshSeeds, UnspentSeeds
<1>5. /\ new \in FactorEnrollment /\ new.session = c
      /\ new.auth_version = admin.auth_version /\ new.seed = seed
  BY <1>2, <1>4, AuthAssumption DEF FactorEnrollment
<1> HIDE DEF new
<1>6. enrollments' = {new}
  BY <1>3 DEF new
<1>7. IsFiniteSet({new}) /\ Cardinality({new}) = 1
  BY FS_Singleton
<1>8. RowsTyped'
  BY <1>1, <1>2, <1>5, <1>6, <1>7 DEF RowsTyped
<1>9. RowsCurrent' /\ SeedsUnspent' /\ PendingRowsFit'
  BY <1>1, <1>2, <1>4, <1>5, <1>6
  DEF RowsCurrent, SeedsUnspent, PendingRowsFit, UnspentSeeds, factorVars
<1>10. RowsBounded'
  BY <1>1, <1>2, <1>6, <1>7 DEF RowsBounded
<1> QED BY <1>8, <1>9, <1>10 DEF RowsInv, RowsSound

\* A rotation moves the version of a row by one, whatever else it does to it.
LEMMA RevokedVersion ==
  ASSUME NEW r, "auth_version" \in DOMAIN r, NEW v, r.auth_version = v
  PROVE  Revoked(r).auth_version = v + 1
  BY DEF Revoked

\* The version after each of the handlers that rotate the credentials.
LEMMA RotatedVersion ==
  ASSUME admin \in Administrator, NEW proof, NEW enrolling, NEW q, NEW seed,
         \/ admin' = Revoked([admin EXCEPT !.password = q])
         \/ admin' = Revoked([AdminAfter(proof, enrolling) EXCEPT !.password = q])
         \/ admin' = Revoked([AdminAfter(proof, enrolling) EXCEPT !.totp_seed = seed])
         \/ admin' = Revoked(WithoutFactor(AdminAfter(proof, enrolling)))
         \/ admin' = Revoked(AdminAfter(proof, enrolling))
  PROVE  admin'.auth_version = admin.auth_version + 1
<1> DEFINE row == AdminAfter(proof, enrolling)
           v == admin.auth_version
<1>1. /\ row.auth_version = v /\ "auth_version" \in DOMAIN row
      /\ "auth_version" \in DOMAIN admin
  BY AcceptedFields DEF Administrator, AdminAfter
<1> HIDE DEF row
<1>2. /\ [admin EXCEPT !.password = q].auth_version = v
      /\ "auth_version" \in DOMAIN [admin EXCEPT !.password = q]
  BY <1>1
<1>3. /\ [row EXCEPT !.password = q].auth_version = v
      /\ "auth_version" \in DOMAIN [row EXCEPT !.password = q]
  BY <1>1
<1>4. /\ [row EXCEPT !.totp_seed = seed].auth_version = v
      /\ "auth_version" \in DOMAIN [row EXCEPT !.totp_seed = seed]
  BY <1>1
<1>5. WithoutFactor(row).auth_version = v /\ "auth_version" \in DOMAIN WithoutFactor(row)
  BY <1>1 DEF WithoutFactor
<1>6. CASE admin' = Revoked([admin EXCEPT !.password = q])
  BY <1>2, <1>6, RevokedVersion
<1>7. CASE admin' = Revoked([row EXCEPT !.password = q])
  BY <1>3, <1>7, RevokedVersion
<1>8. CASE admin' = Revoked([row EXCEPT !.totp_seed = seed])
  BY <1>4, <1>8, RevokedVersion
<1>9. CASE admin' = Revoked(WithoutFactor(row))
  BY <1>5, <1>9, RevokedVersion
<1>10. CASE admin' = Revoked(row)
  BY <1>1, <1>10, RevokedVersion
<1> QED BY <1>6, <1>7, <1>8, <1>9, <1>10 DEF row

\* Credentials that are in force are a row of the type, so not NoAdmin.
LEMMA RowIsThere ==
  ASSUME NEW a, RowOK(a)
  PROVE  a # NoAdmin /\ a.auth_version \in Nat
  BY SecondFactorAssumption DEF RowOK, Administrator

\* The handlers of auth.py keep the rows sound.
LEMMA SessionRequestRows ==
  ASSUME AuthInv, FactorInv', SessionRequest
  PROVE  RowsInv'
<1>0. /\ FactorInv /\ RowsInv /\ RowsTyped /\ RowsCurrent /\ PendingRowsFit
      /\ now \in Nat /\ session_ttl \in SessionTTLs
  BY DEF AuthInv, RowsInv, RowsSound, RowsTyped, FactorInv
<1>1. ASSUME NEW p \in Password, CreateAdministrator(p) PROVE RowsInv'
  <2>1. sessions = {} /\ challenges = {} /\ enrollments = {}
    BY <1>0, <1>1 DEF CreateAdministrator, RowsCurrent
  <2>2. admin'.auth_version = 0 /\ admin' # NoAdmin
    BY <1>1, NewRow, RowIsThere DEF CreateAdministrator, NewAdministrator
  <2> QED BY <1>0, <1>1, <2>1, <2>2, OneSessionLeft DEF CreateAdministrator
<1>2. ASSUME NEW p \in Password, LoginPassword(p) PROVE RowsInv'
  BY <1>0, <1>2, LoginPasswordRows
<1>3. ASSUME NEW p, NEW c, NEW h, LoginChallenged(p, c, h) PROVE RowsInv'
  BY <1>0, <1>3, LoginChallengedRows
<1>4. ASSUME NEW c, NEW h, Logout(c, h) PROVE RowsInv'
  <2>1. /\ sessions' \in SUBSET sessions /\ challenges' \in SUBSET challenges
        /\ enrollments' \in SUBSET enrollments
        /\ UNCHANGED <<factorVars, session_ttl>>
    BY <1>4 DEF Logout
  <2>2. \A e \in enrollments' : \E s \in sessions' : s.token = e.session
    BY <1>0, <1>4 DEF Logout, PendingRowsFit
  <2> QED BY <1>0, <2>1, <2>2, FewerRows DEF CredentialsKept, factorVars
<1>5. ASSUME NEW c, NEW p, NEW q, NEW proof, ChangePassword(c, p, q, proof) PROVE RowsInv'
  BY <1>0, <1>5, NoRowsLeft DEF ChangePassword, RevokeRows
<1>6. ASSUME NEW h, Cancel(h) PROVE RowsInv'
  <2>1. /\ sessions' = sessions /\ challenges' \in SUBSET challenges
        /\ enrollments' = enrollments /\ UNCHANGED <<factorVars, session_ttl>>
    BY <1>6 DEF Cancel
  <2> QED BY <1>0, <2>1, FewerRows DEF CredentialsKept, factorVars, PendingRowsFit
<1> QED BY <1>1, <1>2, <1>3, <1>4, <1>5, <1>6 DEF SessionRequest

\* So do those of twofactor_routes.py.
LEMMA FactorRequestRows ==
  ASSUME AuthInv, FactorInv', FactorRequest
  PROVE  RowsInv'
<1>0. /\ FactorInv /\ RowsInv /\ RowsTyped
      /\ now \in Nat /\ session_ttl \in SessionTTLs
  BY DEF AuthInv, RowsInv, RowsTyped, FactorInv
<1>r. admin # NoAdmin => admin \in Administrator
  BY <1>0 DEF FactorInv, RowOK
<1>s. admin' # NoAdmin => RowOK(admin')
  BY DEF FactorInv
<1>1. ASSUME NEW x \in challenges, NEW proof \in Proof, VerifyAccepted(x, proof)
      PROVE  RowsInv'
  <2>1. UseProof(proof)
    BY <1>1 DEF VerifyAccepted, UseProof, SignIn
  <2> QED BY <1>0, <1>1, <2>1, UseProofRow, VerifyAcceptedRows
<1>2. ASSUME NEW x \in challenges, NEW proof, VerifyRejected(x, proof) PROVE RowsInv'
  <2>1. RowOK(admin')
    BY <1>0, <1>2, RejectedRow DEF VerifyRejected, ProofRejected, FactorInv
  <2> QED BY <1>0, <1>2, <2>1, VerifyRejectedRows
<1>3. ASSUME NEW c \in Token, NEW p, Enroll(c, p) PROVE RowsInv'
  BY <1>0, <1>3, EnrollRows
<1>4. ASSUME NEW c, NEW p, NEW e \in enrollments, NEW proof \in TotpProof,
             ConfirmAccepted(c, p, e, proof)
      PROVE  RowsInv'
  <2>1. e.seed \in UnspentSeeds /\ TurnOn(e.seed, proof)
    BY <1>0, <1>4
    DEF RowsInv, SeedsUnspent, ConfirmAccepted, Reauthenticated, FoundSession, TurnOn
  <2>2. admin' # NoAdmin /\ admin'.auth_version \in Nat
    BY <1>0, <2>1, TurnOnRow, RowIsThere
  <2>3. admin'.auth_version = admin.auth_version + 1
    BY <1>r, <1>4, <2>1, RotatedVersion DEF ConfirmAccepted, TurnOn
  <2> QED BY <1>0, <1>4, <2>2, <2>3, OneSessionLeft
      DEF ConfirmAccepted, RevokeAndCreateSession
<1>5. ASSUME NEW c, NEW p, NEW e, NEW proof, ConfirmRejected(c, p, e, proof)
      PROVE  RowsInv'
  <2>1. /\ admin # NoAdmin /\ admin' = Rejected(admin, now) /\ spent' = spent
        /\ UNCHANGED <<rows, session_ttl>>
    BY <1>5 DEF ConfirmRejected, Reauthenticated, FoundSession, ProofRejected
  <2>2. RowOK(admin')
    BY <1>0, <1>5, <2>1, RejectedRow DEF ConfirmRejected, ProofRejected, FactorInv
  <2>3. CredentialsKept
    BY <1>r, <2>1, <2>2, RowIsThere, RejectedFields DEF CredentialsKept
  <2> QED BY <1>0, <2>1, <2>3, SameRows
<1>6. ASSUME NEW c, NEW p, NEW proof, Disable(c, p, proof) PROVE RowsInv'
  BY <1>0, <1>6, NoRowsLeft DEF Disable, RevokeRows
<1>7. ASSUME NEW c, NEW p, NEW proof \in Proof, Regenerate(c, p, proof) PROVE RowsInv'
  <2>1. UseProof(proof)
    BY <1>7 DEF Regenerate, Reauthenticated, FoundSession, UseProof, DrawCodes
  <2>2. admin' # NoAdmin /\ admin'.auth_version \in Nat
    BY <1>0, <2>1, UseProofRow, RowIsThere
  <2>3. admin'.auth_version = admin.auth_version + 1
    BY <1>r, <1>7, <2>1, RotatedVersion DEF Regenerate, UseProof
  <2> QED BY <1>0, <1>7, <2>2, <2>3, OneSessionLeft
      DEF Regenerate, RevokeAndCreateSession
<1>8. ASSUME NEW c, NEW p, NEW proof, ManagementRejected(c, p, proof) PROVE RowsInv'
  <2>1. /\ admin # NoAdmin /\ admin' = Rejected(admin, now) /\ spent' = spent
        /\ UNCHANGED <<rows, session_ttl>>
    BY <1>8 DEF ManagementRejected, Reauthenticated, FoundSession, ProofRejected
  <2>2. RowOK(admin')
    BY <1>0, <1>8, <2>1, RejectedRow DEF ManagementRejected, ProofRejected, FactorInv
  <2>3. CredentialsKept
    BY <1>r, <2>1, <2>2, RowIsThere, RejectedFields DEF CredentialsKept
  <2> QED BY <1>0, <2>1, <2>3, SameRows
<1> QED BY <1>1, <1>2, <1>3, <1>4, <1>5, <1>6, <1>7, <1>8 DEF FactorRequest

\* Every step keeps the invariant.
LEMMA AuthInvNext == AuthInv /\ [Next]_vars => AuthInv'
<1> SUFFICES ASSUME AuthInv, [Next]_vars PROVE AuthInv'
  OBVIOUS
<1>1. [FactorNext]_factorVars
  BY FactorStep DEF AuthInv, RowsInv
<1>2. FactorInv'
  BY <1>1, FactorInvNext DEF AuthInv
<1>3. RowsInv'
  <2>1. RowsInv /\ session_ttl \in SessionTTLs
    BY DEF AuthInv, RowsInv, RowsTyped
  <2>2. CASE Tick
    BY <2>1, <2>2, SameRows DEF Tick, ClockMoves, CredentialsKept
  <2>3. CASE Restart
    BY <2>1, <2>3, SameRows DEF Restart, factorVars, CredentialsKept
  <2>4. CASE UNCHANGED vars
    BY <2>1, <2>4, SameRows DEF vars, factorVars, CredentialsKept
  <2> QED BY <1>2, <2>2, <2>3, <2>4, SessionRequestRows, FactorRequestRows DEF Next
<1> QED BY <1>2, <1>3 DEF AuthInv

-----------------------------------------------------------------------------
(* Theorems. *)

\* Every reachable state satisfies the invariant.
THEOREM AuthInvariant == Spec => []AuthInv
  BY AuthInvInit, AuthInvNext, PTL DEF Spec

\* The tables hold rows of their types.
THEOREM AuthTypeCorrect == Spec => []TypeOK
<1>1. AuthInv => TypeOK
  BY DEF AuthInv, FactorInv, CodesOK, AuxiliaryOK, FactorTypeOK, RowOK,
         RowsInv, RowsTyped, TypeOK
<1> QED BY <1>1, AuthInvariant, PTL

\* However requests of any number of tabs interleave: every session, challenge
\* and enrollment was made under the credentials in force, an enrollment has its
\* session, challenges and enrollments never coexist with the wrong state of the
\* factor, and no table outgrows its limit.
THEOREM AuthRowsSound == Spec => []RowsSound
<1>1. AuthInv => RowsSound
  BY DEF AuthInv, RowsInv
<1> QED BY <1>1, AuthInvariant, PTL

\* The handlers implement the second factor: whatever FactorSpec promises of the
\* administrator row holds of the running service.
THEOREM AuthRefinesFactor == Spec => FactorSpec
<1>1. Init => FactorInit
  BY DEF Init
<1>2. AuthInv /\ [Next]_vars => [FactorNext]_factorVars
  BY FactorStep DEF AuthInv, RowsInv
<1> QED BY <1>1, <1>2, AuthInvariant, PTL DEF Spec, FactorSpec

\* The session created when every row is gone is not one of the old ones.
LEMMA FreshSession ==
  ASSUME NEW version, CreateSession({}, {}, version)
  PROVE  sessions \cap sessions' = {} /\ enrollments' = {}
<1>1. PICK kept \in KeptSessions({}), t \in FreshTokens :
        /\ sessions' = kept \cup {[token |-> t, expires_at |-> now + session_ttl,
                                   auth_version |-> version]}
        /\ enrollments' = KeptEnrollments({}, kept)
  BY DEF CreateSession
<1> DEFINE new == [token |-> t, expires_at |-> now + session_ttl, auth_version |-> version]
<1>2. kept = {}
  BY DEF KeptSessions, Newest, Live
<1>3. new.token = t
  OBVIOUS
<1>4. \A s \in sessions : s.token # t
  BY DEF FreshTokens
<1> HIDE DEF new
<1>5. sessions' = {new}
  BY <1>1, <1>2 DEF new
<1>6. enrollments' = {}
  BY <1>1 DEF KeptEnrollments, Live
<1> QED BY <1>3, <1>4, <1>5, <1>6

\* What a rotation must leave.
Rotated ==
  /\ sessions \cap sessions' = {}
  /\ challenges' = {} /\ enrollments' = {}
  /\ admin'.auth_version > admin.auth_version

\* One step more is after.
LEMMA VersionMoves ==
  ASSUME FactorInv, admin # NoAdmin, admin'.auth_version = admin.auth_version + 1
  PROVE  admin'.auth_version > admin.auth_version
  BY DEF FactorInv, RowOK, Administrator

\* Every step that changes the credentials is a rotation.
LEMMA RotationStep ==
  ASSUME AuthInv, [Next]_vars, CredentialsChange
  PROVE  Rotated
<1>0. /\ FactorInv /\ admin # NoAdmin /\ admin \in Administrator
  BY DEF AuthInv, FactorInv, RowOK, CredentialsChange
<1>u. ~UNCHANGED factorVars
  BY DEF CredentialsChange, factorVars
<1>r. admin' # Rejected(admin, now) \/ recovery_codes' # recovery_codes
  BY <1>0, RejectedFields DEF CredentialsChange
<1>1. ASSUME NEW c, NEW p, NEW q, NEW proof, ChangePassword(c, p, q, proof) PROVE Rotated
  <2>1. admin'.auth_version = admin.auth_version + 1
    BY <1>0, <1>1, RotatedVersion DEF ChangePassword
  <2> QED BY <1>0, <1>1, <2>1, VersionMoves DEF Rotated, ChangePassword, RevokeRows
<1>2. ASSUME NEW x, NEW proof, VerifyAccepted(x, proof) PROVE FALSE
  <2>1. admin' = Accepted(admin, proof, NoSeed, now) /\ recovery_codes' = CodesLeft(proof)
    BY <1>2 DEF VerifyAccepted, AdminAfter
  <2>2. recovery_codes' \subseteq recovery_codes
    BY <2>1 DEF CodesLeft, CodesAfter
  <2> QED BY <1>0, <2>1, <2>2, AcceptedFields DEF CredentialsChange
<1>3. ASSUME NEW c, NEW p, NEW e, NEW proof, ConfirmAccepted(c, p, e, proof) PROVE Rotated
  <2>1. admin'.auth_version = admin.auth_version + 1
    BY <1>0, <1>3, RotatedVersion DEF ConfirmAccepted
  <2> QED BY <1>0, <1>3, <2>1, VersionMoves, FreshSession
      DEF Rotated, ConfirmAccepted, RevokeAndCreateSession
<1>4. ASSUME NEW c, NEW p, NEW proof, Disable(c, p, proof) PROVE Rotated
  <2>1. admin'.auth_version = admin.auth_version + 1
    BY <1>0, <1>4, RotatedVersion DEF Disable
  <2> QED BY <1>0, <1>4, <2>1, VersionMoves DEF Rotated, Disable, RevokeRows
<1>5. ASSUME NEW c, NEW p, NEW proof, Regenerate(c, p, proof) PROVE Rotated
  <2>1. admin'.auth_version = admin.auth_version + 1
    BY <1>0, <1>5, RotatedVersion DEF Regenerate
  <2> QED BY <1>0, <1>5, <2>1, VersionMoves, FreshSession
      DEF Rotated, Regenerate, RevokeAndCreateSession
<1>6. CASE SessionRequest
  <2>1. ASSUME NEW p, CreateAdministrator(p) PROVE FALSE
    BY <1>0, <2>1 DEF CreateAdministrator
  <2>2. ASSUME NEW p, LoginPassword(p) PROVE FALSE
    BY <1>u, <2>2 DEF LoginPassword
  <2>3. ASSUME NEW p, NEW c, NEW h, LoginChallenged(p, c, h) PROVE FALSE
    BY <1>u, <2>3 DEF LoginChallenged
  <2>4. ASSUME NEW c, NEW h, Logout(c, h) PROVE FALSE
    BY <1>u, <2>4 DEF Logout
  <2>5. ASSUME NEW h, Cancel(h) PROVE FALSE
    BY <1>u, <2>5 DEF Cancel
  <2> QED BY <1>1, <1>6, <2>1, <2>2, <2>3, <2>4, <2>5 DEF SessionRequest
<1>7. CASE FactorRequest
  <2>1. ASSUME NEW x, NEW proof, VerifyRejected(x, proof) PROVE FALSE
    BY <1>r, <2>1 DEF VerifyRejected, ProofRejected
  <2>2. ASSUME NEW c, NEW p, Enroll(c, p) PROVE FALSE
    BY <1>u, <2>2 DEF Enroll
  <2>3. ASSUME NEW c, NEW p, NEW e, NEW proof, ConfirmRejected(c, p, e, proof) PROVE FALSE
    BY <1>r, <2>3 DEF ConfirmRejected, ProofRejected
  <2>4. ASSUME NEW c, NEW p, NEW proof, ManagementRejected(c, p, proof) PROVE FALSE
    BY <1>r, <2>4 DEF ManagementRejected, ProofRejected
  <2> QED BY <1>2, <1>3, <1>4, <1>5, <1>7, <2>1, <2>2, <2>3, <2>4 DEF FactorRequest
<1>8. CASE Tick \/ Restart \/ UNCHANGED vars
  <2>1. admin' = admin /\ recovery_codes' = recovery_codes
    BY <1>8 DEF Tick, ClockMoves, Restart, vars, factorVars
  <2> QED BY <2>1 DEF CredentialsChange
<1> QED BY <1>6, <1>7, <1>8 DEF Next

\* Whoever changes the password, turns the factor on or off or draws new recovery
\* codes leaves nothing that was granted before, and no step does so unnoticed.
THEOREM AuthRotationRevokes == Spec => RotationRevokes
<1>1. AuthInv /\ [Next]_vars =>
        [CredentialsChange => /\ sessions \cap sessions' = {}
                              /\ challenges' = {} /\ enrollments' = {}
                              /\ admin'.auth_version > admin.auth_version]_vars
  BY RotationStep DEF Rotated
<1> QED BY <1>1, AuthInvariant, PTL DEF Spec, RotationRevokes

\* Accepting a proof of the factor in force spends it: it was not spent before.
LEMMA FreshSpent ==
  ASSUME FactorInv, NeverTwice, admin # NoAdmin, NEW proof \in Proof,
         ProofAccepted(proof, NoSeed)
  PROVE  spent' # spent
<1>1. /\ now \in Nat /\ admin \in Administrator
      /\ spent \in [totp : SUBSET SpentTotp, recovery : SUBSET RecoveryCode]
      /\ FactorSeed(admin, NoSeed) = admin.totp_seed
  BY DEF FactorInv, RowOK, AuxiliaryOK, FactorSeed
<1>2. CASE proof \in TotpProof
  <2> DEFINE seed == FactorSeed(admin, NoSeed)
             L == Max(Matches(seed, proof.code, now))
             new == [seed |-> seed, code |-> proof.code, step |-> Step(now), match |-> L]
  <2>1. proof.method = "totp"
    BY <1>2 DEF TotpProof
  <2>2. TotpValid(admin, seed, proof.code, now)
    BY <2>1 DEF ProofAccepted, ProofValid
  <2>3. L \in Nat /\ L > admin.totp_last_step /\ admin.totp_last_step \in Int
    BY <1>1, <2>2, LatestMatch DEF TotpValid, Administrator
  <2>4. new \in spent'.totp
    BY <1>1, <2>1 DEF ProofAccepted
  <2>5. new.seed = admin.totp_seed /\ new.match = L
    BY <1>1
  <2> HIDE DEF new, L, seed
  <2>6. ~(new.match <= admin.totp_last_step)
    BY <2>3, <2>5
  <2> QED BY <2>4, <2>5, <2>6 DEF NeverTwice
<1>3. CASE proof \in RecoveryProof
  <2>1. proof.method = "recovery_code"
    BY <1>3 DEF RecoveryProof
  <2>2. proof.code \in recovery_codes /\ proof.code \in spent'.recovery
    BY <1>1, <2>1 DEF ProofAccepted, ProofValid, RecoveryValid
  <2> QED BY <2>2 DEF NeverTwice
<1> QED BY <1>2, <1>3 DEF Proof

\* Only three handlers create a session once there is an administrator, and with a
\* factor each of them spends a proof.
LEMMA SessionStep ==
  ASSUME AuthInv, NeverTwice, [Next]_vars, SessionGranted, admin.totp_seed # NoSeed
  PROVE  spent' # spent
<1>0. FactorInv /\ admin # NoAdmin
  BY DEF AuthInv, SessionGranted
<1>1. ~(sessions' \subseteq sessions)
  BY DEF SessionGranted
<1>2. ASSUME NEW proof \in Proof, ProofAccepted(proof, NoSeed) PROVE spent' # spent
  BY <1>0, <1>2, FreshSpent
<1>3. CASE SessionRequest
  BY <1>0, <1>1, <1>3
  DEF SessionRequest, CreateAdministrator, LoginPassword, LoginChallenged, Logout,
      ChangePassword, RevokeRows, Cancel
<1>4. CASE FactorRequest
  BY <1>1, <1>2, <1>4
  DEF FactorRequest, VerifyAccepted, VerifyRejected, Enroll, ConfirmAccepted,
      ConfirmRejected, Disable, RevokeRows, Regenerate, ManagementRejected, rows
<1>5. CASE Tick \/ Restart \/ UNCHANGED vars
  BY <1>1, <1>5 DEF Tick, Restart, vars, rows
<1> QED BY <1>3, <1>4, <1>5 DEF Next

\* While the factor is on, no session is created without spending a proof that was
\* never accepted before.
THEOREM AuthSessionsNeedFreshProof == Spec => SessionsNeedFreshProof
<1>1. AuthInv /\ NeverTwice /\ [Next]_vars =>
        [SessionGranted /\ admin.totp_seed # NoSeed => spent' # spent]_vars
  BY SessionStep
<1> QED BY <1>1, AuthInvariant, AuthRefinesFactor, FactorNeverTwice, PTL
        DEF Spec, SessionsNeedFreshProof

\* What the abstract machine promises holds of the handlers, with all their cookies and
\* tables, in every order of requests: no lock-out, bounded guessing, an exact Retry-After
\* and no proof accepted twice.
THEOREM AuthKeepsFactorPromises ==
  ASSUME ClockAdvances
  PROVE  Spec => [](/\ NeverLockedOut /\ GuessesBounded
                    /\ RetryAfterIsExact /\ SpentProofsStayDead)
<1>1. FactorSpec => []NeverLockedOut
  BY FactorNeverLockedOut
<1>2. FactorSpec => []GuessesBounded
  BY FactorGuessesBounded
<1>3. FactorSpec => []RetryAfterIsExact
  BY FactorRetryAfterExact
<1>4. FactorSpec => []SpentProofsStayDead
  BY FactorSpentProofsStayDead
<1> QED BY <1>1, <1>2, <1>3, <1>4, AuthRefinesFactor, PTL
=============================================================================
