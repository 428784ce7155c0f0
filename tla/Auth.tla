-------------------------------- MODULE Auth --------------------------------
(***************************************************************************)
(* Sign-in of the single administrator: backend/matescope/auth.py and      *)
(* twofactor_routes.py over the tables of models.py.                       *)
(*                                                                         *)
(* Each mutating handler is one SQLite BEGIN IMMEDIATE transaction, so it  *)
(* is one action here; requests of any number of tabs and browsers         *)
(* interleave between the transactions.  A request carries whatever        *)
(* cookies its tab still holds, live or stale, so cookies are drawn freely *)
(* from Token and ChallengeToken.  Requests the code refuses without       *)
(* writing anything (401, 409, 429, 503) are stuttering steps.             *)
(*                                                                         *)
(* A token is 256 random bits: a fresh one is any value no row refers to,  *)
(* so a value whose rows are gone behaves as an unknown cookie until it is *)
(* drawn again.  Seeds and recovery codes are fresh when they are not in   *)
(* the tables and were never accepted.                                     *)
(***************************************************************************)
EXTENDS SecondFactor

CONSTANTS
  Token, ChallengeToken,     \* session and challenge cookies
  NoCookie,                  \* a request without the cookie
  MaxSessions, MaxChallenges,  \* rows kept (20 and 20)
  ChallengeTTL, ChallengeTries,  \* 300 seconds, 5 failures
  EnrollTTL,                 \* 600 seconds
  SessionTTLs                \* values session_days takes between restarts

ASSUME AuthAssumption ==
  /\ NoCookie \notin Token \cup ChallengeToken
  /\ MaxSessions \in Nat \ {0} /\ MaxChallenges \in Nat \ {0}
  /\ ChallengeTTL \in Nat \ {0} /\ ChallengeTries \in Nat \ {0}
  /\ EnrollTTL \in Nat \ {0}
  /\ SessionTTLs \subseteq Nat \ {0}

VARIABLES
  sessions,         \* login_session
  challenges,       \* login_challenge
  enrollments,      \* factor_enrollment
  session_ttl       \* session_days of the running process, in seconds

rows == <<sessions, challenges, enrollments>>
vars == <<factorVars, rows, session_ttl>>

LoginSession == [token : Token, expires_at : Nat, auth_version : Nat]
LoginChallenge ==
  [token : ChallengeToken, expires_at : Nat, auth_version : Nat, failures : Nat]
FactorEnrollment ==
  [session : Token, expires_at : Nat, auth_version : Nat, seed : Seed]

TypeOK ==
  /\ FactorTypeOK
  /\ sessions \in SUBSET LoginSession
  /\ challenges \in SUBSET LoginChallenge
  /\ enrollments \in SUBSET FactorEnrollment
  /\ session_ttl \in SessionTTLs

Init ==
  /\ FactorInit
  /\ sessions = {} /\ challenges = {} /\ enrollments = {}
  /\ session_ttl \in SessionTTLs

-----------------------------------------------------------------------------
(* Helpers the handlers share. *)

Live(table) == {r \in table : r.expires_at > now}

\* The n rows of a table that expire last; SQLite breaks ties as it likes.
Newest(table, n) ==
  {K \in SUBSET table :
     /\ Cardinality(K) = IF Cardinality(table) < n THEN Cardinality(table) ELSE n
     /\ \A k \in K, d \in table \ K : k.expires_at >= d.expires_at}

\* find_session(): the cookie names a session that is live and current.
FoundSession(c) ==
  /\ admin # NoAdmin
  /\ \E s \in Live(sessions) : s.token = c /\ s.auth_version = admin.auth_version
  /\ FactorStateOK(admin, recovery_codes)

\* reauthenticate(): a session and the current password.
Reauthenticated(c, p) == FoundSession(c) /\ p = admin.password

FreshTokens ==
  Token \ ({s.token : s \in sessions} \cup {e.session : e \in enrollments})
FreshChallenges == ChallengeToken \ {h.token : h \in challenges}
FreshSeeds ==
  Seed \ ({e.seed : e \in enrollments} \cup {p.seed : p \in spent.totp})

KeptSessions(table) == Newest(Live(table), MaxSessions - 1)

\* Variant: an enrollment outlives the session it belongs to.
KeptEnrollmentsUnbound(pending, kept) == Live(pending)
KeptEnrollments(pending, kept) ==
  {e \in Live(pending) : \E s \in kept : s.token = e.session}

\* create_session(): table and pending are the login sessions and enrollments
\* left by what the transaction did before the call, version the administrator's.
CreateSession(table, pending, version) ==
  \E kept \in KeptSessions(table), t \in FreshTokens :
    /\ sessions' = kept \cup {[token |-> t, expires_at |-> now + session_ttl,
                               auth_version |-> version]}
    /\ enrollments' = KeptEnrollments(pending, kept)

\* Variant: pending challenges are forgotten.
RevokeRowsButChallenges == sessions' = {} /\ enrollments' = {} /\ UNCHANGED challenges
\* revoke_auth() on the tables, when no session follows it.
RevokeRows == sessions' = {} /\ challenges' = {} /\ enrollments' = {}

\* revoke_auth() followed by create_session(), with the version after it.
RevokeAndCreateSession(version) ==
  /\ CreateSession({}, {}, version)
  /\ challenges' = {}

-----------------------------------------------------------------------------
(* auth.py *)

\* POST /setup/administrator
CreateAdministrator(p) ==
  /\ admin = NoAdmin
  /\ admin' = NewAdministrator(p)
  /\ CreateSession(sessions, enrollments, 0)
  /\ UNCHANGED <<recovery_codes, challenges, now, session_ttl, spent, wrong>>

\* Variant: the password alone signs in, factor or not.
LoginPasswordAlways(p) ==
  /\ admin # NoAdmin /\ p = admin.password
  /\ FactorStateOK(admin, recovery_codes)
  /\ CreateSession(sessions, enrollments, admin.auth_version)
  /\ UNCHANGED <<factorVars, challenges, session_ttl>>
\* POST /auth/login without a second factor: a session at once.
LoginPassword(p) ==
  /\ admin # NoAdmin /\ p = admin.password
  /\ FactorStateOK(admin, recovery_codes)
  /\ admin.totp_seed = NoSeed
  /\ CreateSession(sessions, enrollments, admin.auth_version)
  /\ UNCHANGED <<factorVars, challenges, session_ttl>>

\* The challenges a login leaves: neither expired nor this browser's old one.
ChallengesLeft(h) == {x \in Live(challenges) : x.token # h}

\* POST /auth/login with a second factor: the browser's session c and challenge h
\* give way to a new challenge.
LoginChallenged(p, c, h) ==
  /\ admin # NoAdmin /\ p = admin.password
  /\ FactorStateOK(admin, recovery_codes)
  /\ admin.totp_seed # NoSeed
  /\ sessions' = {s \in sessions : s.token # c}
  /\ enrollments' = {e \in enrollments : e.session # c}
  /\ \E kept \in Newest(ChallengesLeft(h), MaxChallenges - 1), t \in FreshChallenges :
       challenges' = kept \cup {[token |-> t, expires_at |-> now + ChallengeTTL,
                                 auth_version |-> admin.auth_version, failures |-> 0]}
  /\ UNCHANGED <<factorVars, session_ttl>>

\* POST /auth/logout, which also drops the cookie's challenge and the enrollment
\* bound to the session.
Logout(c, h) ==
  /\ FoundSession(c)
  /\ enrollments' = {e \in enrollments : e.session # c}
  /\ challenges' = {x \in challenges : x.token # h}
  /\ sessions' = {s \in sessions : s.token # c}
  /\ UNCHANGED <<factorVars, session_ttl>>

\* POST /auth/password from password p to q; a proof is asked for with a factor.
ChangePassword(c, p, q, proof) ==
  /\ Reauthenticated(c, p)
  /\ admin.auth_version < MaxVersion
  /\ \/ /\ admin.totp_seed = NoSeed
        /\ admin' = Revoked([admin EXCEPT !.password = q])
        /\ UNCHANGED <<recovery_codes, spent, wrong>>
     \/ /\ admin.totp_seed # NoSeed
        /\ ProofAccepted(proof, NoSeed)
        /\ admin' = Revoked([AdminAfter(proof, NoSeed) EXCEPT !.password = q])
        /\ recovery_codes' = CodesLeft(proof)
  /\ RevokeRows
  /\ UNCHANGED <<now, session_ttl>>

-----------------------------------------------------------------------------
(* twofactor_routes.py *)

\* The challenge a verification may use: live, current, not worn out.
OpenChallenge(x) ==
  /\ x.expires_at > now
  /\ x.auth_version = admin.auth_version
  /\ x.failures < ChallengeTries

\* POST /verify, proof accepted: the challenge becomes a session.
VerifyAccepted(x, proof) ==
  /\ admin # NoAdmin /\ OpenChallenge(x)
  /\ FactorStateOK(admin, recovery_codes)
  /\ admin.totp_seed # NoSeed
  /\ ProofAccepted(proof, NoSeed)
  /\ admin' = AdminAfter(proof, NoSeed)
  /\ recovery_codes' = CodesLeft(proof)
  /\ challenges' = challenges \ {x}
  /\ CreateSession(sessions, enrollments, admin.auth_version)
  /\ UNCHANGED <<now, session_ttl>>

\* POST /verify, proof refused: the challenge counts it as well.
VerifyRejected(x, proof) ==
  /\ admin # NoAdmin /\ OpenChallenge(x)
  /\ FactorStateOK(admin, recovery_codes)
  /\ admin.totp_seed # NoSeed
  /\ ProofRejected(proof, NoSeed)
  /\ challenges' = (challenges \ {x}) \cup {[x EXCEPT !.failures = @ + 1]}
  /\ UNCHANGED <<sessions, enrollments, now, session_ttl>>

\* POST /cancel needs no session: it deletes the cookie's challenge.
Cancel(h) ==
  /\ challenges' = {x \in challenges : x.token # h}
  /\ UNCHANGED <<factorVars, sessions, enrollments, session_ttl>>

\* POST /enroll: a new seed bound to this session replaces any other enrollment.
Enroll(c, p) ==
  /\ Reauthenticated(c, p)
  /\ admin.totp_seed = NoSeed
  /\ \E seed \in FreshSeeds :
       enrollments' = {[session |-> c, expires_at |-> now + EnrollTTL,
                        auth_version |-> admin.auth_version, seed |-> seed]}
  /\ UNCHANGED <<factorVars, sessions, challenges, session_ttl>>

\* The enrollment a confirmation may use: live, current, of this very session.
OpenEnrollment(e, c) ==
  /\ e.expires_at > now
  /\ e.auth_version = admin.auth_version
  /\ e.session = c

\* POST /confirm with a code of the enrolled seed: the factor is on.
ConfirmAccepted(c, p, e, proof) ==
  /\ Reauthenticated(c, p)
  /\ admin.totp_seed = NoSeed /\ OpenEnrollment(e, c)
  /\ admin.auth_version < MaxVersion
  /\ ProofAccepted(proof, e.seed)
  /\ admin' = Revoked([AdminAfter(proof, e.seed) EXCEPT !.totp_seed = e.seed])
  /\ recovery_codes' \in FreshBatches
  /\ RevokeAndCreateSession(admin.auth_version + 1)
  /\ UNCHANGED <<now, session_ttl>>

ConfirmRejected(c, p, e, proof) ==
  /\ Reauthenticated(c, p)
  /\ admin.totp_seed = NoSeed /\ OpenEnrollment(e, c)
  /\ ProofRejected(proof, e.seed)
  /\ UNCHANGED <<rows, now, session_ttl>>

\* Variant: the recovery codes outlive the factor.
DisableKeepingCodes(c, p, proof) ==
  /\ Reauthenticated(c, p)
  /\ admin.totp_seed # NoSeed
  /\ admin.auth_version < MaxVersion
  /\ ProofAccepted(proof, NoSeed)
  /\ admin' = Revoked(WithoutFactor(AdminAfter(proof, NoSeed)))
  /\ recovery_codes' = CodesLeft(proof)
  /\ RevokeRows
  /\ UNCHANGED <<now, session_ttl>>
\* POST /disable: the factor and its recovery codes go, failures stay.
Disable(c, p, proof) ==
  /\ Reauthenticated(c, p)
  /\ admin.totp_seed # NoSeed
  /\ admin.auth_version < MaxVersion
  /\ ProofAccepted(proof, NoSeed)
  /\ admin' = Revoked(WithoutFactor(AdminAfter(proof, NoSeed)))
  /\ recovery_codes' = {}
  /\ RevokeRows
  /\ UNCHANGED <<now, session_ttl>>

\* POST /recovery-codes: a new batch replaces the old one.
Regenerate(c, p, proof) ==
  /\ Reauthenticated(c, p)
  /\ admin.totp_seed # NoSeed
  /\ admin.auth_version < MaxVersion
  /\ ProofAccepted(proof, NoSeed)
  /\ admin' = Revoked(AdminAfter(proof, NoSeed))
  /\ recovery_codes' \in FreshBatches
  /\ RevokeAndCreateSession(admin.auth_version + 1)
  /\ UNCHANGED <<now, session_ttl>>

\* A wrong proof sent to /auth/password (where it may be missing), /disable or
\* /recovery-codes.
ManagementRejected(c, p, proof) ==
  /\ Reauthenticated(c, p)
  /\ admin.totp_seed # NoSeed
  /\ ProofRejected(proof, NoSeed)
  /\ UNCHANGED <<rows, now, session_ttl>>

-----------------------------------------------------------------------------
(* The environment: the wall clock and a restart with another session_days. *)

Tick ==
  /\ ClockMoves
  /\ UNCHANGED <<rows, session_ttl>>

Restart ==
  /\ session_ttl' \in SessionTTLs
  /\ UNCHANGED <<factorVars, rows>>

-----------------------------------------------------------------------------
\* What a tab may send: any cookie it ever held, or none.
SessionCookies == Token \cup {NoCookie}
ChallengeCookies == ChallengeToken \cup {NoCookie}

SessionRequest ==
  \/ \E p \in Password : CreateAdministrator(p)
  \/ \E p \in Password : LoginPassword(p)
  \/ \E p \in Password, c \in SessionCookies, h \in ChallengeCookies :
       LoginChallenged(p, c, h)
  \/ \E c \in Token, h \in ChallengeCookies : Logout(c, h)
  \/ \E c \in Token, p, q \in Password, proof \in Proof : ChangePassword(c, p, q, proof)
  \/ \E h \in ChallengeCookies : Cancel(h)

FactorRequest ==
  \/ \E x \in challenges, proof \in Proof : VerifyAccepted(x, proof)
  \/ \E x \in challenges, proof \in Proof : VerifyRejected(x, proof)
  \/ \E c \in Token, p \in Password : Enroll(c, p)
  \/ \E c \in Token, p \in Password, e \in enrollments, proof \in TotpProof :
       ConfirmAccepted(c, p, e, proof)
  \/ \E c \in Token, p \in Password, e \in enrollments, proof \in TotpProof :
       ConfirmRejected(c, p, e, proof)
  \/ \E c \in Token, p \in Password, proof \in Proof : Disable(c, p, proof)
  \/ \E c \in Token, p \in Password, proof \in Proof : Regenerate(c, p, proof)
  \/ \E c \in Token, p \in Password, proof \in Proof \cup {NoProof} :
       ManagementRejected(c, p, proof)

Next == SessionRequest \/ FactorRequest \/ Tick \/ Restart

Spec == Init /\ [][Next]_vars
-----------------------------------------------------------------------------
(* Properties. *)

\* Every row that grants something was made under the credentials in force:
\* the auth_version comparison of find_session, verify and confirm never has a
\* stale row to catch, however requests of old tabs interleave with a rotation.
RowsCurrent ==
  \A r \in sessions \cup challenges \cup enrollments :
    admin # NoAdmin /\ r.auth_version = admin.auth_version

\* A pending enrollment belongs to a session still in the table and only exists
\* while the factor is off; a pending challenge only while it is on.  Logins,
\* evictions, expiry and logouts of other tabs may not break the pairing.
PendingRowsFit ==
  /\ \A e \in enrollments : \E s \in sessions : s.token = e.session
  /\ enrollments # {} => admin.totp_seed = NoSeed
  /\ challenges # {} => admin.totp_seed # NoSeed

\* The tables stay within the limits the code and the backup validator count on.
RowsBounded ==
  /\ Cardinality(sessions) <= MaxSessions
  /\ Cardinality(challenges) <= MaxChallenges
  /\ Cardinality(enrollments) <= 1
  /\ \A x \in challenges : x.failures <= ChallengeTries

\* The three of them.
RowsSound == RowsCurrent /\ PendingRowsFit /\ RowsBounded

\* A step that changes the password, turns the factor on or off or replaces the
\* recovery codes leaves no session, challenge or enrollment from before it.
CredentialsChange ==
  /\ admin # NoAdmin
  /\ \/ admin'.password # admin.password
     \/ admin'.totp_seed # admin.totp_seed
     \/ ~(recovery_codes' \subseteq recovery_codes)
RotationRevokes ==
  [][CredentialsChange => /\ sessions \cap sessions' = {}
                          /\ challenges' = {} /\ enrollments' = {}
                          /\ admin'.auth_version > admin.auth_version]_vars

\* While the factor is on, a session appears only in a step that spends a proof
\* never accepted before: not by a replayed code, a second use of a challenge or
\* a login with the password alone.
SessionGranted == admin # NoAdmin /\ ~(sessions' \subseteq sessions)
SessionsNeedFreshProof ==
  [][SessionGranted /\ admin.totp_seed # NoSeed => spent' # spent]_vars
=============================================================================
