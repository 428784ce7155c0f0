------------------------------ MODULE Recovery ------------------------------
(***************************************************************************)
(* The local recovery commands of backend/matescope/cli.py - backup,       *)
(* restore, reset-password and reset-2fa - beside the running sign-in      *)
(* handlers of Auth.  backup copies the live database with SQLite's online *)
(* backup, so it sees one committed state; reset-password holds the writer *)
(* lock; restore and reset-2fa run while the service is stopped, which is  *)
(* a step between two requests.  How restore lays out its two files is a   *)
(* matter of DataDirectory.                                                *)
(*                                                                         *)
(* One archive is kept: a later backup replaces it or is not taken, so it  *)
(* can be of any age when it is restored.                                  *)
(***************************************************************************)
EXTENDS Auth

CONSTANT NoArchive

VARIABLE archive     \* the database of the archive, or NoArchive

recoveryVars == <<vars, archive>>

Archive ==
  [admin : Administrator \cup {NoAdmin}, recovery_codes : SUBSET RecoveryCode]

ASSUME RecoveryAssumption == NoArchive \notin Archive

RecoveryInit == Init /\ archive = NoArchive

-----------------------------------------------------------------------------
(* validate_two_factor_state(): what backup, restore and the reset commands *)
(* ask of a database before they touch it.                                 *)

ValidSessions ==
  /\ Cardinality(sessions) <= MaxSessions
  /\ \A s \in sessions : s.auth_version = admin.auth_version

ValidChallenges ==
  /\ Cardinality(challenges) <= MaxChallenges
  /\ \A x \in challenges :
       x.auth_version = admin.auth_version /\ x.failures <= ChallengeTries

ValidEnrollments ==
  /\ Cardinality(enrollments) <= 1
  /\ \A e \in enrollments :
       /\ e.auth_version = admin.auth_version
       /\ \E s \in sessions : s.token = e.session

ValidDatabase ==
  IF admin = NoAdmin
  THEN sessions = {} /\ challenges = {} /\ enrollments = {} /\ recovery_codes = {}
  ELSE /\ FactorStateOK(admin, recovery_codes)
       /\ ValidSessions /\ ValidChallenges /\ ValidEnrollments
       /\ admin.totp_seed = NoSeed => challenges = {}
       /\ admin.totp_seed # NoSeed => enrollments = {}

-----------------------------------------------------------------------------
(* Actions. *)

Backup ==
  /\ ValidDatabase
  /\ archive' = [admin |-> admin, recovery_codes |-> recovery_codes]
  /\ UNCHANGED vars

\* Variant: the archive's own watermark is trusted.
RestoredRowAsArchived(a) ==
  [Revoked(a) EXCEPT !.factor_failures = {}, !.totp_used_codes = {}]
\* Variant: the watermark is a step too far.
RestoredRowLate(a) ==
  [Revoked(a) EXCEPT
     !.factor_failures = {}, !.totp_used_codes = {},
     !.totp_last_step = IF a.totp_seed = NoSeed THEN -1 ELSE Max({@, Step(now) + 2})]
\* clear_restored_authentication(): no one-time code of a step up to the next one
\* is accepted, whatever was accepted since the archive was made.
RestoredRow(a) ==
  [Revoked(a) EXCEPT
     !.factor_failures = {}, !.totp_used_codes = {},
     !.totp_last_step = IF a.totp_seed = NoSeed THEN -1 ELSE Max({@, Step(now) + 1})]

\* restore into an empty data directory that takes the place of the current one.
\* The refusals counted so far concern a database that is gone.
RestoreArchive ==
  /\ archive # NoArchive
  /\ \/ archive.admin = NoAdmin /\ admin' = NoAdmin
     \/ /\ archive.admin # NoAdmin
        /\ archive.admin.auth_version < MaxVersion
        /\ admin' = RestoredRow(archive.admin)
  /\ recovery_codes' = {}
  /\ RevokeRows
  /\ wrong' = {}
  /\ UNCHANGED <<now, spent, session_ttl, archive>>

\* Variant: pending challenges outlive the reset.
ResetPasswordKeepingChallenges(q) ==
  /\ admin # NoAdmin /\ ValidDatabase
  /\ admin.auth_version < MaxVersion
  /\ admin' = Revoked([admin EXCEPT !.password = q])
  /\ RevokeRowsButChallenges
  /\ UNCHANGED <<recovery_codes, now, spent, wrong, session_ttl, archive>>
\* reset-password: the factor, its codes and the failures stay.
ResetPassword(q) ==
  /\ admin # NoAdmin /\ ValidDatabase
  /\ admin.auth_version < MaxVersion
  /\ admin' = Revoked([admin EXCEPT !.password = q])
  /\ RevokeRows
  /\ UNCHANGED <<recovery_codes, now, spent, wrong, session_ttl, archive>>

\* reset-2fa: the password stays, the failures are forgotten with the factor.
ResetTwoFactor ==
  /\ admin # NoAdmin /\ ValidDatabase
  /\ admin.auth_version < MaxVersion
  /\ admin' = [Revoked(WithoutFactor(admin)) EXCEPT !.factor_failures = {}]
  /\ recovery_codes' = {}
  /\ RevokeRows
  /\ wrong' = {}
  /\ UNCHANGED <<now, spent, session_ttl, archive>>

RecoveryNext ==
  \/ Next /\ UNCHANGED archive
  \/ Backup
  \/ RestoreArchive
  \/ \E q \in Password : ResetPassword(q)
  \/ ResetTwoFactor

RecoverySpec == RecoveryInit /\ [][RecoveryNext]_recoveryVars
-----------------------------------------------------------------------------
(* Properties. *)

\* Whatever the service and the recovery commands did, the next backup or reset
\* accepts the database: the limits and pairings cli.py checks are those the
\* handlers keep.
AlwaysRecoverable == ValidDatabase

\* Restoring an old row revives no proof: every recovery code ever accepted is
\* gone, every step of a seed that ever proved the factor is behind the watermark
\* when that seed comes back, and none proves it twice.
RestoreRevivesNoProof ==
  /\ recovery_codes \cap spent.recovery = {}
  /\ \A p, q \in spent.totp : p.seed = q.seed /\ p.match = q.match => p = q
  /\ admin # NoAdmin =>
       \A p \in spent.totp : p.seed = admin.totp_seed => p.match <= admin.totp_last_step

\* After a restore the promise of the command line holds: two steps later, or once
\* the clock has passed the restored watermark, the authenticator signs in.
OpensFrom(a, t) ==
  ~Throttled(a, t) /\ TotpValid(a, a.totp_seed, CodeAt(a.totp_seed, Step(t)), t)
RestoreReopens ==
  [][RestoreArchive /\ archive.admin # NoAdmin /\ archive.admin.totp_seed # NoSeed =>
       OpensFrom(admin', Max({now + 2 * Period,
                              (archive.admin.totp_last_step + 1) * Period}))]_recoveryVars
=============================================================================
