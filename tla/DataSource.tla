----------------------------- MODULE DataSource -----------------------------
(***************************************************************************)
(* Access to the TeslaMate database (backend/matescope/postgresql.py) by   *)
(* history requests and by the PostgreSQL test, beside the saves of        *)
(* Settings.  A request reads the settings first and then takes the one    *)
(* pool of the process under one lock; it replaces the pool when that was  *)
(* opened for another version of the settings, be it older or newer.  The  *)
(* MQTT and SMTP tests of Settings share nothing with it and rest here.    *)
(***************************************************************************)
EXTENDS Settings

CONSTANTS
  PostgreSQL,       \* the connection of the pool
  NoRequest, NoPool

ASSUME DataSourceAssumption ==
  /\ PostgreSQL \in Name \ Optional
  /\ NoRequest \notin Request

VARIABLES
  lock_owner,       \* DataSource.lock
  pool              \* DataSource.pool and .version: what the pool connects with

sourceVars == <<settingsVars, lock_owner, pool>>

Pool == [version : Nat, login : Login]

SourceTypeOK ==
  /\ SettingsTypeOK
  /\ lock_owner \in Request \cup {NoRequest}
  /\ pool \in Pool \cup {NoPool}

SourceInit == SettingsInit /\ lock_owner = NoRequest /\ pool = NoPool

-----------------------------------------------------------------------------
\* snapshot() for POST /settings/postgresql/test or for a history request.
BeginUse(r, s, kind) ==
  /\ Read(r, s, PostgreSQL, kind)
  /\ UNCHANGED <<row, sessions, free_slots, asked, lock_owner, pool>>

Wants(r) == Is(r, "read") /\ requests[r].name = PostgreSQL

\* A history request is answered; a test goes on to store its result.
Answered(r, success) ==
  IF requests[r].kind = "history" THEN requests' = [requests EXCEPT ![r] = Idle]
                                  ELSE Probed(r, success)

\* skipped, disabled or unconfigured.
NotConfigured(r) ==
  /\ Wants(r) /\ ~Testable(requests[r].login.fields)
  /\ Answered(r, FALSE)
  /\ UNCHANGED <<row, sessions, free_slots, asked, lock_owner, pool>>

\* Variant: a request waits for the lock as long as it takes.
LockTimeoutNever(r) == FALSE
\* bounded_lock() gives up after five seconds.
LockTimeout(r) ==
  /\ Wants(r) /\ Testable(requests[r].login.fields)
  /\ lock_owner # NoRequest
  /\ Answered(r, FALSE)
  /\ UNCHANGED <<row, sessions, free_slots, asked, lock_owner, pool>>

\* Variant: a pool that is open is good enough.
PoolForAny(r) ==
  IF pool = NoPool THEN [version |-> requests[r].version, login |-> requests[r].login]
  ELSE pool
\* The pool of this request's version: the one that is open, or a new one.
PoolFor(r) ==
  IF pool = NoPool \/ (pool # NoPool /\ pool.version # requests[r].version)
  THEN [version |-> requests[r].version, login |-> requests[r].login]
  ELSE pool

TakePool(r) ==
  /\ Wants(r) /\ Testable(requests[r].login.fields)
  /\ lock_owner = NoRequest
  /\ lock_owner' = r
  /\ pool' = PoolFor(r)
  /\ requests' = [requests EXCEPT ![r].at = "using", ![r].used = PoolFor(r).login]
  /\ UNCHANGED <<row, sessions, free_slots, asked>>

\* Variant: the version is recorded before the pool is made.
PoolNotMadeButVersion(r) ==
  /\ Wants(r) /\ Testable(requests[r].login.fields)
  /\ lock_owner = NoRequest
  /\ PoolFor(r) # pool
  /\ pool' = [version |-> requests[r].version, login |-> NoPool]
  /\ Answered(r, FALSE)
  /\ UNCHANGED <<row, sessions, free_slots, asked, lock_owner>>
\* The old pool is closed before the new one is made, which may fail.
PoolNotMade(r) ==
  /\ Wants(r) /\ Testable(requests[r].login.fields)
  /\ lock_owner = NoRequest
  /\ PoolFor(r) # pool
  /\ pool' = NoPool
  /\ Answered(r, FALSE)
  /\ UNCHANGED <<row, sessions, free_slots, asked, lock_owner>>

\* The checks and queries of the request end, one way or the other.
EndUse(r) ==
  /\ Is(r, "using")
  /\ \E success \in BOOLEAN : Answered(r, success)
  /\ lock_owner' = NoRequest
  /\ UNCHANGED <<row, sessions, free_slots, asked, pool>>

RestartSource ==
  /\ Restart
  /\ lock_owner' = NoRequest /\ pool' = NoPool

SourceStep(r) ==
  \/ NotConfigured(r) \/ LockTimeout(r) \/ TakePool(r) \/ PoolNotMade(r) \/ EndUse(r)
  \/ StoreResult(r) /\ UNCHANGED <<lock_owner, pool>>

SourceNext ==
  \/ (Save \/ SessionsChange) /\ UNCHANGED <<lock_owner, pool>>
  \/ \E r \in Request, s \in Session, kind \in {"test", "history"} : BeginUse(r, s, kind)
  \/ \E r \in Request : SourceStep(r)
  \/ RestartSource

\* Connecting, waiting for a connection and every statement end after five seconds.
SourceSpec ==
  /\ SourceInit /\ [][SourceNext]_sourceVars
  /\ \A r \in Request : WF_sourceVars(SourceStep(r))
-----------------------------------------------------------------------------
(* Properties. *)

\* Whoever queries, queries the database it read the settings of, with their
\* password, and keeps it to the end: no save, and no request with older or newer
\* settings, replaces or reuses a pool under it.
UsesWhatItRead ==
  \A r \in Request : Is(r, "using") =>
    /\ lock_owner = r
    /\ requests[r].used = requests[r].login
    /\ pool = [version |-> requests[r].version, login |-> requests[r].login]

\* Every request is answered, however many wait for the lock, whatever fails.
EveryoneIsAnswered == \A r \in Request : requests[r] # Idle ~> requests[r] = Idle
=============================================================================
