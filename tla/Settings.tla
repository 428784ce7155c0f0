------------------------------ MODULE Settings ------------------------------
(***************************************************************************)
(* The settings row of backend/matescope/settings.py, and the connection   *)
(* tests that take a snapshot of it, talk to a service for seconds without *)
(* holding any transaction, and then write their result.  The tests of     *)
(* this module are those of connection_tests.py (MQTT and SMTP), which run *)
(* in a child process under one of two slots; DataSource adds the          *)
(* PostgreSQL test.                                                        *)
(*                                                                         *)
(* A save is one writer transaction, so it is one action.  Of a            *)
(* connection's fields the model keeps what the code branches on.  A row   *)
(* that was never written reads as the defaults, so it is one that holds   *)
(* them.                                                                   *)
(***************************************************************************)
EXTENDS Integers, FiniteSets

CONSTANTS
  Name,                  \* the connections: postgresql, mqtt, smtp
  Optional,              \* those tested by a child process: mqtt, smtp
  Fields,                \* what a save may carry, the password apart
  DefaultFields,
  Secret, NoSecret,      \* connection passwords
  RangeBasis, DefaultBasis,
  Currency, NoCurrency,
  Omitted,               \* a preference a legacy client does not send
  Onboarding, FirstStep,
  Session,               \* the administrator's sessions, as Auth keeps them
  Request,               \* requests that may be in flight
  Slots,                 \* child processes at once (2)
  NoResult,
  MaxVersion             \* bound of the model: saves of one connection

ConnectionFields ==
  [host : BOOLEAN, complete : BOOLEAN, enabled : BOOLEAN, skipped : BOOLEAN, target : Nat]

ASSUME SettingsAssumption ==
  /\ Optional \subseteq Name
  /\ Fields \subseteq ConnectionFields /\ DefaultFields \in Fields
  /\ \A f \in Fields : ~(f.enabled /\ f.skipped)
  /\ ~DefaultFields.enabled /\ ~DefaultFields.skipped
  /\ NoSecret \notin Secret
  /\ DefaultBasis \in RangeBasis /\ NoCurrency \notin Currency
  /\ Omitted \notin RangeBasis \cup Currency \cup {NoCurrency}
  /\ FirstStep \in Onboarding
  /\ Slots \in Nat \ {0} /\ MaxVersion \in Nat

VARIABLES
  preferences, onboarding, connections,   \* the JSON of application_settings
  passwords,                              \* encrypted_passwords
  sessions,                               \* the live sessions
  requests,                               \* per request: what its handler holds
  free_slots,                             \* _slots
  asked                                   \* auxiliary: what each part was last set to

row == <<preferences, onboarding, connections, passwords>>
settingsVars == <<row, sessions, requests, free_slots, asked>>

Login == [fields : Fields, secret : Secret \cup {NoSecret}]
Preferences == [range_basis : RangeBasis, display_currency : Currency \cup {NoCurrency}]
PreferencesBody ==
  [range_basis : RangeBasis \cup {Omitted},
   display_currency : Currency \cup {NoCurrency, Omitted}]
PasswordChange ==
  {[action |-> "retain"], [action |-> "clear"]} \cup [action : {"replace"}, value : Secret]

Status == {"unconfigured", "unverified", "disabled", "skipped", "success", "failure"}
\* A result remembers what the probe really used, beside the version it was for.
Result == [version : Nat, status : {"success", "failure"}, used : Login]
Connection ==
  [fields : Fields, password_set : BOOLEAN, version : Nat, status : Status,
   result : Result \cup {NoResult}]

ASSUME ResultAssumption == NoResult \notin Result

Idle == [at |-> "idle"]
Snapshot == [at : {"read", "probing", "using", "probed"}, kind : {"test", "history"},
             session : Session, name : Name, version : Nat, login : Login, used : Login,
             success : BOOLEAN]

SettingsTypeOK ==
  /\ preferences \in Preferences
  /\ onboarding \in Onboarding
  /\ connections \in [Name -> Connection]
  /\ passwords \in [Name -> Secret \cup {NoSecret}]
  /\ sessions \subseteq Session
  /\ requests \in [Request -> Snapshot \cup {Idle}]
  /\ free_slots \in 0 .. Slots
  /\ asked \in [preferences : Preferences, onboarding : Onboarding, logins : [Name -> Login]]

DefaultPreferences == [range_basis |-> DefaultBasis, display_currency |-> NoCurrency]
DefaultConnection ==
  [fields |-> DefaultFields, password_set |-> FALSE, version |-> 0,
   status |-> "disabled", result |-> NoResult]

SettingsInit ==
  /\ preferences = DefaultPreferences
  /\ onboarding = FirstStep
  /\ connections = [n \in Name |-> DefaultConnection]
  /\ passwords = [n \in Name |-> NoSecret]
  /\ sessions = {}
  /\ requests = [r \in Request |-> Idle]
  /\ free_slots = Slots
  /\ asked = [preferences |-> DefaultPreferences, onboarding |-> FirstStep,
              logins |-> [n \in Name |-> [fields |-> DefaultFields, secret |-> NoSecret]]]

-----------------------------------------------------------------------------
(* The saves.  record_for_write() looks the session up again inside the     *)
(* transaction.                                                             *)

Given(new, old) == IF new = Omitted THEN old ELSE new

\* Variant: an omitted preference falls back to its default.
MergedToDefaults(body) ==
  [range_basis |-> Given(body.range_basis, DefaultBasis),
   display_currency |-> Given(body.display_currency, NoCurrency)]
\* What a legacy client omits stays; an explicit null clears the currency.
Merged(body) ==
  [range_basis |-> Given(body.range_basis, preferences.range_basis),
   display_currency |-> Given(body.display_currency, preferences.display_currency)]

SavePreferences(s, body) ==
  /\ s \in sessions
  /\ preferences' = Merged(body)
  /\ asked' = [asked EXCEPT
       !.preferences.range_basis = Given(body.range_basis, @),
       !.preferences.display_currency = Given(body.display_currency, @)]
  /\ UNCHANGED <<onboarding, connections, passwords, sessions, requests, free_slots>>

SaveOnboarding(s, body) ==
  /\ s \in sessions
  /\ onboarding' = body
  /\ asked' = [asked EXCEPT !.onboarding = body]
  /\ UNCHANGED <<preferences, connections, passwords, sessions, requests, free_slots>>

PasswordAfter(old, change) ==
  CASE change.action = "retain" -> old
    [] change.action = "clear" -> NoSecret
    [] change.action = "replace" -> change.value

StatusOf(f) ==
  CASE f.skipped -> "skipped"
    [] ~f.skipped /\ ~f.enabled -> "disabled"
    [] ~f.skipped /\ f.enabled /\ f.host -> "unverified"
    [] ~f.skipped /\ f.enabled /\ ~f.host -> "unconfigured"

\* The connection after a save: a new version, untested.
Saved(old, f, secret) ==
  [fields |-> f, password_set |-> secret # NoSecret, version |-> old.version + 1,
   status |-> StatusOf(f), result |-> NoResult]

SaveConnection(s, n, f, change) ==
  LET secret == PasswordAfter(passwords[n], change)
  IN  /\ s \in sessions
      /\ connections[n].version < MaxVersion
      /\ passwords' = [passwords EXCEPT ![n] = secret]
      /\ connections' = [connections EXCEPT ![n] = Saved(@, f, secret)]
      /\ asked' = [asked EXCEPT !.logins[n] =
           [fields |-> f, secret |-> PasswordAfter(@.secret, change)]]
      /\ UNCHANGED <<preferences, onboarding, sessions, requests, free_slots>>

-----------------------------------------------------------------------------
(* test_optional() and run_test(). *)

\* The snapshot: settings and password in one SQLite read transaction, after
\* require_admin() found the session (losing it in between is losing it just after:
\* it is looked up again before anything is written).
Read(r, s, n, kind) ==
  LET login == [fields |-> connections[n].fields, secret |-> passwords[n]]
  IN  /\ requests[r] = Idle /\ s \in sessions
      /\ requests' = [requests EXCEPT ![r] =
           [at |-> "read", kind |-> kind, session |-> s, name |-> n,
            version |-> connections[n].version, login |-> login, used |-> login,
            success |-> FALSE]]

BeginTest(r, s, n) ==
  /\ n \in Optional
  /\ Read(r, s, n, "test")
  /\ UNCHANGED <<row, sessions, free_slots, asked>>

\* What a probe needs: enabled, a host, a sender or user name.
Testable(f) == ~f.skipped /\ f.enabled /\ f.host /\ f.complete

Is(r, at) == requests[r].at = at

Probed(r, success) ==
  requests' = [requests EXCEPT ![r].at = "probed", ![r].success = success]

\* skipped, disabled, unconfigured, or busy: no child is started.
NotProbed(r) ==
  /\ Is(r, "read") /\ requests[r].name \in Optional
  /\ ~Testable(requests[r].login.fields) \/ free_slots = 0
  /\ Probed(r, FALSE)
  /\ UNCHANGED <<row, sessions, free_slots, asked>>

StartProbe(r) ==
  /\ Is(r, "read") /\ requests[r].name \in Optional
  /\ Testable(requests[r].login.fields) /\ free_slots > 0
  /\ free_slots' = free_slots - 1
  /\ requests' = [requests EXCEPT ![r].at = "probing"]
  /\ UNCHANGED <<row, sessions, asked>>

\* Variant: a killed child gives its slot back twice.
EndProbeTwice(r) ==
  /\ Is(r, "probing")
  /\ \E success \in BOOLEAN :
       /\ Probed(r, success)
       /\ free_slots' = IF success THEN free_slots + 1 ELSE free_slots + 2
  /\ UNCHANGED <<row, sessions, asked>>
\* Variant: the slot of a child that was killed is not given back.
EndProbeLeaking(r) ==
  /\ Is(r, "probing")
  /\ \E success \in BOOLEAN :
       /\ Probed(r, success)
       /\ free_slots' = IF success THEN free_slots + 1 ELSE free_slots
  /\ UNCHANGED <<row, sessions, asked>>
\* The child answers, exits, prints nonsense or is killed after twelve seconds.
EndProbe(r) ==
  /\ Is(r, "probing")
  /\ \E success \in BOOLEAN : Probed(r, success)
  /\ free_slots' = free_slots + 1
  /\ UNCHANGED <<row, sessions, asked>>

Tested(r) ==
  LET status == IF requests[r].success THEN "success" ELSE "failure"
  IN  [connections EXCEPT
         ![requests[r].name].status = status,
         ![requests[r].name].result =
            [version |-> requests[r].version, status |-> status, used |-> requests[r].used]]

\* Variant: the result is stored whatever was saved in the meantime.
SameVersionAlways(r) == TRUE
\* Nothing was saved for this connection since the snapshot.
SameVersion(r) == connections[requests[r].name].version = requests[r].version

\* Variant: the session that asked is not looked up again.
StillSignedInAlways(r) == TRUE
\* record_for_write() finds the session the request came with.
StillSignedIn(r) == requests[r].session \in sessions

\* The writing transaction: the result is stored, or the answer is
\* configuration_changed, or 401.
StoreResult(r) ==
  /\ Is(r, "probed")
  /\ \/ StillSignedIn(r) /\ SameVersion(r) /\ connections' = Tested(r)
     \/ ~(StillSignedIn(r) /\ SameVersion(r)) /\ UNCHANGED connections
  /\ requests' = [requests EXCEPT ![r] = Idle]
  /\ UNCHANGED <<preferences, onboarding, passwords, sessions, free_slots, asked>>

-----------------------------------------------------------------------------
(* The environment: sessions come and go (Auth), the service restarts. *)

SessionsChange ==
  /\ \E s \in Session : sessions' \in {sessions \cup {s}, sessions \ {s}, {}}
  /\ UNCHANGED <<row, requests, free_slots, asked>>

\* The requests in flight die with the process; the row survives.
Restart ==
  /\ requests' = [r \in Request |-> Idle]
  /\ free_slots' = Slots
  /\ UNCHANGED <<row, sessions, asked>>

Save ==
  \E s \in sessions :
    \/ \E body \in PreferencesBody : SavePreferences(s, body)
    \/ \E body \in Onboarding : SaveOnboarding(s, body)
    \/ \E n \in Name, f \in Fields, change \in PasswordChange :
         SaveConnection(s, n, f, change)

TestStep(r) == NotProbed(r) \/ StartProbe(r) \/ EndProbe(r) \/ StoreResult(r)

SettingsNext ==
  \/ Save
  \/ \E r \in Request, s \in Session, n \in Name : BeginTest(r, s, n)
  \/ \E r \in Request : TestStep(r)
  \/ SessionsChange
  \/ Restart

\* A probe ends by its deadline, and a handler that has its answer goes on.
SettingsSpec ==
  /\ SettingsInit /\ [][SettingsNext]_settingsVars
  /\ \A r \in Request : WF_settingsVars(TestStep(r))
-----------------------------------------------------------------------------
(* Properties. *)

\* A stored result speaks of the settings it stands beside: the probe used the
\* very fields and password of the row, whatever was edited, edited back, or
\* tested at the same time while it ran.
ResultIsCurrent ==
  \A n \in Name : connections[n].result # NoResult =>
    /\ connections[n].result.version = connections[n].version
    /\ connections[n].result.used =
         [fields |-> connections[n].fields, secret |-> passwords[n]]

\* The status shown is that of the stored result or, untested, that of the fields;
\* password_set tells whether there is a password.
StatusIsHonest ==
  \A n \in Name :
    /\ connections[n].password_set = (passwords[n] # NoSecret)
    /\ connections[n].status =
         IF connections[n].result = NoResult THEN StatusOf(connections[n].fields)
         ELSE connections[n].result.status

\* What the settings say of a test is true of them.
ResultIsHonest == ResultIsCurrent /\ StatusIsHonest

\* Every part of the row holds what it was last explicitly set to: no save, test or
\* legacy client undoes the save of another part, and none revives a password.
NothingLost ==
  /\ preferences = asked.preferences /\ onboarding = asked.onboarding
  /\ \A n \in Name : [fields |-> connections[n].fields, secret |-> passwords[n]]
                       = asked.logins[n]

\* A test that outlives its session - logout, password change, eviction - writes
\* nothing any more.
SignedOutWritesNothing ==
  [][\A r \in Request :
       requests[r] # Idle /\ requests'[r] = Idle /\ requests[r].session \notin sessions
         => UNCHANGED row]_settingsVars

\* Slots are not lost on any way a probe can end.
SlotsComeBack == free_slots = 0 ~> free_slots > 0
=============================================================================
