---------------------------- MODULE SettingsProofs ---------------------------
(***************************************************************************)
(* Proofs about Settings and DataSource: a stored result speaks of the     *)
(* settings it stands beside, no save undoes another, and whoever queries  *)
(* queries the database it read the settings of.                           *)
(***************************************************************************)
EXTENDS DataSource, FiniteSetTheorems, TLAPS

LoginOf(n) == [fields |-> connections[n].fields, secret |-> passwords[n]]

Held(r) == requests[r] # Idle

\* Every variable but the slots has its type.
PartsTyped ==
  /\ preferences \in Preferences
  /\ onboarding \in Onboarding
  /\ connections \in [Name -> Connection]
  /\ passwords \in [Name -> Secret \cup {NoSecret}]
  /\ sessions \subseteq Session
  /\ requests \in [Request -> Snapshot \cup {Idle}]
  /\ asked \in [preferences : Preferences, onboarding : Onboarding, logins : [Name -> Login]]

\* A snapshot of the current version holds the current login, and what is used is
\* what was read.
SnapshotOK(q) ==
  /\ q.version <= connections[q.name].version
  /\ q.version = connections[q.name].version => q.login = LoginOf(q.name)
  /\ q.used = q.login

SnapshotsOK == \A r \in Request : Held(r) => SnapshotOK(requests[r])

\* The row, and what the requests in flight hold of it.
SettingsInv == PartsTyped /\ ResultIsHonest /\ NothingLost /\ SnapshotsOK

-----------------------------------------------------------------------------
(* The values the operators return. *)

\* The settings that were never saved are off.
LEMMA DefaultStatus == StatusOf(DefaultFields) = "disabled"
  BY SettingsAssumption DEF StatusOf

\* The status of untested fields is one.
LEMMA UntestedStatus == \A f \in Fields : StatusOf(f) \in Status
  BY SettingsAssumption DEF StatusOf, Status, ConnectionFields

\* A password change leaves a password or none.
LEMMA ChangedPassword ==
  \A old \in Secret \cup {NoSecret}, change \in PasswordChange :
    PasswordAfter(old, change) \in Secret \cup {NoSecret}
  BY DEF PasswordAfter, PasswordChange

\* What a preference becomes is what it was or what was sent.
LEMMA GivenIsEither ==
  ASSUME NEW S, NEW new \in S \cup {Omitted}, NEW old \in S
  PROVE  Given(new, old) \in S
  BY DEF Given

\* There are two preferences.
LEMMA BothPreferences ==
  ASSUME NEW p \in Preferences, NEW basis, NEW currency
  PROVE  [p EXCEPT !.range_basis = basis, !.display_currency = currency]
           = [range_basis |-> basis, display_currency |-> currency]
<1>1. PICK b \in RangeBasis, c \in Currency \cup {NoCurrency} :
        p = [range_basis |-> b, display_currency |-> c]
  BY DEF Preferences
<1> DEFINE q == [p EXCEPT !.range_basis = basis]
<1>2. q = [range_basis |-> basis, display_currency |-> c]
  BY <1>1
<1> HIDE DEF q
<1>3. [q EXCEPT !.display_currency = currency]
        = [range_basis |-> basis, display_currency |-> currency]
  BY <1>2
<1> QED BY <1>3 DEF q

\* No snapshot is idle.
LEMMA SnapshotNotIdle ==
  /\ \A q \in Snapshot : q.at # "idle" /\ q # Idle
  /\ Idle.at = "idle"
  BY DEF Snapshot, Idle

-----------------------------------------------------------------------------
(* Each step preserves the invariant. *)

\* A fresh row satisfies it.
LEMMA SettingsInvInit == SettingsInit => SettingsInv
<1> SUFFICES ASSUME SettingsInit PROVE SettingsInv
  OBVIOUS
<1>1. /\ DefaultPreferences \in Preferences
      /\ [fields |-> DefaultFields, secret |-> NoSecret] \in Login
  BY SettingsAssumption DEF DefaultPreferences, Preferences, Login
<1>2. DefaultConnection \in Connection
  BY SettingsAssumption DEF DefaultConnection, Connection, Status
<1>3. PartsTyped
  BY <1>1, <1>2, SettingsAssumption DEF SettingsInit, PartsTyped
<1>4. ResultIsHonest
  BY DefaultStatus DEF SettingsInit, ResultIsHonest, ResultIsCurrent, StatusIsHonest,
                       DefaultConnection
<1>5. NothingLost
  BY DEF SettingsInit, NothingLost, DefaultConnection
<1>6. SnapshotsOK
  BY DEF SettingsInit, SnapshotsOK, Held
<1> QED BY <1>3, <1>4, <1>5, <1>6 DEF SettingsInv

\* A step that leaves the row alone, and of every request what it holds of it.
LEMMA RowKept ==
  ASSUME SettingsInv, UNCHANGED <<row, asked>>, sessions' \subseteq Session,
         requests' \in [Request -> Snapshot \cup {Idle}],
         \A r \in Request : requests'[r] # Idle =>
           /\ Held(r)
           /\ requests'[r].name = requests[r].name
           /\ requests'[r].version = requests[r].version
           /\ requests'[r].login = requests[r].login
           /\ requests'[r].used = requests[r].used
  PROVE  SettingsInv'
<1>1. /\ connections' = connections /\ passwords' = passwords /\ preferences' = preferences
      /\ onboarding' = onboarding /\ asked' = asked
  BY DEF row
<1>2. PartsTyped'
  BY <1>1 DEF SettingsInv, PartsTyped
<1>3. ResultIsHonest' /\ NothingLost'
  BY <1>1 DEF SettingsInv, ResultIsHonest, ResultIsCurrent, StatusIsHonest, NothingLost
<1>4. SnapshotsOK'
  <2> SUFFICES ASSUME NEW r \in Request, requests'[r] # Idle
               PROVE  SnapshotOK(requests[r])'
    BY DEF SnapshotsOK, Held
  <2>1. SnapshotOK(requests[r])
    BY DEF SettingsInv, SnapshotsOK
  <2> QED BY <1>1, <2>1 DEF SnapshotOK, LoginOf
<1> QED BY <1>2, <1>3, <1>4 DEF SettingsInv

\* Saving the preferences.
LEMMA SavePreferencesInv ==
  ASSUME SettingsInv, NEW s, NEW body \in PreferencesBody, SavePreferences(s, body)
  PROVE  SettingsInv'
<1>1. /\ PartsTyped /\ preferences = asked.preferences /\ onboarding = asked.onboarding
  BY DEF SettingsInv, NothingLost
<1>2. /\ body.range_basis \in RangeBasis \cup {Omitted}
      /\ body.display_currency \in (Currency \cup {NoCurrency}) \cup {Omitted}
      /\ preferences.range_basis \in RangeBasis
      /\ preferences.display_currency \in Currency \cup {NoCurrency}
  BY <1>1 DEF PartsTyped, PreferencesBody, Preferences
<1>3. Merged(body) \in Preferences
  BY <1>2, GivenIsEither DEF Merged, Preferences
<1>4. /\ asked'.preferences = Merged(body)
      /\ asked'.onboarding = asked.onboarding
      /\ asked'.logins = asked.logins
      /\ asked' \in [preferences : Preferences, onboarding : Onboarding, logins : [Name -> Login]]
  <2> DEFINE basis == Given(body.range_basis, asked.preferences.range_basis)
             currency == Given(body.display_currency, asked.preferences.display_currency)
             p == [asked.preferences EXCEPT !.range_basis = basis, !.display_currency = currency]
  <2>1. asked' = [asked EXCEPT !.preferences = p]
    BY <1>1 DEF SavePreferences, PartsTyped
  <2>2. p = Merged(body)
    <3>1. asked.preferences \in Preferences /\ asked.preferences = preferences
      BY <1>1 DEF PartsTyped
    <3>2. Merged(body) = [range_basis |-> basis, display_currency |-> currency]
      BY <3>1 DEF Merged
    <3> HIDE DEF basis, currency
    <3> QED BY <3>1, <3>2, BothPreferences
  <2> HIDE DEF p
  <2> QED BY <1>1, <1>3, <2>1, <2>2 DEF PartsTyped
<1>5. /\ preferences' = Merged(body) /\ UNCHANGED <<onboarding, connections, passwords>>
      /\ UNCHANGED <<sessions, requests>>
  BY DEF SavePreferences
<1>6. PartsTyped'
  BY <1>1, <1>3, <1>4, <1>5 DEF PartsTyped
<1>7. NothingLost'
  BY <1>1, <1>4, <1>5 DEF SettingsInv, NothingLost
<1>8. ResultIsHonest' /\ SnapshotsOK'
  BY <1>5 DEF SettingsInv, ResultIsHonest, ResultIsCurrent, StatusIsHonest,
              SnapshotsOK, SnapshotOK, LoginOf, Held
<1> QED BY <1>6, <1>7, <1>8 DEF SettingsInv

\* Saving how far onboarding came.
LEMMA SaveOnboardingInv ==
  ASSUME SettingsInv, NEW s, NEW body \in Onboarding, SaveOnboarding(s, body)
  PROVE  SettingsInv'
<1>1. /\ onboarding' = body /\ asked' = [asked EXCEPT !.onboarding = body]
      /\ UNCHANGED <<preferences, connections, passwords, sessions, requests>>
  BY DEF SaveOnboarding
<1>2. PartsTyped'
  BY <1>1 DEF SettingsInv, PartsTyped
<1>3. NothingLost'
  BY <1>1 DEF SettingsInv, NothingLost, PartsTyped
<1>4. ResultIsHonest' /\ SnapshotsOK'
  BY <1>1 DEF SettingsInv, ResultIsHonest, ResultIsCurrent, StatusIsHonest,
              SnapshotsOK, SnapshotOK, LoginOf, Held
<1> QED BY <1>2, <1>3, <1>4 DEF SettingsInv

\* Saving a connection: every snapshot of it is of an older version from here on.
LEMMA SaveConnectionInv ==
  ASSUME SettingsInv, NEW s, NEW n \in Name, NEW f \in Fields, NEW change \in PasswordChange,
         SaveConnection(s, n, f, change)
  PROVE  SettingsInv'
<1> DEFINE secret == PasswordAfter(passwords[n], change)
           c == Saved(connections[n], f, secret)
<1>1. /\ PartsTyped /\ NothingLost /\ ResultIsHonest /\ SnapshotsOK
  BY DEF SettingsInv
<1>2. /\ passwords' = [passwords EXCEPT ![n] = secret]
      /\ connections' = [connections EXCEPT ![n] = c]
      /\ asked' = [asked EXCEPT !.logins[n] =
           [fields |-> f, secret |-> PasswordAfter(@.secret, change)]]
      /\ UNCHANGED <<preferences, onboarding, sessions, requests>>
  BY DEF SaveConnection
<1>3. passwords[n] \in Secret \cup {NoSecret} /\ connections[n].version \in Nat
  BY <1>1 DEF PartsTyped, Connection
<1>4. secret \in Secret \cup {NoSecret}
  BY <1>3, ChangedPassword
<1>5. /\ c \in Connection /\ c.version = connections[n].version + 1 /\ c.fields = f
      /\ c.result = NoResult /\ c.status = StatusOf(f)
      /\ c.password_set = (secret # NoSecret)
  <2>1. StatusOf(f) \in Status
    BY UntestedStatus
  <2> QED BY <1>3, <2>1 DEF Saved, Connection
<1>6. asked' = [asked EXCEPT !.logins = [@ EXCEPT ![n] = [fields |-> f, secret |-> secret]]]
  <2>1. asked.logins[n].secret = passwords[n]
    <3>1. asked.logins[n] = [fields |-> connections[n].fields, secret |-> passwords[n]]
      BY <1>1 DEF NothingLost
    <3> QED BY <3>1
  <2> QED BY <1>1, <1>2, <2>1 DEF PartsTyped
<1>7. [fields |-> f, secret |-> secret] \in Login
  BY <1>4 DEF Login
<1> HIDE DEF secret, c
<1>8. PartsTyped'
  BY <1>1, <1>2, <1>4, <1>5, <1>6, <1>7 DEF PartsTyped
<1>9. /\ connections'[n] = c /\ passwords'[n] = secret
      /\ \A m \in Name : m # n => connections'[m] = connections[m] /\ passwords'[m] = passwords[m]
  BY <1>1, <1>2 DEF PartsTyped
<1>10. NothingLost'
  <2>1. /\ asked'.preferences = asked.preferences /\ asked'.onboarding = asked.onboarding
        /\ asked'.logins[n] = [fields |-> f, secret |-> secret]
        /\ \A m \in Name : m # n => asked'.logins[m] = asked.logins[m]
    BY <1>1, <1>6 DEF PartsTyped
  <2> QED BY <1>1, <1>2, <1>5, <1>9, <2>1 DEF NothingLost
<1>11. ResultIsHonest'
  <2>1. ResultIsCurrent'
    BY <1>1, <1>5, <1>9 DEF ResultIsHonest, ResultIsCurrent
  <2>2. StatusIsHonest'
    BY <1>1, <1>5, <1>9 DEF ResultIsHonest, StatusIsHonest
  <2> QED BY <2>1, <2>2 DEF ResultIsHonest
<1>12. SnapshotsOK'
  <2> SUFFICES ASSUME NEW r \in Request, Held(r)
               PROVE  SnapshotOK(requests[r])'
    BY <1>2 DEF SnapshotsOK, Held
  <2>1. /\ SnapshotOK(requests[r]) /\ requests'[r] = requests[r]
        /\ requests[r].name \in Name /\ requests[r].version \in Nat
    BY <1>1, <1>2 DEF SnapshotsOK, PartsTyped, Held, Snapshot
  <2>2. CASE requests[r].name = n
    BY <1>3, <1>5, <1>9, <2>1, <2>2 DEF SnapshotOK
  <2>3. CASE requests[r].name # n
    BY <1>9, <2>1, <2>3 DEF SnapshotOK, LoginOf
  <2> QED BY <2>2, <2>3
<1> QED BY <1>8, <1>10, <1>11, <1>12 DEF SettingsInv

\* A request reads its snapshot.
LEMMA ReadInv ==
  ASSUME SettingsInv, NEW r \in Request, NEW s, NEW n \in Name,
         NEW kind \in {"test", "history"}, Read(r, s, n, kind),
         UNCHANGED <<row, sessions, asked>>
  PROVE  /\ SettingsInv'
         /\ requests'[r].name = n /\ requests'[r].version = connections[n].version
         /\ requests'[r].login = LoginOf(n) /\ requests'[r].at = "read"
         /\ \A q \in Request : q # r => requests'[q] = requests[q]
<1> DEFINE login == [fields |-> connections[n].fields, secret |-> passwords[n]]
           x == [at |-> "read", kind |-> kind, session |-> s, name |-> n,
                 version |-> connections[n].version, login |-> login, used |-> login,
                 success |-> FALSE]
<1>1. PartsTyped /\ ResultIsHonest /\ NothingLost /\ SnapshotsOK
  BY DEF SettingsInv
<1>2. /\ connections' = connections /\ passwords' = passwords /\ preferences' = preferences
      /\ onboarding' = onboarding /\ asked' = asked /\ sessions' = sessions
  BY DEF row
<1>3. requests' = [requests EXCEPT ![r] = x] /\ s \in Session
  BY <1>1 DEF Read, PartsTyped
<1>4. login \in Login /\ connections[n].version \in Nat
  BY <1>1 DEF PartsTyped, Login, Connection
<1>5. x \in Snapshot
  <2> HIDE DEF login
  <2> QED BY <1>3, <1>4 DEF Snapshot
<1>6. /\ x.name = n /\ x.version = connections[n].version /\ x.login = LoginOf(n)
      /\ x.used = LoginOf(n) /\ x.at = "read"
  BY DEF LoginOf
<1> HIDE DEF x
<1>7. /\ requests' \in [Request -> Snapshot \cup {Idle}] /\ requests'[r] = x
      /\ \A q \in Request : q # r => requests'[q] = requests[q]
  BY <1>1, <1>3, <1>5 DEF PartsTyped
<1>8. PartsTyped'
  BY <1>1, <1>2, <1>7 DEF PartsTyped
<1>9. ResultIsHonest' /\ NothingLost'
  BY <1>1, <1>2 DEF ResultIsHonest, ResultIsCurrent, StatusIsHonest, NothingLost
<1>10. SnapshotsOK'
  <2> SUFFICES ASSUME NEW q \in Request, requests'[q] # Idle
               PROVE  SnapshotOK(requests[q])'
    BY DEF SnapshotsOK, Held
  <2>1. CASE q = r
    BY <1>2, <1>4, <1>6, <1>7, <2>1 DEF SnapshotOK, LoginOf
  <2>2. CASE q # r
    <3>1. SnapshotOK(requests[q]) /\ requests'[q] = requests[q]
      BY <1>1, <1>7, <2>2 DEF SnapshotsOK, Held
    <3> QED BY <1>2, <3>1 DEF SnapshotOK, LoginOf
  <2> QED BY <2>1, <2>2
<1> QED BY <1>6, <1>7, <1>8, <1>9, <1>10 DEF SettingsInv

\* A result is stored beside the version it is of, or not at all.
LEMMA StoreResultInv ==
  ASSUME SettingsInv, NEW r \in Request, StoreResult(r)
  PROVE  /\ SettingsInv'
         /\ requests' = [requests EXCEPT ![r] = Idle]
         /\ \A n \in Name : connections'[n].version = connections[n].version
                            /\ LoginOf(n)' = LoginOf(n)
<1> DEFINE q == requests[r]
           status == IF q.success THEN "success" ELSE "failure"
           res == [version |-> q.version, status |-> status, used |-> q.used]
           c == [connections[q.name] EXCEPT !.status = status, !.result = res]
<1>1. PartsTyped /\ ResultIsHonest /\ NothingLost /\ SnapshotsOK
  BY DEF SettingsInv
<1>2. /\ q \in Snapshot /\ Held(r)
  BY <1>1, SnapshotNotIdle DEF StoreResult, Is, PartsTyped, Held
<1>3. /\ q.name \in Name /\ q.version \in Nat /\ q.used \in Login
      /\ SnapshotOK(q)
  BY <1>1, <1>2 DEF Snapshot, SnapshotsOK
<1>4. /\ UNCHANGED <<preferences, onboarding, passwords, sessions, asked>>
      /\ requests' = [requests EXCEPT ![r] = Idle]
  BY DEF StoreResult
<1>5. /\ requests' \in [Request -> Snapshot \cup {Idle}]
      /\ \A p \in Request : requests'[p] = Idle \/ requests'[p] = requests[p]
  BY <1>1, <1>4 DEF PartsTyped
<1>6. CASE UNCHANGED connections
  <2>1. SettingsInv'
    BY <1>1, <1>4, <1>5, <1>6, RowKept DEF row, Held, PartsTyped
  <2> QED BY <1>4, <1>6, <2>1 DEF LoginOf
<1>7. CASE SameVersion(r) /\ connections' = Tested(r)
  <2>1. connections[q.name] \in Connection
    BY <1>1, <1>3 DEF PartsTyped
  <2>2. connections' = [connections EXCEPT ![q.name] = c]
    BY <1>1, <1>3, <1>7, <2>1 DEF Tested, PartsTyped, Connection
  <2>3. status \in Status /\ res \in Result /\ res # NoResult
    BY <1>3, ResultAssumption DEF Status, Result
  <2>4. /\ c \in Connection /\ c.fields = connections[q.name].fields
        /\ c.version = connections[q.name].version
        /\ c.password_set = connections[q.name].password_set
        /\ c.status = status /\ c.result = res
    <3> HIDE DEF res, status
    <3> QED BY <2>1, <2>3 DEF Connection
  <2>5. /\ res.version = connections[q.name].version /\ res.status = status
        /\ res.used = LoginOf(q.name)
    BY <1>3, <1>7 DEF SameVersion, SnapshotOK
  <2> HIDE DEF c, res, status
  <2>6. /\ connections'[q.name] = c
        /\ \A m \in Name : m # q.name => connections'[m] = connections[m]
    BY <1>1, <1>3, <2>2 DEF PartsTyped
  <2>7. connections' \in [Name -> Connection]
    BY <1>1, <2>2, <2>4 DEF PartsTyped
  <2>8. PartsTyped'
    BY <1>1, <1>4, <1>5, <2>7 DEF PartsTyped
  <2>9. \A n \in Name : /\ connections'[n].version = connections[n].version
                        /\ connections'[n].fields = connections[n].fields
                        /\ connections'[n].password_set = connections[n].password_set
    BY <2>4, <2>6
  <2>10. NothingLost'
    BY <1>1, <1>4, <2>9 DEF NothingLost
  <2>11. ResultIsHonest'
    <3> SUFFICES ASSUME NEW n \in Name
                 PROVE  /\ (connections[n].result # NoResult =>
                              /\ connections[n].result.version = connections[n].version
                              /\ connections[n].result.used = LoginOf(n))'
                        /\ (connections[n].password_set = (passwords[n] # NoSecret))'
                        /\ (connections[n].status =
                              IF connections[n].result = NoResult
                              THEN StatusOf(connections[n].fields)
                              ELSE connections[n].result.status)'
      BY DEF ResultIsHonest, ResultIsCurrent, StatusIsHonest, LoginOf
    <3>1. /\ connections[n].password_set = (passwords[n] # NoSecret)
          /\ passwords'[n] = passwords[n]
      BY <1>1, <1>4 DEF ResultIsHonest, StatusIsHonest
    <3>2. CASE n = q.name
      BY <2>3, <2>4, <2>5, <2>6, <3>1, <3>2 DEF LoginOf
    <3>3. CASE n # q.name
      BY <1>1, <2>6, <3>1, <3>3
         DEF ResultIsHonest, ResultIsCurrent, StatusIsHonest, LoginOf
    <3> QED BY <3>2, <3>3
  <2>12. \A n \in Name : LoginOf(n)' = LoginOf(n)
    BY <1>4, <2>9 DEF LoginOf
  <2>13. SnapshotsOK'
    <3> SUFFICES ASSUME NEW p \in Request, requests'[p] # Idle
                 PROVE  SnapshotOK(requests[p])'
      BY DEF SnapshotsOK, Held
    <3>1. requests'[p] = requests[p] /\ Held(p)
      BY <1>5 DEF Held
    <3>2. SnapshotOK(requests[p]) /\ requests[p].name \in Name
      BY <1>1, <3>1 DEF SnapshotsOK, PartsTyped, Held, Snapshot
    <3> QED BY <1>4, <2>9, <3>1, <3>2 DEF SnapshotOK, LoginOf
  <2> QED BY <1>4, <2>8, <2>9, <2>10, <2>11, <2>12, <2>13 DEF SettingsInv
<1> QED BY <1>6, <1>7 DEF StoreResult

\* Any save.
LEMMA SaveInv == SettingsInv /\ Save => SettingsInv'
<1> SUFFICES ASSUME SettingsInv, NEW s \in sessions,
                    \/ \E body \in PreferencesBody : SavePreferences(s, body)
                    \/ \E body \in Onboarding : SaveOnboarding(s, body)
                    \/ \E n \in Name, f \in Fields, change \in PasswordChange :
                         SaveConnection(s, n, f, change)
             PROVE  SettingsInv'
  BY DEF Save
<1> QED BY SavePreferencesInv, SaveOnboardingInv, SaveConnectionInv

\* Sessions come and go.
LEMMA SessionsChangeInv == SettingsInv /\ SessionsChange => SettingsInv'
<1> SUFFICES ASSUME SettingsInv, SessionsChange PROVE SettingsInv'
  OBVIOUS
<1>1. PartsTyped /\ UNCHANGED <<row, asked>> /\ requests' = requests
  BY DEF SettingsInv, SessionsChange
<1>2. sessions' \subseteq Session
  BY <1>1 DEF SessionsChange, PartsTyped
<1> QED BY <1>1, <1>2, RowKept DEF PartsTyped, Held

\* The requests in flight die with the process.
LEMMA RestartInv == SettingsInv /\ Restart => SettingsInv'
<1> SUFFICES ASSUME SettingsInv, Restart PROVE SettingsInv'
  OBVIOUS
<1>1. /\ PartsTyped /\ UNCHANGED <<row, asked>> /\ sessions' = sessions
      /\ \A r \in Request : requests'[r] = Idle
      /\ requests' \in [Request -> Snapshot \cup {Idle}]
  BY DEF SettingsInv, Restart
<1> QED BY <1>1, RowKept DEF PartsTyped

\* A request moves on with what it holds.
LEMMA MovedInv ==
  ASSUME SettingsInv, NEW r \in Request, Held(r), NEW q \in Snapshot,
         requests' = [requests EXCEPT ![r] = q],
         q.name = requests[r].name, q.version = requests[r].version,
         q.login = requests[r].login, q.used = requests[r].used,
         UNCHANGED <<row, sessions, asked>>
  PROVE  SettingsInv'
<1>1. /\ PartsTyped /\ requests'[r] = q /\ requests' \in [Request -> Snapshot \cup {Idle}]
      /\ \A p \in Request : p # r => requests'[p] = requests[p]
  BY DEF SettingsInv, PartsTyped
<1>2. sessions' \subseteq Session
  BY <1>1 DEF PartsTyped
<1> QED BY <1>1, <1>2, RowKept DEF Held

\* A probe that has ended keeps what its request holds.
LEMMA ProbedSnapshot ==
  ASSUME PartsTyped, NEW r \in Request, Held(r), NEW success \in BOOLEAN, Probed(r, success)
  PROVE  \E q \in Snapshot :
           /\ requests' = [requests EXCEPT ![r] = q]
           /\ q.at = "probed"
           /\ q.name = requests[r].name /\ q.version = requests[r].version
           /\ q.login = requests[r].login /\ q.used = requests[r].used
<1> DEFINE q == [requests[r] EXCEPT !.at = "probed", !.success = success]
<1>1. requests[r] \in Snapshot
  BY DEF PartsTyped, Held
<1>2. /\ q \in Snapshot /\ q.at = "probed"
      /\ q.name = requests[r].name /\ q.version = requests[r].version
      /\ q.login = requests[r].login /\ q.used = requests[r].used
  BY <1>1 DEF Snapshot
<1>3. requests' = [requests EXCEPT ![r] = q]
  BY DEF Probed
<1> QED BY <1>2, <1>3

\* A request under way is not idle.
LEMMA UnderWay ==
  ASSUME PartsTyped, NEW r \in Request, NEW at, Is(r, at), at # "idle"
  PROVE  Held(r) /\ requests[r] \in Snapshot
BY SnapshotNotIdle DEF PartsTyped, Is, Held

-----------------------------------------------------------------------------
(* The slots. *)

Probing == {r \in Request : Is(r, "probing")}

\* A slot is free or a child runs under it.
SlotsCounted ==
  /\ free_slots \in Nat
  /\ IsFiniteSet(Probing)
  /\ free_slots + Cardinality(Probing) = Slots

\* A test that neither starts nor ends a probe.
LEMMA SlotsKept ==
  ASSUME SlotsCounted, free_slots' = free_slots,
         \A r \in Request : requests'[r].at = "probing" <=> requests[r].at = "probing"
  PROVE  SlotsCounted'
<1>1. Probing' = Probing
  BY DEF Probing, Is
<1> QED BY <1>1 DEF SlotsCounted

\* A test begins, moves on or ends, and its slot with its probe.
LEMMA TestStepInv ==
  ASSUME SettingsInv, SlotsCounted, NEW r \in Request, TestStep(r)
  PROVE  SettingsInv' /\ SlotsCounted'
<1>0. PartsTyped
  BY DEF SettingsInv
<1>1. CASE NotProbed(r)
  <2>1. Held(r) /\ Probed(r, FALSE) /\ UNCHANGED <<row, sessions, asked>>
    BY <1>0, <1>1, UnderWay DEF NotProbed
  <2>2. PICK q \in Snapshot :
          /\ requests' = [requests EXCEPT ![r] = q]
          /\ q.at = "probed"
          /\ q.name = requests[r].name /\ q.version = requests[r].version
          /\ q.login = requests[r].login /\ q.used = requests[r].used
    BY <1>0, <2>1, ProbedSnapshot
  <2>3. SettingsInv'
    BY <2>1, <2>2, MovedInv
  <2>4. SlotsCounted'
    BY <1>0, <1>1, <2>2, SlotsKept DEF NotProbed, Is, PartsTyped
  <2> QED BY <2>3, <2>4
<1>2. CASE StartProbe(r)
  <2> DEFINE q == [requests[r] EXCEPT !.at = "probing"]
  <2>1. /\ Held(r) /\ requests[r] \in Snapshot /\ UNCHANGED <<row, sessions, asked>>
        /\ free_slots' = free_slots - 1 /\ free_slots > 0
        /\ requests' = [requests EXCEPT ![r] = q]
    BY <1>0, <1>2, UnderWay DEF StartProbe
  <2>2. /\ q \in Snapshot /\ q.at = "probing"
        /\ q.name = requests[r].name /\ q.version = requests[r].version
        /\ q.login = requests[r].login /\ q.used = requests[r].used
    BY <2>1 DEF Snapshot
  <2> HIDE DEF q
  <2>3. SettingsInv'
    BY <2>1, <2>2, MovedInv
  <2>4. /\ Probing' = Probing \cup {r} /\ r \notin Probing
    BY <1>0, <1>2, <2>1, <2>2 DEF Probing, StartProbe, Is, PartsTyped
  <2>5. IsFiniteSet(Probing') /\ Cardinality(Probing') = Cardinality(Probing) + 1
    BY <2>4, FS_AddElement DEF SlotsCounted
  <2>6. Cardinality(Probing) \in Nat /\ Slots \in Nat
    BY FS_CardinalityType, SettingsAssumption DEF SlotsCounted
  <2>7. SlotsCounted'
    BY <2>1, <2>5, <2>6 DEF SlotsCounted
  <2> QED BY <2>3, <2>7
<1>3. CASE EndProbe(r)
  <2>1. PICK success \in BOOLEAN : Probed(r, success)
    BY <1>3 DEF EndProbe
  <2>2. /\ Held(r) /\ UNCHANGED <<row, sessions, asked>> /\ free_slots' = free_slots + 1
    BY <1>0, <1>3, UnderWay DEF EndProbe
  <2>3. PICK q \in Snapshot :
          /\ requests' = [requests EXCEPT ![r] = q]
          /\ q.at = "probed"
          /\ q.name = requests[r].name /\ q.version = requests[r].version
          /\ q.login = requests[r].login /\ q.used = requests[r].used
    BY <1>0, <2>1, <2>2, ProbedSnapshot
  <2>4. SettingsInv'
    BY <2>2, <2>3, MovedInv
  <2>5. Probing' = Probing \ {r} /\ r \in Probing
    BY <1>0, <1>3, <2>3 DEF Probing, EndProbe, Is, PartsTyped
  <2>6. IsFiniteSet(Probing') /\ Cardinality(Probing') = Cardinality(Probing) - 1
    BY <2>5, FS_RemoveElement DEF SlotsCounted
  <2>7. Cardinality(Probing) \in Nat /\ Slots \in Nat
    BY FS_CardinalityType, SettingsAssumption DEF SlotsCounted
  <2>8. SlotsCounted'
    BY <2>2, <2>6, <2>7 DEF SlotsCounted
  <2> QED BY <2>4, <2>8
<1>4. CASE StoreResult(r)
  <2>1. SettingsInv' /\ requests' = [requests EXCEPT ![r] = Idle]
    BY <1>4, StoreResultInv
  <2>2. SlotsCounted'
    BY <1>0, <1>4, <2>1, SlotsKept, SnapshotNotIdle DEF StoreResult, Is, PartsTyped
  <2> QED BY <2>1, <2>2
<1> QED BY <1>1, <1>2, <1>3, <1>4 DEF TestStep

\* Every step of the settings and of the tests.
LEMMA SettingsInvNext ==
  SettingsInv /\ SlotsCounted /\ [SettingsNext]_settingsVars => SettingsInv' /\ SlotsCounted'
<1> SUFFICES ASSUME SettingsInv, SlotsCounted, [SettingsNext]_settingsVars
             PROVE  SettingsInv' /\ SlotsCounted'
  OBVIOUS
<1>0. PartsTyped
  BY DEF SettingsInv
<1>1. CASE Save
  <2>1. requests' = requests /\ free_slots' = free_slots
    BY <1>1 DEF Save, SavePreferences, SaveOnboarding, SaveConnection
  <2> QED BY <1>1, <2>1, SaveInv, SlotsKept
<1>2. ASSUME NEW r \in Request, NEW s \in Session, NEW n \in Name, BeginTest(r, s, n)
      PROVE  SettingsInv' /\ SlotsCounted'
  <2>1. Read(r, s, n, "test") /\ UNCHANGED <<row, sessions, free_slots, asked>>
    BY <1>2 DEF BeginTest
  <2>2. /\ SettingsInv' /\ requests'[r].at = "read"
        /\ \A q \in Request : q # r => requests'[q] = requests[q]
    BY <2>1, ReadInv
  <2>3. requests[r].at = "idle"
    BY <2>1 DEF Read, Idle
  <2> QED BY <2>1, <2>2, <2>3, SlotsKept
<1>3. ASSUME NEW r \in Request, TestStep(r) PROVE SettingsInv' /\ SlotsCounted'
  BY <1>3, TestStepInv
<1>4. CASE SessionsChange
  <2>1. requests' = requests /\ free_slots' = free_slots
    BY <1>4 DEF SessionsChange
  <2> QED BY <1>4, <2>1, SessionsChangeInv, SlotsKept
<1>5. CASE Restart
  <2>1. \A r \in Request : requests'[r].at = "idle"
    BY <1>5 DEF Restart, Idle
  <2>2. Probing' = {} /\ free_slots' = Slots
    BY <1>5, <2>1 DEF Probing, Is, Restart
  <2>3. IsFiniteSet({}) /\ Cardinality({}) = 0 /\ Slots \in Nat
    BY FS_EmptySet, SettingsAssumption
  <2>4. SlotsCounted'
    BY <2>2, <2>3 DEF SlotsCounted
  <2> QED BY <1>5, <2>4, RestartInv
<1>6. CASE UNCHANGED settingsVars
  <2>1. /\ UNCHANGED <<row, sessions, asked>> /\ requests' = requests
        /\ free_slots' = free_slots
    BY <1>6 DEF settingsVars
  <2>2. SettingsInv'
    BY <1>0, <2>1, RowKept DEF PartsTyped, Held
  <2> QED BY <2>1, <2>2, SlotsKept
<1> QED BY <1>1, <1>2, <1>3, <1>4, <1>5, <1>6 DEF SettingsNext

\* No child runs at first.
LEMMA SlotsCountedInit == SettingsInit => SlotsCounted
<1> SUFFICES ASSUME SettingsInit PROVE SlotsCounted
  OBVIOUS
<1>1. Probing = {} /\ free_slots = Slots
  BY DEF SettingsInit, Probing, Is, Idle
<1>2. IsFiniteSet({}) /\ Cardinality({}) = 0 /\ Slots \in Nat
  BY FS_EmptySet, SettingsAssumption
<1> QED BY <1>1, <1>2 DEF SlotsCounted

\* The inductive invariant of Settings.
THEOREM SettingsInvariant == SettingsSpec => [](SettingsInv /\ SlotsCounted)
BY SettingsInvInit, SlotsCountedInit, SettingsInvNext, PTL DEF SettingsSpec

\* Every variable of Settings keeps its type, and the free slots their bounds: however
\* a probe ends, no slot is given back twice.
THEOREM SettingsTypeCorrect == SettingsSpec => []SettingsTypeOK
<1>1. SettingsInv /\ SlotsCounted => SettingsTypeOK
  <2> SUFFICES ASSUME SettingsInv, SlotsCounted PROVE SettingsTypeOK
    OBVIOUS
  <2>1. Cardinality(Probing) \in Nat /\ Slots \in Nat
    BY FS_CardinalityType, SettingsAssumption DEF SlotsCounted
  <2>2. free_slots \in 0 .. Slots
    BY <2>1 DEF SlotsCounted
  <2> QED BY <2>2 DEF SettingsInv, PartsTyped, SettingsTypeOK
<1> QED BY <1>1, SettingsInvariant, PTL

\* What the settings say of a test is true of them, however many tests and saves of one
\* connection overlap.
THEOREM SettingsResultIsHonest == SettingsSpec => []ResultIsHonest
BY SettingsInvariant, PTL DEF SettingsInv

\* Every part of the row holds what it was last explicitly set to.
THEOREM SettingsNothingLost == SettingsSpec => []NothingLost
BY SettingsInvariant, PTL DEF SettingsInv

\* A request that ends without a session has written nothing.
LEMMA SignedOutStep ==
  ASSUME PartsTyped, [SettingsNext]_settingsVars, NEW r \in Request,
         Held(r), requests'[r] = Idle, requests[r].session \notin sessions
  PROVE  UNCHANGED row
<1>1. ASSUME NEW q \in Request, TestStep(q) PROVE UNCHANGED row
  <2>1. CASE NotProbed(q) \/ StartProbe(q) \/ EndProbe(q)
    BY <2>1 DEF NotProbed, StartProbe, EndProbe
  <2>2. CASE StoreResult(q)
    <3>1. requests' = [requests EXCEPT ![q] = Idle]
      BY <2>2 DEF StoreResult
    <3>2. q = r
      BY <3>1 DEF PartsTyped, Held
    <3> QED BY <2>2, <3>2 DEF StoreResult, StillSignedIn, row
  <2> QED BY <1>1, <2>1, <2>2 DEF TestStep
<1>2. CASE Save
  BY <1>2 DEF Save, SavePreferences, SaveOnboarding, SaveConnection, Held
<1>3. ASSUME NEW q \in Request, NEW s \in Session, NEW n \in Name, BeginTest(q, s, n)
      PROVE  UNCHANGED row
  BY <1>3 DEF BeginTest
<1>4. CASE SessionsChange \/ Restart
  BY <1>4 DEF SessionsChange, Restart
<1>5. CASE UNCHANGED settingsVars
  BY <1>5 DEF settingsVars
<1> QED BY <1>1, <1>2, <1>3, <1>4, <1>5 DEF SettingsNext

\* A test that outlives its session - logout, password change, eviction - writes
\* nothing any more.
THEOREM SettingsSignedOutWritesNothing == SettingsSpec => SignedOutWritesNothing
<1>1. SettingsInv /\ SlotsCounted /\ [SettingsNext]_settingsVars
        => [\A r \in Request :
              requests[r] # Idle /\ requests'[r] = Idle /\ requests[r].session \notin sessions
                => UNCHANGED row]_settingsVars
  BY SignedOutStep DEF SettingsInv, Held
<1> QED BY <1>1, SettingsInvariant, PTL DEF SettingsSpec, SignedOutWritesNothing

-----------------------------------------------------------------------------
(* DataSource. *)

\* A request of the pool, and two of one version read the same login.
RequestsAgree ==
  /\ \A r \in Request : Held(r) => requests[r].name = PostgreSQL
  /\ \A r, q \in Request : Held(r) /\ Held(q) /\ requests[r].version = requests[q].version
                             => requests[r].login = requests[q].login

\* The pool connects with the login of the version it was opened for.
PoolOK ==
  pool # NoPool =>
    /\ pool \in Pool
    /\ pool.version <= connections[PostgreSQL].version
    /\ pool.version = connections[PostgreSQL].version => pool.login = LoginOf(PostgreSQL)
    /\ \A r \in Request : Held(r) /\ requests[r].version = pool.version
                            => requests[r].login = pool.login

SourceInv ==
  /\ SettingsInv
  /\ free_slots = Slots
  /\ lock_owner \in Request \cup {NoRequest}
  /\ RequestsAgree /\ PoolOK /\ UsesWhatItRead

\* Nothing is open and nobody asks.
LEMMA SourceInvInit == SourceInit => SourceInv
<1> SUFFICES ASSUME SourceInit PROVE SourceInv
  OBVIOUS
<1>1. SettingsInv /\ free_slots = Slots /\ lock_owner = NoRequest /\ pool = NoPool
      /\ \A r \in Request : requests[r] = Idle
  BY SettingsInvInit DEF SourceInit, SettingsInit
<1>2. \A r \in Request : ~Is(r, "using")
  BY <1>1 DEF Is, Idle
<1> QED BY <1>1, <1>2 DEF SourceInv, RequestsAgree, PoolOK, UsesWhatItRead, Held

\* The pool of a request connects with what the request read.
LEMMA PoolIsOfRequest ==
  ASSUME SourceInv, NEW r \in Request, Held(r)
  PROVE  PoolFor(r) = [version |-> requests[r].version, login |-> requests[r].login]
<1>1. CASE pool = NoPool \/ (pool # NoPool /\ pool.version # requests[r].version)
  BY <1>1 DEF PoolFor
<1>2. CASE pool # NoPool /\ pool.version = requests[r].version
  <2>1. pool \in Pool /\ pool.login = requests[r].login
    BY <1>2 DEF SourceInv, PoolOK
  <2> QED BY <1>2, <2>1 DEF PoolFor, Pool
<1> QED BY <1>1, <1>2

\* A step after which every request holds no more than it did, the row keeps its
\* versions and logins, and pool and users fit each other.
LEMMA SourceKept ==
  ASSUME SourceInv, SettingsInv', free_slots' = Slots,
         lock_owner' \in Request \cup {NoRequest},
         \A r \in Request : requests'[r] # Idle =>
           /\ Held(r)
           /\ requests'[r].name = requests[r].name
           /\ requests'[r].version = requests[r].version
           /\ requests'[r].login = requests[r].login,
         connections'[PostgreSQL].version = connections[PostgreSQL].version,
         LoginOf(PostgreSQL)' = LoginOf(PostgreSQL),
         pool' = pool \/ pool' = NoPool,
         UsesWhatItRead'
  PROVE  SourceInv'
<1>1. RequestsAgree'
  BY DEF SourceInv, RequestsAgree, Held
<1>2. PoolOK'
  BY DEF SourceInv, PoolOK, Held
<1> QED BY <1>1, <1>2 DEF SourceInv

\* The row and whoever queries stay as they are, whatever becomes of one request that
\* does not query.
LEMMA UsersKept ==
  ASSUME SourceInv, lock_owner' = lock_owner, pool' = pool \/ lock_owner = NoRequest,
         \A r \in Request : requests'[r] = requests[r] \/ requests'[r].at # "using"
  PROVE  UsesWhatItRead'
<1> SUFFICES ASSUME NEW r \in Request, requests'[r].at = "using"
             PROVE  /\ lock_owner' = r
                    /\ requests'[r].used = requests'[r].login
                    /\ pool' = [version |-> requests'[r].version, login |-> requests'[r].login]
  BY DEF UsesWhatItRead, Is
<1>1. requests'[r] = requests[r] /\ Is(r, "using")
  BY DEF Is
<1>2. /\ lock_owner = r /\ requests[r].used = requests[r].login
      /\ pool = [version |-> requests[r].version, login |-> requests[r].login]
  BY <1>1 DEF SourceInv, UsesWhatItRead
<1>3. lock_owner # NoRequest
  BY <1>2, DataSourceAssumption
<1> QED BY <1>1, <1>2, <1>3

\* Saves and sessions change under the requests.
LEMMA EnvironmentInv ==
  ASSUME SourceInv, Save \/ SessionsChange, UNCHANGED <<lock_owner, pool>>
  PROVE  SourceInv'
<1>1. SettingsInv /\ PartsTyped /\ SettingsInv' /\ requests' = requests
      /\ free_slots' = free_slots
  BY SaveInv, SessionsChangeInv
     DEF SourceInv, SettingsInv, Save, SavePreferences, SaveOnboarding, SaveConnection,
         SessionsChange
<1>2. PostgreSQL \in Name
  BY DataSourceAssumption
<1>3. /\ connections[PostgreSQL].version \in Nat
      /\ \/ /\ connections'[PostgreSQL].version = connections[PostgreSQL].version
            /\ LoginOf(PostgreSQL)' = LoginOf(PostgreSQL)
         \/ connections'[PostgreSQL].version = connections[PostgreSQL].version + 1
  <2>1. connections[PostgreSQL].version \in Nat
    BY <1>1, <1>2 DEF PartsTyped, Connection
  <2>2. ASSUME NEW s, NEW n \in Name, NEW f, NEW change, SaveConnection(s, n, f, change)
        PROVE  \/ /\ connections'[PostgreSQL].version = connections[PostgreSQL].version
                  /\ LoginOf(PostgreSQL)' = LoginOf(PostgreSQL)
               \/ connections'[PostgreSQL].version = connections[PostgreSQL].version + 1
    <3> DEFINE secret == PasswordAfter(passwords[n], change)
    <3>1. /\ passwords' = [passwords EXCEPT ![n] = secret]
          /\ connections' = [connections EXCEPT ![n] = Saved(@, f, secret)]
      BY <2>2 DEF SaveConnection
    <3> HIDE DEF secret
    <3>2. CASE n = PostgreSQL
      <4>1. connections'[PostgreSQL] = Saved(connections[PostgreSQL], f, secret)
        BY <1>1, <1>2, <3>1, <3>2 DEF PartsTyped
      <4> QED BY <4>1 DEF Saved
    <3>3. CASE n # PostgreSQL
      BY <1>1, <1>2, <3>1, <3>3 DEF PartsTyped, LoginOf
    <3> QED BY <3>2, <3>3
  <2>3. CASE SessionsChange
    BY <2>1, <2>3 DEF SessionsChange, row, LoginOf
  <2>4. ASSUME NEW s, NEW body, SavePreferences(s, body) \/ SaveOnboarding(s, body)
        PROVE  /\ connections'[PostgreSQL].version = connections[PostgreSQL].version
               /\ LoginOf(PostgreSQL)' = LoginOf(PostgreSQL)
    BY <2>4 DEF SavePreferences, SaveOnboarding, LoginOf
  <2> QED BY <2>1, <2>2, <2>3, <2>4 DEF Save
<1>4. UsesWhatItRead'
  BY <1>1 DEF SourceInv, UsesWhatItRead, Is
<1>5. RequestsAgree'
  BY <1>1 DEF SourceInv, RequestsAgree, Held
<1>6. PoolOK'
  BY <1>1, <1>3 DEF SourceInv, PoolOK, Held, Pool
<1> QED BY <1>1, <1>4, <1>5, <1>6 DEF SourceInv

\* A request reads its snapshot.
LEMMA BeginUseInv ==
  ASSUME SourceInv, NEW r \in Request, NEW s \in Session, NEW kind \in {"test", "history"},
         BeginUse(r, s, kind)
  PROVE  SourceInv'
<1>1. /\ Read(r, s, PostgreSQL, kind) /\ PostgreSQL \in Name
      /\ UNCHANGED <<row, sessions, free_slots, asked, lock_owner, pool>>
  BY DataSourceAssumption DEF BeginUse
<1>2. /\ SettingsInv' /\ requests'[r].name = PostgreSQL
      /\ requests'[r].version = connections[PostgreSQL].version
      /\ requests'[r].login = LoginOf(PostgreSQL) /\ requests'[r].at = "read"
      /\ \A q \in Request : q # r => requests'[q] = requests[q]
  BY <1>1, ReadInv DEF SourceInv
<1>3. UsesWhatItRead'
  BY <1>1, <1>2, UsersKept
<1>4. \A q \in Request : q # r /\ Held(q) =>
        /\ requests[q].name = PostgreSQL
        /\ requests[q].version = connections[PostgreSQL].version
             => requests[q].login = LoginOf(PostgreSQL)
  BY DEF SourceInv, RequestsAgree, SettingsInv, SnapshotsOK, SnapshotOK
<1>5. RequestsAgree'
  <2>1. \A p, q \in Request :
          /\ requests'[p] # Idle /\ requests'[q] # Idle
          /\ requests'[p].version = requests'[q].version
          => requests'[p].login = requests'[q].login
    <3> SUFFICES ASSUME NEW p \in Request, NEW q \in Request,
                        requests'[p] # Idle, requests'[q] # Idle,
                        requests'[p].version = requests'[q].version
                 PROVE  requests'[p].login = requests'[q].login
      OBVIOUS
    <3>1. CASE p = r
      BY <1>2, <1>4, <3>1 DEF Held
    <3>2. CASE q = r
      BY <1>2, <1>4, <3>2 DEF Held
    <3>3. CASE p # r /\ q # r
      BY <1>2, <3>3 DEF SourceInv, RequestsAgree, Held
    <3> QED BY <3>1, <3>2, <3>3
  <2>2. \A p \in Request : requests'[p] # Idle => requests'[p].name = PostgreSQL
    BY <1>2, <1>4 DEF Held
  <2> QED BY <2>1, <2>2 DEF RequestsAgree, Held
<1>6. PoolOK'
  <2>1. /\ connections' = connections /\ passwords' = passwords /\ pool' = pool
        /\ LoginOf(PostgreSQL)' = LoginOf(PostgreSQL)
    BY <1>1 DEF row, LoginOf
  <2> SUFFICES ASSUME pool # NoPool
               PROVE  /\ pool \in Pool
                      /\ pool.version <= connections[PostgreSQL].version
                      /\ pool.version = connections[PostgreSQL].version
                           => pool.login = LoginOf(PostgreSQL)
                      /\ \A q \in Request :
                           requests'[q] # Idle /\ requests'[q].version = pool.version
                             => requests'[q].login = pool.login
    BY <2>1 DEF PoolOK, Held
  <2> QED BY <1>2 DEF SourceInv, PoolOK, Held
<1> QED BY <1>1, <1>2, <1>3, <1>5, <1>6 DEF SourceInv

\* An answer ends a history request and leaves a test what it holds.
LEMMA AnsweredInv ==
  ASSUME SourceInv, NEW r \in Request, Held(r), NEW success \in BOOLEAN, Answered(r, success),
         UNCHANGED <<row, sessions, asked>>
  PROVE  /\ SettingsInv'
         /\ requests'[r].at # "using"
         /\ \A q \in Request : q # r => requests'[q] = requests[q]
         /\ requests'[r] # Idle =>
              /\ requests'[r].name = requests[r].name
              /\ requests'[r].version = requests[r].version
              /\ requests'[r].login = requests[r].login
<1>1. PartsTyped /\ SettingsInv
  BY DEF SourceInv, SettingsInv
<1>2. CASE requests' = [requests EXCEPT ![r] = Idle]
  <2>1. /\ requests' \in [Request -> Snapshot \cup {Idle}] /\ requests'[r] = Idle
        /\ \A q \in Request : q # r => requests'[q] = requests[q]
    BY <1>1, <1>2 DEF PartsTyped
  <2>2. SettingsInv'
    BY <1>1, <2>1, RowKept DEF PartsTyped, Held
  <2> QED BY <2>1, <2>2, SnapshotNotIdle
<1>3. CASE Probed(r, success)
  <2>1. PICK q \in Snapshot :
          /\ requests' = [requests EXCEPT ![r] = q]
          /\ q.at = "probed"
          /\ q.name = requests[r].name /\ q.version = requests[r].version
          /\ q.login = requests[r].login /\ q.used = requests[r].used
    BY <1>1, <1>3, ProbedSnapshot
  <2>2. SettingsInv'
    BY <1>1, <2>1, MovedInv
  <2> QED BY <1>1, <2>1, <2>2 DEF PartsTyped
<1> QED BY <1>2, <1>3 DEF Answered

\* Whoever is answered without having queried.
LEMMA NotServedInv ==
  ASSUME SourceInv, NEW r \in Request, Wants(r), NEW success \in BOOLEAN, Answered(r, success),
         UNCHANGED <<row, sessions, free_slots, asked, lock_owner>>,
         pool' = pool \/ (pool' = NoPool /\ lock_owner = NoRequest)
  PROVE  SourceInv'
<1>1. Held(r) /\ PostgreSQL \in Name
  BY UnderWay, DataSourceAssumption DEF SourceInv, SettingsInv, Wants
<1>2. /\ SettingsInv'
      /\ requests'[r].at # "using"
      /\ \A q \in Request : q # r => requests'[q] = requests[q]
      /\ requests'[r] # Idle =>
           /\ requests'[r].name = requests[r].name
           /\ requests'[r].version = requests[r].version
           /\ requests'[r].login = requests[r].login
  BY <1>1, AnsweredInv
<1>3. UsesWhatItRead'
  BY <1>2, UsersKept
<1>4. /\ connections' = connections /\ LoginOf(PostgreSQL)' = LoginOf(PostgreSQL)
  BY DEF row, LoginOf
<1>5. \A q \in Request : requests'[q] # Idle =>
           /\ Held(q)
           /\ requests'[q].name = requests[q].name
           /\ requests'[q].version = requests[q].version
           /\ requests'[q].login = requests[q].login
  BY <1>1, <1>2 DEF Held
<1>6. free_slots' = Slots /\ lock_owner' \in Request \cup {NoRequest}
  BY DEF SourceInv
<1> QED BY <1>2, <1>3, <1>4, <1>5, <1>6, SourceKept

\* Under the lock, the pool of the request's version is taken.
LEMMA TakePoolInv ==
  ASSUME SourceInv, NEW r \in Request, TakePool(r)
  PROVE  SourceInv'
<1> DEFINE q == [requests[r] EXCEPT !.at = "using", !.used = PoolFor(r).login]
<1>1. /\ PartsTyped /\ Held(r) /\ requests[r] \in Snapshot /\ PostgreSQL \in Name
  BY UnderWay, DataSourceAssumption DEF SourceInv, SettingsInv, TakePool, Wants
<1>2. PoolFor(r) = [version |-> requests[r].version, login |-> requests[r].login]
  BY <1>1, PoolIsOfRequest
<1>3. /\ pool' = [version |-> requests[r].version, login |-> requests[r].login]
      /\ requests' = [requests EXCEPT ![r] = q]
      /\ lock_owner = NoRequest /\ lock_owner' = r
      /\ UNCHANGED <<row, sessions, free_slots, asked>>
  BY <1>2 DEF TakePool
<1>4. PoolFor(r).login = requests[r].login
  BY <1>2
<1>5. requests[r].used = requests[r].login
  BY <1>1 DEF SourceInv, SettingsInv, SnapshotsOK, SnapshotOK
<1>6. /\ q \in Snapshot /\ q.at = "using" /\ q.name = requests[r].name
      /\ q.version = requests[r].version /\ q.login = requests[r].login
      /\ q.used = requests[r].used
  BY <1>1, <1>4, <1>5 DEF Snapshot
<1> HIDE DEF q
<1>7. SettingsInv'
  BY <1>1, <1>3, <1>6, MovedInv DEF SourceInv
<1>8. /\ requests'[r] = q /\ requests'[r] # Idle
      /\ \A p \in Request : p # r => requests'[p] = requests[p]
  BY <1>1, <1>3, <1>6, SnapshotNotIdle DEF PartsTyped
<1>9. RequestsAgree'
  BY <1>1, <1>6, <1>8 DEF SourceInv, RequestsAgree, Held
<1>10. PoolOK'
  <2>1. /\ requests[r].version \in Nat /\ requests[r].login \in Login
        /\ SnapshotOK(requests[r]) /\ requests[r].name = PostgreSQL
    BY <1>1 DEF Snapshot, SourceInv, SettingsInv, SnapshotsOK, RequestsAgree
  <2>2. pool' \in Pool /\ pool'.version = requests[r].version /\ pool'.login = requests[r].login
    BY <1>3, <2>1 DEF Pool
  <2>3. connections' = connections /\ LoginOf(PostgreSQL)' = LoginOf(PostgreSQL)
    BY <1>3 DEF row, LoginOf
  <2>4. \A p \in Request : requests'[p] # Idle /\ requests'[p].version = requests[r].version
                             => requests'[p].login = requests[r].login
    BY <1>1, <1>6, <1>8 DEF SourceInv, RequestsAgree, Held
  <2> QED BY <2>1, <2>2, <2>3, <2>4 DEF PoolOK, SnapshotOK, Held
<1>11. UsesWhatItRead'
  <2> SUFFICES ASSUME NEW p \in Request, requests'[p].at = "using"
               PROVE  /\ lock_owner' = p
                      /\ requests'[p].used = requests'[p].login
                      /\ pool' = [version |-> requests'[p].version,
                                  login |-> requests'[p].login]
    BY DEF UsesWhatItRead, Is
  <2>1. CASE p = r
    BY <1>3, <1>5, <1>6, <1>8, <2>1
  <2>2. CASE p # r
    <3>1. Is(p, "using")
      BY <1>8, <2>2 DEF Is
    <3>2. lock_owner = p
      BY <3>1 DEF SourceInv, UsesWhatItRead
    <3> QED BY <1>3, <3>2, DataSourceAssumption
  <2> QED BY <2>1, <2>2
<1>12. free_slots' = Slots /\ lock_owner' \in Request \cup {NoRequest}
  BY <1>3 DEF SourceInv
<1> QED BY <1>7, <1>9, <1>10, <1>11, <1>12 DEF SourceInv

\* The lock is given back when the queries have ended.
LEMMA EndUseInv ==
  ASSUME SourceInv, NEW r \in Request, EndUse(r)
  PROVE  SourceInv'
<1>1. PICK success \in BOOLEAN : Answered(r, success)
  BY DEF EndUse
<1>2. /\ Held(r) /\ PostgreSQL \in Name /\ lock_owner' = NoRequest
      /\ UNCHANGED <<row, sessions, free_slots, asked, pool>>
  BY UnderWay, DataSourceAssumption DEF SourceInv, SettingsInv, EndUse
<1>3. /\ SettingsInv'
      /\ requests'[r].at # "using"
      /\ \A q \in Request : q # r => requests'[q] = requests[q]
      /\ requests'[r] # Idle =>
           /\ requests'[r].name = requests[r].name
           /\ requests'[r].version = requests[r].version
           /\ requests'[r].login = requests[r].login
  BY <1>1, <1>2, AnsweredInv
<1>4. \A q \in Request : requests'[q].at # "using"
  <2> SUFFICES ASSUME NEW q \in Request, q # r, requests[q].at = "using" PROVE FALSE
    BY <1>3
  <2> QED BY DEF EndUse, SourceInv, UsesWhatItRead, Is
<1>5. UsesWhatItRead'
  BY <1>4 DEF UsesWhatItRead, Is
<1>6. /\ connections' = connections /\ LoginOf(PostgreSQL)' = LoginOf(PostgreSQL)
  BY <1>2 DEF row, LoginOf
<1>7. \A q \in Request : requests'[q] # Idle =>
           /\ Held(q)
           /\ requests'[q].name = requests[q].name
           /\ requests'[q].version = requests[q].version
           /\ requests'[q].login = requests[q].login
  BY <1>2, <1>3 DEF Held
<1>8. free_slots' = Slots /\ lock_owner' \in Request \cup {NoRequest} /\ pool' = pool
  BY <1>2 DEF SourceInv
<1> QED BY <1>3, <1>5, <1>6, <1>7, <1>8, SourceKept

\* A test stores its result.
LEMMA StoreInv ==
  ASSUME SourceInv, NEW r \in Request, StoreResult(r), UNCHANGED <<lock_owner, pool>>
  PROVE  SourceInv'
<1>1. PartsTyped /\ PostgreSQL \in Name
  BY DataSourceAssumption DEF SourceInv, SettingsInv
<1>2. /\ SettingsInv' /\ requests' = [requests EXCEPT ![r] = Idle]
      /\ connections'[PostgreSQL].version = connections[PostgreSQL].version
      /\ LoginOf(PostgreSQL)' = LoginOf(PostgreSQL)
  BY <1>1, StoreResultInv DEF SourceInv
<1>3. /\ requests'[r] = Idle
      /\ \A q \in Request : q # r => requests'[q] = requests[q]
  BY <1>1, <1>2 DEF PartsTyped
<1>4. UsesWhatItRead'
  BY <1>3, UsersKept, SnapshotNotIdle
<1>5. \A q \in Request : requests'[q] # Idle =>
           /\ Held(q)
           /\ requests'[q].name = requests[q].name
           /\ requests'[q].version = requests[q].version
           /\ requests'[q].login = requests[q].login
  BY <1>3 DEF Held
<1>6. free_slots' = Slots /\ lock_owner' \in Request \cup {NoRequest} /\ pool' = pool
  BY DEF SourceInv, StoreResult
<1> QED BY <1>2, <1>4, <1>5, <1>6, SourceKept

\* The process starts anew without a pool.
LEMMA RestartSourceInv == SourceInv /\ RestartSource => SourceInv'
<1> SUFFICES ASSUME SourceInv, RestartSource PROVE SourceInv'
  OBVIOUS
<1>1. /\ SettingsInv' /\ free_slots' = Slots /\ lock_owner' = NoRequest /\ pool' = NoPool
      /\ \A r \in Request : requests'[r] = Idle
  BY RestartInv DEF SourceInv, RestartSource, Restart
<1>2. \A r \in Request : requests'[r].at # "using"
  BY <1>1 DEF Idle
<1> QED BY <1>1, <1>2 DEF SourceInv, RequestsAgree, PoolOK, UsesWhatItRead, Held, Is

\* Every step of the data source.
LEMMA SourceInvNext == SourceInv /\ [SourceNext]_sourceVars => SourceInv'
<1> SUFFICES ASSUME SourceInv, [SourceNext]_sourceVars PROVE SourceInv'
  OBVIOUS
<1>1. CASE (Save \/ SessionsChange) /\ UNCHANGED <<lock_owner, pool>>
  BY <1>1, EnvironmentInv
<1>2. ASSUME NEW r \in Request, NEW s \in Session, NEW kind \in {"test", "history"},
             BeginUse(r, s, kind)
      PROVE  SourceInv'
  BY <1>2, BeginUseInv
<1>3. ASSUME NEW r \in Request, SourceStep(r) PROVE SourceInv'
  <2>1. CASE NotConfigured(r)
    BY <2>1, NotServedInv DEF NotConfigured
  <2>2. CASE LockTimeout(r)
    BY <2>2, NotServedInv DEF LockTimeout
  <2>3. CASE TakePool(r)
    BY <2>3, TakePoolInv
  <2>4. CASE PoolNotMade(r)
    BY <2>4, NotServedInv DEF PoolNotMade
  <2>5. CASE EndUse(r)
    BY <2>5, EndUseInv
  <2>6. CASE StoreResult(r) /\ UNCHANGED <<lock_owner, pool>>
    BY <2>6, StoreInv
  <2> QED BY <1>3, <2>1, <2>2, <2>3, <2>4, <2>5, <2>6 DEF SourceStep
<1>4. CASE RestartSource
  BY <1>4, RestartSourceInv
<1>5. CASE UNCHANGED sourceVars
  <2>1. /\ UNCHANGED settingsVars /\ lock_owner' = lock_owner /\ pool' = pool
        /\ requests' = requests /\ free_slots' = free_slots /\ connections' = connections
        /\ passwords' = passwords
    BY <1>5 DEF sourceVars, settingsVars, row
  <2>2. SettingsInv'
    BY <2>1, RowKept DEF SourceInv, SettingsInv, PartsTyped, settingsVars, Held
  <2> QED BY <2>1, <2>2, SourceKept
         DEF SourceInv, UsesWhatItRead, Is, LoginOf, Held
<1> QED BY <1>1, <1>2, <1>3, <1>4, <1>5 DEF SourceNext

\* The inductive invariant of DataSource.
THEOREM SourceInvariant == SourceSpec => []SourceInv
BY SourceInvInit, SourceInvNext, PTL DEF SourceSpec

\* Every variable of DataSource keeps its type.
THEOREM SourceTypeCorrect == SourceSpec => []SourceTypeOK
<1>1. SourceInv => SourceTypeOK
  BY SettingsAssumption
     DEF SourceInv, SettingsInv, PartsTyped, PoolOK, SourceTypeOK, SettingsTypeOK
<1> QED BY <1>1, SourceInvariant, PTL

\* Whoever queries, queries the database it read the settings of, and keeps it to the
\* end, for any number of requests, saves and versions.
THEOREM SourceUsesWhatItRead == SourceSpec => []UsesWhatItRead
BY SourceInvariant, PTL DEF SourceInv

\* A stored result of the PostgreSQL test speaks of the settings it stands beside, and
\* no test undoes a save.
THEOREM SourceResultIsHonest == SourceSpec => [](ResultIsHonest /\ NothingLost)
BY SourceInvariant, PTL DEF SourceInv, SettingsInv
=============================================================================
