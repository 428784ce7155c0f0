# Matescope in TLA+

Matescope is a self-hosted, single-administrator web application that shows the
history a TeslaMate PostgreSQL database holds. A FastAPI back end keeps its own
state (the administrator, sessions, second factor, connection settings) in one
SQLite file beside an encryption key; a React front end talks to it.

This directory models the parts of it whose correctness depends on the order of
events - sign-in and the second factor, the recovery commands, the two files of
the data directory, the settings and what tests and queries do with them, the browser client
and its CSRF token, the history pages, the account and connection forms - checks them with TLC
and proves with TLAPS, for every value of the constants, each of the safety properties and
refinements that TLC checks. Paths below are relative to `src/`; `PROJECT.json` names
the source lines behind every definition.

## 1. The system

| Part | State | Operations | Modelled in |
|---|---|---|---|
| Second-factor rules, `backend/matescope/twofactor.py` | the administrator row: seed, watermark, used codes, failures; the recovery codes | `state`, `verify_factor`, `revoke_auth`, `new_recovery_codes` | `Factor`, `SecondFactor` |
| Sign-in and factor management, `auth.py`, `twofactor_routes.py`, `models.py` | tables `administrator`, `login_session`, `login_challenge`, `factor_enrollment`, `recovery_code` | setup, login, logout, password, verify, cancel, enroll, confirm, disable, recovery-codes | `Auth`, `LoginOrder` |
| Recovery commands, `cli.py` | the same tables, an archive | backup, restore, reset-password, reset-2fa | `Recovery`, `DataDirectory` |
| Data directory, `storage.py` | `encryption.key`, `matescope.sqlite3`, `.startup.lock` | start (lock, key, migration, key check), transaction, stop | `DataDirectory` |
| Attempt limiter, `auth.py` | counters per address | `rate_limit` | not modelled |
| CSRF check, `auth.py`, and browser client, `frontend/src/api/client.ts` | the cookie jar of a browser, a cached token per tab, requests in flight | issue, require, rotate, delete; write with one retry, one-time post, cancel | `Client` |
| Settings, `settings.py`; connection tests, `connection_tests.py` | one row with a version; two probe slots | read, save preferences / onboarding / connection, test | `Settings` |
| PostgreSQL source, `postgresql.py` | one pool, its settings version, one lock | validate, query through the pool | `DataSource` |
| History API, `data.py` | none (SQL, cursors) | lists, aggregates, trajectories | not modelled |
| History pages, `frontend/src/history-context.tsx`, `history.tsx`, `pwa.tsx` | the URL (car, window, preset, cursor) in every entry of the browser's history; the cached queries; a pending preset; online or not | select, apply and cancel a preset, follow, page, Back, reload, lose and regain the connection | `History`, `Selection` |
| Cursor trail, `history-navigation.ts` | the cursors of a list in the session storage | remember, previous, clear | `Paging` |
| Account forms, `main.tsx` | the page, the stage of the sign-in form, the form of the second factor, recovery codes on show, calls under way, cookies | sign in, verify, cancel, enroll, confirm, regenerate, disable, change password, sign out, refetch | `Account` |
| Connection form, `main.tsx` | drafted fields, the form's own test result, the cached settings | edit, save, skip, test, reopen | `ConnectionForm` |
| Set-up wizard, preferences fields, `main.tsx`; service worker | the step on show | next, back, finish | not modelled |
| Migrations, generated schema, release scripts, charts and translations | none of their own | | not modelled |

How they interact. Every mutating request runs in one `BEGIN IMMEDIATE`
transaction (`Storage.transaction`, `storage.py:101`), which takes SQLite's writer
lock before it reads, so two handlers never interleave inside a handler: the hard
behaviour is *between* requests of several tabs that hold stale cookies, between
requests and the clock, between the service and the recovery commands, and - for
the files - between any two system calls of a process that can be killed. The one
exception inside a handler is a refused proof: its transaction commits the failure
and the error is raised after it (`twofactor_routes.py:125`). Connection tests and the
data source hold no transaction while they wait for the network: they act on a snapshot
of the settings that a save may overtake. The browser holds no transaction at all: a tab's calls
share its cached token across every `await`, and tabs share the cookie. A page's answers come in any
order, after the form or the page that asked has gone; what they may still do is decided by
`useOperation`'s generation, by the query cache and by the preset's token.

What makes each part correct:

* *Second factor*: the row never becomes one the program itself rejects; an
  accepted proof is never accepted again; all endpoints together bound guessing;
  `Retry-After` is exact.
* *Sign-in*: a row that grants something was made under the credentials in force;
  a rotation leaves nothing from before it; pending rows belong to what they wait
  for; tables stay bounded; with a factor no session without a fresh proof.
* *Recovery*: every state of the service can be backed up and reset; an old archive
  revives no proof and does not lock the authenticator out.
* *Files*: nothing runs on a partial directory; a key is never silently replaced;
  an archive is whole; a served directory comes up again.
* *Settings and data source*: a result is stored only beside the settings it was obtained
  with; no save undoes another; slots and the lock are always given back; every query
  goes to the database its request read the settings of.
* *Browser client*: a one-time proof is posted at most once and a write takes effect at most
  once; every call ends; a stale token shuts nobody out.
* *History pages*: a late answer changes nothing it was not asked for; no address mixes one car's
  bounds or cursor with another; offline nothing of a vehicle is kept; the effects that write
  the URL come to rest.
* *Forms*: one-time codes stay until they are taken down by the administrator; the cancel of one
  sign-in does not hit the next; the badge claims no success that was none; drafts are not
  overwritten by what happens elsewhere.

The `hazards` of `PROJECT.json` list where each of these is at stake, line by line.

## 2. The modules

```
Factor  <-- SecondFactor  <-- Auth  <-- Recovery          Settings <-- DataSource
 rules       abstract          handlers  <-- LoginOrder     row, tests   pool, lock
             machine
               ^                  |                       DataDirectory     Client
               +-- refined by ----+                         files,            tabs, cookie jar,
                                                            processes         CSRF check

Selection  <-- refined by --  History        Paging      Account   ConnectionForm
 stack of selections           URL, cache     cursors         \      /
                                                              Pages
Proofs:
SecondFactorProofs  <-- AuthProofs  <-- RecoveryProofs      SettingsProofs (with DataSource)
DataDirectoryProofs     ClientProofs    HistoryProofs       PagesProofs
```

**Factor** holds the rules of `twofactor.py` as operators on the administrator row and
a time: `FactorStateOK` is `state()`, `Throttled`/`RetryAfter` the two rolling windows,
`TotpValid`/`RecoveryValid` the checks, `Rejected`/`Accepted`/`CodesAfter` what
`verify_factor` writes. A six-digit code is a member of `Otp` and `CodeAt(seed, step)` is
what an authenticator shows, so that two steps may show the same code - the case the
watermark and the used list exist for. The HMAC of a used code is the pair of seed and code.

**SecondFactor** is the abstract machine `FactorSpec`: proofs are presented, accepted or
refused, credentials rotate, the clock moves; it knows no cookie. `spent` (every proof
ever accepted) and `wrong` (the refusals of the last long window) are auxiliary: no
guard reads them except that fresh seeds and codes avoid spent ones.

**Auth** adds the three tables of rows and has one action per handler that writes, with
the whole of what the handler does: the expired rows it deletes, the eviction, the
revocation, the enrollments that go with their session. Cookies are drawn freely from
all tokens, because a tab may still hold any of them. Requests that are answered 401,
409, 429 or 503 without a write are stuttering steps. `Restart` lets `session_days`
change, as the configuration may between two starts (`config.py:18`).

**LoginOrder** remembers beside `Auth` when each session was created.

**Recovery** adds one archive and the four commands. `ValidDatabase` is
`validate_two_factor_state()`, which each command asks before it acts. `restore` replaces the
whole state; `Backup` may happen at any time and any age of archive can come back.

**DataDirectory** drops the rows and looks at the files: each server process goes
through `start()` call by call, holding the file lock; `backup` reads key, database and
publishes; `restore` creates and fills its two files in order and cleans up after an
error; every process can be killed between two steps. Of a database only the key its instance
row and its last stored password were encrypted with are kept. A half-written
database is *torn*, and SQLite may or may not notice.

**Settings** is the row of `settings.py`: preferences, onboarding and, per connection, fields,
password, version, status and last result. A save is one action. A connection test is
three: it reads a snapshot, probes (under one of the slots of `connection_tests.py`, or is
turned away), and writes its result in a second transaction that looks up the session and
the version again. Other saves, other tests, a logout and a restart may fall in between. A result
carries, beside what the code stores, the fields and password the probe used; `asked` remembers
what each part was last explicitly set to. `complete` stands for what a probe needs beyond a
host: an SMTP sender, a PostgreSQL user name; it is true of MQTT.

**DataSource** adds the pool to the saves of `Settings`: a history request or a PostgreSQL test
reads the settings, waits for the lock (or gives up), takes or replaces the pool, uses it and
releases the lock. A pool is the version and login it was opened with.

**Client** has both ends of the CSRF check. An exchange has three moments - the server reads the
cookie and answers, the answer's `Set-Cookie` lands in the jar, the script goes on - and
anything may happen between them. A call is a status request of the sign-in page, a write of
`requestWithCsrf` (refreshed and sent once more after a refusal), or a one-time post that
rotates the token, deletes it or leaves it. Tokens are compared, never computed; a token that
nobody holds is used again, so a bounded set stands for any number of them. `generation` is
`useOperation`: the call whose answer a form still waits for.

**History** takes the address bar for what it is: the state of these pages. An address is a page,
a record or none, a car, a window, a preset and a cursor; `entries` and `at` are the browser's
history. Of a window only its origin is kept (one preset, or all of one car's history), of a cursor
only the list that handed it out. `held` is the set of query keys with data; a key that a page
on show wants and does not have is in flight, because every query passes its abort signal on.
`Effects` is what React runs after a render, all effects from one render and the last navigation
winning: the owner effect of a detail, the remembered car, the canonical address. Everything the
user does waits until they have run (`Ready`); answers need not. `PresetAnswer` is the rest of `setPreset()`
after its `await`.

**Selection** is what these pages promise: a stack of selections (car and period), a wish made of
one selection and granted to that selection only, a period that survives a change of
car. `History` implements it by `S == INSTANCE Selection WITH ...`: all of the history is one period whichever
car it is of, and the bounds of a preset are its period whatever the URL calls them.

**Paging** is the trail of one list. Cursors are page numbers.

**Account** is the browser's side of sign-in. A call waits, is sent with the cookies of that
moment, is answered, and lands: its cookies are set whatever the page thinks of it, and
the page takes the answer if the form that sent it still waits (`live`, the generation of `useOperation`). The server is
reduced to which sessions and challenges it accepts; `Auth` has the rest. Reads that a page needs
(`held`) are abandoned and sent anew when the factor rotates (`ReadAnew`), and a 401 for one of
them signs the browser out.

**ConnectionForm** is one `Connection` against the cached settings and the server's versions of it.
`requests` holds this form's save, skip and test, the read that follows a test, and *read*, which stands for every other
call that writes the cache: reads, and saves of other forms. `mine` says the form that sent a call is still on show;
`observed` that its test mutation still waits for it (a save resets the mutation). A result gets its time when
it is stored, while the code stamps it just before the transaction (`settings.py:447`); nothing here depends on
the order of the two. `loaded` and `passed` are auxiliary: the newest version the page ever
held, and every success the server ever stored.

**Pages** puts both on one page. They share no variable, so a variable `focus` lets either run with
the other at rest: the state space is the sum, not the product.

Definitions under a `Variant:` comment are not part of any specification: each is a
plausible mistake in the definition after it, and shows that the property it is
paired with in `PROJECT.json` can tell the two apart.

## 3. What is checked

| Run | Properties | Shows |
|---|---|---|
| `second_factor` (`MCSecondFactor.cfg`) | `FactorTypeOK`, `NeverLockedOut`, `SpentProofsStayDead`, `GuessesBounded`, `RetryAfterIsExact` | the promises of the factor in every order of proofs, rotations and ticks |
| `auth_sessions` (`MCAuthSessions.cfg`) | `TypeOK`, `RowsSound`, `RotationRevokes`, `SessionsNeedFreshProof`, `FactorSpec` | the tables with several session tokens and challenges, two passwords, expiry and eviction; each handler step is a step of the abstract machine or leaves its variables alone |
| `recovery` (`MCRecovery.cfg`) | `AlwaysRecoverable`, `RestoreRevivesNoProof`, `RestoreReopens` | the commands between requests |
| `data_directory` (`MCDataDirectory.cfg`) | `DirTypeOK`, `RunningIsWhole`, `KeyFitsDatabase`, `ArchiveWhole`, `ComesUp` | start, crash, backup, restore of the two files |
| `settings` (`MCSettings.cfg`) | `SettingsTypeOK`, `ResultIsHonest`, `NothingLost`, `SignedOutWritesNothing`, `SlotsComeBack` | saves against overlapping tests, one slot, lost sessions, restarts |
| `data_source` (`MCDataSource.cfg`) | `SourceTypeOK`, `UsesWhatItRead`, `EveryoneIsAnswered` | requests with older and newer settings taking turns with one pool |
| `client` (`MCClient.cfg`) | `ClientTypeOK`, `AppliedOnce`, `CallsEnd`, `NobodyShutOut` | two calls that share one cached token, answers lost, landing out of order and no longer awaited, one expiry, with and without cookies |
| `history` (`MCHistory.cfg`) | `HistoryTypeOK`, `AddressesFit`, `OfflineHoldsNothing`, `SelectionSpec`, `PageSettles` | two cars, one of them without a history, entered by a list, a record, a record under another car's whole history, or a car that does not exist |
| `pages` (`MCPages.cfg`) | `PagesTypeOK`, `BadgeHonest`, `CodesStay`, `CancelsComeFirst`, `EditsKept` | the account's forms and one connection's, two calls under way at a time, other tabs and devices |
| `old_success` (`MCOldSuccess.cfg`) | `OldSuccessGone` | **violated**: see below |
| `login_order` (`MCLoginOrder.cfg`) | `NewestLoginsKept` | **violated**: see below |
| `paging` (`MCPaging.cfg`) | `PreviousIsPrevious` | **violated**: see below |

`RowsSound` has three parts (`RowsCurrent`, `PendingRowsFit`, `RowsBounded`), `ResultIsHonest` two
(`ResultIsCurrent`, `StatusIsHonest`).

Three runs show where the code and its documents or tests differ. The comment at `auth.py:229` says that a
single administrator keeps the 20 *newest logins*; `create_session` keeps the 20
sessions that *expire last*. They differ once `session_days` is lowered: in the
counterexample a session of the longer lifetime is created first, the process restarts with
a shorter one, and the next login but one evicts the newer session and keeps the older.

`docs/plan/milestones/M1.md:84` asks for pages with Previous and Next. Every page on show appends its cursor
to the trail (`history-navigation.ts:38`), also one that Previous led back to, and Previous is
what stands before the last occurrence. After Next and Previous the trail is 1, 2, 1: the first page offers
Previous, and that leads to the second.

The test at `postgresql.spec.ts:228` is named *does not show an old success after a newer settings version is
loaded*. It loads the newer version last. When a read that the server answered before a save
arrives after the save's answer, the older settings return to the cache with their success: `setQueryData`
(`main.tsx:610`) cancels no read under way, nothing compares versions, and the form's own result was
reset. The badge is wrong until the next read. `BadgeHonest` says what does hold in every order: the
success was stored by the server, it is of the version that the page takes for the saved one, and no failure
at hand is newer. So an outdated success shows only while the page is back at the older settings as a whole,
never beside newer ones.

Bounds, and why they suffice:

* *Time.* One unit is a TOTP step, or half a step in `second_factor`, where the windows
  are 1 and 2.5 steps so that their ends fall inside a step. The clock runs for four
  steps and more there: a code's window (three steps), the life of its used record and
  both failure windows begin and end within the run.
* *Codes.* `CodesShown` gives one code to two neighbouring steps, the same code again
  three steps after its first use (while its record is alive), and again later.
  `CodeCycle` repeats after three steps: unambiguous in a window, ambiguous over the run.
* *Limits* are 1 and 2 instead of 5, 20 and 20. The step past a limit is taken for failures, challenge tries and
  sessions in `auth_sessions`, and for challenges in `recovery`, where one is kept and there are two
  browsers' worth of tokens; `auth_sessions` fills the table of challenges and goes no further. `MaxUsed` is the real 6, which no
  run fills: that six suffice is `FactorNeverLockedOut`.
* *`MaxVersion` 2* allows two rotations: on/off, on/password, on/new codes. One seed
  suffices in `Auth`, because a second enrollment of one seed is not fresh and
  `second_factor` has two; `second_factor` covers off and on again with another seed. One session
  lifetime: shortening it is what `login_order` is about.
* *Files.* Two servers, because the lock matters only between two; three keys, so that
  archive, directory and a new key differ; three kills, so that a recovery can be killed too.
* *Settings.* Three saves of one connection, so that it can be edited and edited back under a
  test; two tests for one slot; on, off, skipped and incomplete fields. Connections share
  nothing but the row and the slots, and the run has one: there `NothingLost` speaks of what a save keeps,
  replaces or clears and of what legacy clients omit. That three connections of one row leave each other alone
  is `SettingsNothingLost`, for any set of names. Two requests for the pool: one may hold
  settings older than the other's.
* *Client.* Two calls suffice for what a call does to another: each holds one exchange. Both are of one
  tab, because there they also overwrite its cached token; a second tab only changes the cookie, as a form does
  whose answer is not awaited any more. The run takes a proof, a sign-out, a save and a status; a `leave`
  clears the cookie as a sign-out does and is sent once as a proof is, and a `cancel` is a proof that changes
  nothing. For any number of tabs and calls and for all kinds `AppliedOnce` is `ClientAppliesOnce`; `CallsEnd`
  and `NobodyShutOut` are checked for one tab only. The tokens are one more
  than can be held at once (an assumption of the module); one may expire, whoever holds it.
* Symmetry is used for passwords, tokens, codes and seeds in runs without liveness;
  `CodeAt` gives all seeds the same codes, so it is invariant. `FactorSpec` and the other action properties are
  box actions of steps, which symmetry does not disturb. `data_directory` and `login_order` use none.
* *History.* Trips stand for charges, whose code is the same but for what a detail asks for; two
  cars, the lower without a history, because the default car and the empty window are the special
  cases; one record, of the other car; two entries, enough for Back, Forward and a lost forward
  entry. The default preset stands for every preset with fixed bounds. The settings page is
  not visited: it only leaves the history route.
* *Paging.* Four pages, three entries, a trail of at most six.
* *Pages.* Three cookies: a session, a challenge and what replaces them; two calls, because what goes
  wrong is one call landing behind another. Two contents of the fields, two saves, two
  tests. Each form runs beside the other at rest in an initial state, since neither reads
  the other's variables.
* Runs of `Auth` stop when the clock or the version reaches its bound, hence
  `CHECK_DEADLOCK FALSE`; so does a data directory that has lost its key for good.

Fairness. `SettingsSpec` and `SourceSpec` assume weak fairness of each request in flight: a
child process is killed after twelve seconds (`connection_tests.py:28`), a connection attempt,
the wait for a pool connection and each statement end after five (`postgresql.py:355-362`), and a
handler that has its answer goes on. Nobody is assumed to get the lock: a waiter that never
does is answered by its time-out. `DirSpec` assumes weak fairness of a server's next start step. A process
that is starting runs; one that is down is started again, because the service is deployed
with `restart: unless-stopped` (`compose.yaml:21`,
`docs/operations/existing-teslamate-compose.md:34`); that an operator who stops it for good may leave it down is not told apart. `FairSpec` of `Client` assumes that a request is answered or fails and that a script goes on.
`NobodyShutOut` takes its other conditions itself: the user goes on submitting, the network
stops losing answers, and the other calls stop rotating and deleting the token.
`FairSpec` of `History` assumes that effects run and that what is asked for is answered, after
a retry if need be; `PageSettles` speaks of a user who leaves the page alone.
Nothing is assumed of the operator, of
backup or of restore: `ComesUp` speaks only while no restore is under way.

`ComesUp` has a limit worth knowing: it speaks of directories that served once. A first
start that is killed between creating the key file and filling it leaves an empty key,
which every later start refuses until someone removes it. The documents promise nothing
about that case.

What the forms do without breaking a promise, and a reader of these models should know:

* A regeneration of recovery codes that the administrator cancels may still be performed: it
  rotates the session, and a read sent before that is answered 401 afterwards signs the browser out. The codes are never
  shown. The same holds of a confirmation when the enrollment's timer runs out first. `CodesStay`
  is about codes that are on show.
* The cancel that a sign-in page sends as it goes away is awaited by nobody
  (`main.tsx:208-210`), and a late answer to a code deletes the challenge cookie of the next sign-in; hence the exception
  in `CancelsComeFirst`.
* Answers to reads and saves reach the cache in the order they arrive, not in the order the server gave
  them (`OldSuccessGone`, above). When another tab saves, the form's own failing test
  is of a version the cache does not know and, if the read that follows fails too, the older saved
  result is shown again: `BadgeHonest` speaks of the version in the cache.
* A password typed while a save is in flight is cleared by its answer, and a save's `test.reset()` unlocks the fields while a test
  still runs. `EditsKept` allows both: they are answers to this form.
* Going offline drops the cursor trail but not the cursor. After a reload, or a reconnection, a detail whose record is
  answered before the list of cars loses the cursor from its address: its own button then
  leads to the first page of the list, while the browser's Back still has the right one.
* In the wizard a save that is answered after Back goes on from the step it was made on.

## 4. What is proved

Eight modules, one for each part of the system, hold the theorems. They hold for every value of the
constants that satisfies the named assumptions, bounds included: any number of tokens, cookies,
tests, calls and tabs. "Forward" marks the theorems that assume `ClockAdvances`.

| Module | Theorem | States |
|---|---|---|
| `SecondFactorProofs` | `FactorInvariant`, `FactorTypeCorrect` | `FactorSpec => []FactorInv`, `[]FactorTypeOK` |
| | `FactorNeverLockedOut` | `FactorSpec => []NeverLockedOut` |
| | `FactorNeverTwice` | `FactorSpec => []NeverTwice`: no code or step of a seed proves the factor twice |
| | `FactorGuessesBounded` (forward) | `FactorSpec => []GuessesBounded` |
| | `FactorRetryAfterExact` (forward) | `FactorSpec => []RetryAfterIsExact` |
| | `FactorSpentProofsStayDead` (forward) | `FactorSpec => []SpentProofsStayDead` |
| `AuthProofs` | `AuthInvariant`, `AuthTypeCorrect` | `Spec => []AuthInv`, `[]TypeOK` (of `Auth`) |
| | `AuthRowsSound` | `Spec => []RowsSound` |
| | `AuthRefinesFactor` | `Spec => FactorSpec`: the handlers implement the abstract machine |
| | `AuthRotationRevokes` | `Spec => RotationRevokes` |
| | `AuthSessionsNeedFreshProof` | `Spec => SessionsNeedFreshProof` |
| | `AuthKeepsFactorPromises` (forward) | the promises of the machine, of `Auth` |
| `RecoveryProofs` | `RecoveryInvariant`, `RecoveryAlwaysPossible` | `RecoverySpec => []RecoveryInv`, `[]AlwaysRecoverable` |
| | `RecoveryRevivesNoProof` (forward) | `RecoverySpec => []RestoreRevivesNoProof` |
| | `RecoveryRestoreReopens` | `RecoverySpec => RestoreReopens` |
| `DataDirectoryProofs` | `DirectoryInvariant`, `DirectoryTypeCorrect` | `DirSpec => []DirInv`, `[]DirTypeOK` |
| | `NothingRunsOnLess` | `DirSpec => []RunningIsWhole` |
| | `KeyNeverReplaced` | `DirSpec => []KeyFitsDatabase` |
| | `ArchivesAreWhole` | `DirSpec => []ArchiveWhole` |
| `SettingsProofs` | `SettingsInvariant`, `SettingsTypeCorrect` | `SettingsSpec => [](SettingsInv /\ SlotsCounted)`, `[]SettingsTypeOK` |
| | `SettingsResultIsHonest`, `SettingsNothingLost` | `SettingsSpec => []ResultIsHonest`, `[]NothingLost` |
| | `SettingsSignedOutWritesNothing` | `SettingsSpec => SignedOutWritesNothing` |
| | `SourceInvariant`, `SourceTypeCorrect` | `SourceSpec => []SourceInv`, `[]SourceTypeOK` |
| | `SourceUsesWhatItRead` | `SourceSpec => []UsesWhatItRead` |
| | `SourceResultIsHonest` | `SourceSpec => [](ResultIsHonest /\ NothingLost)` |
| `ClientProofs` | `ClientInvariant`, `ClientTypeCorrect` | `Spec => []ClientInv`, `[]ClientTypeOK` (of `Client`) |
| | `ClientAppliesOnce` | `Spec => []AppliedOnce` |
| `HistoryProofs` | `HistoryOfflineHoldsNothing` | `Spec => []OfflineHoldsNothing` (of `History`) |
| | `HistoryType`, `HistoryAddressesFit` | `Spec => []HistoryTypeOK`, `[]AddressesFit` |
| | `HistoryRefines` | `Spec => SelectionSpec`: `History` implements `Selection` |
| `PagesProofs` | `PagesInvariant`, `PagesTypeCorrect` | `PagesSpec => []PagesInv`, `[]PagesTypeOK` |
| | `PagesBadgeHonest`, `PagesEditsKept` | `PagesSpec => []BadgeHonest`, `PagesSpec => EditsKept` |
| | `PagesCodesStay`, `PagesCancelsComeFirst` | `PagesSpec => CodesStay`, `PagesSpec => CancelsComeFirst` |

Neither `NeverLockedOut` nor the type invariant is inductive. What is missing is why the
used list stays short although no code prunes it outside a success. `RowOK` adds that every
record was made by a code of the seed in force for a step that is not past the
watermark and at most one before the step that dates its expiry (`UsedRecordFits`). A code is
accepted only beyond the watermark, and then every record still alive stands for a
different one of the last four steps (`FewActiveRecords`, an injection), so that at most five
records exist after the acceptance - hence `MaxUsed >= 5` in
`FactorAssumption`; the program has 6. The failures need `RoomForFailure`: whoever is not
throttled finds fewer than `LongLimit` of them. None of this needs a forward clock, so
the three first theorems hold when the wall clock is set back.

`GuessesBounded` needs that the row counts exactly the refusals of the long window (`GuessInv`), and
`SpentProofsStayDead` that each accepted code is either behind the watermark for good or still
remembered (`ReplayInv`). Both are false when the clock runs backwards - entries leave the
windows and re-enter them - and so assume `ClockAdvances`. So does `RetryAfterIsExact`: with `GuessInv` the
failures in either window are few, and the end of the wait is the moment the window that is full
loses its oldest (`WithinShrinks`, `FullWindow` and `ExactWait`: how the count of a window falls as time goes by). What
survives a clock that steps back is `NeverTwice`, because the watermark never does.

For the handlers, `AuthInv` adds to `RowsSound` that the tables are finite - what bounds a table after
pruning is a count - and that the seed of an enrollment has never proved anything (`SeedsUnspent`), without
which confirming it would not be a fresh rotation of the machine. Each handler is then a
step of `FactorNext` or leaves its variables alone, and `AuthKeepsFactorPromises` needs nothing more. That a session
is created only by a fresh proof follows from `NeverTwice`: what is accepted was not among the
accepted before, so `spent` grows.

For the commands, the validator asks for no more than `AuthInv` gives (`SoundIsValid`), and an archived row
passed through the same invariant (`ArchiveOK`). A restore bars every step up to two from now and
every step up to the archived watermark; `NoneAhead` says that no proof accepted so far lies
beyond that, when the clock has not run backwards.

For the settings, `SnapshotsOK` carries the argument: a version of a connection determines its
fields and its password, because every save of either makes a new one, and a snapshot of the current version
is the current login. The write of a result compares versions, hence logins. The pool is the same one
step further: `RequestsAgree` and `PoolOK` say it of requests that hold an older version, which no row has any more.
`SlotsCounted` counts the probing requests against the free slots.

For the files, `DirInv` says where every start and restore stands: a starting process holds the
lock and no restore runs (`StartsAlone`); from reading the key to the end of the start the file
still holds it (`KeyHeld`); a key is being generated only where there is no database, and a torn
database has no key beside it (`KeyBesideDatabase`) - which is what makes the order of restore's
two files matter: with the key first, a kill leaves a torn or empty database under a good
key. A restore that cleans up is known to be still a restore (`clean => restoring > 0`), without which
its unlinks could hit a running service.

For the client, `ClientInv` reads the number of sends off the place of a call (`SendsAt`): a
refresh that precedes the first send has sent nothing, one that follows a refusal has sent
once and still has its retry, and the retry is given up before the second send. Only a
write that was refused is refreshed again, so nothing that took effect is sent again. `HoldsOne` says a
call holds one token, which makes `ClientAssumption` enough for a fresh token to exist
(`FreshExists`).

For the history pages, `OfflineHoldsNothing` is inductive: offline no query is enabled, and nothing but
a query adds to the cache. `AddressesFit` is not. `setVehicleId()` drops the bounds of a whole history only
when the URL's preset says that they are such bounds, so `HistoryInv` adds that the preset of the whole history stands
beside them and beside no others (`BoundsNamed`). Each action then visits or replaces by a `Sound` address (`MoveSound`);
what remains is one lemma for each place that makes an address. The same invariant makes the
period of an address a matter of its preset (`PeriodShape`), so that a change of car keeps it, and `HistoryProofs`
maps each action to a step of `Selection` (`PushBar`, `ReplaceBar`: the stack follows the browser's history,
its bound included). `StartAssumption` is the price: the browser is opened at a link that these pages made or
at a bare one. A link written by hand with one car's whole history beside another car is taken as it is.

For the connection form, `ConnectionInv` follows every result of a test to the places it may have been
copied to - the form, the cache, the store, any answer under way (`Known`) - and says that a time names one
result: two of them with the same `tested_at` are the same (`KnownOK`). A success is of the version beside it wherever both
travel together (`Honest`), and every success held anywhere is in `passed`. `BadgeHonest` compares at most two of these.

For the account forms, `AccountInv` has three layers. `StateOK` and `UnderWayOK` say that no cookie anywhere is newer
than the last one issued, and which answers set cookies at all. `OwnersOK` says whose call is waited for: a
sign-in's by the login form at its own stage, at most one at a time, and, while the form's cancel is
under way, none that has been sent - from which `CancelsComeFirst` follows. `Rotated(k)` says that session k came
with the last rotation of the factor: no other session is accepted, and no request under way can rotate again
or turn the factor off. It holds of codes that a form still waits for (`RotationOK`) and of codes on show, and then
every read under way has that session or the browser has lost it (`CodesOK`); a read that was refused had
a session that is not accepted (`GoneOK`). So a refused read ends the codes only with the session. The proof found an inexact
place in an earlier version of the model, where the call that had landed could stay behind as one nobody waits for and set
its cookies again; `SignOut` and `LandOn` take it away now, as the browser does.

The assumptions on constants are those of the modules: no bound is zero where the code's is not, the marks of
absence (`NoCookie`, `NoSeed`, `NoResult` and their like) are none of the values they stand beside, and
`MaxUsed` is at least 5. `ClockAdvances` is no assumption of a module but of the theorems that name it.

Only model-checked: the liveness properties `ComesUp`, `SlotsComeBack`, `EveryoneIsAnswered`, `CallsEnd`,
`NobodyShutOut` and `PageSettles` - liveness under fairness and `ENABLED` are beyond the prover - and
`NewestLoginsKept`, `PreviousIsPrevious` and `OldSuccessGone`, which do not hold. The library's induction theorems take an operator as their parameter, which
these provers do not instantiate; where a proof needs the last moment or the least number with a property
it takes that number itself (`LeastNumber`). No proof here is about a recursive definition.

## 5. What the models assume

* A handler reads the clock once. `timestamp()` may be called more than once in a handler, and two
  calls may straddle a second; the calls are microseconds apart and the later one only
  makes rows expire later.
* `totp_enabled_at` is written with `totp_seed` and cleared with it, so one variable stands for both.
* Tokens, seeds and recovery codes are fresh where the program draws them at random.
* Passwords compare by equality; Argon2 rehashing writes the same password back.
* The attempt limiter and the CSRF check only turn requests away; without them `Auth`
  has more behaviours, and every safety property holds of fewer.
* A settings row that was never written is one that holds the defaults; validation of
  fields is left out, and hosts, ports and modes are one number.
* The operator who passes `--service-stopped` to `restore` keeps that promise.
* Restored or reset failures (`factor_failures='[]'`) concern a database or factor that is
  gone: `wrong` is emptied with them.
* Runs move the clock forward only.
* A navigation is rendered and its effects run before the next answer is taken in, as React and the
  router batch them; a failed query leaves its key in flight until it is tried again.
* The browser keeps few history entries (`MaxEntries`); the oldest is forgotten.

Not modelled, and why: cryptography, password hashing, cookies' attributes, JSON and
form validation, the SQL against TeslaMate with its calendar windows, cursors and sampling (arithmetic of
single reads, without state), probe protocols, charts and translations (presentation of one answer), `sw.js`
(it caches no API response), migrations (one-off), generated code, release scripts. `setWindow()` of
`history-context.tsx` has no caller. `LoginLimiter` turns requests away and nothing else. The set-up wizard keeps its
step on the server (`SaveOnboarding` of `Settings`) and adds forms that are modelled on the settings page.

## 6. Plan

1. Done: the back end's state (`Factor`, `SecondFactor`, `Auth`, `LoginOrder`, `Recovery`, `DataDirectory`,
   `Settings`, `DataSource`), the browser (`Client`, `History` with `Selection`, `Paging`, `Account`, `ConnectionForm`, `Pages`).
2. Done: every invariant, action property and refinement that a passing run checks is a theorem.
3. Proofs: what the violated properties leave true - which logins are kept, which page Previous leads to - and
   `Client` against an abstract form that sends a write at most once.
4. `LoginLimiter`; the wizard as a third form of `Pages`; the history API's cursors and sampling as
   algorithms with reference definitions.
