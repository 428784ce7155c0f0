---------------------------- MODULE ConnectionForm --------------------------
(***************************************************************************)
(* Connection of main.tsx: one connection's form on the settings page.  It *)
(* edits its own copy of the fields, saves or skips them, tests what is    *)
(* saved, and shows the outcome of a test on a badge, while the cached     *)
(* settings change under it.  The server is what Settings models in        *)
(* detail; of the password only whether a change of it is drafted is kept. *)
(***************************************************************************)
EXTENDS Naturals, Sequences, SequencesExt, FiniteSets

CONSTANTS
  Value,                            \* contents of the fields
  MaxSaves, MaxTests, MaxRequests   \* bounds of the model

ASSUME ConnectionAssumption ==
  MaxSaves \in Nat \ {0} /\ MaxTests \in Nat /\ MaxRequests \in Nat

VARIABLES
  form,     \* the fields, the drafted password, the result of the form's own test
  watch,    \* the test mutation: "idle", "pending", "error" or "done"
  cache,    \* the cached settings of this connection: its version and saved result
  requests, \* requests under way
  store,    \* on the server: what was saved as each version, the result of the last one, a clock
  loaded,   \* auxiliary: the newest version that was ever in the cache
  passed    \* auxiliary: the successes that the server ever stored

connectionVars == <<form, watch, cache, requests, store, loaded, passed>>

Config == [value : Value, skipped : BOOLEAN]
Result == [version : 0..MaxSaves, at : 0..MaxTests, ok : BOOLEAN, persisted : BOOLEAN]
NoResult == [version |-> 0, at |-> 0, ok |-> FALSE, persisted |-> TRUE]
Snapshot == [version : 0..MaxSaves, result : Result]
NoSnapshot == [version |-> 0, result |-> NoResult]
\* "follow" is the read that a test's answer is followed by; "read" stands for any other
\* call whose answer is put into the cache: a read of the settings, a save of another
\* form.  A call is mine while the form that sent it is on show, and observed while the
\* form waits for that test.
RequestKind == {"save", "skip", "test", "follow", "read"}
FormCall ==
  [op : RequestKind, at : {"sent", "running", "answered"}, mine : BOOLEAN, observed : BOOLEAN,
   sends : SUBSET Value, own : Result, seen : Snapshot]

Saved(version) == store.values[version]
Current == [version |-> Len(store.values), result |-> store.result]

-----------------------------------------------------------------------------
(* What the form shows. *)

SavedTestResult ==
  cache.result
\* Variant: the form's own result, whatever version it is of.
OwnTestResult == form.result
LocalTestResult ==
  IF form.result.version = cache.version THEN form.result ELSE NoResult
DisplayedTestResult ==
  CASE ~form.result.persisted -> form.result
    [] form.result.persisted /\ LocalTestResult # NoResult
         /\ LocalTestResult.at >= SavedTestResult.at -> LocalTestResult
    [] OTHER -> SavedTestResult
Badge ==
  CASE watch = "pending" -> "unverified"
    [] watch = "error" -> "failure"
    [] OTHER ->
         IF DisplayedTestResult = NoResult THEN "unverified"
         ELSE IF DisplayedTestResult.ok THEN "success" ELSE "failure"

Persisted == Saved(cache.version)
HasUnsavedChanges == form.draft \/ Persisted # [value |-> form.value, skipped |-> FALSE]

-----------------------------------------------------------------------------
(* The administrator. *)

Awaits(op) == \E c \in requests : c.op = op /\ c.mine
Post(op, observed) ==
  LET c == [op |-> op, at |-> "sent", mine |-> op \in {"save", "skip", "test"},
            observed |-> observed, own |-> NoResult, seen |-> NoSnapshot,
            sends |-> IF op \in {"save", "skip"} THEN {form.value} ELSE {}]
  IN Cardinality(requests) < MaxRequests /\ c \notin requests /\ requests' = requests \cup {c}

Unlocked == watch # "pending"      \* fieldset disabled={test.isPending}

Edit ==
  /\ Unlocked
  /\ \/ \E v \in Value : form' = [form EXCEPT !.value = v]
     \/ \E b \in BOOLEAN : form' = [form EXCEPT !.draft = b]
  /\ UNCHANGED <<watch, cache, requests, store>>
SubmitForm(op) ==
  /\ Unlocked /\ ~Awaits(op)
  /\ Post(op, FALSE)
  /\ UNCHANGED <<form, watch, cache, store>>
Test ==
  /\ Unlocked /\ ~HasUnsavedChanges
  /\ Post("test", TRUE)
  /\ watch' = "pending" /\ form' = [form EXCEPT !.result = NoResult]
  /\ UNCHANGED <<cache, store>>

Opened(snapshot) ==
  [value |-> Saved(snapshot.version).value, draft |-> FALSE, result |-> snapshot.result]
Detached(cs) == {[c EXCEPT !.observed = FALSE] : c \in cs}
\* The page is left and opened again, from what is cached.
Reopen ==
  /\ form' = Opened(cache) /\ watch' = "idle"
  /\ requests' = {[c EXCEPT !.mine = FALSE] : c \in Detached(requests)}
  /\ UNCHANGED <<cache, store>>

\* The settings are read anew, or another form of the page saves its part of them.
Background ==
  /\ Post("read", FALSE)
  /\ UNCHANGED <<form, watch, cache, store>>

-----------------------------------------------------------------------------
(* The server. *)

Becomes(c, d) == requests' = (requests \ {c}) \cup {d} /\ UNCHANGED <<form, watch, cache>>

Store(config) ==
  /\ Len(store.values) < MaxSaves
  /\ store' = [store EXCEPT !.values = Append(@, config), !.result = NoResult]
\* The outcome of a test is kept with the version it is of, if that is still saved.
Tested(version, ok) ==
  [version |-> version, at |-> store.clock + 1, ok |-> ok,
   persisted |-> version = Len(store.values)]
Finish(result) ==
  /\ store.clock < MaxTests
  /\ result.ok => result.persisted
  /\ store' = [store EXCEPT !.clock = @ + 1,
                 !.result = IF result.persisted THEN result ELSE @]

Answer(c) ==
  \/ /\ c.op \in {"save", "skip"} /\ c.at = "sent"
     /\ \E v \in c.sends : Store([value |-> v, skipped |-> c.op = "skip"])
     /\ Becomes(c, [c EXCEPT !.at = "answered", !.seen = Current', !.sends = {}])
  \/ /\ c.op \in {"read", "follow"} /\ c.at = "sent"
     /\ Becomes(c, [c EXCEPT !.at = "answered", !.seen = Current])
     /\ UNCHANGED store
  \/ /\ c.op = "test" /\ c.at = "sent"
     /\ Becomes(c, [c EXCEPT !.at = "running", !.seen.version = Current.version])
     /\ UNCHANGED store
  \/ /\ c.op = "test" /\ c.at = "running"
     /\ \E ok \in BOOLEAN :
          LET result == Tested(c.seen.version, ok)
          IN /\ Finish(result)
             /\ Becomes(c, [c EXCEPT !.at = "answered", !.seen = NoSnapshot, !.own = result])

\* Another tab saves or tests this connection.
OtherTab ==
  /\ \/ \E config \in Config : Store(config)
     \/ \E ok \in BOOLEAN : Finish(Tested(Current.version, ok))
  /\ UNCHANGED <<form, watch, cache, requests>>

-----------------------------------------------------------------------------
(* Answers. *)

Done(c) == requests \ {c}

\* Variant: the fields follow the cache, whoever changed it.
FieldsFollow(c) ==
  /\ cache' = c.seen /\ form' = [form EXCEPT !.value = Saved(c.seen.version).value]
  /\ requests' = Done(c) /\ UNCHANGED <<watch, store>>
ArriveRead(c) ==
  /\ cache' = c.seen
  /\ requests' = Done(c) /\ UNCHANGED <<form, watch, store>>

\* test.reset(): the form waits no longer for a test that is under way.
ArriveSave(c) ==
  /\ cache' = c.seen
  /\ IF c.mine
     THEN /\ watch' = "idle" /\ requests' = Detached(Done(c))
          /\ form' = [draft |-> FALSE, result |-> NoResult,
                      value |-> IF c.op = "skip" THEN Saved(c.seen.version).value
                                ELSE form.value]
     ELSE requests' = Done(c) /\ UNCHANGED <<form, watch>>
  /\ UNCHANGED store

ArriveTest(c) ==
  /\ form' = IF c.mine THEN [form EXCEPT !.result = c.own] ELSE form
  /\ requests' = Done(c) \cup {[c EXCEPT !.op = "follow", !.at = "sent"]}
  /\ UNCHANGED <<watch, cache, store>>
\* The follow-up read, which may have failed.
ArriveFollow(c, answered) ==
  /\ cache' = IF answered THEN c.seen ELSE cache
  /\ form' = IF ~c.mine THEN form
             ELSE IF answered THEN [Opened(c.seen) EXCEPT !.result = c.own]
             ELSE [form EXCEPT !.result = c.own]
  /\ watch' = IF c.observed THEN "done" ELSE watch
  /\ requests' = Done(c) /\ UNCHANGED store

Arrive(c) ==
  /\ c.at = "answered"
  /\ \/ c.op = "read" /\ ArriveRead(c)
     \/ c.op \in {"save", "skip"} /\ ArriveSave(c)
     \/ c.op = "test" /\ ArriveTest(c)
     \/ c.op = "follow" /\ ArriveFollow(c, TRUE)
\* The request is refused or its answer lost.
Fail(c) ==
  \/ c.op = "follow" /\ ArriveFollow(c, FALSE)
  \/ /\ c.op # "follow"
     /\ watch' = IF c.observed THEN "error" ELSE watch
     /\ requests' = Done(c) /\ UNCHANGED <<form, cache, store>>

-----------------------------------------------------------------------------
ConnectionInit ==
  /\ store \in [values : {<<c>> : c \in Config}, result : {NoResult}, clock : {0}]
  /\ cache = Current /\ requests = {} /\ watch = "idle" /\ form = Opened(cache)
  /\ loaded = cache.version /\ passed = {}

\* What the auxiliary variables keep of a step; no guard reads them.
Recorded ==
  /\ loaded' = IF cache'.version > loaded THEN cache'.version ELSE loaded
  /\ passed' = IF store'.result.ok THEN passed \cup {store'.result} ELSE passed

ConnectionStep ==
  \/ Edit \/ Test \/ Reopen \/ Background \/ OtherTab
  \/ \E op \in {"save", "skip"} : SubmitForm(op)
  \/ \E c \in requests : Answer(c) \/ Arrive(c) \/ Fail(c)

ConnectionNext == ConnectionStep /\ Recorded

ConnectionSpec == ConnectionInit /\ [][ConnectionNext]_connectionVars

-----------------------------------------------------------------------------
(* Properties. *)

ConnectionTypeOK ==
  /\ form \in [value : Value, draft : BOOLEAN, result : Result]
  /\ watch \in {"idle", "pending", "error", "done"}
  /\ cache \in Snapshot /\ requests \subseteq FormCall
  /\ store \in [values : BoundedSeq(Config, MaxSaves), result : Result, clock : 0..MaxTests]
  /\ cache.version \in 1..Len(store.values) /\ loaded \in 1..MaxSaves /\ passed \subseteq Result
  /\ watch = "pending" <=> \E c \in requests : c.observed

\* However saves, skips, tests and reads overtake each other, a success on the badge is one
\* that the server did store, and for the very version that the page takes for the saved
\* one: never the success of another version, or of a test whose settings had changed.  Nor
\* is a newer failure of that version, or of changed settings, at hand ("shows the latest
\* same-version failure when the settings refresh fails", "keeps a configuration-changed
\* test result as a failure": postgresql.spec.ts).  That the page takes the newest version
\* it has loaded for the saved one is not promised here; see OldSuccessGone.
BadgeHonest ==
  Badge = "success" =>
    /\ DisplayedTestResult \in passed
    /\ DisplayedTestResult.version = cache.version
    /\ \A r \in {form.result, cache.result} :
         ~r.ok /\ (r.version = cache.version \/ ~r.persisted) => r.at < DisplayedTestResult.at

\* Once a newer version of the settings has been loaded, no success of an older one is
\* shown ("does not show an old success after a newer settings version is loaded":
\* postgresql.spec.ts).  The code breaks this: a read that was answered before a save and
\* arrives after it puts the older settings, with their success, back into the cache.
OldSuccessGone == Badge = "success" => DisplayedTestResult.version >= loaded

\* What the administrator has put into the form gives way only to the administrator,
\* to the answer to a save or a skip of this form, and to that of a test of this form;
\* never to a read, another form, another tab or a form that was on show before.
EditsKept ==
  [][ <<form.value, form.draft>>' # <<form.value, form.draft>> =>
        \/ Edit \/ Reopen
        \/ \E c \in requests : c.mine /\ Arrive(c) /\ c.op \in {"save", "skip", "follow"}
    ]_connectionVars
=============================================================================
