----------------------------- MODULE PagesProofs -----------------------------
(***************************************************************************)
(* Proofs about Account and ConnectionForm, the forms of Pages.            *)
(***************************************************************************)
EXTENDS Pages, SequenceTheorems, TLAPS

-----------------------------------------------------------------------------
(* The connection's form. *)

\* The result of a snapshot is of its version when it is a success.
Honest(snapshot) == snapshot.result.ok => snapshot.result.version = snapshot.version

Saves == Len(store.values)

StoreOK ==
  /\ store \in [values : Seq(Config), result : Result, clock : 0..MaxTests]
  /\ Saves \in 1..MaxSaves
  /\ Honest(Current)

FormOK ==
  /\ form \in [value : Value, draft : BOOLEAN, result : Result]
  /\ watch \in {"idle", "pending", "error", "done"}
  /\ cache \in Snapshot /\ cache.version \in 1..Saves /\ Honest(cache)

\* A call of when n versions are saved.
CallOK(c, n) ==
  /\ c \in FormCall
  /\ c.observed => c.op \in {"test", "follow"}
  /\ c.at = "answered" /\ c.op # "test" => c.seen.version \in 1..n
  /\ Honest(c.seen)
  /\ c.op = "test" => ~c.seen.result.ok

CallsOK == \A c \in requests : CallOK(c, Saves)

\* The form waits for one test, and that is under way.
WatchOK ==
  /\ watch = "pending" <=> \E c \in requests : c.observed
  /\ \A c, d \in requests : c.observed /\ d.observed => c = d

Known ==
  {NoResult, form.result, cache.result, store.result}
    \cup {c.own : c \in requests} \cup {c.seen.result : c \in requests}

\* The clock tells the results of different tests apart, wherever they are held, and
\* a success is one that was stored.
KnownOK ==
  /\ \A r \in Known :
       r \in Result /\ r.at <= store.clock /\ (r.ok => r.persisted /\ r \in passed)
  /\ \A r, s \in Known : r.at = s.at => r = s

ConnectionInv == StoreOK /\ FormOK /\ CallsOK /\ WatchOK /\ KnownOK

\* The auxiliary variables, which only Recorded changes.
RecordOK == loaded \in 1..MaxSaves /\ passed \subseteq Result

\* The values of the model's bounds.
LEMMA ResultTypes ==
  /\ NoResult \in Result /\ ~NoResult.ok /\ NoResult.at = 0
  /\ NoSnapshot \in Snapshot /\ NoSnapshot.result = NoResult
  /\ Honest(NoSnapshot)
  /\ \A r \in Result : r.at \in Nat /\ r.version \in Nat /\ r.ok \in BOOLEAN
BY ConnectionAssumption DEF NoResult, Result, NoSnapshot, Snapshot, Honest

\* What is saved has a value, and the current version is a snapshot.
LEMMA SavedValues ==
  ASSUME StoreOK
  PROVE  /\ \A n \in 1..Saves : Saved(n) \in Config /\ Saved(n).value \in Value
         /\ Current \in Snapshot /\ Current.version = Saves /\ Current.result = store.result
<1>1. /\ store.values \in Seq(Config) /\ store.result \in Result /\ Saves \in 1..MaxSaves
  BY DEF StoreOK
<1>2. \A n \in 1..Saves : Saved(n) \in Config
  BY <1>1 DEF Saved, Saves
<1>3. Current \in Snapshot /\ Current.version = Saves /\ Current.result = store.result
  BY <1>1, ConnectionAssumption DEF Current, Snapshot, Saves
<1> QED BY <1>2, <1>3 DEF Config

\* A call stays fit for more versions.
LEMMA CallFits ==
  ASSUME NEW c, NEW m \in Nat, NEW n \in Nat, m <= n, CallOK(c, m)
  PROVE  CallOK(c, n)
BY DEF CallOK, FormCall, Snapshot

\* The calls under way when one more comes and none, or one, goes.
LEMMA CallsKept ==
  ASSUME StoreOK, StoreOK', CallsOK, Saves <= Saves', NEW d, CallOK(d, Saves'),
         requests' \subseteq requests \cup {d}
  PROVE  CallsOK'
<1>1. Saves \in Nat /\ Saves' \in Nat
  BY DEF StoreOK
<1> QED BY <1>1, CallFits DEF CallsOK

\* The calls under way when none comes.
LEMMA FewerCalls ==
  ASSUME StoreOK, StoreOK', CallsOK, Saves <= Saves', requests' \subseteq requests
  PROVE  CallsOK'
<1>1. Saves \in Nat /\ Saves' \in Nat
  BY DEF StoreOK
<1> QED BY <1>1, CallFits DEF CallsOK

\* A step that brings no new result.
LEMMA KnownKept ==
  ASSUME KnownOK, Recorded, store'.clock = store.clock, Known' \subseteq Known
  PROVE  KnownOK'
BY DEF KnownOK, Recorded

\* A step that brings a new one moves the clock.
LEMMA KnownGrows ==
  ASSUME KnownOK, StoreOK, Recorded, NEW r \in Result, r.at = store.clock + 1,
         r.ok => r.persisted /\ store'.result = r,
         store'.clock = store.clock + 1, Known' \subseteq Known \cup {r}
  PROVE  KnownOK'
<1>1. store.clock \in Nat
  BY DEF StoreOK
<1>2. \A s \in Known : s.at \in Nat /\ s.at < r.at
  BY <1>1, ResultTypes DEF KnownOK
<1>3. \A s \in Known' :
        s \in Result /\ s.at <= store'.clock /\ (s.ok => s.persisted /\ s \in passed')
  BY <1>1, <1>2 DEF KnownOK, Recorded
<1>4. \A s, t \in Known' : s.at = t.at => s = t
  BY <1>2 DEF KnownOK
<1> QED BY <1>3, <1>4 DEF KnownOK

\* A call takes the place of another.
LEMMA WatchReplaced ==
  ASSUME WatchOK, NEW c \in requests, NEW d, d.observed = c.observed,
         requests' = (requests \ {c}) \cup {d}, watch' = watch
  PROVE  WatchOK'
BY DEF WatchOK

\* A call is done; the form stops waiting if it was for that one.
LEMMA WatchDone ==
  ASSUME WatchOK, NEW c \in requests, requests' = requests \ {c},
         NEW w, w # "pending", watch' = IF c.observed THEN w ELSE watch
  PROVE  WatchOK'
BY DEF WatchOK

\* The form waits for nothing.
LEMMA WatchReset ==
  ASSUME watch' # "pending", \A c \in requests' : c.observed = FALSE
  PROVE  WatchOK'
BY DEF WatchOK

-----------------------------------------------------------------------------
(* Each step of the connection's form preserves the invariant. *)

\* The page is opened.
LEMMA ConnectionInvInit == ConnectionInit => ConnectionInv
<1> SUFFICES ASSUME ConnectionInit PROVE ConnectionInv
  OBVIOUS
<1>1. PICK c \in Config : store = [values |-> <<c>>, result |-> NoResult, clock |-> 0]
  BY DEF ConnectionInit
<1>2. /\ store \in [values : Seq(Config), result : Result, clock : 0..MaxTests]
      /\ Len(store.values) = 1 /\ store.values[1] = c /\ store.result = NoResult
      /\ store.clock = 0
  BY <1>1, ResultTypes, ConnectionAssumption
<1>3. StoreOK
  BY <1>2, ResultTypes, ConnectionAssumption DEF StoreOK, Saves, Current, Honest
<1>4. /\ cache = Current /\ watch = "idle" /\ form = Opened(cache) /\ requests = {}
  BY DEF ConnectionInit
<1>5. /\ cache \in Snapshot /\ cache.version = 1 /\ cache.result = NoResult
      /\ Saved(1).value \in Value
  BY <1>2, <1>3, <1>4, SavedValues DEF Saves
<1>6. FormOK /\ form.result = NoResult
  BY <1>2, <1>3, <1>4, <1>5, ResultTypes DEF FormOK, Opened, Saves, StoreOK, Honest
<1>7. CallsOK /\ WatchOK
  BY <1>4 DEF CallsOK, WatchOK
<1>8. KnownOK
  BY <1>2, <1>4, <1>5, <1>6, ResultTypes DEF KnownOK, Known
<1> QED BY <1>3, <1>6, <1>7, <1>8 DEF ConnectionInv

\* A call that is posted.
LEMMA PostedCall ==
  ASSUME ConnectionInv, Recorded, NEW op \in RequestKind, NEW observed \in BOOLEAN,
         observed => op = "test" /\ watch # "pending", Post(op, observed),
         store' = store, cache' = cache, watch' = IF observed THEN "pending" ELSE watch,
         form'.result \in {form.result, NoResult}
  PROVE  CallsOK' /\ WatchOK' /\ KnownOK'
<1> DEFINE c == [op |-> op, at |-> "sent", mine |-> op \in {"save", "skip", "test"},
                 observed |-> observed, own |-> NoResult, seen |-> NoSnapshot,
                 sends |-> IF op \in {"save", "skip"} THEN {form.value} ELSE {}]
<1>1. requests' = requests \cup {c}
  BY DEF Post
<1>2. StoreOK /\ FormOK /\ CallsOK /\ WatchOK /\ KnownOK
  BY DEF ConnectionInv
<1>3. c \in FormCall
  BY <1>2, ResultTypes DEF FormOK, FormCall
<1>4. /\ c.op = op /\ c.at = "sent" /\ c.observed = observed /\ c.own = NoResult
      /\ c.seen = NoSnapshot
  OBVIOUS
<1> HIDE DEF c
<1>5. CallOK(c, Saves)
  BY <1>3, <1>4, ResultTypes DEF CallOK
<1>6. CallsOK'
  BY <1>1, <1>2, <1>5 DEF CallsOK, Saves
<1>7. WatchOK'
  BY <1>1, <1>2, <1>4 DEF WatchOK, FormOK
<1>8. Known' \subseteq Known
  BY <1>1, <1>4, ResultTypes DEF Known
<1> QED BY <1>2, <1>6, <1>7, <1>8, KnownKept

\* The administrator edits.
LEMMA EditInv == ConnectionInv /\ Recorded /\ Edit => ConnectionInv'
<1> SUFFICES ASSUME ConnectionInv, Recorded, Edit PROVE ConnectionInv'
  OBVIOUS
<1>1. StoreOK /\ FormOK /\ CallsOK /\ WatchOK /\ KnownOK
      /\ UNCHANGED <<watch, cache, requests, store>>
  BY DEF ConnectionInv, Edit
<1>2. /\ form' \in [value : Value, draft : BOOLEAN, result : Result]
      /\ form'.result = form.result
  BY <1>1 DEF Edit, FormOK
<1>3. StoreOK' /\ FormOK' /\ CallsOK' /\ WatchOK'
  BY <1>1, <1>2 DEF StoreOK, FormOK, CallsOK, WatchOK, Saves, Current
<1>4. Known' = Known
  BY <1>1, <1>2 DEF Known
<1> QED BY <1>1, <1>3, <1>4, KnownKept DEF ConnectionInv

\* A save, a skip, a test or a read is asked for.
LEMMA PostInv ==
  ASSUME ConnectionInv, Recorded,
         \/ \E op \in {"save", "skip"} : SubmitForm(op)
         \/ Test
         \/ Background
  PROVE  ConnectionInv'
<1>1. StoreOK /\ FormOK /\ cache' = cache /\ store' = store
  BY DEF ConnectionInv, SubmitForm, Test, Background
<1>2. /\ CallsOK' /\ WatchOK' /\ KnownOK'
      /\ watch' \in {watch, "pending"}
      /\ form' = form \/ form' = [form EXCEPT !.result = NoResult]
  <2>1. ASSUME NEW op \in {"save", "skip"}, SubmitForm(op)
        PROVE  CallsOK' /\ WatchOK' /\ KnownOK' /\ watch' = watch /\ form' = form
    BY <2>1, PostedCall DEF SubmitForm, RequestKind
  <2>2. ASSUME Test
        PROVE  /\ CallsOK' /\ WatchOK' /\ KnownOK'
               /\ watch' = "pending" /\ form' = [form EXCEPT !.result = NoResult]
    <3>1. form'.result = NoResult
      BY <1>1, <2>2 DEF Test, FormOK
    <3> QED BY <2>2, <3>1, PostedCall DEF Test, RequestKind, Unlocked
  <2>3. ASSUME Background
        PROVE  CallsOK' /\ WatchOK' /\ KnownOK' /\ watch' = watch /\ form' = form
    BY <2>3, PostedCall DEF Background, RequestKind
  <2> QED BY <2>1, <2>2, <2>3
<1>3. StoreOK' /\ FormOK'
  BY <1>1, <1>2, ResultTypes DEF StoreOK, FormOK, Saves, Current
<1> QED BY <1>2, <1>3 DEF ConnectionInv

\* The page is left and opened again.
LEMMA ReopenInv == ConnectionInv /\ Recorded /\ Reopen => ConnectionInv'
<1> SUFFICES ASSUME ConnectionInv, Recorded, Reopen PROVE ConnectionInv'
  OBVIOUS
<1>1. StoreOK /\ FormOK /\ CallsOK /\ WatchOK /\ KnownOK
      /\ cache' = cache /\ store' = store
  BY DEF ConnectionInv, Reopen
<1>2. /\ form' \in [value : Value, draft : BOOLEAN, result : Result]
      /\ form'.result = cache.result /\ watch' = "idle"
  BY <1>1, SavedValues DEF Reopen, Opened, FormOK, Snapshot
<1>3. \A d \in requests' : \E c \in requests :
        /\ CallOK(d, Saves) /\ d.observed = FALSE
        /\ d.own = c.own /\ d.seen.result = c.seen.result
  <2> TAKE d \in requests'
  <2>1. PICK e \in Detached(requests) : d = [e EXCEPT !.mine = FALSE]
    BY DEF Reopen
  <2>2. PICK c \in requests : e = [c EXCEPT !.observed = FALSE]
    BY DEF Detached
  <2>3. CallOK(c, Saves)
    BY <1>1 DEF CallsOK
  <2>4. /\ e \in FormCall /\ e.observed = FALSE /\ e.op = c.op /\ e.at = c.at
        /\ e.own = c.own /\ e.seen = c.seen
    BY <2>2, <2>3 DEF CallOK, FormCall
  <2>5. /\ d \in FormCall /\ d.observed = FALSE /\ d.op = c.op /\ d.at = c.at
        /\ d.own = c.own /\ d.seen = c.seen
    BY <2>1, <2>4 DEF FormCall
  <2>6. CallOK(d, Saves)
    BY <2>3, <2>5 DEF CallOK
  <2> QED BY <2>5, <2>6
<1>4. StoreOK' /\ FormOK'
  BY <1>1, <1>2 DEF StoreOK, FormOK, Saves, Current
<1>5. CallsOK'
  BY <1>1, <1>3 DEF CallsOK, Saves
<1>6. WatchOK'
  BY <1>2, <1>3, WatchReset
<1>7. Known' \subseteq Known
  BY <1>1, <1>2, <1>3 DEF Known
<1> QED BY <1>1, <1>4, <1>5, <1>6, <1>7, KnownKept DEF ConnectionInv

\* A save on the server.
LEMMA StoreStep ==
  ASSUME StoreOK, NEW config \in Config, Store(config)
  PROVE  /\ StoreOK' /\ Saves' = Saves + 1 /\ Saves <= Saves'
         /\ store'.result = NoResult /\ store'.clock = store.clock
         /\ Saves' \in 1..MaxSaves
         /\ Current' \in Snapshot /\ Current'.version = Saves' /\ Current'.result = NoResult
<1>1. /\ store \in [values : Seq(Config), result : Result, clock : 0..MaxTests]
      /\ store' = [store EXCEPT !.values = Append(@, config), !.result = NoResult]
      /\ Len(store.values) < MaxSaves /\ Len(store.values) \in 1..MaxSaves
  BY DEF StoreOK, Store, Saves
<1>2. /\ store'.values = Append(store.values, config) /\ store'.result = NoResult
      /\ store'.clock = store.clock
      /\ store' \in [values : Seq(Config), result : Result, clock : 0..MaxTests]
  <2> DEFINE values == Append(store.values, config)
  <2>1. values \in Seq(Config)
    BY <1>1
  <2>2. store' = [store EXCEPT !.values = values, !.result = NoResult]
    BY <1>1
  <2> HIDE DEF values
  <2>3. /\ store'.values = values /\ store'.result = NoResult
        /\ store'.clock = store.clock
        /\ store' \in [values : Seq(Config), result : Result, clock : 0..MaxTests]
    BY <1>1, <2>1, <2>2, ResultTypes
  <2> QED BY <2>3 DEF values
<1>3. Len(store'.values) = Len(store.values) + 1
  BY <1>1, <1>2
<1>4. Honest(Current)'
  BY <1>2, ResultTypes DEF Honest, Current
<1>5. Saves' \in 1..MaxSaves
  BY <1>1, <1>3, ConnectionAssumption DEF Saves
<1>6. Current' \in Snapshot /\ Current'.version = Saves' /\ Current'.result = NoResult
  BY <1>2, <1>5, ResultTypes, ConnectionAssumption DEF Current, Snapshot, Saves
<1> QED BY <1>1, <1>2, <1>3, <1>4, <1>5, <1>6, ConnectionAssumption DEF StoreOK, Saves

\* A test ends on the server.
LEMMA FinishStep ==
  ASSUME StoreOK, NEW version \in 0..MaxSaves, NEW ok \in BOOLEAN,
         Finish(Tested(version, ok))
  PROVE  /\ StoreOK' /\ Saves' = Saves /\ store'.clock = store.clock + 1
         /\ store'.result \in {store.result, Tested(version, ok)}
         /\ Tested(version, ok) \in Result /\ Tested(version, ok).at = store.clock + 1
         /\ Tested(version, ok).ok =>
              Tested(version, ok).persisted /\ store'.result = Tested(version, ok)
<1> DEFINE r == Tested(version, ok)
<1>1. /\ store \in [values : Seq(Config), result : Result, clock : 0..MaxTests]
      /\ store' = [store EXCEPT !.clock = @ + 1,
                                !.result = IF r.persisted THEN r ELSE @]
      /\ store.clock < MaxTests /\ (r.ok => r.persisted)
  BY DEF StoreOK, Finish
<1>2. /\ r \in Result /\ r.at = store.clock + 1 /\ r.version = version
      /\ r.persisted = (version = Saves)
  BY <1>1, ConnectionAssumption DEF Tested, Result, Saves
<1> HIDE DEF r
<1>3. /\ store'.values = store.values /\ store'.clock = store.clock + 1
      /\ store'.result = IF r.persisted THEN r ELSE store.result
      /\ store' \in [values : Seq(Config), result : Result, clock : 0..MaxTests]
  <2> DEFINE result == IF r.persisted THEN r ELSE store.result
             clock == store.clock + 1
  <2>1. result \in Result /\ clock \in 0..MaxTests
    BY <1>1, <1>2, ConnectionAssumption
  <2>2. store' = [store EXCEPT !.clock = clock, !.result = result]
    BY <1>1
  <2> HIDE DEF result, clock
  <2>3. /\ store'.values = store.values /\ store'.clock = clock /\ store'.result = result
        /\ store' \in [values : Seq(Config), result : Result, clock : 0..MaxTests]
    BY <1>1, <2>1, <2>2
  <2> QED BY <2>3 DEF result, clock
<1>4. Honest(Current)'
  BY <1>2, <1>3 DEF StoreOK, Honest, Current, Saves
<1>5. StoreOK' /\ Saves' = Saves
  BY <1>3, <1>4 DEF StoreOK, Saves
<1> QED BY <1>1, <1>2, <1>3, <1>5 DEF r

\* Another tab saves or tests.
LEMMA OtherTabInv == ConnectionInv /\ Recorded /\ OtherTab => ConnectionInv'
<1> SUFFICES ASSUME ConnectionInv, Recorded, OtherTab PROVE ConnectionInv'
  OBVIOUS
<1>1. StoreOK /\ FormOK /\ CallsOK /\ WatchOK /\ KnownOK
      /\ UNCHANGED <<form, watch, cache, requests>> /\ Saves \in 1..MaxSaves
  BY DEF ConnectionInv, OtherTab, StoreOK
<1>2. WatchOK'
  BY <1>1 DEF WatchOK
<1>3. ASSUME NEW config \in Config, Store(config)
      PROVE  StoreOK' /\ Saves <= Saves' /\ KnownOK'
  <2>1. /\ StoreOK' /\ Saves <= Saves'
        /\ store'.result = NoResult /\ store'.clock = store.clock
    BY <1>1, <1>3, StoreStep
  <2>2. Known' \subseteq Known
    BY <1>1, <2>1 DEF Known
  <2> QED BY <1>1, <2>1, <2>2, KnownKept
<1>4. ASSUME NEW ok \in BOOLEAN, Finish(Tested(Current.version, ok))
      PROVE  StoreOK' /\ Saves <= Saves' /\ KnownOK'
  <2> DEFINE r == Tested(Current.version, ok)
  <2>1. Current.version \in 0..MaxSaves
    BY <1>1, SavedValues
  <2>2. /\ StoreOK' /\ Saves' = Saves /\ store'.clock = store.clock + 1
        /\ store'.result \in {store.result, r} /\ r \in Result /\ r.at = store.clock + 1
        /\ r.ok => r.persisted /\ store'.result = r
    BY <1>1, <1>4, <2>1, FinishStep
  <2> HIDE DEF r
  <2>3. Known' \subseteq Known \cup {r}
    BY <1>1, <2>2 DEF Known
  <2>4. KnownOK'
    BY <1>1, <2>2, <2>3, KnownGrows
  <2> QED BY <1>1, <2>2, <2>4
<1>5. StoreOK' /\ Saves <= Saves' /\ KnownOK'
  BY <1>3, <1>4 DEF OtherTab
<1>6. Saves' \in Nat
  BY <1>5 DEF StoreOK
<1>7. FormOK'
  BY <1>1, <1>5, <1>6 DEF FormOK, Snapshot
<1>8. CallsOK'
  BY <1>1, <1>5, FewerCalls
<1> QED BY <1>2, <1>5, <1>7, <1>8 DEF ConnectionInv

\* The server answers a call.
LEMMA AnswerInv ==
  ASSUME ConnectionInv, Recorded, NEW c \in requests, Answer(c)
  PROVE  ConnectionInv'
<1>1. /\ StoreOK /\ FormOK /\ CallsOK /\ WatchOK /\ KnownOK /\ CallOK(c, Saves)
      /\ Saves \in 1..MaxSaves /\ c \in FormCall
  BY DEF ConnectionInv, CallsOK, CallOK, StoreOK
<1>2. Current \in Snapshot /\ Current.version = Saves /\ Current.result = store.result
  BY <1>1, SavedValues
\* One call d takes the place of c, and what d holds is known on the server.
<1>3. ASSUME NEW d, Becomes(c, d), StoreOK', Saves <= Saves', CallOK(d, Saves'),
             d.observed = c.observed, KnownOK'
      PROVE  ConnectionInv'
  <2>1. /\ requests' = (requests \ {c}) \cup {d} /\ UNCHANGED <<form, watch, cache>>
        /\ Saves' \in Nat
    BY <1>3 DEF Becomes, StoreOK
  <2>2. FormOK'
    BY <1>1, <1>3, <2>1 DEF FormOK, Snapshot
  <2>3. CallsOK'
    BY <1>1, <1>3, <2>1, CallsKept
  <2>4. WatchOK'
    BY <1>1, <1>3, <2>1, WatchReplaced
  <2> QED BY <1>3, <2>2, <2>3, <2>4 DEF ConnectionInv
<1>4. ASSUME NEW v \in c.sends, c.op \in {"save", "skip"}, c.at = "sent",
             Store([value |-> v, skipped |-> c.op = "skip"]),
             Becomes(c, [c EXCEPT !.at = "answered", !.seen = Current', !.sends = {}])
      PROVE  ConnectionInv'
  <2> DEFINE d == [c EXCEPT !.at = "answered", !.seen = Current', !.sends = {}]
  <2>1. [value |-> v, skipped |-> c.op = "skip"] \in Config
    BY <1>1 DEF FormCall, Config
  <2>2. /\ StoreOK' /\ Saves' = Saves + 1 /\ Saves <= Saves'
        /\ store'.result = NoResult /\ store'.clock = store.clock
    BY <1>1, <1>4, <2>1, StoreStep
  <2>3. /\ Current' \in Snapshot /\ Current'.version = Saves' /\ Current'.result = NoResult
        /\ Saves' \in 1..MaxSaves
    BY <1>1, <1>4, <2>1, StoreStep
  <2>c. Becomes(c, d)
    BY <1>4
  <2>4. /\ d \in FormCall /\ d.observed = c.observed /\ d.op = c.op /\ d.at = "answered"
        /\ d.seen = Current' /\ d.own = c.own
    BY <1>1, <2>3 DEF FormCall
  <2> HIDE DEF d
  <2>5. CallOK(d, Saves')
    BY <1>1, <1>4, <2>3, <2>4, ResultTypes DEF CallOK, Honest
  <2>6. Known' \subseteq Known
    BY <2>2, <2>3, <2>4, <2>c DEF Known, Becomes
  <2>7. KnownOK'
    BY <1>1, <2>2, <2>6, KnownKept
  <2> QED BY <1>3, <2>2, <2>4, <2>5, <2>7, <2>c
<1>5. ASSUME c.op \in {"read", "follow"}, c.at = "sent", store' = store,
             Becomes(c, [c EXCEPT !.at = "answered", !.seen = Current])
      PROVE  ConnectionInv'
  <2> DEFINE d == [c EXCEPT !.at = "answered", !.seen = Current]
  <2>1. /\ d \in FormCall /\ d.observed = c.observed /\ d.op = c.op /\ d.at = "answered"
        /\ d.seen = Current /\ d.own = c.own
    BY <1>1, <1>2 DEF FormCall
  <2>2. StoreOK' /\ Saves' = Saves /\ Saves <= Saves'
    BY <1>1, <1>5 DEF StoreOK, Saves, Current
  <2>3. Becomes(c, d)
    BY <1>5
  <2> HIDE DEF d
  <2>4. CallOK(d, Saves')
    BY <1>1, <1>2, <1>5, <2>1, <2>2 DEF CallOK, StoreOK
  <2>5. Known' \subseteq Known
    BY <1>2, <1>5, <2>1, <2>3 DEF Known, Becomes
  <2>6. KnownOK'
    BY <1>1, <1>5, <2>5, KnownKept
  <2> QED BY <1>3, <2>1, <2>2, <2>3, <2>4, <2>6
<1>6. ASSUME c.op = "test", c.at = "sent", store' = store,
             Becomes(c, [c EXCEPT !.at = "running", !.seen.version = Current.version])
      PROVE  ConnectionInv'
  <2> DEFINE x == [c.seen EXCEPT !.version = Current.version]
             d == [c EXCEPT !.at = "running", !.seen = x]
  <2>1. /\ x \in Snapshot /\ x.result = c.seen.result
    BY <1>1, <1>2 DEF FormCall, Snapshot
  <2>2. Becomes(c, d)
    BY <1>1, <1>6 DEF FormCall
  <2> HIDE DEF x
  <2>3. /\ d \in FormCall /\ d.observed = c.observed /\ d.op = c.op /\ d.at = "running"
        /\ d.seen = x /\ d.own = c.own
    BY <1>1, <2>1 DEF FormCall
  <2> HIDE DEF d
  <2>4. StoreOK' /\ Saves' = Saves /\ Saves <= Saves'
    BY <1>1, <1>6 DEF StoreOK, Saves, Current
  <2>5. CallOK(d, Saves')
    BY <1>1, <1>6, <2>1, <2>3, <2>4 DEF CallOK, Honest
  <2>6. Known' \subseteq Known
    BY <1>6, <2>1, <2>2, <2>3 DEF Known, Becomes
  <2>7. KnownOK'
    BY <1>1, <1>6, <2>6, KnownKept
  <2> QED BY <1>3, <2>2, <2>3, <2>4, <2>5, <2>7
<1>7. ASSUME NEW ok \in BOOLEAN, c.op = "test", c.at = "running",
             Finish(Tested(c.seen.version, ok)),
             Becomes(c, [c EXCEPT !.at = "answered", !.seen = NoSnapshot,
                                  !.own = Tested(c.seen.version, ok)])
      PROVE  ConnectionInv'
  <2> DEFINE r == Tested(c.seen.version, ok)
             d == [c EXCEPT !.at = "answered", !.seen = NoSnapshot, !.own = r]
  <2>1. c.seen.version \in 0..MaxSaves
    BY <1>1 DEF FormCall, Snapshot
  <2>2. /\ StoreOK' /\ Saves' = Saves /\ Saves <= Saves' /\ store'.clock = store.clock + 1
        /\ store'.result \in {store.result, r} /\ r \in Result /\ r.at = store.clock + 1
        /\ r.ok => r.persisted /\ store'.result = r
    BY <1>1, <1>7, <2>1, FinishStep
  <2>3. Becomes(c, d)
    BY <1>7
  <2> HIDE DEF r
  <2>4. /\ d \in FormCall /\ d.observed = c.observed /\ d.op = c.op /\ d.at = "answered"
        /\ d.seen = NoSnapshot /\ d.own = r
    BY <1>1, <2>2, ResultTypes DEF FormCall
  <2> HIDE DEF d
  <2>5. CallOK(d, Saves')
    BY <1>1, <1>7, <2>2, <2>4, ResultTypes DEF CallOK
  <2>6. Known' \subseteq Known \cup {r}
    BY <2>2, <2>3, <2>4, ResultTypes DEF Known, Becomes
  <2>7. KnownOK'
    BY <1>1, <2>2, <2>6, KnownGrows
  <2> QED BY <1>3, <2>2, <2>3, <2>4, <2>5, <2>7
<1> QED BY <1>4, <1>5, <1>6, <1>7 DEF Answer

\* What every answer that lands leaves in place: a call is done, and one may follow it.
LEMMA AnswerTaken ==
  ASSUME ConnectionInv, Recorded, NEW c \in requests, store' = store, requests' \subseteq requests,
         cache' \in {cache, c.seen}, cache'.version \in 1..Saves,
         form' \in [value : Value, draft : BOOLEAN, result : Result],
         form'.result \in Known, watch' \in {"idle", "pending", "error", "done"}
  PROVE  StoreOK' /\ FormOK' /\ CallsOK' /\ KnownOK'
<1>1. /\ StoreOK /\ FormOK /\ CallsOK /\ KnownOK /\ CallOK(c, Saves)
  BY DEF ConnectionInv, CallsOK
<1>2. StoreOK' /\ Saves' = Saves
  BY <1>1 DEF StoreOK, Saves, Current
<1>3. FormOK'
  BY <1>1, <1>2 DEF FormOK, CallOK, FormCall
<1>4. CallsOK'
  BY <1>1, <1>2 DEF CallsOK
<1>5. Known' \subseteq Known
  BY DEF Known
<1> QED BY <1>1, <1>2, <1>3, <1>4, <1>5, KnownKept

\* A read, a save or a skip is answered.
LEMMA ArriveReadSaveInv ==
  ASSUME ConnectionInv, Recorded, NEW c \in requests, c.at = "answered",
         \/ c.op = "read" /\ ArriveRead(c)
         \/ c.op \in {"save", "skip"} /\ ArriveSave(c)
  PROVE  ConnectionInv'
<1>1. /\ StoreOK /\ FormOK /\ WatchOK /\ CallOK(c, Saves) /\ CallsOK /\ KnownOK
      /\ c \in FormCall
  BY DEF ConnectionInv, CallsOK, CallOK
<1>2. /\ cache' = c.seen /\ c.seen.version \in 1..Saves /\ store' = store
      /\ c.observed = FALSE
  BY <1>1 DEF CallOK, FormCall, ArriveRead, ArriveSave
<1>3. CASE requests' = Done(c) /\ UNCHANGED <<form, watch>>
  <2>1. requests' \subseteq requests /\ form'.result \in Known
    BY <1>3 DEF Done, Known
  <2>2. StoreOK' /\ FormOK' /\ CallsOK' /\ KnownOK'
    BY <1>1, <1>2, <1>3, <2>1, AnswerTaken DEF FormOK
  <2>3. WatchOK'
    BY <1>1, <1>2, <1>3 DEF WatchOK, Done
  <2> QED BY <2>2, <2>3 DEF ConnectionInv
<1>4. CASE /\ watch' = "idle" /\ requests' = Detached(Done(c))
           /\ form' = [draft |-> FALSE, result |-> NoResult,
                       value |-> IF c.op = "skip" THEN Saved(c.seen.version).value
                                 ELSE form.value]
  <2>1. Saved(c.seen.version).value \in Value
    BY <1>1, <1>2, SavedValues
  <2>2. /\ form' \in [value : Value, draft : BOOLEAN, result : Result]
        /\ form'.result = NoResult
    BY <1>1, <1>4, <2>1, ResultTypes DEF FormOK
  <2>3. \A d \in requests' : \E e \in requests :
          /\ CallOK(d, Saves) /\ d.observed = FALSE
          /\ d.own = e.own /\ d.seen = e.seen
    <3> TAKE d \in requests'
    <3>1. PICK e \in requests : d = [e EXCEPT !.observed = FALSE]
      BY <1>4 DEF Detached, Done
    <3>2. CallOK(e, Saves)
      BY <1>1 DEF CallsOK
    <3>3. /\ d \in FormCall /\ d.observed = FALSE /\ d.op = e.op /\ d.at = e.at
          /\ d.own = e.own /\ d.seen = e.seen
      BY <3>1, <3>2 DEF CallOK, FormCall
    <3>4. CallOK(d, Saves)
      BY <3>2, <3>3 DEF CallOK
    <3> QED BY <3>3, <3>4
  <2>4. StoreOK' /\ Saves' = Saves
    BY <1>1, <1>2 DEF StoreOK, Saves, Current
  <2>5. FormOK'
    BY <1>1, <1>2, <1>4, <2>2, <2>4 DEF FormOK, CallOK, FormCall
  <2>6. CallsOK'
    BY <2>3, <2>4 DEF CallsOK
  <2>7. WatchOK'
    BY <1>4, <2>3, WatchReset
  <2>8. Known' \subseteq Known
    BY <1>2, <2>2, <2>3 DEF Known
  <2>9. KnownOK'
    BY <1>1, <1>2, <2>8, KnownKept
  <2> QED BY <2>4, <2>5, <2>6, <2>7, <2>9 DEF ConnectionInv
<1> QED BY <1>3, <1>4 DEF ArriveRead, ArriveSave

\* A test is answered, and the settings are read anew.
LEMMA ArriveTestInv ==
  ASSUME ConnectionInv, Recorded, NEW c \in requests, c.at = "answered", c.op = "test", ArriveTest(c)
  PROVE  ConnectionInv'
<1> DEFINE d == [c EXCEPT !.op = "follow", !.at = "sent"]
<1>1. /\ StoreOK /\ FormOK /\ WatchOK /\ CallOK(c, Saves) /\ CallsOK /\ KnownOK
      /\ c \in FormCall
  BY DEF ConnectionInv, CallsOK, CallOK
<1>2. /\ form' = IF c.mine THEN [form EXCEPT !.result = c.own] ELSE form
      /\ requests' = (requests \ {c}) \cup {d}
      /\ UNCHANGED <<watch, cache, store>>
  BY DEF ArriveTest, Done
<1>3. /\ d \in FormCall /\ d.op = "follow" /\ d.at = "sent" /\ d.observed = c.observed
      /\ d.own = c.own /\ d.seen = c.seen
  BY <1>1 DEF FormCall, RequestKind
<1> HIDE DEF d
<1>4. StoreOK' /\ Saves' = Saves /\ Saves <= Saves'
  BY <1>1, <1>2 DEF StoreOK, Saves, Current
<1>5. /\ form' \in [value : Value, draft : BOOLEAN, result : Result]
      /\ form'.result \in {form.result, c.own}
  BY <1>1, <1>2 DEF FormOK, FormCall
<1>6. FormOK'
  BY <1>1, <1>2, <1>4, <1>5 DEF FormOK
<1>7. CallOK(d, Saves')
  BY <1>1, <1>3, <1>4 DEF CallOK
<1>8. CallsOK'
  BY <1>1, <1>2, <1>4, <1>7, CallsKept
<1>9. WatchOK'
  BY <1>1, <1>2, <1>3, WatchReplaced
<1>10. Known' \subseteq Known
  BY <1>2, <1>3, <1>5 DEF Known
<1> QED BY <1>1, <1>2, <1>4, <1>6, <1>8, <1>9, <1>10, KnownKept DEF ConnectionInv

\* The read after a test arrives, or fails.
LEMMA ArriveFollowInv ==
  ASSUME ConnectionInv, Recorded, NEW c \in requests, NEW answered \in BOOLEAN,
         answered => c.at = "answered", c.op = "follow", ArriveFollow(c, answered)
  PROVE  ConnectionInv'
<1>1. /\ StoreOK /\ FormOK /\ WatchOK /\ CallOK(c, Saves) /\ c \in FormCall
  BY DEF ConnectionInv, CallsOK, CallOK
<1>2. /\ cache' = IF answered THEN c.seen ELSE cache
      /\ watch' = IF c.observed THEN "done" ELSE watch
      /\ requests' = requests \ {c} /\ store' = store
  BY DEF ArriveFollow, Done
<1>3. cache'.version \in 1..Saves
  BY <1>1, <1>2 DEF CallOK, FormOK
<1>4. /\ form' \in [value : Value, draft : BOOLEAN, result : Result]
      /\ form'.result \in {form.result, c.own}
  <2>1. CASE c.mine /\ answered
    <3> DEFINE o == Opened(c.seen)
    <3>1. Saved(c.seen.version).value \in Value /\ c.seen.result \in Result /\ c.own \in Result
      BY <1>1, <2>1, SavedValues DEF CallOK, FormCall, Snapshot
    <3>2. o \in [value : Value, draft : BOOLEAN, result : Result]
      BY <3>1 DEF Opened
    <3>3. form' = [o EXCEPT !.result = c.own]
      BY <2>1 DEF ArriveFollow
    <3> HIDE DEF o
    <3> QED BY <3>1, <3>2, <3>3
  <2>2. CASE ~c.mine \/ ~answered
    BY <1>1, <2>2 DEF ArriveFollow, FormOK, FormCall
  <2> QED BY <1>1, <2>1, <2>2
<1>5. form'.result \in Known /\ watch' \in {"idle", "pending", "error", "done"}
  BY <1>1, <1>2, <1>4 DEF Known, FormOK
<1>6. StoreOK' /\ FormOK' /\ CallsOK' /\ KnownOK'
  BY <1>2, <1>3, <1>4, <1>5, AnswerTaken
<1>7. WatchOK'
  BY <1>1, <1>2, WatchDone
<1> QED BY <1>6, <1>7 DEF ConnectionInv

\* A call is refused or its answer lost.
LEMMA FailInv ==
  ASSUME ConnectionInv, Recorded, NEW c \in requests, Fail(c)
  PROVE  ConnectionInv'
<1>1. CASE c.op = "follow" /\ ArriveFollow(c, FALSE)
  BY <1>1, ArriveFollowInv
<1>2. CASE /\ watch' = IF c.observed THEN "error" ELSE watch
           /\ requests' = Done(c) /\ UNCHANGED <<form, cache, store>>
  <2>1. FormOK /\ WatchOK /\ requests' = requests \ {c} /\ form'.result \in Known
    BY <1>2 DEF ConnectionInv, Done, Known
  <2>2. watch' \in {"idle", "pending", "error", "done"}
    BY <1>2, <2>1 DEF FormOK
  <2>3. StoreOK' /\ FormOK' /\ CallsOK' /\ KnownOK'
    BY <1>2, <2>1, <2>2, AnswerTaken DEF FormOK
  <2>4. WatchOK'
    BY <1>2, <2>1, WatchDone
  <2> QED BY <2>3, <2>4 DEF ConnectionInv
<1> QED BY <1>1, <1>2 DEF Fail

\* Every step of the connection's form.
LEMMA ConnectionInvNext ==
  ConnectionInv /\ [ConnectionNext]_connectionVars => ConnectionInv'
<1> SUFFICES ASSUME ConnectionInv, [ConnectionNext]_connectionVars PROVE ConnectionInv'
  OBVIOUS
<1>r. ConnectionNext => ConnectionStep /\ Recorded
  BY DEF ConnectionNext
<1>1. ASSUME Edit, Recorded PROVE ConnectionInv'
  BY <1>1, EditInv
<1>2. ASSUME Test \/ Background \/ \E op \in {"save", "skip"} : SubmitForm(op), Recorded
      PROVE  ConnectionInv'
  BY <1>2, PostInv
<1>3. ASSUME Reopen, Recorded PROVE ConnectionInv'
  BY <1>3, ReopenInv
<1>4. ASSUME OtherTab, Recorded PROVE ConnectionInv'
  BY <1>4, OtherTabInv
<1>5. ASSUME NEW c \in requests, Answer(c), Recorded PROVE ConnectionInv'
  BY <1>5, AnswerInv
<1>6. ASSUME NEW c \in requests, Arrive(c), Recorded PROVE ConnectionInv'
  <2>1. c.at = "answered"
    BY <1>6 DEF Arrive
  <2>2. CASE \/ c.op = "read" /\ ArriveRead(c)
             \/ c.op \in {"save", "skip"} /\ ArriveSave(c)
    BY <1>6, <2>1, <2>2, ArriveReadSaveInv
  <2>3. CASE c.op = "test" /\ ArriveTest(c)
    BY <1>6, <2>1, <2>3, ArriveTestInv
  <2>4. CASE c.op = "follow" /\ ArriveFollow(c, TRUE)
    BY <1>6, <2>1, <2>4, ArriveFollowInv
  <2> QED BY <1>6, <2>2, <2>3, <2>4 DEF Arrive
<1>7. ASSUME NEW c \in requests, Fail(c), Recorded PROVE ConnectionInv'
  BY <1>7, FailInv
<1>8. CASE UNCHANGED connectionVars
  BY <1>8 DEF connectionVars, ConnectionInv, StoreOK, FormOK, CallsOK, WatchOK, KnownOK,
              Known, Saves, Current
<1> QED BY <1>r, <1>1, <1>2, <1>3, <1>4, <1>5, <1>6, <1>7, <1>8 DEF ConnectionStep

\* What the auxiliary variables keep.
LEMMA RecordInit == ConnectionInit => RecordOK
<1> SUFFICES ASSUME ConnectionInit PROVE RecordOK
  OBVIOUS
<1>1. ConnectionInv /\ loaded = cache.version /\ passed = {}
  BY ConnectionInvInit DEF ConnectionInit
<1>2. cache.version \in 1..MaxSaves
  BY <1>1, ConnectionAssumption DEF ConnectionInv, FormOK, StoreOK
<1> QED BY <1>1, <1>2 DEF RecordOK

\* Each step keeps them within their types.
LEMMA RecordNext ==
  ConnectionInv /\ RecordOK /\ [ConnectionNext]_connectionVars => RecordOK'
<1> SUFFICES ASSUME ConnectionInv, RecordOK, [ConnectionNext]_connectionVars PROVE RecordOK'
  OBVIOUS
<1>1. CASE UNCHANGED connectionVars
  BY <1>1 DEF RecordOK, connectionVars
<1>2. CASE Recorded
  <2>1. ConnectionInv'
    BY ConnectionInvNext
  <2>2. cache'.version \in 1..MaxSaves
    BY <2>1, ConnectionAssumption DEF ConnectionInv, FormOK, StoreOK
  <2>3. store'.result \in Result
    BY <2>1 DEF ConnectionInv, StoreOK
  <2> QED BY <1>2, <2>2, <2>3 DEF RecordOK, Recorded
<1> QED BY <1>1, <1>2 DEF ConnectionNext

\* The invariant implies the types.
LEMMA ConnectionTyped == ConnectionInv /\ RecordOK => ConnectionTypeOK
<1> SUFFICES ASSUME ConnectionInv, RecordOK PROVE ConnectionTypeOK
  OBVIOUS
<1>1. StoreOK /\ FormOK /\ CallsOK /\ WatchOK
  BY DEF ConnectionInv
<1>2. store.values \in Seq(Config) /\ Saves \in 1..MaxSaves
  BY <1>1 DEF StoreOK
<1>3. store.values \in [1..Saves -> Config]
  BY <1>2 DEF Saves
<1>4. store.values \in BoundedSeq(Config, MaxSaves)
  BY <1>2, <1>3, ConnectionAssumption DEF BoundedSeq, SeqOf
<1>5. store \in [values : BoundedSeq(Config, MaxSaves), result : Result, clock : 0..MaxTests]
  BY <1>1, <1>4 DEF StoreOK
<1> QED BY <1>1, <1>5 DEF FormOK, CallsOK, CallOK, WatchOK, RecordOK, ConnectionTypeOK, Saves

\* A badge of a success is a success that was stored, of the version in the cache, and no
\* failure of that version at hand is newer.
LEMMA BadgeStep == ConnectionInv => BadgeHonest
<1> SUFFICES ASSUME ConnectionInv, Badge = "success"
             PROVE  /\ DisplayedTestResult \in passed
                    /\ DisplayedTestResult.version = cache.version
                    /\ \A r \in {form.result, cache.result} :
                         ~r.ok /\ (r.version = cache.version \/ ~r.persisted)
                           => r.at < DisplayedTestResult.at
  BY DEF BadgeHonest
<1> DEFINE D == DisplayedTestResult
           F == form.result
           C == cache.result
<1>1. /\ F \in Known /\ C \in Known /\ NoResult \in Known
      /\ \A r \in Known : r \in Result /\ (r.ok => r.persisted /\ r \in passed)
      /\ \A r, s \in Known : r.at = s.at => r = s
  BY DEF ConnectionInv, KnownOK, Known
<1>2. C.ok => C.version = cache.version
  BY DEF ConnectionInv, FormOK, Honest
<1>3. \A r \in Result : r.at \in Nat /\ r.ok \in BOOLEAN /\ r.persisted \in BOOLEAN
  BY DEF Result
<1>4. D.ok
  BY DEF Badge
<1>5. NoResult.at = 0 /\ ~NoResult.ok
  BY ResultTypes
<1>6. \/ D = F /\ ~F.persisted
      \/ D = F /\ F.persisted /\ F.version = cache.version /\ F.at >= C.at
      \/ D = C /\ F.persisted
           /\ (F.version = cache.version => F = NoResult \/ ~(F.at >= C.at))
  BY <1>1, <1>3 DEF DisplayedTestResult, LocalTestResult, SavedTestResult
<1> HIDE DEF D, F, C
<1>7. D \in Known /\ D \in Result /\ D.persisted /\ D \in passed
  BY <1>1, <1>4, <1>6
<1>8. D.version = cache.version
  BY <1>2, <1>4, <1>6, <1>7
<1>9. D.at > 0
  BY <1>1, <1>3, <1>4, <1>5, <1>7
<1>10. \A r \in {F, C} : ~r.ok /\ (r.version = cache.version \/ ~r.persisted) => r.at < D.at
  <2>1. F \in Result /\ C \in Result /\ F.at \in Nat /\ C.at \in Nat /\ D.at \in Nat
    BY <1>1, <1>3, <1>7
  <2>2. CASE D = F /\ F.version = cache.version /\ F.at >= C.at
    <3>1. ~C.ok => C.at # D.at
      BY <1>1, <1>4, <1>7
    <3> QED BY <1>4, <2>1, <2>2, <3>1
  <2>3. CASE D = C /\ F.persisted
               /\ (F.version = cache.version => F = NoResult \/ ~(F.at >= C.at))
    BY <1>4, <1>5, <1>9, <2>1, <2>3
  <2> QED BY <1>6, <1>7, <2>2, <2>3
<1> QED BY <1>7, <1>8, <1>10 DEF D, F, C

\* The fields and the drafted password change only when they may.
LEMMA EditsStep ==
  ASSUME ConnectionInv, [ConnectionNext]_connectionVars,
         <<form.value, form.draft>>' # <<form.value, form.draft>>
  PROVE  \/ Edit \/ Reopen
         \/ \E c \in requests : c.mine /\ Arrive(c) /\ c.op \in {"save", "skip", "follow"}
<1>1. form \in [value : Value, draft : BOOLEAN, result : Result]
  BY DEF ConnectionInv, FormOK
<1>2. CASE Test
  BY <1>1, <1>2 DEF Test
<1>3. CASE Background \/ OtherTab \/ UNCHANGED connectionVars
  BY <1>3 DEF Background, OtherTab, connectionVars
<1>4. ASSUME NEW op, SubmitForm(op)
      PROVE  <<form.value, form.draft>>' = <<form.value, form.draft>>
  BY <1>4 DEF SubmitForm
<1>5. ASSUME NEW c \in requests, Answer(c)
      PROVE  <<form.value, form.draft>>' = <<form.value, form.draft>>
  BY <1>5 DEF Answer, Becomes
<1>6. ASSUME NEW c \in requests, Fail(c)
      PROVE  <<form.value, form.draft>>' = <<form.value, form.draft>>
  BY <1>1, <1>6 DEF Fail, ArriveFollow
<1>7. ASSUME NEW c \in requests, Arrive(c), ~(c.mine /\ c.op \in {"save", "skip", "follow"})
      PROVE  <<form.value, form.draft>>' = <<form.value, form.draft>>
  BY <1>1, <1>7 DEF Arrive, ArriveRead, ArriveSave, ArriveTest, ArriveFollow
<1> QED BY <1>2, <1>3, <1>4, <1>5, <1>6, <1>7 DEF ConnectionNext, ConnectionStep

-----------------------------------------------------------------------------
(* The account's forms: the invariant. *)

\* Cookies that an answer may set.
Sets == UNION {[names -> Id \cup {None}] : names \in SUBSET Cookie}
Gives(c, k) == "session" \in DOMAIN c.sets /\ c.sets["session"] = k

\* A call of when the server has issued n cookies.
Fit(c, n) ==
  /\ c \in Call
  /\ c.at = "waiting" => c.op = "login"
  /\ c.status = "none" <=> c.at # "answered"
  /\ c.at # "answered" => c.sets = <<>>
  /\ c.status \in {"refused", "gone"} \/ c.op \in Read \cup {"enroll"} => c.sets = <<>>
  /\ c.status = "challenge" => c.op = "login"
  /\ c.op \in {"confirm", "regenerate"} /\ c.status = "ok" =>
       c.sets \in Jar /\ c.sets["session"] \in Id
  /\ \A name \in Cookie : c.jar[name] <= n /\ (name \in DOMAIN c.sets => c.sets[name] <= n)

ServerType ==
  [last : Id, factor : BOOLEAN, enrollment : Id \cup {None},
   sessions : SUBSET Id, challenges : SUBSET Id]

\* Nothing under way, kept or accepted is newer than what the server issued last.
StateOK ==
  /\ route \in {"login", "settings", "away"} /\ held \subseteq Read
  /\ stage \in {"password", "code"}
  /\ mode \in {"idle", "enroll", "scan", "recovery", "disable"}
  /\ codes \in BOOLEAN /\ jar \in Jar /\ server \in ServerType
  /\ \A name \in Cookie : jar[name] <= server.last
  /\ \A i \in server.sessions \cup server.challenges : i <= server.last
UnderWayOK == \A c \in calls : Fit(c, server.last)

PlaceOK ==
  /\ route # "login" => stage = "password"
  /\ route # "settings" => mode = "idle" /\ ~codes

\* A call whose answer is still taken belongs to the form on show.
OwnersOK ==
  /\ \A c \in calls : c.live /\ c.op \in SignIn =>
       route = "login" /\ (stage = "code" <=> c.op = "verify")
  /\ \A c \in calls : c.live /\ c.op \in Factor \cup {"password"} => route = "settings"
  /\ \A c, d \in calls : c.live /\ d.live /\ c.op \in SignIn /\ d.op \in SignIn => c = d
  /\ \A c \in calls : c.live /\ c.op = "cancel" =>
       /\ stage = "password"
       /\ \A d \in calls : d.live /\ d.op \in SignIn => d.at = "waiting"

\* k is the session the second factor was last rotated to: no other is accepted, and
\* nothing under way can rotate it again or end the factor.
Rotated(k) ==
  /\ k <= server.last /\ server.factor /\ server.sessions \subseteq {k}
  /\ \A c \in calls : c.at # "answered" =>
       /\ c.op \in Factor => c.jar["session"] # k
       /\ c.op = "verify" => c.jar["challenge"] \notin server.challenges

\* Codes that a form still waits for, and those on show, are of the last rotation.
RotationOK ==
  \A c \in calls : c.live /\ c.op \in {"confirm", "regenerate"} /\ c.status = "ok" =>
    /\ Rotated(c.sets["session"])
    /\ \A d \in calls \ {c} : ~Gives(d, c.sets["session"])
CodesOK ==
  codes => \E k \in Id :
    /\ Rotated(k)
    /\ \A d \in calls : ~Gives(d, k)
    /\ \A d \in calls : d.op \in Read => d.jar["session"] = k \/ jar["session"] # k
GoneOK ==
  \A c \in calls : c.op \in Read /\ c.status = "gone" => c.jar["session"] \notin server.sessions

AccountInv ==
  StateOK /\ UnderWayOK /\ PlaceOK /\ OwnersOK /\ RotationOK /\ CodesOK /\ GoneOK

-----------------------------------------------------------------------------
(* Cookies and calls. *)

\* What sets cookies.
LEMMA CookieTypes ==
  /\ MaxId \in Nat /\ 1 \in Id /\ None \notin Id /\ Id \subseteq Nat /\ None = 0
  /\ <<>> \in Sets /\ DOMAIN <<>> = {} /\ Jar \subseteq Sets
  /\ \A a, b \in Id \cup {None} :
       /\ Cookies(a, b) \in Jar
       /\ Cookies(a, b)["session"] = a /\ Cookies(a, b)["challenge"] = b
  /\ [name \in {"challenge"} |-> None] \in Sets
<1>1. MaxId \in Nat /\ 1 \in Id /\ None \notin Id /\ Id \subseteq Nat /\ None = 0
  BY AccountAssumption DEF Id, None
<1>2. DOMAIN <<>> = {}
  OBVIOUS
<1>3. <<>> \in [{} -> Id \cup {None}]
  BY <1>2
<1>4. <<>> \in Sets
  BY <1>3 DEF Sets
<1>5. Jar \subseteq Sets
  BY DEF Jar, Sets
<1>6. [name \in {"challenge"} |-> None] \in Sets
  <2>1. [name \in {"challenge"} |-> None] \in [{"challenge"} -> Id \cup {None}]
    OBVIOUS
  <2> QED BY <2>1 DEF Sets, Cookie
<1>7. ASSUME NEW a \in Id \cup {None}, NEW b \in Id \cup {None}
      PROVE  /\ Cookies(a, b) \in Jar
             /\ Cookies(a, b)["session"] = a /\ Cookies(a, b)["challenge"] = b
  BY DEF Cookies, Jar, Cookie
<1> QED BY <1>1, <1>2, <1>4, <1>5, <1>6, <1>7

\* The jar after an answer.
LEMMA JarAfter ==
  ASSUME NEW sets \in Sets, NEW old \in Jar
  PROVE  /\ SetCookies(sets, old) \in Jar
         /\ \A name \in Cookie : SetCookies(sets, old)[name]
                                   = IF name \in DOMAIN sets THEN sets[name] ELSE old[name]
<1>1. PICK names \in SUBSET Cookie : sets \in [names -> Id \cup {None}]
  BY DEF Sets
<1>2. \A name \in Cookie : name \in DOMAIN sets => sets[name] \in Id \cup {None}
  BY <1>1
<1>3. \A name \in Cookie : old[name] \in Id \cup {None}
  BY DEF Jar
<1> QED BY <1>2, <1>3 DEF SetCookies, Jar

\* The fields of a call.
LEMMA CallFields ==
  ASSUME NEW c \in Call
  PROVE  /\ c.op \in Op /\ c.live \in BOOLEAN /\ c.jar \in Jar /\ c.sets \in Sets
         /\ c.at \in {"waiting", "sent", "answered"}
         /\ c.status \in {"none", "ok", "challenge", "refused", "gone"}
         /\ \A name \in Cookie : c.jar[name] \in Nat
<1>1. c.jar \in Jar
  BY DEF Call
<1>2. \A name \in Cookie : c.jar[name] \in Id \cup {None}
  BY <1>1 DEF Jar
<1>3. \A i \in Id \cup {None} : i \in Nat
  BY CookieTypes
<1> QED BY <1>1, <1>2, <1>3 DEF Call, Sets

Dead(c) == [c EXCEPT !.live = FALSE]

\* A call that nobody waits for any longer.
LEMMA DeadCall ==
  ASSUME NEW c \in Call
  PROVE  /\ Dead(c) \in Call /\ Dead(c).live = FALSE
         /\ Dead(c).op = c.op /\ Dead(c).at = c.at /\ Dead(c).jar = c.jar
         /\ Dead(c).status = c.status /\ Dead(c).sets = c.sets
         /\ ~c.live => Dead(c) = c
<1>1. Dead(c) \in Call
  BY DEF Dead, Call
<1>2. /\ Dead(c).live = FALSE /\ Dead(c).op = c.op /\ Dead(c).at = c.at
      /\ Dead(c).jar = c.jar /\ Dead(c).status = c.status /\ Dead(c).sets = c.sets
  BY DEF Dead, Call
<1>3. ~c.live => Dead(c) = c
  BY DEF Dead, Call
<1> QED BY <1>1, <1>2, <1>3

\* A request as it is sent.
LEMMA RequestFields ==
  ASSUME jar \in Jar, NEW op \in Op
  PROVE  /\ Request(op) \in Call /\ Request(op).op = op /\ Request(op).at = "sent"
         /\ Request(op).live = TRUE /\ Request(op).jar = jar
         /\ Request(op).status = "none" /\ Request(op).sets = <<>>
<1>1. <<>> \in Sets
  BY CookieTypes
<1> QED BY <1>1 DEF Request, Call, Sets

\* A call that is sent now.
New(d) ==
  /\ d \in Call /\ d.at # "answered" /\ d.status = "none" /\ d.sets = <<>>
  /\ d.at = "waiting" => d.op = "login"
  /\ \A name \in Cookie : d.jar[name] <= server.last

\* The calls that the page sends are new.
LEMMA NewCalls ==
  ASSUME StateOK
  PROVE  /\ \A op \in Op : New(Request(op))
         /\ New([Request("cancel") EXCEPT !.live = FALSE])
         /\ [Request("cancel") EXCEPT !.live = FALSE].live = FALSE
         /\ [Request("cancel") EXCEPT !.live = FALSE].op = "cancel"
         /\ New([Request("login") EXCEPT !.at = "waiting"])
         /\ [Request("login") EXCEPT !.at = "waiting"].op = "login"
         /\ [Request("login") EXCEPT !.at = "waiting"].at = "waiting"
         /\ \A op \in Op, j \in Jar : (\A name \in Cookie : j[name] <= server.last) =>
              /\ New([Request(op) EXCEPT !.jar = j])
              /\ [Request(op) EXCEPT !.jar = j].op = op
              /\ [Request(op) EXCEPT !.jar = j].jar = j
<1>1. jar \in Jar /\ \A name \in Cookie : jar[name] <= server.last
  BY DEF StateOK
<1>2. \A op \in Op : New(Request(op))
  BY <1>1, RequestFields DEF New
<1>3. {"cancel", "login"} \subseteq Op
  BY DEF Op, SignIn
<1>4. /\ New([Request("cancel") EXCEPT !.live = FALSE])
      /\ [Request("cancel") EXCEPT !.live = FALSE].live = FALSE
      /\ [Request("cancel") EXCEPT !.live = FALSE].op = "cancel"
  <2> DEFINE r == Request("cancel")
             d == Dead(r)
  <2>1. r \in Call /\ New(r) /\ r.op = "cancel"
    BY <1>1, <1>2, <1>3, RequestFields
  <2> HIDE DEF r
  <2>2. New(d) /\ d.op = "cancel" /\ d.live = FALSE
    BY <2>1, DeadCall DEF New
  <2> QED BY <2>2 DEF r, Dead
<1>5. /\ New([Request("login") EXCEPT !.at = "waiting"])
      /\ [Request("login") EXCEPT !.at = "waiting"].op = "login"
      /\ [Request("login") EXCEPT !.at = "waiting"].at = "waiting"
  <2> DEFINE r == Request("login")
  <2>1. r \in Call /\ New(r) /\ r.op = "login"
    BY <1>1, <1>2, <1>3, RequestFields
  <2> HIDE DEF r
  <2>2. /\ [r EXCEPT !.at = "waiting"] \in Call /\ [r EXCEPT !.at = "waiting"].jar = r.jar
        /\ [r EXCEPT !.at = "waiting"].op = r.op /\ [r EXCEPT !.at = "waiting"].sets = r.sets
        /\ [r EXCEPT !.at = "waiting"].status = r.status
        /\ [r EXCEPT !.at = "waiting"].at = "waiting"
    BY <2>1 DEF Call
  <2>3. New([r EXCEPT !.at = "waiting"])
    BY <2>1, <2>2 DEF New
  <2> QED BY <2>1, <2>2, <2>3 DEF r
<1>6. ASSUME NEW op \in Op, NEW j \in Jar, \A name \in Cookie : j[name] <= server.last
      PROVE  /\ New([Request(op) EXCEPT !.jar = j])
             /\ [Request(op) EXCEPT !.jar = j].op = op
             /\ [Request(op) EXCEPT !.jar = j].jar = j
  <2> DEFINE r == Request(op)
  <2>1. r \in Call /\ New(r) /\ r.op = op /\ r.at = "sent"
    BY <1>1, <1>2, RequestFields
  <2> HIDE DEF r
  <2>2. /\ [r EXCEPT !.jar = j] \in Call /\ [r EXCEPT !.jar = j].jar = j
        /\ [r EXCEPT !.jar = j].op = r.op /\ [r EXCEPT !.jar = j].sets = r.sets
        /\ [r EXCEPT !.jar = j].status = r.status /\ [r EXCEPT !.jar = j].at = r.at
    BY <2>1 DEF Call
  <2>3. New([r EXCEPT !.jar = j])
    BY <1>6, <2>1, <2>2 DEF New
  <2> QED BY <2>1, <2>2, <2>3 DEF r
<1> QED BY <1>2, <1>4, <1>5, <1>6

-----------------------------------------------------------------------------
(* Steps of the page: what becomes of the calls. *)

\* The calls under way are those of before, some of which with an operation in ops
\* nobody waits for any longer, and new ones; no call of ops is waited for.
Shape(ops, news) ==
  /\ \A d \in calls' :
       \/ d \in calls
       \/ d \in news
       \/ \E c \in calls : c.live /\ c.op \in ops /\ d = Dead(c)
  /\ \A d \in calls' : d.op \in ops => ~d.live

\* Outdating the calls of ops.
LEMMA OutdatedCalls ==
  ASSUME UnderWayOK, NEW cs \in SUBSET calls, NEW ops, NEW d \in Outdated(cs, ops)
  PROVE  /\ d \in calls \/ \E c \in calls : c.live /\ c.op \in ops /\ d = Dead(c)
         /\ d.op \in ops => ~d.live
<1>1. PICK c \in cs : d = IF c.op \in ops THEN [c EXCEPT !.live = FALSE] ELSE c
  BY DEF Outdated
<1>2. c \in calls /\ c \in Call
  BY DEF UnderWayOK, Fit
<1>3. CASE c.op \in ops
  BY <1>1, <1>2, <1>3, DeadCall DEF Dead
<1>4. CASE c.op \notin ops
  BY <1>1, <1>2, <1>4
<1> QED BY <1>3, <1>4

\* A call of after a step of the page.
LEMMA CallAfter ==
  ASSUME UnderWayOK, NEW ops, NEW news, Shape(ops, news), NEW d \in calls'
  PROVE  \/ d \in news
         \/ d \in calls /\ (d.live => d.op \notin ops)
         \/ /\ ~d.live
            /\ \E c \in calls :
                 /\ c \notin calls' /\ d.op = c.op /\ d.at = c.at /\ d.jar = c.jar
                 /\ d.status = c.status /\ d.sets = c.sets
<1>1. ASSUME NEW c \in calls, c.live, c.op \in ops, d = Dead(c)
      PROVE  /\ ~d.live
             /\ c \notin calls' /\ d.op = c.op /\ d.at = c.at /\ d.jar = c.jar
             /\ d.status = c.status /\ d.sets = c.sets
  <2>1. c \in Call
    BY DEF UnderWayOK, Fit
  <2>2. c \notin calls'
    BY <1>1 DEF Shape
  <2> QED BY <1>1, <2>1, <2>2, DeadCall
<1> QED BY <1>1 DEF Shape

\* A call of after the step that is waited for.
LEMMA LiveAfter ==
  ASSUME UnderWayOK, NEW ops, NEW news, Shape(ops, news), NEW d \in calls', d.live
  PROVE  d \in news \/ (d \in calls /\ d.op \notin ops)
BY CallAfter

\* The new calls of a step.
AllNew(news) == \A d \in news : New(d)

\* The calls stay fit, and a read that was refused is still refused.
LEMMA FitKept ==
  ASSUME UnderWayOK, GoneOK, NEW ops, NEW news, Shape(ops, news), AllNew(news),
         server' = server
  PROVE  UnderWayOK' /\ GoneOK'
<1> SUFFICES ASSUME NEW d \in calls'
             PROVE  /\ Fit(d, server.last)
                    /\ d.op \in Read /\ d.status = "gone" =>
                         d.jar["session"] \notin server.sessions
  BY DEF UnderWayOK, GoneOK
<1>1. CASE d \in news
  <2>1. New(d) /\ DOMAIN <<>> = {}
    BY <1>1, CookieTypes DEF AllNew
  <2> QED BY <2>1 DEF New, Fit
<1>2. CASE d \in calls
  BY <1>2 DEF UnderWayOK, GoneOK
<1>3. ASSUME NEW c \in calls, c.live, c.op \in ops, d = Dead(c)
      PROVE  /\ Fit(d, server.last)
             /\ d.op \in Read /\ d.status = "gone" =>
                  d.jar["session"] \notin server.sessions
  <2>1. Fit(c, server.last) /\ c \in Call
    BY DEF UnderWayOK, Fit
  <2>2. /\ d \in Call /\ d.op = c.op /\ d.at = c.at /\ d.jar = c.jar
        /\ d.status = c.status /\ d.sets = c.sets
    BY <1>3, <2>1, DeadCall
  <2> QED BY <2>1, <2>2 DEF Fit, GoneOK
<1> QED BY <1>1, <1>2, <1>3 DEF Shape

\* A rotation stays the last one while no new call could rotate.
LEMMA RotatedKept ==
  ASSUME UnderWayOK, NEW ops, NEW news, Shape(ops, news), server' = server,
         \A d \in news : d.op \notin Factor \cup {"verify"},
         NEW k, Rotated(k)
  PROVE  Rotated(k)'
<1>1. ASSUME NEW d \in calls', d.at # "answered"
      PROVE  /\ d.op \in Factor => d.jar["session"] # k
             /\ d.op = "verify" => d.jar["challenge"] \notin server.challenges
  BY <1>1, CallAfter DEF Rotated
<1> QED BY <1>1 DEF Rotated

\* So do the rotations whose codes are still waited for.
LEMMA RotationKept ==
  ASSUME UnderWayOK, RotationOK, NEW ops, NEW news, Shape(ops, news), AllNew(news),
         server' = server, \A d \in news : d.op \notin Factor \cup {"verify"}
  PROVE  RotationOK'
<1> SUFFICES ASSUME NEW c \in calls', c.live, c.op \in {"confirm", "regenerate"},
                    c.status = "ok"
             PROVE  /\ Rotated(c.sets["session"])'
                    /\ \A d \in calls' \ {c} : ~Gives(d, c.sets["session"])
  BY DEF RotationOK
<1> DEFINE k == c.sets["session"]
<1>1. c \in calls
  BY LiveAfter DEF AllNew, New
<1>2. Rotated(k) /\ \A d \in calls \ {c} : ~Gives(d, k)
  BY <1>1 DEF RotationOK
<1>3. \A d \in calls' \ {c} : ~Gives(d, k)
  <2> TAKE d \in calls' \ {c}
  <2>1. CASE d \in news
    <3>1. d.sets = <<>> /\ DOMAIN <<>> = {}
      BY <2>1, CookieTypes DEF AllNew, New
    <3> QED BY <3>1 DEF Gives
  <2>2. CASE d \in calls
    BY <1>2, <2>2
  <2>3. ASSUME NEW x \in calls, x \notin calls', d.sets = x.sets PROVE ~Gives(d, k)
    <3>1. x # c
      BY <2>3
    <3> QED BY <1>2, <2>3, <3>1 DEF Gives
  <2> QED BY <2>1, <2>2, <2>3, CallAfter
<1>4. Rotated(k)'
  BY <1>2, RotatedKept
<1> QED BY <1>3, <1>4

\* The codes on show stay those of the last rotation, whatever cookies are set.
LEMMA CodesKept ==
  ASSUME StateOK, UnderWayOK, CodesOK, NEW ops, NEW news, Shape(ops, news), AllNew(news),
         server' = server, codes' => codes,
         \A d \in news : d.op \notin Factor \cup {"verify"},
         \A d \in news : d.op \in Read => d.jar = jar /\ jar' = jar,
         jar' = jar \/ \E c \in calls : jar' = SetCookies(c.sets, jar)
  PROVE  CodesOK'
<1> SUFFICES ASSUME codes
             PROVE  \E k \in Id :
                      /\ Rotated(k)'
                      /\ \A d \in calls' : ~Gives(d, k)
                      /\ \A d \in calls' : d.op \in Read =>
                           d.jar["session"] = k \/ jar'["session"] # k
  BY DEF CodesOK
<1>1. PICK k \in Id : /\ Rotated(k)
                      /\ \A d \in calls : ~Gives(d, k)
                      /\ \A d \in calls : d.op \in Read =>
                           d.jar["session"] = k \/ jar["session"] # k
  BY DEF CodesOK
<1>2. Rotated(k)'
  BY <1>1, RotatedKept
<1>3. ASSUME NEW d \in calls' PROVE ~Gives(d, k)
  <2>1. CASE d \in news
    <3>1. d.sets = <<>> /\ DOMAIN <<>> = {}
      BY <2>1, CookieTypes DEF AllNew, New
    <3> QED BY <3>1 DEF Gives
  <2>2. CASE d \in calls
    BY <1>1, <2>2
  <2>3. ASSUME NEW x \in calls, d.sets = x.sets PROVE ~Gives(d, k)
    BY <1>1, <2>3 DEF Gives
  <2> QED BY <2>1, <2>2, <2>3, CallAfter
<1>4. jar'["session"] = k => jar["session"] = k
  <2>1. ASSUME NEW c \in calls, jar' = SetCookies(c.sets, jar), jar'["session"] = k
        PROVE  jar["session"] = k
    <3>1. c.sets \in Sets /\ jar \in Jar /\ "session" \in Cookie
      BY CallFields DEF UnderWayOK, Fit, StateOK, Cookie
    <3>2. jar'["session"] = IF "session" \in DOMAIN c.sets THEN c.sets["session"]
                            ELSE jar["session"]
      BY <2>1, <3>1, JarAfter
    <3>3. ~Gives(c, k)
      BY <1>1
    <3> QED BY <2>1, <3>2, <3>3 DEF Gives
  <2> QED BY <2>1
<1>5. ASSUME NEW d \in calls', d.op \in Read
      PROVE  d.jar["session"] = k \/ jar'["session"] # k
  BY <1>1, <1>4, <1>5, CallAfter
<1> QED BY <1>2, <1>3, <1>5

\* The calls that are waited for keep their place while the page and the stage stay.
LEMMA OwnersKept ==
  ASSUME UnderWayOK, OwnersOK, NEW ops, NEW news, Shape(ops, news),
         route' = route, stage' = stage,
         \A d \in news : d.live => d.op \notin SignIn \cup {"cancel"},
         \A d \in news : d.live /\ d.op \in Factor \cup {"password"} => route = "settings"
  PROVE  OwnersOK'
<1>1. \A d \in calls' : d.live /\ d.op \in SignIn \cup {"cancel"} => d \in calls
  BY LiveAfter
<1>2. \A d \in calls' : d.live /\ d.op \in Factor \cup {"password"} => route = "settings"
  BY LiveAfter DEF OwnersOK
<1> QED BY <1>1, <1>2 DEF OwnersOK

\* Nothing is waited for on another page but a cancel and a sign-out.
LEMMA OwnersGone ==
  ASSUME stage' = "password",
         \A d \in calls' : d.live => d.op \notin SignIn \cup Factor \cup {"password"}
  PROVE  OwnersOK'
BY DEF OwnersOK

\* A step that starts no rotation and shows no codes.
LEMMA QuietStep ==
  ASSUME AccountInv, NEW ops, NEW news, Shape(ops, news), AllNew(news),
         server' = server, codes' => codes,
         \A d \in news : d.op \notin Factor \cup {"verify"},
         \A d \in news : d.op \in Read => d.jar = jar /\ jar' = jar,
         jar' = jar \/ \E c \in calls : jar' = SetCookies(c.sets, jar)
  PROVE  UnderWayOK' /\ GoneOK' /\ RotationOK' /\ CodesOK'
<1>1. StateOK /\ UnderWayOK /\ GoneOK /\ RotationOK /\ CodesOK
  BY DEF AccountInv
<1>2. UnderWayOK' /\ GoneOK'
  BY <1>1, FitKept
<1>3. RotationOK'
  BY <1>1, RotationKept
<1>4. CodesOK'
  BY <1>1, CodesKept
<1> QED BY <1>2, <1>3, <1>4

\* A step that takes calls away.
LEMMA ShapeTaken ==
  ASSUME calls' \subseteq calls
  PROVE  Shape({}, {})
BY DEF Shape

\* A step that asks for one thing more.
LEMMA ShapeAsked ==
  ASSUME NEW d, calls' = calls \cup {d}
  PROVE  Shape({}, {d})
BY DEF Shape

\* A step after which the calls of ops are not waited for.
LEMMA ShapeOutdated ==
  ASSUME UnderWayOK, NEW cs \in SUBSET calls, NEW ops, NEW news,
         calls' \subseteq Outdated(cs, ops) \cup news,
         \A d \in news : d.op \in ops => ~d.live
  PROVE  Shape(ops, news)
<1> SUFFICES ASSUME NEW d \in calls'
             PROVE  /\ \/ d \in calls
                       \/ d \in news
                       \/ \E c \in calls : c.live /\ c.op \in ops /\ d = Dead(c)
                    /\ d.op \in ops => ~d.live
  BY DEF Shape
<1> QED BY OutdatedCalls

\* What a page that goes away leaves under way.
LEMMA AbandonedShape ==
  ASSUME StateOK, UnderWayOK, OwnersOK, NEW cs \in SUBSET calls, calls' \subseteq Abandoned(cs)
  PROVE  /\ \E ops, news :
              /\ Shape(ops, news) /\ AllNew(news)
              /\ \A d \in news : ~d.live /\ d.op = "cancel"
         /\ \A d \in calls' : d.live => d.op \notin SignIn \cup Factor \cup {"password"}
<1> DEFINE given == {[Request("cancel") EXCEPT !.live = FALSE] : s \in {stage} \cap {"code"}}
<1>1. CASE route = "login"
  <2> DEFINE ops == SignIn \cup {"cancel"}
  <2>1. calls' \subseteq Outdated(cs, ops) \cup given
    BY <1>1 DEF Abandoned
  <2>2. \A d \in given : New(d) /\ ~d.live /\ d.op = "cancel"
    BY NewCalls
  <2> HIDE DEF given
  <2>3. Shape(ops, given)
    BY <2>1, <2>2, ShapeOutdated
  <2>4. ASSUME NEW d \in calls', d.live
        PROVE  d.op \notin SignIn \cup Factor \cup {"password"}
    <3>1. d \in calls /\ d.op \notin SignIn
      BY <2>2, <2>3, <2>4, LiveAfter
    <3> QED BY <1>1, <2>4, <3>1 DEF OwnersOK
  <2> QED BY <2>2, <2>3, <2>4 DEF AllNew
<1>2. CASE route = "settings"
  <2> DEFINE ops == Factor \cup {"password"}
  <2>1. calls' \subseteq Outdated(cs, ops) \cup {}
    BY <1>2 DEF Abandoned
  <2>2. Shape(ops, {})
    BY <2>1, ShapeOutdated
  <2>3. ASSUME NEW d \in calls', d.live
        PROVE  d.op \notin SignIn \cup Factor \cup {"password"}
    <3>1. d \in calls /\ d.op \notin ops
      BY <2>2, <2>3, LiveAfter
    <3> QED BY <1>2, <2>3, <3>1 DEF OwnersOK
  <2> QED BY <2>2, <2>3 DEF AllNew
<1>3. CASE route = "away"
  <2>1. calls' \subseteq calls
    BY <1>3 DEF Abandoned
  <2>2. Shape({}, {})
    BY <2>1, ShapeTaken
  <2>3. ASSUME NEW d \in calls', d.live
        PROVE  d.op \notin SignIn \cup Factor \cup {"password"}
    BY <1>3, <2>1, <2>3 DEF OwnersOK
  <2> QED BY <2>2, <2>3 DEF AllNew
<1> QED BY <1>1, <1>2, <1>3 DEF StateOK

\* The cookies of an answer.
LEMMA JarStep ==
  ASSUME StateOK, UnderWayOK, NEW c \in calls, jar' = SetCookies(c.sets, jar)
  PROVE  jar' \in Jar /\ \A name \in Cookie : jar'[name] <= server.last
<1>1. c.sets \in Sets /\ jar \in Jar /\ Fit(c, server.last)
  BY CallFields DEF UnderWayOK, Fit, StateOK
<1> QED BY <1>1, JarAfter DEF Fit, StateOK

\* Another page is on show.
LEMMA LeaveInv ==
  ASSUME AccountInv, Fresh, server' = server, route' \in {"login", "settings", "away"},
         held' \subseteq Read, NEW cs \in SUBSET calls, calls' \subseteq Abandoned(cs),
         jar' = jar \/ \E c \in calls : jar' = SetCookies(c.sets, jar)
  PROVE  AccountInv'
<1>1. StateOK /\ UnderWayOK /\ OwnersOK
  BY DEF AccountInv
<1>2. PICK ops, news :
        /\ Shape(ops, news) /\ AllNew(news)
        /\ \A d \in news : ~d.live /\ d.op = "cancel"
  BY <1>1, AbandonedShape
<1>3. UnderWayOK' /\ GoneOK' /\ RotationOK' /\ CodesOK'
  <2>1. codes' => codes
    BY DEF Fresh
  <2>2. /\ \A d \in news : d.op \notin Factor \cup {"verify"}
        /\ \A d \in news : d.op \notin Read
    BY <1>2 DEF Factor, Read
  <2> QED BY <1>2, <2>1, <2>2, QuietStep
<1>4. StateOK'
  BY <1>1, JarStep DEF Fresh, StateOK
<1>5. PlaceOK' /\ OwnersOK'
  BY <1>1, AbandonedShape, OwnersGone DEF Fresh, PlaceOK
<1> QED BY <1>3, <1>4, <1>5 DEF AccountInv

\* A page is opened.
LEMMA GotoInv ==
  ASSUME AccountInv, NEW r \in {"login", "settings", "away"}, Goto(r)
  PROVE  AccountInv'
<1>1. Fresh /\ server' = server /\ route' = r /\ held' = held /\ jar' = jar
      /\ calls' = Abandoned(calls) /\ held \subseteq Read
  BY DEF Goto, AccountInv, StateOK
<1>2. calls \in SUBSET calls
  OBVIOUS
<1> QED BY <1>1, <1>2, LeaveInv

\* A query is read, the password is changed, or the administrator signs out.
LEMMA AskInv ==
  ASSUME AccountInv,
         \/ \E q \in Read : Refetch(q)
         \/ \E op \in {"password", "logout"} : Submit(op)
  PROVE  AccountInv'
<1>1. StateOK /\ UnderWayOK /\ OwnersOK /\ PlaceOK
  BY DEF AccountInv
<1>2. PICK op \in Read \cup {"password", "logout"} :
        /\ calls' = calls \cup {Request(op)}
        /\ op = "password" => route = "settings"
        /\ UNCHANGED <<page, jar, server>>
  BY DEF Refetch, Submit, Ask, FormsShown, page, Read
<1>3. /\ op \in Op /\ op \notin Factor \cup {"verify"}
      /\ op \notin SignIn \cup {"cancel"} /\ (op \in Factor \cup {"password"} => op = "password")
  BY DEF Op, Factor, SignIn, Read
<1> DEFINE d == Request(op)
<1>4. New(d) /\ d.op = op /\ d.jar = jar
  BY <1>1, <1>3, NewCalls, RequestFields DEF StateOK
<1> HIDE DEF d
<1>5. Shape({}, {d})
  BY <1>2, ShapeAsked DEF d
<1>6. UnderWayOK' /\ GoneOK' /\ RotationOK' /\ CodesOK'
  <2>1. /\ AllNew({d}) /\ server' = server /\ codes' = codes /\ jar' = jar
        /\ \A e \in {d} : e.op \notin Factor \cup {"verify"}
        /\ \A e \in {d} : e.op \in Read => e.jar = jar /\ jar' = jar
    BY <1>2, <1>3, <1>4 DEF AllNew, page
  <2> QED BY <1>5, <2>1, QuietStep
<1>7. OwnersOK'
  <2>1. /\ route' = route /\ stage' = stage
        /\ \A e \in {d} : e.live => e.op \notin SignIn \cup {"cancel"}
        /\ \A e \in {d} : e.live /\ e.op \in Factor \cup {"password"} => route = "settings"
    BY <1>2, <1>3, <1>4 DEF page
  <2> QED BY <1>1, <1>5, <2>1, OwnersKept
<1>8. StateOK' /\ PlaceOK'
  BY <1>1, <1>2 DEF StateOK, PlaceOK, page
<1> QED BY <1>6, <1>7, <1>8 DEF AccountInv

\* The second factor's form asks: none of its calls is waited for, and no codes are on show.
LEMMA SubmitFactorInv ==
  ASSUME AccountInv, SubmitFactor
  PROVE  AccountInv'
<1>1. StateOK /\ UnderWayOK /\ OwnersOK /\ PlaceOK /\ GoneOK
  BY DEF AccountInv
<1> DEFINE op == OpOf(mode)
           d == Request(op)
<1>2. op \in Factor /\ op \in Op /\ op \notin SignIn \cup {"cancel"}
  BY <1>1 DEF SubmitFactor, OpOf, Factor, Op, StateOK, SignIn
<1>3. /\ calls' = calls \cup {d} /\ route = "settings" /\ ~codes
      /\ \A c \in calls : c.live => c.op \notin Factor
      /\ UNCHANGED <<page, jar, server>>
  BY DEF SubmitFactor, Ask, FormsShown, Pending, page
<1> HIDE DEF op
<1>4. New(d) /\ d.op = op /\ d.jar = jar
  BY <1>1, <1>2, NewCalls, RequestFields DEF StateOK
<1> HIDE DEF d
<1>5. Shape({}, {d}) /\ AllNew({d})
  BY <1>3, <1>4, ShapeAsked DEF AllNew
<1>6. UnderWayOK' /\ GoneOK'
  BY <1>1, <1>3, <1>5, FitKept
<1>7. OwnersOK'
  <2>1. /\ route' = route /\ stage' = stage
        /\ \A e \in {d} : e.live => e.op \notin SignIn \cup {"cancel"}
        /\ \A e \in {d} : e.live /\ e.op \in Factor \cup {"password"} => route = "settings"
    BY <1>2, <1>3, <1>4 DEF page
  <2> QED BY <1>1, <1>5, <2>1, OwnersKept
<1>8. RotationOK' /\ CodesOK'
  BY <1>3, <1>4 DEF RotationOK, CodesOK, New, Factor, page
<1>9. StateOK' /\ PlaceOK'
  BY <1>1, <1>3 DEF StateOK, PlaceOK, page
<1> QED BY <1>6, <1>7, <1>8, <1>9 DEF AccountInv

\* The login form sends its password, or a code.
LEMMA SubmitSignInInv ==
  ASSUME AccountInv, SubmitPassword \/ SubmitCode
  PROVE  AccountInv'
<1>1. StateOK /\ UnderWayOK /\ OwnersOK /\ PlaceOK /\ GoneOK
  BY DEF AccountInv
<1>2. PICK d : /\ calls' = calls \cup {d} /\ New(d) /\ d.op \in SignIn
               /\ stage = "code" <=> d.op = "verify"
               /\ stage = "password" => d.at = "waiting"
               /\ route = "login" /\ \A c \in calls : c.live => c.op \notin SignIn
               /\ UNCHANGED <<page, jar, server>>
  <2>1. CASE SubmitPassword
    <3> DEFINE d == [Request("login") EXCEPT !.at = "waiting"]
    <3>1. New(d) /\ d.op = "login" /\ d.at = "waiting"
      BY <1>1, NewCalls
    <3>2. calls' = calls \cup {d}
      BY <2>1 DEF SubmitPassword
    <3> HIDE DEF d
    <3> QED BY <2>1, <3>1, <3>2 DEF SubmitPassword, SignIn, Pending, page
  <2>2. CASE SubmitCode
    <3> DEFINE d == Request("verify")
    <3>1. New(d) /\ d.op = "verify"
      BY <1>1, NewCalls, RequestFields DEF StateOK, Op, SignIn
    <3>2. calls' = calls \cup {d}
      BY <2>2 DEF SubmitCode, Ask
    <3> HIDE DEF d
    <3> QED BY <2>2, <3>1, <3>2 DEF SubmitCode, SignIn, Pending, page
  <2> QED BY <2>1, <2>2
<1>3. Shape({}, {d}) /\ AllNew({d})
  BY <1>2, ShapeAsked DEF AllNew
<1>4. UnderWayOK' /\ GoneOK'
  BY <1>1, <1>2, <1>3, FitKept
<1>5. OwnersOK'
  <2>1. \A c \in calls : c.live /\ c.op \in Factor \cup {"password"} => route = "settings"
    BY <1>1 DEF OwnersOK
  <2>2. d.op \notin Factor \cup {"password", "cancel"}
    BY <1>2 DEF SignIn, Factor
  <2>3. \A c \in calls : c.live /\ c.op = "cancel" => stage = "password"
    BY <1>1 DEF OwnersOK
  <2> QED BY <1>2, <2>1, <2>2, <2>3 DEF OwnersOK, page
<1>6. RotationOK' /\ CodesOK'
  <2>1. \A c \in calls : c.live => c.op \notin {"confirm", "regenerate"}
    BY <1>1, <1>2 DEF OwnersOK, Factor
  <2>2. ~codes'
    BY <1>1, <1>2 DEF PlaceOK, page
  <2> QED BY <1>2, <2>1, <2>2 DEF RotationOK, CodesOK, New
<1>7. StateOK' /\ PlaceOK'
  BY <1>1, <1>2 DEF StateOK, PlaceOK, page
<1> QED BY <1>4, <1>5, <1>6, <1>7 DEF AccountInv

\* The login form goes back from the code to the password.
LEMMA CancelSignInInv ==
  ASSUME AccountInv, CancelSignIn
  PROVE  AccountInv'
<1>1. StateOK /\ UnderWayOK /\ OwnersOK /\ PlaceOK
  BY DEF AccountInv
<1> DEFINE d == Request("cancel")
<1>2. New(d) /\ d.op = "cancel"
  BY <1>1, NewCalls, RequestFields DEF StateOK, Op
<1>3. /\ calls' = Outdated(calls, SignIn) \cup {d} /\ route = "login" /\ stage' = "password"
      /\ UNCHANGED <<route, held, mode, codes, jar, server>>
  BY DEF CancelSignIn
<1> HIDE DEF d
<1>4. Shape(SignIn, {d}) /\ AllNew({d})
  <2>1. calls \in SUBSET calls /\ d.op \notin SignIn
    BY <1>2 DEF SignIn
  <2> QED BY <1>1, <1>2, <1>3, <2>1, ShapeOutdated DEF AllNew
<1>5. UnderWayOK' /\ GoneOK' /\ RotationOK' /\ CodesOK'
  <2>1. /\ \A e \in {d} : e.op \notin Factor \cup {"verify"}
        /\ \A e \in {d} : e.op \notin Read
    BY <1>2 DEF Factor, Read
  <2> QED BY <1>3, <1>4, <2>1, QuietStep
<1>6. OwnersOK'
  <2> SUFFICES ASSUME NEW c \in calls', c.live
               PROVE  c.op \notin SignIn \cup Factor \cup {"password"}
    BY <1>3, OwnersGone
  <2>1. c = d \/ (c \in calls /\ c.op \notin SignIn)
    BY <1>1, <1>4, LiveAfter
  <2> QED BY <1>1, <1>2, <1>3, <2>1 DEF OwnersOK, SignIn, Factor
<1>7. StateOK' /\ PlaceOK'
  BY <1>1, <1>3 DEF StateOK, PlaceOK
<1> QED BY <1>5, <1>6, <1>7 DEF AccountInv

\* A form of the second factor is opened or given up, an enrollment on show expires, the
\* codes on show are saved, or a call is lost.
LEMMA FormInv ==
  ASSUME AccountInv,
         \/ \E m \in {"enroll", "recovery", "disable"} : Open(m)
         \/ CancelFactor \/ ExpireEnrollment \/ CodesSaved
         \/ \E c \in calls : Lose(c)
  PROVE  AccountInv'
<1>1. StateOK /\ UnderWayOK /\ OwnersOK /\ PlaceOK
  BY DEF AccountInv
<1>2. PICK ops : Shape(ops, {})
  <2>1. calls \in SUBSET calls
    OBVIOUS
  <2>2. CASE CancelFactor \/ ExpireEnrollment
    <3>1. calls' \subseteq Outdated(calls, Factor) \cup {}
      BY <2>2 DEF CancelFactor, ExpireEnrollment
    <3> QED BY <1>1, <2>1, <3>1, ShapeOutdated
  <2>3. CASE calls' \subseteq calls
    BY <2>3, ShapeTaken
  <2> QED BY <2>2, <2>3 DEF Open, CodesSaved, Lose, Taken
<1>3. /\ UNCHANGED <<route, held, stage, jar, server>>
      /\ codes' \in BOOLEAN
      /\ codes' => codes
      /\ mode' \in {"idle", "enroll", "scan", "recovery", "disable"}
      /\ route # "settings" => mode' = mode
  <2>1. CASE \/ \E m \in {"enroll", "recovery", "disable"} : Open(m)
             \/ CancelFactor \/ ExpireEnrollment
    BY <1>1, <2>1 DEF Open, CancelFactor, ExpireEnrollment, FormsShown, StateOK
  <2>2. CASE CodesSaved
    BY <2>2 DEF CodesSaved, FormsShown
  <2>3. CASE \E c \in calls : Lose(c)
    BY <1>1, <2>3 DEF Lose, page, StateOK
  <2> QED BY <2>1, <2>2, <2>3
<1>4. UnderWayOK' /\ GoneOK' /\ RotationOK' /\ CodesOK'
  <2>1. AllNew({})
    BY DEF AllNew
  <2> QED BY <1>2, <1>3, <2>1, QuietStep
<1>5. OwnersOK'
  BY <1>1, <1>2, <1>3, OwnersKept
<1>6. StateOK'
  BY <1>1, <1>3 DEF StateOK
<1>7. PlaceOK'
  <2>1. route # "login" => stage = "password"
    BY <1>1 DEF PlaceOK
  <2>2. route # "settings" => mode = "idle" /\ ~codes
    BY <1>1 DEF PlaceOK
  <2>3. route # "settings" => mode' = "idle" /\ ~codes'
    BY <1>3, <2>2
  <2> QED BY <1>3, <2>1, <2>3 DEF PlaceOK
<1> QED BY <1>4, <1>5, <1>6, <1>7 DEF AccountInv

-----------------------------------------------------------------------------
(* Steps of the server. *)

\* A call that is sent, or answered, is the same call to the form that waits for it.
LEMMA OwnersReplaced ==
  ASSUME OwnersOK, NEW c \in calls, NEW e, e.op = c.op, e.live = c.live,
         calls' = (calls \ {c}) \cup {e}, route' = route, stage' = stage,
         c.at = "waiting" => \A d \in calls : d.live => d.op # "cancel"
  PROVE  OwnersOK'
<1> DEFINE Was(d) == IF d = e THEN c ELSE d
<1>1. \A d \in calls' : Was(d) \in calls /\ Was(d).op = d.op /\ Was(d).live = d.live
  OBVIOUS
<1>2. ASSUME NEW d \in calls', d.live, d.op \in SignIn
      PROVE  route' = "login" /\ (stage' = "code" <=> d.op = "verify")
  BY <1>1, <1>2 DEF OwnersOK
<1>3. ASSUME NEW d \in calls', d.live, d.op \in Factor \cup {"password"}
      PROVE  route' = "settings"
  BY <1>1, <1>3 DEF OwnersOK
<1>4. ASSUME NEW d \in calls', NEW f \in calls', d.live, f.live,
             d.op \in SignIn, f.op \in SignIn
      PROVE  d = f
  <2>1. Was(d) = Was(f)
    BY <1>1, <1>4 DEF OwnersOK
  <2>2. \A x \in calls' : x = e \/ (x # c /\ Was(x) = x)
    OBVIOUS
  <2>3. CASE d = e \/ f = e
    BY <2>1, <2>2, <2>3
  <2>4. CASE d # e /\ f # e
    BY <2>1, <2>2, <2>4
  <2> QED BY <2>3, <2>4
<1>5. ASSUME NEW d \in calls', d.live, d.op = "cancel"
      PROVE  /\ stage' = "password"
             /\ \A f \in calls' : f.live /\ f.op \in SignIn => f.at = "waiting"
  <2>1. Was(d) \in calls /\ Was(d).live /\ Was(d).op = "cancel"
    BY <1>1, <1>5
  <2>2. stage = "password" /\ \A f \in calls : f.live /\ f.op \in SignIn => f.at = "waiting"
    BY <2>1 DEF OwnersOK
  <2>3. ~(c.live /\ c.op \in SignIn)
    BY <2>1, <2>2
  <2> QED BY <2>2, <2>3
<1> HIDE DEF Was
<1> QED BY <1>2, <1>3, <1>4, <1>5 DEF OwnersOK

\* A login is sent, with the cookies of now.
LEMMA SendInv ==
  ASSUME AccountInv, NEW c \in calls, Send(c)
  PROVE  AccountInv'
<1>1. /\ StateOK /\ UnderWayOK /\ OwnersOK /\ PlaceOK /\ RotationOK /\ CodesOK /\ GoneOK
      /\ Fit(c, server.last) /\ c \in Call
  BY DEF AccountInv, UnderWayOK, Fit
<1> DEFINE e == [c EXCEPT !.at = "sent", !.jar = jar]
<1>2. /\ calls' = (calls \ {c}) \cup {e} /\ c.at = "waiting"
      /\ \A d \in calls : d.live => d.op # "cancel"
      /\ UNCHANGED <<page, jar, server>>
  BY DEF Send, CancelIsDone, Pending, page
<1>3. c.op = "login" /\ c.status = "none" /\ c.sets = <<>>
  BY <1>1, <1>2 DEF Fit
<1>4. /\ e \in Call /\ e.op = c.op /\ e.live = c.live /\ e.at = "sent" /\ e.jar = jar
      /\ e.status = c.status /\ e.sets = c.sets
  BY <1>1 DEF Call, StateOK
<1> HIDE DEF e
<1>5. /\ Fit(e, server.last) /\ e.op = "login" /\ ~(e.op \in Read \cup Factor \cup {"verify"})
      /\ \A k : ~Gives(e, k)
  BY <1>1, <1>3, <1>4, CookieTypes DEF Fit, StateOK, Read, Factor, Gives
<1>6. UnderWayOK' /\ GoneOK' /\ StateOK' /\ PlaceOK'
  BY <1>1, <1>2, <1>5 DEF UnderWayOK, GoneOK, StateOK, PlaceOK, page
<1>7. OwnersOK'
  BY <1>1, <1>2, <1>4, OwnersReplaced DEF page
<1>8. ASSUME NEW k, Rotated(k) PROVE Rotated(k)'
  BY <1>2, <1>5, <1>8 DEF Rotated
<1>9. RotationOK'
  <2> SUFFICES ASSUME NEW d \in calls', d.live, d.op \in {"confirm", "regenerate"},
                      d.status = "ok"
               PROVE  /\ Rotated(d.sets["session"])'
                      /\ \A f \in calls' \ {d} : ~Gives(f, d.sets["session"])
    BY DEF RotationOK
  <2>1. d \in calls
    BY <1>2, <1>5
  <2> QED BY <1>1, <1>2, <1>5, <1>8, <2>1 DEF RotationOK
<1>10. CodesOK'
  <2> SUFFICES ASSUME codes
               PROVE  \E k \in Id :
                        /\ Rotated(k)'
                        /\ \A d \in calls' : ~Gives(d, k)
                        /\ \A d \in calls' : d.op \in Read =>
                             d.jar["session"] = k \/ jar'["session"] # k
    BY <1>2 DEF CodesOK, page
  <2>1. PICK k \in Id : /\ Rotated(k)
                        /\ \A d \in calls : ~Gives(d, k)
                        /\ \A d \in calls : d.op \in Read =>
                             d.jar["session"] = k \/ jar["session"] # k
    BY <1>1 DEF CodesOK
  <2> QED BY <1>2, <1>5, <1>8, <2>1
<1> QED BY <1>6, <1>7, <1>9, <1>10 DEF AccountInv

\* Sessions and challenges end elsewhere.
LEMMA ElsewhereInv ==
  ASSUME AccountInv, Elsewhere
  PROVE  AccountInv'
<1>1. /\ StateOK /\ UnderWayOK /\ OwnersOK /\ PlaceOK /\ RotationOK /\ CodesOK /\ GoneOK
  BY DEF AccountInv
<1>2. UNCHANGED <<page, calls, jar>>
  BY DEF Elsewhere
<1>3. /\ server' \in ServerType /\ server'.last = server.last /\ server'.factor = server.factor
      /\ server'.sessions \subseteq server.sessions
      /\ server'.challenges \subseteq server.challenges
  BY <1>1 DEF Elsewhere, StateOK, ServerType
<1>4. StateOK' /\ UnderWayOK' /\ PlaceOK' /\ OwnersOK' /\ GoneOK'
  BY <1>1, <1>2, <1>3 DEF StateOK, UnderWayOK, PlaceOK, OwnersOK, GoneOK, page
<1>5. ASSUME NEW k, Rotated(k) PROVE Rotated(k)'
  BY <1>2, <1>3, <1>5 DEF Rotated
<1>6. RotationOK'
  BY <1>1, <1>2, <1>5 DEF RotationOK
<1>7. CodesOK'
  BY <1>1, <1>2, <1>5 DEF CodesOK, page
<1> QED BY <1>4, <1>6, <1>7 DEF AccountInv

\* e is the answer to c, which the server gives as it changes.
Served(c, e) ==
  /\ c.at = "sent" /\ calls' = (calls \ {c}) \cup {e}
  /\ UNCHANGED <<page, jar>>
  /\ e \in Call /\ e.at = "answered" /\ e.op = c.op /\ e.live = c.live /\ e.jar = c.jar

\* What an answer never does.
Sound(e) ==
  /\ server' \in ServerType /\ server.last <= server'.last /\ Fit(e, server'.last)
  /\ \A i \in server'.sessions :
       i \in server.sessions \/ (i = Issue /\ i = server'.last)
  /\ \A i \in server'.challenges :
       i \in server.challenges \/ (i = Issue /\ i = server'.last)
  /\ \A i \in Id : Gives(e, i) => i = Issue
  /\ e.op \in Read /\ e.status = "gone" =>
       e.jar["session"] \notin server.sessions /\ server' = server
  /\ \A k : Rotated(k) => server'.factor /\ server'.sessions \subseteq {k}
  /\ e.op \in {"confirm", "regenerate"} /\ e.status = "ok" =>
       /\ e.sets["session"] = Issue /\ server'.last = Issue /\ server'.factor
       /\ server'.sessions = {Issue} /\ server'.challenges = {}

\* The call as it is answered.
LEMMA ReplyFields ==
  ASSUME UnderWayOK, NEW c \in calls, NEW sets \in Sets,
         NEW status \in {"none", "ok", "challenge", "refused", "gone"}, Reply(c, status, sets)
  PROVE  \E e : Served(c, e) /\ e.status = status /\ e.sets = sets
<1> DEFINE e == [c EXCEPT !.at = "answered", !.status = status, !.sets = sets]
<1>1. c \in Call
  BY DEF UnderWayOK, Fit
<1>2. /\ e \in Call /\ e.at = "answered" /\ e.op = c.op /\ e.live = c.live /\ e.jar = c.jar
      /\ e.status = status /\ e.sets = sets
  BY <1>1 DEF Call, Sets
<1>3. /\ c.at = "sent" /\ calls' = (calls \ {c}) \cup {e} /\ UNCHANGED <<page, jar>>
  BY DEF Reply
<1> HIDE DEF e
<1> QED BY <1>2, <1>3 DEF Served

\* The types that an answer is made of.
LEMMA ServeTypes ==
  ASSUME StateOK, UnderWayOK, NEW c \in calls
  PROVE  /\ server \in ServerType /\ server.last \in Nat /\ Issue \in Nat
         /\ server.last < Issue /\ server.last \in Id
         /\ c \in Call /\ Fit(c, server.last)
         /\ c.jar["session"] \in Id \cup {None} /\ c.jar["session"] <= server.last
         /\ \A i \in server.sessions \cup server.challenges : i \in Nat /\ i <= server.last
<1>1. server \in ServerType /\ server.last \in Id /\ \A i \in Id : i \in Nat
  BY CookieTypes DEF StateOK, ServerType
<1>2. server.last \in Nat /\ Issue \in Nat /\ server.last < Issue
  BY <1>1 DEF Issue
<1>3. c \in Call /\ Fit(c, server.last)
  BY DEF UnderWayOK, Fit
<1>4. c.jar["session"] \in Id \cup {None} /\ c.jar["session"] <= server.last
  BY <1>3, CallFields DEF Jar, Cookie, Fit
<1>5. \A i \in server.sessions \cup server.challenges : i \in Nat /\ i <= server.last
  BY <1>1 DEF StateOK, ServerType
<1> QED BY <1>1, <1>2, <1>3, <1>4, <1>5

\* An answer that changes nothing.
LEMMA ServeNothing ==
  ASSUME StateOK, UnderWayOK, NEW c \in calls, ServeRead(c) \/ Refuse(c)
  PROVE  \E e : Served(c, e) /\ Sound(e)
<1>1. /\ server \in ServerType /\ server.last \in Nat /\ c \in Call /\ Fit(c, server.last)
  BY ServeTypes
<1>2. /\ server' = server
      /\ \E status \in {"ok", "gone", "refused"} :
           /\ Reply(c, status, <<>>)
           /\ status = "gone" => c.jar["session"] \notin server.sessions
           /\ status = "ok" => c.op \in Read
  BY DEF ServeRead, Refuse, SignedIn
<1>3. PICK status \in {"ok", "gone", "refused"} :
        /\ Reply(c, status, <<>>)
        /\ status = "gone" => c.jar["session"] \notin server.sessions
        /\ status = "ok" => c.op \in Read
  BY <1>2
<1>4. PICK e : Served(c, e) /\ e.status = status /\ e.sets = <<>>
  <2>1. <<>> \in Sets
    BY CookieTypes
  <2> QED BY <1>3, <2>1, ReplyFields
<1>5. DOMAIN <<>> = {} /\ c.jar = e.jar /\ c.op = e.op
  BY <1>4, CookieTypes DEF Served
<1>6. Fit(e, server.last)
  BY <1>1, <1>3, <1>4, <1>5 DEF Fit, Served, Read
<1>7. Sound(e)
  BY <1>1, <1>2, <1>3, <1>4, <1>5, <1>6 DEF Sound, Gives, Rotated, Read
<1> QED BY <1>4, <1>7

\* An answer that issues nothing, after which fewer sessions and challenges are accepted.
LEMMA ServeLess ==
  ASSUME StateOK, UnderWayOK, NEW c \in calls,
         ServeCancel(c) \/ ServeLogout(c) \/ ServeEnroll(c) \/ ServeRevocation(c)
  PROVE  \E e : Served(c, e) /\ Sound(e)
<1>1. /\ server \in ServerType /\ server.last \in Nat /\ c \in Call /\ Fit(c, server.last)
      /\ c.jar["session"] \in Id \cup {None} /\ server.last \in Id
  BY ServeTypes
<1> DEFINE dropped == [name \in {"challenge"} |-> None]
<1>2. /\ <<>> \in Sets /\ NoCookies \in Jar /\ NoCookies \in Sets /\ dropped \in Sets
      /\ DOMAIN <<>> = {} /\ NoCookies["session"] = None /\ NoCookies["challenge"] = None
      /\ DOMAIN dropped = {"challenge"} /\ dropped["challenge"] = None
      /\ None = 0 /\ None \notin Id
  BY CookieTypes DEF NoCookies
<1> HIDE DEF dropped
<1>3. PICK sets \in {<<>>, NoCookies, dropped} :
        /\ Reply(c, "ok", sets)
        /\ c.op \in {"cancel", "logout", "enroll", "disable", "password"}
        /\ c.op = "enroll" => sets = <<>>
  BY DEF ServeCancel, ServeLogout, ServeEnroll, ServeRevocation, dropped
<1>4. /\ server' \in ServerType /\ server'.last = server.last
      /\ server'.sessions \subseteq server.sessions
      /\ server'.challenges \subseteq server.challenges
      /\ c.op # "disable" => server'.factor = server.factor
      /\ c.op = "disable" => server'.sessions = {}
  <2>1. CASE ServeCancel(c) \/ ServeLogout(c)
    <3> DEFINE kept == server.sessions \ {c.jar["session"]}
               left == server.challenges \ {c.jar["challenge"]}
    <3>1. /\ kept \in SUBSET Id /\ kept \subseteq server.sessions
          /\ left \in SUBSET Id /\ left \subseteq server.challenges
      BY <1>1 DEF ServerType
    <3>2. \/ server' = [server EXCEPT !.challenges = left]
          \/ server' = [server EXCEPT !.sessions = kept, !.challenges = left]
      BY <2>1 DEF ServeCancel, ServeLogout
    <3>3. c.op # "disable"
      BY <2>1 DEF ServeCancel, ServeLogout
    <3> HIDE DEF kept, left
    <3> QED BY <1>1, <3>1, <3>2, <3>3 DEF ServerType
  <2>2. CASE ServeEnroll(c)
    <3>1. c.jar["session"] \in Id
      BY <1>1, <2>2 DEF ServeEnroll, SignedIn, ServerType
    <3> QED BY <1>1, <2>2, <3>1 DEF ServeEnroll, ServerType
  <2>3. CASE ServeRevocation(c)
    BY <1>1, <2>3 DEF ServeRevocation, ServerType
  <2> QED BY <2>1, <2>2, <2>3
<1>5. c.op = "disable" => c.jar["session"] \in server.sessions
  BY DEF ServeRevocation, ServeCancel, ServeLogout, ServeEnroll, SignedIn
<1>6. PICK e : Served(c, e) /\ e.status = "ok" /\ e.sets = sets
  BY <1>2, <1>3, ReplyFields
<1>7. \A name \in Cookie : name \in DOMAIN sets => sets[name] = None
  BY <1>2, <1>3 DEF Cookie
<1>8. Fit(e, server.last)
  BY <1>1, <1>2, <1>3, <1>6, <1>7 DEF Fit, Served, Read
<1>9. \A i \in Id : ~Gives(e, i)
  BY <1>2, <1>6, <1>7 DEF Gives, Cookie
<1>10. ASSUME NEW k, Rotated(k) PROVE server'.factor /\ server'.sessions \subseteq {k}
  <2>1. c.op # "disable"
    BY <1>5, <1>6, <1>10 DEF Rotated, Served, Factor
  <2> QED BY <1>4, <1>10, <2>1 DEF Rotated
<1> QED BY <1>1, <1>3, <1>4, <1>6, <1>8, <1>9, <1>10 DEF Sound, Served, Read

\* An answer that issues a session or a challenge.
LEMMA ServeMore ==
  ASSUME StateOK, UnderWayOK, NEW c \in calls, ServeLogin(c) \/ ServeVerify(c)
  PROVE  \E e : Served(c, e) /\ Sound(e)
<1>1. /\ server \in ServerType /\ server.last \in Nat /\ c \in Call /\ Fit(c, server.last)
      /\ Issue \in Nat /\ server.last < Issue /\ Issue \in Id /\ Issue # None
  BY ServeTypes, CookieTypes DEF ServeLogin, ServeVerify, CanIssue
<1>2. /\ Cookies(None, Issue) \in Sets /\ Cookies(Issue, None) \in Sets
      /\ \A a, b \in Id \cup {None} :
           Cookies(a, b)["session"] = a /\ Cookies(a, b)["challenge"] = b
      /\ None = 0 /\ None \notin Id /\ None \in Nat
  BY <1>1, CookieTypes
<1>3. /\ server' \in ServerType /\ server'.last = Issue
      /\ server'.factor = server.factor
      /\ c.op \in {"login", "verify"}
      /\ c.op = "verify" => c.jar["challenge"] \in server.challenges
      /\ \/ /\ server.factor /\ c.op = "login"
            /\ server'.sessions \subseteq server.sessions
            /\ server'.challenges \subseteq server.challenges \cup {Issue}
            /\ Reply(c, "challenge", Cookies(None, Issue))
         \/ /\ server.factor => c.op = "verify"
            /\ server'.sessions = server.sessions \cup {Issue}
            /\ server'.challenges \subseteq server.challenges
            /\ Reply(c, "ok", Cookies(Issue, None))
  <2>1. CASE ServeLogin(c) /\ server.factor
    <3> DEFINE kept == server.sessions \ {c.jar["session"]}
               more == (server.challenges \ {c.jar["challenge"]}) \cup {Issue}
    <3>1. /\ kept \in SUBSET Id /\ kept \subseteq server.sessions
          /\ more \in SUBSET Id /\ more \subseteq server.challenges \cup {Issue}
      BY <1>1 DEF ServerType
    <3>2. /\ server' = [server EXCEPT !.last = Issue, !.sessions = kept, !.challenges = more]
          /\ c.op = "login" /\ Reply(c, "challenge", Cookies(None, Issue))
      BY <2>1 DEF ServeLogin
    <3> HIDE DEF kept, more
    <3>3. /\ server' \in ServerType /\ server'.last = Issue /\ server'.factor = server.factor
          /\ server'.sessions = kept /\ server'.challenges = more
      BY <1>1, <3>1, <3>2 DEF ServerType
    <3> QED BY <2>1, <3>1, <3>2, <3>3
  <2>2. CASE ServeLogin(c) /\ ~server.factor
    <3>1. /\ server' = [server EXCEPT !.last = Issue, !.sessions = @ \cup {Issue}]
          /\ c.op = "login" /\ Reply(c, "ok", Cookies(Issue, None))
      BY <2>2 DEF ServeLogin, NewSession
    <3>2. /\ server' \in ServerType /\ server'.last = Issue /\ server'.factor = server.factor
          /\ server'.sessions = server.sessions \cup {Issue}
          /\ server'.challenges = server.challenges
      BY <1>1, <3>1 DEF ServerType
    <3> QED BY <2>2, <3>1, <3>2
  <2>3. CASE ServeVerify(c)
    BY <1>1, <2>3 DEF ServeVerify, ServerType, NewSession, Challenged
  <2> QED BY <2>1, <2>2, <2>3
<1>4. PICK e : /\ Served(c, e)
               /\ \/ /\ e.status = "challenge" /\ e.sets = Cookies(None, Issue)
                     /\ server.factor /\ c.op = "login"
                     /\ server'.sessions \subseteq server.sessions
                     /\ server'.challenges \subseteq server.challenges \cup {Issue}
                  \/ /\ e.status = "ok" /\ e.sets = Cookies(Issue, None)
                     /\ server.factor => c.op = "verify"
                     /\ server'.sessions = server.sessions \cup {Issue}
                     /\ server'.challenges \subseteq server.challenges
  BY <1>2, <1>3, ReplyFields
<1>5. \A name \in Cookie : e.sets[name] \in {None, Issue}
  BY <1>1, <1>2, <1>4 DEF Cookie
<1>6. e.op = c.op /\ e.jar = c.jar /\ e \in Call /\ e.at = "answered"
  BY <1>4 DEF Served
<1>7. Fit(e, Issue)
  <2>1. \A name \in Cookie : c.jar[name] \in Nat /\ c.jar[name] <= Issue
    BY <1>1, CallFields DEF Fit
  <2>2. \A name \in Cookie : e.sets[name] <= Issue
    BY <1>1, <1>2, <1>5
  <2> QED BY <1>3, <1>4, <1>6, <2>1, <2>2 DEF Fit, Read
<1>8. \A i \in Id : Gives(e, i) => i = Issue
  BY <1>2, <1>5 DEF Gives, Cookie
<1>9. ASSUME NEW k, Rotated(k) PROVE server'.factor /\ server'.sessions \subseteq {k}
  <2>1. server.factor /\ c.op # "verify"
    BY <1>3, <1>4, <1>9 DEF Rotated, Served
  <2> QED BY <1>3, <1>4, <1>9, <2>1 DEF Rotated
<1>10. c.op \notin Read \cup {"confirm", "regenerate"}
  BY <1>3 DEF Read
<1> QED BY <1>1, <1>3, <1>4, <1>6, <1>7, <1>8, <1>9, <1>10 DEF Sound

\* An answer with new recovery codes: the factor is rotated.
LEMMA ServeRotation ==
  ASSUME StateOK, UnderWayOK, NEW c \in calls, ServeCodes(c)
  PROVE  \E e : Served(c, e) /\ Sound(e)
<1>1. /\ server \in ServerType /\ server.last \in Nat /\ c \in Call /\ Fit(c, server.last)
      /\ Issue \in Nat /\ server.last < Issue /\ Issue \in Id /\ Issue # None
  BY ServeTypes, CookieTypes DEF ServeCodes, CanIssue
<1>2. /\ NewSession \in Jar /\ NewSession \in Sets
      /\ NewSession["session"] = Issue /\ NewSession["challenge"] = None
      /\ None = 0 /\ None \notin Id /\ None \in Nat
  BY <1>1, CookieTypes DEF NewSession
<1>3. /\ server' \in ServerType /\ server'.last = Issue /\ server'.factor
      /\ server'.sessions = {Issue} /\ server'.challenges = {}
  BY <1>1 DEF ServeCodes, ServerType
<1>4. /\ c.op \in {"confirm", "regenerate"} /\ c.jar["session"] \in server.sessions
      /\ Reply(c, "ok", NewSession)
  BY DEF ServeCodes, SignedIn
<1>5. PICK e : Served(c, e) /\ e.status = "ok" /\ e.sets = NewSession
  BY <1>2, <1>4, ReplyFields
<1>6. e.op = c.op /\ e.jar = c.jar /\ e \in Call /\ e.at = "answered"
  BY <1>5 DEF Served
<1>7. Fit(e, Issue)
  <2>1. \A name \in Cookie : c.jar[name] \in Nat /\ c.jar[name] <= Issue
    BY <1>1, CallFields DEF Fit
  <2>2. \A name \in Cookie : e.sets[name] <= Issue
    BY <1>1, <1>2, <1>5 DEF Cookie
  <2> QED BY <1>1, <1>2, <1>4, <1>5, <1>6, <2>1, <2>2 DEF Fit, Read
<1>8. \A i \in Id : Gives(e, i) => i = Issue
  BY <1>2, <1>5 DEF Gives
<1>9. ASSUME NEW k, Rotated(k) PROVE FALSE
  BY <1>4, <1>5, <1>9 DEF Rotated, Served, Factor
<1>10. c.op \notin Read
  BY <1>4 DEF Read
<1> QED BY <1>1, <1>2, <1>3, <1>5, <1>6, <1>7, <1>8, <1>9, <1>10 DEF Sound

\* Every answer of the server.
LEMMA ServeSound ==
  ASSUME StateOK, UnderWayOK, NEW c \in calls, Serve(c)
  PROVE  \E e : Served(c, e) /\ Sound(e)
BY ServeNothing, ServeLess, ServeMore, ServeRotation DEF Serve

\* The server answers.
LEMMA ServeInv ==
  ASSUME AccountInv, NEW c \in calls, Serve(c)
  PROVE  AccountInv'
<1>1. /\ StateOK /\ UnderWayOK /\ OwnersOK /\ PlaceOK /\ RotationOK /\ CodesOK /\ GoneOK
      /\ server \in ServerType /\ server.last \in Nat /\ Issue \in Nat /\ server.last < Issue
  BY ServeTypes DEF AccountInv
<1>2. PICK e : Served(c, e) /\ Sound(e)
  BY <1>1, ServeSound
<1>3. /\ c.at = "sent" /\ calls' = (calls \ {c}) \cup {e} /\ UNCHANGED <<page, jar>>
      /\ e.at = "answered" /\ e.op = c.op /\ e.live = c.live /\ e.jar = c.jar
  BY <1>2 DEF Served
<1>4. /\ server' \in ServerType /\ server.last <= server'.last /\ Fit(e, server'.last)
      /\ server'.last \in Nat
  BY <1>2, CookieTypes DEF Sound, ServerType
<1>5. \A d \in calls : /\ Fit(d, server.last) /\ d \in Call
                       /\ \A name \in Cookie : d.jar[name] \in Nat /\ d.jar[name] < Issue
  <2> TAKE d \in calls
  <2>1. Fit(d, server.last) /\ d \in Call
    BY <1>1 DEF UnderWayOK, Fit
  <2>2. \A name \in Cookie : d.jar[name] \in Nat /\ d.jar[name] <= server.last
    BY <2>1, CallFields DEF Fit
  <2> QED BY <1>1, <2>1, <2>2
<1>6. UnderWayOK'
  <2> SUFFICES ASSUME NEW d \in calls PROVE Fit(d, server'.last)
    BY <1>3, <1>4 DEF UnderWayOK
  <2>1. \A name \in Cookie : d.jar[name] <= server'.last
    BY <1>1, <1>4, <1>5 DEF Fit
  <2>2. ASSUME NEW name \in Cookie, name \in DOMAIN d.sets PROVE d.sets[name] <= server'.last
    <3>1. d.sets[name] <= server.last /\ d.sets \in Sets
      BY <1>5, <2>2, CallFields DEF Fit
    <3>2. d.sets[name] \in Id \cup {None}
      BY <2>2, <3>1 DEF Sets
    <3>3. \A i \in Id \cup {None} : i \in Nat
      BY CookieTypes
    <3>4. d.sets[name] \in Nat
      BY <3>2, <3>3
    <3> QED BY <1>1, <1>4, <3>1, <3>4
  <2> QED BY <1>5, <2>1, <2>2 DEF Fit
<1>7. StateOK' /\ PlaceOK'
  <2>1. /\ \A name \in Cookie : jar[name] <= server'.last
        /\ \A i \in server'.sessions \cup server'.challenges : i <= server'.last
    <3>1. \A name \in Cookie : jar[name] \in Id \cup {None}
      BY <1>1 DEF StateOK, Jar
    <3>2. \A i \in Id \cup {None} : i \in Nat
      BY CookieTypes
    <3>3. \A i \in server.sessions \cup server.challenges : i \in Nat /\ i <= server.last
      BY <1>1, ServeTypes
    <3> QED BY <1>1, <1>2, <1>4, <3>1, <3>2, <3>3 DEF StateOK, Sound
  <2> QED BY <1>1, <1>3, <1>4, <2>1 DEF StateOK, PlaceOK, page
<1>8. OwnersOK'
  BY <1>1, <1>3, OwnersReplaced DEF page
<1>9. GoneOK'
  <2>1. ASSUME NEW d \in calls, d.op \in Read, d.status = "gone"
        PROVE  d.jar["session"] \notin server'.sessions
    <3>1. d.jar["session"] \notin server.sessions /\ d.jar["session"] # Issue
      BY <1>1, <1>5, <2>1 DEF GoneOK, Cookie
    <3> QED BY <1>2, <3>1 DEF Sound
  <2>2. e.op \in Read /\ e.status = "gone" => e.jar["session"] \notin server'.sessions
    BY <1>2 DEF Sound
  <2> QED BY <1>3, <2>1, <2>2 DEF GoneOK
<1>10. ASSUME NEW k \in Id, Rotated(k)
       PROVE  Rotated(k)' /\ ~Gives(e, k)
  <2>1. k \in Nat /\ k <= server'.last /\ k # Issue
    BY <1>1, <1>4, <1>10, CookieTypes DEF Rotated
  <2>2. server'.factor /\ server'.sessions \subseteq {k}
    BY <1>2, <1>10 DEF Sound
  <2>3. ~Gives(e, k)
    BY <1>2, <2>1 DEF Sound
  <2>4. ASSUME NEW d \in calls', d.at # "answered"
        PROVE  /\ d.op \in Factor => d.jar["session"] # k
               /\ d.op = "verify" => d.jar["challenge"] \notin server'.challenges
    <3>1. d \in calls
      BY <1>3, <2>4
    <3>2. d.jar["challenge"] # Issue
      BY <1>1, <1>5, <3>1 DEF Cookie
    <3> QED BY <1>2, <1>10, <2>4, <3>1, <3>2 DEF Rotated, Sound
  <2> QED BY <2>1, <2>2, <2>3, <2>4 DEF Rotated
<1>11. RotationOK'
  <2> SUFFICES ASSUME NEW d \in calls', d.live, d.op \in {"confirm", "regenerate"},
                      d.status = "ok"
               PROVE  /\ Rotated(d.sets["session"])'
                      /\ \A f \in calls' \ {d} : ~Gives(f, d.sets["session"])
    BY DEF RotationOK
  <2>1. CASE d = e
    <3>1. /\ e.sets["session"] = Issue /\ server'.last = Issue /\ server'.factor
          /\ server'.sessions = {Issue} /\ server'.challenges = {}
      BY <1>2, <2>1 DEF Sound
    <3>2. ASSUME NEW f \in calls' \ {e}
          PROVE  f.jar["session"] # Issue /\ ~Gives(f, Issue)
      <4>1. f \in calls
        BY <1>3
      <4>2. "session" \in DOMAIN f.sets => f.sets["session"] <= server.last
        BY <1>5, <4>1 DEF Fit, Cookie
      <4>3. f.jar["session"] # Issue
        BY <1>1, <1>5, <4>1 DEF Cookie
      <4> QED BY <1>1, <4>2, <4>3 DEF Gives
    <3>3. Rotated(d.sets["session"])'
      BY <1>1, <1>3, <2>1, <3>1, <3>2 DEF Rotated
    <3> QED BY <2>1, <3>1, <3>2, <3>3
  <2>2. CASE d \in calls
    <3>1. d.sets["session"] \in Id
      BY <1>5, <2>2 DEF Fit
    <3>2. /\ Rotated(d.sets["session"])
          /\ \A f \in calls \ {d} : ~Gives(f, d.sets["session"])
      BY <1>1, <2>2 DEF RotationOK
    <3>3. Rotated(d.sets["session"])' /\ ~Gives(e, d.sets["session"])
      BY <1>10, <3>1, <3>2
    <3> QED BY <1>3, <3>2, <3>3
  <2> QED BY <1>3, <2>1, <2>2
<1>12. CodesOK'
  <2> SUFFICES ASSUME codes
               PROVE  \E k \in Id :
                        /\ Rotated(k)'
                        /\ \A d \in calls' : ~Gives(d, k)
                        /\ \A d \in calls' : d.op \in Read =>
                             d.jar["session"] = k \/ jar'["session"] # k
    BY <1>3 DEF CodesOK, page
  <2>1. PICK k \in Id : /\ Rotated(k)
                        /\ \A d \in calls : ~Gives(d, k)
                        /\ \A d \in calls : d.op \in Read =>
                             d.jar["session"] = k \/ jar["session"] # k
    BY <1>1 DEF CodesOK
  <2>2. Rotated(k)' /\ ~Gives(e, k)
    BY <1>10, <2>1
  <2>3. e.op \in Read => e.jar["session"] = k \/ jar["session"] # k
    BY <1>3, <2>1
  <2> QED BY <1>3, <2>1, <2>2, <2>3
<1> QED BY <1>6, <1>7, <1>8, <1>9, <1>11, <1>12 DEF AccountInv

-----------------------------------------------------------------------------
(* Answers land. *)

\* An answer that the page does not take: its cookies are kept all the same.
LEMMA TakenInv ==
  ASSUME AccountInv, NEW c \in calls, calls' = Taken(c), server' = server,
         jar' = jar \/ jar' = SetCookies(c.sets, jar),
         UNCHANGED <<route, stage>>, held' \subseteq Read,
         mode' \in {"idle", "enroll", "scan", "recovery", "disable"},
         mode' = mode \/ route = "settings", codes' = codes
  PROVE  AccountInv'
<1>1. StateOK /\ UnderWayOK /\ OwnersOK /\ PlaceOK
  BY DEF AccountInv
<1>2. Shape({}, {}) /\ AllNew({})
  BY ShapeTaken DEF Taken, AllNew
<1>3. UnderWayOK' /\ GoneOK' /\ RotationOK' /\ CodesOK'
  BY <1>2, QuietStep
<1>4. OwnersOK'
  BY <1>1, <1>2, OwnersKept
<1>5. jar' \in Jar /\ \A name \in Cookie : jar'[name] <= server.last
  BY <1>1, JarStep DEF StateOK
<1>6. StateOK'
  BY <1>1, <1>5 DEF StateOK
<1>7. PlaceOK'
  BY <1>1 DEF PlaceOK
<1> QED BY <1>3, <1>4, <1>6, <1>7 DEF AccountInv

\* An answer after which nobody is signed in.
LEMMA SignOutInv ==
  ASSUME AccountInv, NEW c \in calls, SignOut(c), server' = server,
         jar' = SetCookies(c.sets, jar)
  PROVE  AccountInv'
<1>1. StateOK /\ UnderWayOK /\ OwnersOK /\ PlaceOK
  BY DEF AccountInv
<1>2. CASE route # "login"
  <2>1. /\ Fresh /\ route' \in {"login", "settings", "away"} /\ held' \subseteq Read
        /\ calls' \subseteq Abandoned(Taken(c)) /\ Taken(c) \in SUBSET calls
    BY <1>2 DEF SignOut, Taken
  <2> QED BY <2>1, LeaveInv
<1>3. CASE route = "login"
  <2>1. /\ calls' \subseteq calls /\ held' = {} /\ UNCHANGED <<route, stage, mode, codes>>
    BY <1>3 DEF SignOut, Taken
  <2>2. Shape({}, {}) /\ AllNew({})
    BY <2>1, ShapeTaken DEF AllNew
  <2>3. UnderWayOK' /\ GoneOK' /\ RotationOK' /\ CodesOK'
    BY <2>1, <2>2, QuietStep
  <2>4. OwnersOK'
    BY <1>1, <2>1, <2>2, OwnersKept
  <2>5. StateOK'
    BY <1>1, <2>1, JarStep DEF StateOK
  <2>6. PlaceOK'
    BY <1>1, <2>1 DEF PlaceOK
  <2> QED BY <2>3, <2>4, <2>5, <2>6 DEF AccountInv
<1> QED BY <1>2, <1>3

\* A sign-in is answered while the login form waits for it.
LEMMA LandSignInInv ==
  ASSUME AccountInv, NEW c \in calls, c.live, c.at = "answered", LandSignIn(c),
         server' = server, jar' = SetCookies(c.sets, jar)
  PROVE  AccountInv'
<1>1. /\ StateOK /\ UnderWayOK /\ OwnersOK /\ PlaceOK /\ Fit(c, server.last)
      /\ route = "login" /\ c.op \in SignIn
  BY DEF AccountInv, UnderWayOK, LandSignIn, OwnersOK
<1>2. CASE LandOn("away", c)
  <2> DEFINE ops == SignIn \cup {"cancel"}
  <2>1. /\ calls' \subseteq Outdated(Taken(c), ops) \cup {} /\ Taken(c) \in SUBSET calls
        /\ Fresh /\ held' = {} /\ route' = "away"
    BY <1>2 DEF LandOn, Taken
  <2> HIDE DEF ops
  <2>2. Shape(ops, {}) /\ AllNew({})
    BY <1>1, <2>1, ShapeOutdated DEF AllNew
  <2>3. UnderWayOK' /\ GoneOK' /\ RotationOK' /\ CodesOK'
    BY <2>1, <2>2, QuietStep DEF Fresh
  <2>4. OwnersOK'
    <3> SUFFICES ASSUME NEW d \in calls', d.live
                 PROVE  d.op \notin SignIn \cup Factor \cup {"password"}
      BY <2>1, OwnersGone DEF Fresh
    <3>1. d \in calls /\ d.op \notin ops
      BY <1>1, <2>2, LiveAfter
    <3> QED BY <1>1, <3>1 DEF OwnersOK, ops
  <2>5. StateOK'
    BY <1>1, <2>1, JarStep DEF StateOK, Fresh
  <2>6. PlaceOK'
    BY <2>1 DEF PlaceOK, Fresh
  <2> QED BY <2>3, <2>4, <2>5, <2>6 DEF AccountInv
<1>3. CASE /\ stage' = "code" /\ held' = {}
           /\ calls' = {d \in Taken(c) : d.op \notin Read}
           /\ UNCHANGED <<route, mode, codes>>
  <2>1. calls' \subseteq calls \ {c}
    BY <1>3 DEF Taken
  <2>2. Shape({}, {}) /\ AllNew({})
    BY <2>1, ShapeTaken DEF AllNew
  <2>3. UnderWayOK' /\ GoneOK' /\ RotationOK' /\ CodesOK'
    BY <1>3, <2>2, QuietStep
  <2>4. OwnersOK'
    <3>1. ASSUME NEW d \in calls', d.live
          PROVE  d.op \notin SignIn \cup Factor \cup {"password", "cancel"}
      <4>1. d \in calls /\ d # c
        BY <2>1
      <4> QED BY <1>1, <3>1, <4>1 DEF OwnersOK
    <3> QED BY <3>1 DEF OwnersOK
  <2>5. StateOK'
    BY <1>1, <1>3, JarStep DEF StateOK
  <2>6. PlaceOK'
    BY <1>1, <1>3 DEF PlaceOK
  <2> QED BY <2>3, <2>4, <2>5, <2>6 DEF AccountInv
<1>4. CASE calls' = Taken(c) /\ UNCHANGED page
  <2>1. /\ UNCHANGED <<route, stage, mode, codes>> /\ held' \subseteq Read
        /\ mode' \in {"idle", "enroll", "scan", "recovery", "disable"}
    BY <1>1, <1>4 DEF page, StateOK
  <2> QED BY <1>4, <2>1, TakenInv
<1> QED BY <1>2, <1>3, <1>4 DEF LandSignIn

\* New recovery codes arrive and are shown: they are of the last rotation, and what the
\* page reads anew it reads with the session of that.
LEMMA LandCodesInv ==
  ASSUME AccountInv, NEW c \in calls, c.live, c.status = "ok",
         c.op \in {"confirm", "regenerate"}, LandFactor(c),
         server' = server, jar' = SetCookies(c.sets, jar)
  PROVE  AccountInv'
<1>1. /\ StateOK /\ UnderWayOK /\ OwnersOK /\ PlaceOK /\ RotationOK /\ GoneOK
      /\ Fit(c, server.last) /\ c.sets \in Jar /\ c.sets["session"] \in Id
  BY DEF AccountInv, UnderWayOK, Fit
<1>2. route = "settings"
  BY <1>1 DEF OwnersOK, Factor
<1> DEFINE k == c.sets["session"]
           news == {[Request(q) EXCEPT !.jar = c.sets] : q \in Read}
<1>3. \A name \in Cookie : name \in DOMAIN c.sets /\ c.sets[name] <= server.last
  BY <1>1 DEF Fit, Jar
<1>4. \A d \in news : New(d) /\ d.op \in Read /\ d.jar = c.sets
  <2> TAKE d \in news
  <2>1. PICK q \in Read : d = [Request(q) EXCEPT !.jar = c.sets]
    OBVIOUS
  <2>2. q \in Op /\ \A name \in Cookie : c.sets[name] <= server.last
    BY <1>3 DEF Op
  <2> QED BY <1>1, <2>1, <2>2, NewCalls
<1>5. /\ calls' = {d \in Taken(c) : d.op \notin Read} \cup news
      /\ codes' = TRUE /\ mode' = (IF mode = "scan" THEN "enroll" ELSE mode)
      /\ UNCHANGED <<route, held, stage>>
  BY DEF LandFactor, ReadAnew
<1> HIDE DEF news
<1>6. Shape({}, news) /\ AllNew(news)
  BY <1>4, <1>5 DEF Shape, Taken, AllNew
<1>7. \A d \in news : d.op \notin Factor \cup {"verify", "cancel", "password"} \cup SignIn
  BY <1>4 DEF Read, Factor, SignIn
<1>8. UnderWayOK' /\ GoneOK'
  BY <1>1, <1>6, FitKept
<1>9. RotationOK'
  BY <1>1, <1>6, <1>7, RotationKept
<1>10. OwnersOK'
  BY <1>1, <1>5, <1>6, <1>7, OwnersKept
<1>11. CodesOK'
  <2>1. Rotated(k) /\ \A d \in calls \ {c} : ~Gives(d, k)
    BY <1>1 DEF RotationOK
  <2>2. Rotated(k)'
    <3>1. \A d \in news : d.op \notin Factor \cup {"verify"}
      BY <1>7
    <3> QED BY <1>1, <1>6, <2>1, <3>1, RotatedKept
  <2>3. ASSUME NEW d \in calls' PROVE ~Gives(d, k)
    <3>1. CASE d \in news
      <4>1. d.sets = <<>> /\ DOMAIN <<>> = {}
        BY <1>4, <3>1, CookieTypes DEF New
      <4> QED BY <4>1 DEF Gives
    <3>2. CASE d \in Taken(c)
      BY <2>1, <3>2 DEF Taken
    <3> QED BY <1>5, <3>1, <3>2
  <2>4. ASSUME NEW d \in calls', d.op \in Read PROVE d.jar["session"] = k
    BY <1>4, <1>5, <2>4
  <2> HIDE DEF k
  <2> QED BY <1>1, <2>2, <2>3, <2>4 DEF CodesOK, k
<1>12. StateOK'
  BY <1>1, <1>5, JarStep DEF StateOK
<1>13. PlaceOK'
  BY <1>1, <1>2, <1>5 DEF PlaceOK
<1> QED BY <1>8, <1>9, <1>10, <1>11, <1>12, <1>13 DEF AccountInv

\* Any answer lands.
LEMMA LandInv ==
  ASSUME AccountInv, NEW c \in calls, Land(c)
  PROVE  AccountInv'
<1>1. StateOK /\ OwnersOK
  BY DEF AccountInv
<1>2. c.at = "answered" /\ jar' = SetCookies(c.sets, jar) /\ server' = server
  BY DEF Land, Landed
<1>3. held \subseteq Read /\ mode \in {"idle", "enroll", "scan", "recovery", "disable"}
  BY <1>1 DEF StateOK
<1>4. CASE calls' = Taken(c) /\ UNCHANGED page
  BY <1>2, <1>3, <1>4, TakenInv DEF page
<1>5. CASE SignOut(c)
  BY <1>2, <1>5, SignOutInv
<1>6. CASE c.live /\ LandRead(c)
  <2>1. CASE /\ held' = held \cup {c.op} /\ calls' = Taken(c)
             /\ UNCHANGED <<route, stage, mode, codes>>
    <3>1. held' \subseteq Read
      BY <1>3, <1>6, <2>1 DEF LandRead
    <3> QED BY <1>2, <1>3, <2>1, <3>1, TakenInv
  <2> QED BY <1>4, <1>5, <1>6, <2>1 DEF LandRead
<1>7. CASE c.live /\ LandSignIn(c)
  BY <1>2, <1>7, LandSignInInv
<1>8. CASE c.live /\ LandFactor(c)
  <2>1. CASE c.status = "ok" /\ c.op # "enroll"
    BY <1>2, <1>8, <2>1, LandCodesInv DEF LandFactor
  <2>2. CASE ~(c.status = "ok" /\ c.op # "enroll")
    <3>1. /\ calls' = Taken(c) /\ UNCHANGED <<route, held, stage, codes>>
          /\ mode' \in {"idle", "enroll", "scan", "recovery", "disable"}
      BY <1>3, <1>8, <2>2 DEF LandFactor
    <3>2. route = "settings"
      BY <1>1, <1>8 DEF OwnersOK, LandFactor, Factor
    <3> QED BY <1>2, <1>3, <3>1, <3>2, TakenInv
  <2> QED BY <2>1, <2>2
<1>9. CASE LandEnd(c)
  BY <1>4, <1>5, <1>9 DEF LandEnd
<1> QED BY <1>4, <1>6, <1>7, <1>8, <1>9 DEF Land, Live

\* Every step of the account's forms.
LEMMA AccountInvNext ==
  AccountInv /\ [AccountNext]_accountVars => AccountInv'
<1> SUFFICES ASSUME AccountInv, [AccountNext]_accountVars PROVE AccountInv'
  OBVIOUS
<1>1. CASE AdministratorStep
  BY <1>1, GotoInv, SubmitSignInInv, CancelSignInInv, FormInv, SubmitFactorInv, AskInv
     DEF AdministratorStep
<1>2. CASE ExpireEnrollment
  BY <1>2, FormInv
<1>3. CASE Elsewhere
  BY <1>3, ElsewhereInv
<1>4. CASE \E q \in Read : Refetch(q)
  BY <1>4, AskInv
<1>5. CASE \E c \in calls : Send(c) \/ Serve(c) \/ Land(c) \/ Lose(c)
  BY <1>5, SendInv, ServeInv, LandInv, FormInv
<1>6. CASE UNCHANGED accountVars
  BY <1>6 DEF accountVars, page, AccountInv, StateOK, UnderWayOK, PlaceOK, OwnersOK,
              RotationOK, CodesOK, GoneOK, Rotated
<1> QED BY <1>1, <1>2, <1>3, <1>4, <1>5, <1>6 DEF AccountNext

\* The forms as they are opened at first.
LEMMA AccountInvInit == AccountInit => AccountInv
<1> SUFFICES ASSUME AccountInit PROVE AccountInv
  OBVIOUS
<1>1. /\ calls = {} /\ stage = "password" /\ mode = "idle" /\ codes = FALSE
      /\ route \in {"login", "settings"} /\ held \subseteq Read
      /\ jar \in {Cookies(1, None), NoCookies}
  BY DEF AccountInit
<1>2. server.last = 1 /\ server \in ServerType /\ server.sessions = {1} /\ server.challenges = {}
  BY CookieTypes DEF AccountInit, ServerType
<1>3. jar \in Jar /\ \A name \in Cookie : jar[name] \in {None, 1}
  BY <1>1, CookieTypes DEF NoCookies, Cookie
<1>4. \A name \in Cookie : jar[name] <= 1
  BY <1>3, CookieTypes
<1>5. \A i \in server.sessions \cup server.challenges : i <= server.last
  BY <1>2
<1>6. StateOK
  BY <1>1, <1>2, <1>3, <1>4, <1>5 DEF StateOK
<1> QED BY <1>1, <1>6 DEF AccountInv, UnderWayOK, PlaceOK, OwnersOK, RotationOK, CodesOK, GoneOK

\* The invariant implies the types.
LEMMA AccountTyped == AccountInv => AccountTypeOK
BY DEF AccountInv, StateOK, UnderWayOK, Fit, PlaceOK, AccountTypeOK, ServerType

\* The challenge cookie of the code that is asked for.
LEMMA CancelsStep ==
  ASSUME AccountInv, [AccountNext]_accountVars, stage = "code", stage' = "code",
         jar'["challenge"] # jar["challenge"]
  PROVE  \E c \in calls : Land(c) /\ (~c.live \/ c.op = "logout")
<1>1. /\ StateOK /\ UnderWayOK /\ OwnersOK /\ PlaceOK /\ route = "login"
  BY DEF AccountInv, PlaceOK
<1>2. PICK c \in calls : Land(c)
  BY DEF AccountNext, AdministratorStep, Goto, SubmitPassword, SubmitCode, CancelSignIn, Open,
         SubmitFactor, CancelFactor, CodesSaved, Submit, ExpireEnrollment, Elsewhere, Refetch,
         Send, Lose, Serve, ServeRead, Refuse, ServeLogin, ServeVerify, ServeCancel,
         ServeEnroll, ServeCodes, ServeRevocation, ServeLogout, Reply, accountVars
<1> SUFFICES ASSUME c.live, c.op # "logout" PROVE FALSE
  BY <1>2
<1>3. /\ Fit(c, server.last) /\ c \in Call /\ c.sets \in Sets /\ jar \in Jar /\ c.op \in Op
      /\ c.at = "answered" /\ c.status \in {"none", "ok", "challenge", "refused", "gone"}
  BY <1>1, <1>2, CallFields DEF UnderWayOK, Fit, StateOK, Land, Landed
<1>4. "challenge" \in DOMAIN c.sets
  BY <1>2, <1>3, JarAfter DEF Land, Cookie
<1>5. c.sets # <<>>
  BY <1>4, CookieTypes
<1>6. c.op \notin Read /\ c.op \notin Factor \cup {"password", "cancel"}
  BY <1>1, <1>3, <1>5 DEF Fit, OwnersOK
<1>7. c.op = "verify"
  <2>1. c.op \in SignIn
    BY <1>3, <1>6 DEF Op
  <2> QED BY <1>1, <2>1 DEF OwnersOK
<1>8. c.status = "ok"
  BY <1>3, <1>5, <1>7 DEF Fit
<1>9. LandSignIn(c)
  BY <1>2, <1>7 DEF Land, Live, LandRead, LandFactor, LandEnd, Read
<1>10. Fresh
  BY <1>8, <1>9 DEF LandSignIn, LandOn
<1> QED BY <1>10 DEF Fresh

\* The codes that go from the page.
LEMMA CodesStep ==
  ASSUME AccountInv, [AccountNext]_accountVars, codes, ~codes'
  PROVE  \/ AdministratorStep
         \/ \E c \in calls : c.live /\ c.op \notin Read /\ Land(c)
         \/ ~SignedIn(jar)
<1>1. UnderWayOK /\ CodesOK /\ GoneOK
  BY DEF AccountInv
<1>2. AdministratorStep \/ \E c \in calls : Land(c)
  BY DEF AccountNext, ExpireEnrollment, Elsewhere, Refetch, page,
         Send, Lose, Serve, ServeRead, Refuse, ServeLogin, ServeVerify, ServeCancel,
         ServeEnroll, ServeCodes, ServeRevocation, ServeLogout, Reply, accountVars
<1>3. ASSUME NEW c \in calls, Land(c), ~(c.live /\ c.op \notin Read)
      PROVE  ~SignedIn(jar)
  <2>1. c.live /\ c.op \in Read
    BY <1>3 DEF Land, Live, page
  <2>2. LandRead(c)
    BY <1>3, <2>1 DEF Land, Live, LandSignIn, LandFactor, LandEnd, Read, SignIn
  <2>3. c.status = "gone"
    BY <2>2 DEF LandRead, page
  <2>4. c.jar["session"] \notin server.sessions
    BY <1>1, <2>1, <2>3 DEF GoneOK
  <2>5. PICK k \in Id : Rotated(k) /\ (c.jar["session"] = k \/ jar["session"] # k)
    BY <1>1, <2>1 DEF CodesOK
  <2>6. server.sessions \subseteq {k}
    BY <2>5 DEF Rotated
  <2> QED BY <2>4, <2>5, <2>6 DEF SignedIn
<1> QED BY <1>2, <1>3

-----------------------------------------------------------------------------
(* The page. *)

PagesInv == AccountInv /\ ConnectionInv /\ RecordOK

\* The forms of the page in all their states, whichever of them is in use.
THEOREM PagesInvariant == PagesSpec => []PagesInv
<1>1. PagesInit => PagesInv
  BY AccountInvInit, ConnectionInvInit, RecordInit DEF PagesInit, PagesInv
<1>2. PagesInv /\ [PagesNext]_<<focus, accountVars, connectionVars>> => PagesInv'
  BY AccountInvNext, ConnectionInvNext, RecordNext DEF PagesNext, PagesInv
<1> QED BY <1>1, <1>2, PTL DEF PagesSpec

\* The states that the forms, the calls under way and the server can be in.
THEOREM PagesTypeCorrect == PagesSpec => []PagesTypeOK
<1>1. PagesInv => PagesTypeOK
  BY AccountTyped, ConnectionTyped DEF PagesInv, PagesTypeOK
<1> QED BY <1>1, PagesInvariant, PTL

\* In whatever order answers land, a success on the badge is one that the server stored
\* for the version the page takes for the saved one, and no failure at hand is newer.
THEOREM PagesBadgeHonest == PagesSpec => []BadgeHonest
<1>1. PagesInv => BadgeHonest
  BY BadgeStep DEF PagesInv
<1> QED BY <1>1, PagesInvariant, PTL

\* What is put into the connection's form gives way only to the administrator and to the
\* answers of this form's own save, skip or test.
THEOREM PagesEditsKept == PagesSpec => EditsKept
<1> DEFINE Kept ==
      <<form.value, form.draft>>' # <<form.value, form.draft>> =>
        \/ Edit \/ Reopen
        \/ \E c \in requests : c.mine /\ Arrive(c) /\ c.op \in {"save", "skip", "follow"}
<1>1. PagesInv /\ [PagesNext]_<<focus, accountVars, connectionVars>> => [Kept]_connectionVars
  BY EditsStep DEF PagesInv, PagesNext
<1>2. EditsKept <=> [][Kept]_connectionVars
  BY DEF EditsKept
<1> HIDE DEF Kept
<1> QED BY <1>1, <1>2, PagesInvariant, PTL DEF PagesSpec

\* Recovery codes on show give way to the administrator, to an answer that a form waits
\* for, or when the browser's session has ended; never to a read of before the rotation.
THEOREM PagesCodesStay == PagesSpec => CodesStay
<1> DEFINE Stay ==
      codes /\ ~codes' =>
        \/ AdministratorStep
        \/ \E c \in calls : c.live /\ c.op \notin Read /\ Land(c)
        \/ ~SignedIn(jar)
<1>1. PagesInv /\ [PagesNext]_<<focus, accountVars, connectionVars>> => [Stay]_accountVars
  BY CodesStep DEF PagesInv, PagesNext
<1>2. CodesStay <=> [][Stay]_accountVars
  BY DEF CodesStay
<1> HIDE DEF Stay
<1> QED BY <1>1, <1>2, PagesInvariant, PTL DEF PagesSpec

\* The login form's own cancel never takes the challenge of the login that follows it.
THEOREM PagesCancelsComeFirst == PagesSpec => CancelsComeFirst
<1> DEFINE First ==
      stage = "code" /\ stage' = "code" /\ jar'["challenge"] # jar["challenge"] =>
        \E c \in calls : Land(c) /\ (~c.live \/ c.op = "logout")
<1>1. PagesInv /\ [PagesNext]_<<focus, accountVars, connectionVars>> => [First]_accountVars
  BY CancelsStep DEF PagesInv, PagesNext
<1>2. CancelsComeFirst <=> [][First]_accountVars
  BY DEF CancelsComeFirst
<1> HIDE DEF First
<1> QED BY <1>1, <1>2, PagesInvariant, PTL DEF PagesSpec
=============================================================================
