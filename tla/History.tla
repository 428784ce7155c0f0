------------------------------- MODULE History ------------------------------
(***************************************************************************)
(* The history pages of the browser: history-context.tsx, history.tsx and  *)
(* the offline guard of pwa.tsx, with the queries of api/client.ts.        *)
(*                                                                         *)
(* The address bar is the state of these pages: the car, the bounds of the *)
(* window, the preset they came from and the cursor of the page on show    *)
(* stand in the URL, and so in every entry of the browser's history.  Data *)
(* is held by a cache of queries.  A key is in flight exactly while a page *)
(* on show wants it and it is not held: every query passes its signal on,  *)
(* so it is aborted when the last page that wants it goes away.  A request *)
(* that fails leaves the state as it is until it is tried again.  A preset *)
(* request that is cancelled is forgotten: it is aborted, and an answer    *)
(* that has come in already finds its token outdated and changes nothing.  *)
(*                                                                         *)
(* React runs the effects of a render before the next render, so nothing   *)
(* but an answer comes between a step and its effects; a navigation is     *)
(* rendered before the next answer is taken in.                            *)
(***************************************************************************)
EXTENDS Sequences, Naturals, FiniteSets

CONSTANTS
  Vehicle, Lowest,       \* cars, and the one with the lowest id
  NoHistory,             \* cars without a trip or a charge
  Unknown, None,         \* a car of the URL that does not exist; nothing
  Preset, DefaultPreset, AllHistory,
  Record, OwnerOf, KindOf,
  Page,                  \* the pages visited
  Start,                 \* addresses the browser is opened at
  Recent,                \* in the keys of the overview
  MaxEntries             \* bound of the model: entries of the browser's history

Kind == {"trips", "charges"}

ASSUME HistoryAssumption ==
  /\ Lowest \in Vehicle /\ NoHistory \subseteq Vehicle
  /\ {Unknown, None} \cap Vehicle = {} /\ Unknown # None
  /\ {DefaultPreset, AllHistory} \subseteq Preset /\ DefaultPreset # AllHistory
  /\ None \notin Preset \cup Record
  /\ OwnerOf \in [Record -> Vehicle] /\ KindOf \in [Record -> Kind \cap Page]
  /\ Page \subseteq {"overview", "trips", "charges", "vehicles", "settings"}
  /\ MaxEntries \in Nat \ {0}

VARIABLES
  online,         \* useOnlineStatus()
  entries, at,    \* the browser's history, and where in it
  remembered,     \* rememberedVehicleId
  held,           \* keys whose data the cache holds
  pendingPreset   \* the request for a window that is waited for

vars == <<online, entries, at, remembered, held, pendingPreset>>

\* Where a window came from: bounds of one preset, or all there is of one car.
Bounds == [preset : Preset \ {AllHistory}, of : {None}] \cup [preset : {AllHistory}, of : Vehicle]
\* A cursor is opaque; what matters is the list it was handed out for.
Cursor == [kind : Kind, vehicle : Vehicle, window : Bounds]

Address ==
  [page : Page, record : Record \cup {None},
   vehicle : Vehicle \cup {Unknown, None}, window : Bounds \cup {None},
   preset : Preset \cup {None}, cursor : Cursor \cup {None},
   returns : BOOLEAN]      \* state.historyReturnPath

Bare(page, record) ==
  [page |-> page, record |-> record, vehicle |-> None, window |-> None,
   preset |-> None, cursor |-> None, returns |-> FALSE]

Request == [vehicle : Vehicle, preset : Preset, from : Address]

\* The bounds of one car's whole history stand beside that car, a cursor beside the
\* list it was handed out for.
Fits(e) ==
  /\ e.window # None /\ e.window.of # None => e.window.of = e.vehicle
  /\ e.cursor # None =>
       e.cursor = [kind |-> e.page, vehicle |-> e.vehicle, window |-> e.window]
\* Such bounds, and no others, stand beside the preset of the whole history.
BoundsNamed(e) == e.window # None => (e.window.of # None <=> e.preset = AllHistory)

\* The browser is opened at links that these pages made, or at bare ones.
ASSUME StartAssumption == \A e \in Start : e \in Address /\ Fits(e) /\ BoundsNamed(e)
ASSUME NoneAssumption == None \notin Bounds \cup Cursor \cup Request

-----------------------------------------------------------------------------
(* What a render computes from the address and the cache. *)

loc == entries[at]
HistoryRoute == loc.page # "settings"
OnDetail == loc.record # None
OnList == loc.page \in Kind /\ ~OnDetail

\* requestedPreset, or the default
EffectivePreset == IF loc.preset = None THEN DefaultPreset ELSE loc.preset
SelectedId ==
  CASE loc.vehicle # None -> loc.vehicle
    [] loc.vehicle = None /\ remembered # None -> remembered
    [] OTHER -> Lowest
\* Variant: the car of the URL need not be one of the list.
SelectedUnseen == IF <<"vehicles">> \in held THEN SelectedId ELSE None
Selected ==
  IF <<"vehicles">> \in held /\ SelectedId \in Vehicle THEN SelectedId ELSE None
\* The answer of history-window: no bounds for all of nothing.
WindowOf(v, p) ==
  IF p # AllHistory THEN [preset |-> p, of |-> None]
  ELSE IF v \in NoHistory THEN None ELSE [preset |-> p, of |-> v]
WindowKey == <<"history-window", Selected, EffectivePreset>>
Resolved ==
  IF loc.window # None THEN loc.window
  ELSE IF WindowKey \in held THEN WindowOf(Selected, EffectivePreset) ELSE None
\* emptyWindow
EmptyWindow == loc.window = None /\ WindowKey \in held /\ Resolved = None

Scoped == Selected # None /\ Resolved # None
ListKey == <<loc.page, Selected, Resolved, loc.cursor, "page">>
Summary(kind) == IF kind = "trips" THEN "trip-summary" ELSE "charge-summary"
DetailKeyOf(r) == <<KindOf[r], r>>
DetailKey == DetailKeyOf(loc.record)
DetailShown == OnDetail /\ DetailKey \in held

\* What the page on show asks for beyond the record of a detail.
OverviewKeys ==
  IF Selected = None THEN {}
  ELSE {<<"latest-values", Selected>>}
         \cup {<<Summary(kind), Selected, Resolved>> : kind \in {k \in Kind : Scoped}}
         \cup {<<kind, Selected, Resolved, Recent>> : kind \in {k \in Kind : Scoped}}
ListKeys == IF Scoped THEN {ListKey, <<Summary(loc.page), Selected, Resolved>>} ELSE {}
DetailKeys ==
  IF DetailKey \notin held THEN {}
  ELSE IF KindOf[loc.record] = "charges" THEN {<<"charge-series", loc.record>>}
  ELSE {<<"trajectory", loc.record>>, <<"trip-series", loc.record>>}
PageData ==
  CASE OnDetail -> DetailKeys
    [] OnList -> ListKeys
    [] loc.page = "overview" -> OverviewKeys
    [] OTHER -> {}

\* Variant: the queries forget to ask whether the browser is online.
WantedOffline ==
  IF <<"settings">> \notin held THEN {<<"settings">>}
  ELSE IF ~HistoryRoute THEN {}
  ELSE {<<"vehicles">>} \cup PageData
         \cup {k \in {WindowKey} : Selected # None /\ loc.window = None}
         \cup {DetailKeyOf(r) : r \in {loc.record} \ {None}}
\* The enabled queries.  Offline the cache starts nothing, and neither do the pages.
Wanted ==
  IF ~online THEN {}
  ELSE IF <<"settings">> \notin held THEN {<<"settings">>}
  ELSE IF ~HistoryRoute THEN {}
  ELSE {<<"vehicles">>} \cup PageData
         \cup {k \in {WindowKey} : Selected # None /\ loc.window = None}
         \cup {DetailKeyOf(r) : r \in {loc.record} \ {None}}

-----------------------------------------------------------------------------
(* What the handlers are made of. *)

vehicleQueryKeys ==
  {"vehicles", "trips", "charges", "trip", "charge", "trajectory", "history-capabilities",
   "history-window", "trip-summary", "charge-summary", "latest-values", "trip-series",
   "charge-series"}
IsVehicleData(key) == key[1] \in vehicleQueryKeys
\* clearVehicleData()
Cleared == {key \in held : ~IsVehicleData(key)}
\* What steers the pages.  The rest is the data that a page shows: the queries of one
\* page are answered together, and it is asked for again on the next page.
Steering == {<<"settings">>, <<"vehicles">>} \cup {DetailKeyOf(r) : r \in Record}
Kept == {key \in held : key \in Steering \/ key[1] = "history-window"}

\* navigate(): forward entries are forgotten, and of a long history the oldest.
Push(address) ==
  LET longer == Append(SubSeq(entries, 1, at), address)
  IN /\ entries' = IF Len(longer) > MaxEntries THEN Tail(longer) ELSE longer
     /\ at' = Len(entries')
Replace(address) == entries' = [entries EXCEPT ![at] = address] /\ UNCHANGED at

\* Variant: the bounds of one car's whole history stay in the URL of another's.
AddressKeepingBounds(v) ==
  [loc EXCEPT !.vehicle = v, !.cursor = None, !.returns = FALSE]
\* setVehicleId(): "All-history instead belongs to each vehicle's earliest record and
\* must be resolved again after a switch."
AddressFor(v) ==
  [loc EXCEPT !.vehicle = v, !.cursor = None, !.returns = FALSE,
              !.window = IF loc.preset = AllHistory THEN None ELSE @]
\* Variant: the early return is missing.
NeverSelected(v) == FALSE
AlreadySelected(v) ==
  v = Selected /\ v = loc.vehicle
HeldFor(v) == IF Selected # None /\ v # Selected THEN Cleared ELSE Kept

\* historyPath()
HistoryPath(page, record, includeCursor) ==
  IF ~Scoped THEN Bare(page, record)
  ELSE [Bare(page, record) EXCEPT
          !.vehicle = Selected, !.window = Resolved, !.preset = loc.preset,
          !.cursor = IF includeCursor THEN loc.cursor ELSE None]

-----------------------------------------------------------------------------
(* The effects of a render.  Those of a child run before its parent's, all from *)
(* the same render, and the last navigation wins.                               *)

\* The owner of the record on show is made the selected car, once it is known.
Owner == OwnerOf[loc.record]
OwnPending ==
  /\ DetailShown /\ ~AlreadySelected(Owner)
  /\ AddressFor(Owner) # loc \/ remembered # Owner \/ pendingPreset # None
RememberPending == Selected # None /\ remembered # Selected
\* The car and the window that were found are put in the URL.
Canonical == [loc EXCEPT !.vehicle = Selected, !.window = Resolved, !.returns = FALSE]
CanonicalPending ==
  Scoped /\ (loc.vehicle # Selected \/ loc.window # Resolved)
EffectsPending == OwnPending \/ RememberPending \/ CanonicalPending

Effects ==
  /\ EffectsPending
  /\ remembered' =
       IF RememberPending THEN Selected ELSE IF OwnPending THEN Owner ELSE remembered
  /\ IF OwnPending THEN held' = HeldFor(Owner) /\ pendingPreset' = None
     ELSE held' = Kept /\ UNCHANGED pendingPreset
  /\ Replace(IF CanonicalPending THEN Canonical
             ELSE IF OwnPending THEN AddressFor(Owner) ELSE loc)
  /\ UNCHANGED online

-----------------------------------------------------------------------------
(* Answers. *)

\* A query is answered.  Answers of one batch come before the effects of either.
Answer(key) ==
  /\ key \in Wanted \ held
  /\ held' = held \cup (IF key \in PageData THEN PageData ELSE {key})
  /\ UNCHANGED <<online, entries, at, remembered, pendingPreset>>

Applied(r) ==
  [r.from EXCEPT !.vehicle = r.vehicle, !.preset = r.preset, !.cursor = None,
     !.window = IF r.preset = AllHistory THEN None ELSE WindowOf(r.vehicle, r.preset)]
\* Variant: the answer is applied though another car or place is on show by now.
PresetAnswerAnywhere ==
  /\ pendingPreset # None /\ pendingPreset' = None
  /\ held' = Cleared /\ Push(Applied(pendingPreset))
  /\ UNCHANGED <<online, remembered>>
\* setPreset() after its await.
PresetAnswer ==
  /\ pendingPreset # None /\ pendingPreset' = None
  /\ IF Selected = pendingPreset.vehicle /\ loc = pendingPreset.from
     THEN held' = Cleared /\ Push(Applied(pendingPreset))
     ELSE UNCHANGED <<entries, at, held>>
  /\ UNCHANGED <<online, remembered>>
PresetFailure ==
  /\ pendingPreset # None /\ pendingPreset' = None
  /\ UNCHANGED <<online, entries, at, remembered, held>>

-----------------------------------------------------------------------------
(* The user, the browser and the connection. *)

Ready == ~EffectsPending

\* The control of the shell, of the filters or of the selection guard.
SelectVehicle(v) ==
  /\ Ready /\ HistoryRoute /\ <<"vehicles">> \in held
  /\ ~AlreadySelected(v)
  /\ pendingPreset' = None
  /\ held' = HeldFor(v) /\ remembered' = v
  /\ Push(AddressFor(v))
  /\ UNCHANGED online

\* Apply.  A newer request takes the place of the one waited for.
StartPreset(p) ==
  /\ Ready /\ online /\ OnList /\ Selected # None
  /\ pendingPreset' = [vehicle |-> Selected, preset |-> p, from |-> loc]
  /\ UNCHANGED <<online, entries, at, remembered, held>>

\* Cancel
CancelPreset ==
  /\ Ready /\ online /\ OnList
  /\ pendingPreset # None /\ pendingPreset' = None
  /\ UNCHANGED <<online, entries, at, remembered, held>>

Visit(address) ==
  /\ Ready /\ address # loc
  /\ Push(address) /\ held' = Kept
  /\ UNCHANGED <<online, remembered, pendingPreset>>

\* The links of the shell and of the pages.
Follow(page) ==
  Visit(IF page \in {"vehicles", "settings"} THEN Bare(page, None)
        ELSE HistoryPath(page, None, FALSE))
\* A list shows records of the car and the window it was asked for.
OpenRecord(r) ==
  /\ online /\ OwnerOf[r] = Selected
  /\ \/ OnList /\ loc.page = KindOf[r] /\ ListKey \in held
     \/ loc.page = "overview" /\ <<KindOf[r], Selected, Resolved, Recent>> \in held
  /\ Visit([HistoryPath(KindOf[r], r, TRUE) EXCEPT !.returns = TRUE])
\* moveToCursor().  One cursor stands for all that a list hands out.
NextPage ==
  /\ online /\ OnList /\ Scoped /\ ListKey \in held
  /\ Visit([loc EXCEPT
       !.cursor = [kind |-> loc.page, vehicle |-> Selected, window |-> Resolved]])
PreviousPage == online /\ OnList /\ Visit([loc EXCEPT !.cursor = None])

Travel(i) ==
  /\ Ready /\ i \in 1..Len(entries) /\ at' = i /\ held' = Kept
  /\ UNCHANGED <<online, entries, remembered, pendingPreset>>
\* The button of a detail goes back where its link was, if there is such a place.
BackToList ==
  /\ online /\ DetailShown
  /\ IF loc.returns THEN Travel(at - 1) ELSE Visit(HistoryPath(loc.page, None, TRUE))

Reload ==
  /\ Ready /\ online
  /\ held' = {} /\ remembered' = None /\ pendingPreset' = None
  /\ UNCHANGED <<online, entries, at>>

\* useOfflineVehicleDataGuard(), and the effect that cancels the preset.
GoOffline ==
  /\ Ready /\ online /\ online' = FALSE
  /\ held' = Cleared /\ pendingPreset' = None
  /\ UNCHANGED <<entries, at, remembered>>
GoOnline ==
  /\ ~online /\ online' = TRUE
  /\ UNCHANGED <<entries, at, remembered, held, pendingPreset>>

-----------------------------------------------------------------------------
Init ==
  /\ online = TRUE
  /\ entries \in {<<address>> : address \in Start} /\ at = 1
  /\ remembered = None /\ held = {} /\ pendingPreset = None

UserStep ==
  \/ \E v \in Vehicle : SelectVehicle(v)
  \/ \E p \in Preset : StartPreset(p)
  \/ CancelPreset
  \/ \E page \in Page : Follow(page)
  \/ \E r \in Record : OpenRecord(r)
  \/ NextPage \/ PreviousPage \/ BackToList \/ Reload
  \/ Travel(at - 1) \/ Travel(at + 1)
  \/ GoOffline \/ GoOnline

AnswerStep == \E key \in Wanted : Answer(key)

PageStep == Effects \/ AnswerStep \/ PresetAnswer \/ PresetFailure

Next == UserStep \/ PageStep

Spec == Init /\ [][Next]_vars

\* Effects run, and what is asked for is answered, after a retry if need be.
FairSpec == Spec /\ WF_vars(Effects \/ AnswerStep)

-----------------------------------------------------------------------------
(* Properties. *)

HistoryTypeOK ==
  /\ online \in BOOLEAN
  /\ entries \in Seq(Address) /\ Len(entries) <= MaxEntries /\ at \in 1..Len(entries)
  /\ remembered \in Vehicle \cup {None}
  /\ pendingPreset \in Request \cup {None}

\* "For a vehicle change, re-resolve an All history preset for the new vehicle"
\* (M1.md:78), and a cursor is refused by any list but its own: no address, not even
\* one that Back returns to, shows a car in the bounds of another's whole history or
\* carries the cursor of another list.
AddressesFit ==
  \A i \in 1..Len(entries) : Fits(entries[i])

\* "Clear record caches on ... offline transitions" and "late responses must not
\* republish ... offline data" (M1.md:101-102): offline the cache holds no vehicle
\* data, whatever was under way, and no preset is waited for.
OfflineHoldsNothing ==
  ~online => pendingPreset = None /\ \A key \in held : ~IsVehicleData(key)

\* The selection on show.
PeriodOf(address) ==
  IF address.window = None
  THEN IF address.preset = AllHistory THEN AllHistory ELSE None
  ELSE IF address.window.of \in {address.vehicle} \ {None} THEN AllHistory
  ELSE address.window
ScopeOf(address) == [car |-> address.vehicle, period |-> PeriodOf(address)]
Wish ==
  IF pendingPreset = None THEN [asked |-> None]
  ELSE [asked |-> PeriodOf(Applied(pendingPreset)), for |-> ScopeOf(pendingPreset.from)]

S == INSTANCE Selection WITH
       Car <- Vehicle \cup {Unknown},
       Period <- Bounds \cup {AllHistory},
       Unset <- None, MaxStack <- MaxEntries,
       stack <- [i \in 1..Len(entries) |-> ScopeOf(entries[i])],
       wish <- Wish

\* The pages implement the abstract selection: "late responses must not republish
\* old-car, old-window ... data" (M1.md:102).
SelectionSpec == S!Spec

\* The page has found what it shows: the URL names a car that exists and a window,
\* unless the car has no history, and a record is shown under its owner.
Settled ==
  \/ loc.page \in {"settings", "vehicles"}
  \/ loc.vehicle = Unknown /\ ~OnDetail
  \/ /\ Selected # None /\ loc.vehicle = Selected
     /\ loc.window # None \/ EmptyWindow
     /\ Wanted \subseteq held
     /\ OnDetail => loc.vehicle = Owner

\* The effects that write the URL come to rest, and agree: when the user leaves the
\* page alone and the connection stays, the page settles.
PageSettles ==
  <>[][PageStep]_vars => <>[](online => Settled)
=============================================================================
