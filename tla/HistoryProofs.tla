---------------------------- MODULE HistoryProofs ---------------------------
(***************************************************************************)
(* Proofs about History, for any cars, records, pages and addresses.       *)
(***************************************************************************)
EXTENDS History, TLAPS

\* Where one is online, or nothing is held that must not be.
LEMMA OfflineStart == Init => OfflineHoldsNothing
  BY DEF Init, OfflineHoldsNothing

\* Offline, no query is enabled.
LEMMA OfflineAsksNothing == ~online => Wanted = {}
  BY DEF Wanted

\* What the handlers keep was held before.
LEMMA NothingNewIsKept ==
  /\ Cleared \subseteq held /\ Kept \subseteq held
  /\ \A v : HeldFor(v) \subseteq held
  BY DEF Cleared, Kept, HeldFor

\* While the connection does not change, it is enough that a step offline holds nothing
\* new and asks for no preset.
LEMMA OfflineStep ==
  ASSUME OfflineHoldsNothing, online' = online,
         ~online => held' \subseteq held /\ pendingPreset' \in {pendingPreset, None}
  PROVE  OfflineHoldsNothing'
  BY DEF OfflineHoldsNothing, IsVehicleData, vehicleQueryKeys

\* Every action of History.
LEMMA OfflinePreserved ==
  ASSUME OfflineHoldsNothing, [Next]_vars
  PROVE  OfflineHoldsNothing'
<1>1. CASE Effects
  BY <1>1, NothingNewIsKept, OfflineStep DEF Effects
<1>2. CASE AnswerStep
  BY <1>2, OfflineAsksNothing, OfflineStep DEF AnswerStep, Answer
<1>3. CASE PresetAnswer
  BY <1>3, NothingNewIsKept, OfflineStep DEF PresetAnswer
<1>4. CASE PresetFailure
  BY <1>4, OfflineStep DEF PresetFailure
<1>5. CASE \E v \in Vehicle : SelectVehicle(v)
  BY <1>5, NothingNewIsKept, OfflineStep DEF SelectVehicle
<1>6. CASE \E p \in Preset : StartPreset(p)
  BY <1>6, OfflineStep DEF StartPreset
<1>7. CASE CancelPreset
  BY <1>7, OfflineStep DEF CancelPreset
<1>8. ASSUME NEW address, Visit(address) PROVE OfflineHoldsNothing'
  BY <1>8, NothingNewIsKept, OfflineStep DEF Visit
<1>9. ASSUME NEW i, Travel(i) PROVE OfflineHoldsNothing'
  BY <1>9, NothingNewIsKept, OfflineStep DEF Travel
<1>10. CASE \/ \E page \in Page : Follow(page)
            \/ \E r \in Record : OpenRecord(r)
            \/ NextPage \/ PreviousPage
  BY <1>8, <1>10 DEF Follow, OpenRecord, NextPage, PreviousPage
<1>11. CASE BackToList
  BY <1>8, <1>9, <1>11 DEF BackToList
<1>12. CASE Reload
  BY <1>12, OfflineStep DEF Reload
<1>13. CASE GoOffline
  BY <1>13 DEF GoOffline, OfflineHoldsNothing, Cleared, IsVehicleData, vehicleQueryKeys
<1>14. CASE GoOnline
  BY <1>14 DEF GoOnline, OfflineHoldsNothing
<1>15. CASE UNCHANGED vars
  BY <1>15, OfflineStep DEF vars
<1> QED
  BY <1>1, <1>2, <1>3, <1>4, <1>5, <1>6, <1>7, <1>9, <1>10, <1>11, <1>12, <1>13, <1>14, <1>15
     DEF Next, UserStep, PageStep

\* clearVehicleData() on the way offline is enough: whatever was under way, no vehicle
\* data is held and no preset waited for as long as the connection is lost.
THEOREM HistoryOfflineHoldsNothing == Spec => []OfflineHoldsNothing
<1>1. Init => OfflineHoldsNothing
  BY OfflineStart
<1>2. OfflineHoldsNothing /\ [Next]_vars => OfflineHoldsNothing'
  BY OfflinePreserved
<1> QED
  BY <1>1, <1>2, PTL DEF Spec

-----------------------------------------------------------------------------
(* The addresses. *)

\* An address that the pages put in the history.
Sound(e) == e \in Address /\ Fits(e) /\ BoundsNamed(e)
\* AddressesFit alone is not inductive: that a change of car drops the bounds of a whole
\* history rests on their preset standing beside them.
HistoryInv ==
  HistoryTypeOK /\ \A i \in 1..Len(entries) : Sound(entries[i])

\* The history of the browser holds at least one entry.
LEMMA MaxEntriesNat == MaxEntries \in Nat /\ MaxEntries >= 1
  BY HistoryAssumption

\* navigate(): the new address is the last entry, and the others were there before.
LEMMA PushSound ==
  ASSUME HistoryInv, NEW e, Sound(e), Push(e)
  PROVE  /\ entries' \in Seq(Address) /\ Len(entries') <= MaxEntries
         /\ at' \in 1..Len(entries')
         /\ \A i \in 1..Len(entries') : Sound(entries'[i])
<1> DEFINE longer == Append(SubSeq(entries, 1, at), e)
<1>1. /\ entries \in Seq(Address) /\ at \in 1..Len(entries) /\ Len(entries) <= MaxEntries
      /\ \A i \in 1..Len(entries) : Sound(entries[i])
      /\ e \in Address /\ MaxEntries \in Nat /\ MaxEntries >= 1
  BY MaxEntriesNat DEF HistoryInv, HistoryTypeOK, Sound
<1>2. /\ longer \in Seq(Address) /\ Len(longer) = at + 1
      /\ \A i \in 1..at : longer[i] = entries[i]
      /\ longer[at + 1] = e
  BY <1>1
<1>3. \A i \in 1..Len(longer) : Sound(longer[i])
  <2> SUFFICES ASSUME NEW i \in 1..Len(longer) PROVE Sound(longer[i])
    OBVIOUS
  <2> HIDE DEF longer
  <2>1. CASE i = at + 1
    BY <2>1, <1>2
  <2>2. CASE i # at + 1
    <3>1. i \in 1..at /\ i \in 1..Len(entries)
      BY <2>2, <1>1, <1>2
    <3> QED BY <3>1, <1>1, <1>2
  <2> QED BY <2>1, <2>2
<1>4. /\ entries' = IF Len(longer) > MaxEntries THEN Tail(longer) ELSE longer
      /\ at' = Len(entries')
  BY DEF Push
<1> HIDE DEF longer
<1>5. CASE Len(longer) > MaxEntries
  <2>1. /\ Tail(longer) \in Seq(Address) /\ Len(Tail(longer)) = at
        /\ \A i \in 1..at : Tail(longer)[i] = longer[i + 1]
    BY <1>1, <1>2
  <2>2. \A i \in 1..at : i + 1 \in 1..Len(longer)
    BY <1>1, <1>2
  <2> QED BY <2>1, <2>2, <1>1, <1>3, <1>4, <1>5
<1>6. CASE ~(Len(longer) > MaxEntries)
  BY <1>6, <1>1, <1>2, <1>3, <1>4
<1> QED BY <1>5, <1>6

\* navigate() with replace: only the entry on show changes.
LEMMA ReplaceSound ==
  ASSUME HistoryInv, NEW e, Sound(e), Replace(e)
  PROVE  /\ entries' \in Seq(Address) /\ Len(entries') <= MaxEntries
         /\ at' \in 1..Len(entries')
         /\ \A i \in 1..Len(entries') : Sound(entries'[i])
<1>1. /\ entries \in Seq(Address) /\ at \in 1..Len(entries) /\ Len(entries) <= MaxEntries
      /\ \A i \in 1..Len(entries) : Sound(entries[i])
      /\ e \in Address
  BY DEF HistoryInv, HistoryTypeOK, Sound
<1>2. /\ entries' \in Seq(Address) /\ Len(entries') = Len(entries) /\ at' = at
      /\ \A i \in 1..Len(entries) : entries'[i] = IF i = at THEN e ELSE entries[i]
  BY <1>1 DEF Replace
<1> QED BY <1>1, <1>2

\* The address on show is one of the history's.
LEMMA LocSound == HistoryInv => Sound(loc)
  BY DEF HistoryInv, HistoryTypeOK, loc

\* A car is selected only once the list of cars has it.
LEMMA SelectedIsACar == Selected \in Vehicle \cup {None}
  BY DEF Selected

\* A car that the URL names is the one selected, if it exists.
LEMMA SelectedOfURL ==
  ASSUME Selected # None, loc.vehicle # None PROVE Selected = loc.vehicle
  BY DEF Selected, SelectedId

\* setVehicleId(): bounds of a whole history are dropped, and so is the cursor.
LEMMA AddressForSound ==
  ASSUME HistoryInv, NEW v \in Vehicle PROVE Sound(AddressFor(v))
<1> DEFINE a == AddressFor(v)
<1>1. Sound(loc) BY LocSound
<1>2. /\ a.page = loc.page /\ a.record = loc.record /\ a.vehicle = v /\ a.cursor = None
      /\ a.preset = loc.preset /\ a.returns = FALSE
      /\ a.window = IF loc.preset = AllHistory THEN None ELSE loc.window
      /\ a \in Address
  BY <1>1 DEF Sound, Address, AddressFor
<1> QED BY <1>1, <1>2 DEF Sound, Fits, BoundsNamed

\* history-window: the bounds of a whole history are those of the car asked for.
LEMMA WindowOfShape ==
  ASSUME NEW v \in Vehicle, NEW p \in Preset
  PROVE  /\ WindowOf(v, p) \in Bounds \cup {None}
         /\ WindowOf(v, p) # None =>
              /\ WindowOf(v, p).of # None <=> p = AllHistory
              /\ WindowOf(v, p).of \in {v, None}
<1>1. CASE p # AllHistory
  <2>1. WindowOf(v, p) = [preset |-> p, of |-> None]
    BY <1>1 DEF WindowOf
  <2> QED BY <1>1, <2>1 DEF Bounds
<1>2. CASE p = AllHistory /\ v \in NoHistory
  BY <1>2 DEF WindowOf
<1>3. CASE p = AllHistory /\ v \notin NoHistory
  <2>1. WindowOf(v, p) = [preset |-> p, of |-> v]
    BY <1>3 DEF WindowOf
  <2> QED BY <1>3, <2>1, HistoryAssumption DEF Bounds
<1> QED BY <1>1, <1>2, <1>3

\* Bounds that the URL lacks are those of the car and the preset on show.
LEMMA ResolvedShape ==
  ASSUME HistoryInv, Selected \in Vehicle, loc.window = None, Resolved # None
  PROVE  /\ Resolved \in Bounds
         /\ Resolved.of \in {Selected, None}
         /\ Resolved.of # None <=> loc.preset = AllHistory
<1>1. loc \in Address
  BY LocSound DEF Sound
<1>2. /\ EffectivePreset \in Preset
      /\ EffectivePreset = AllHistory <=> loc.preset = AllHistory
  BY <1>1, HistoryAssumption DEF EffectivePreset, Address
<1>3. Resolved = WindowOf(Selected, EffectivePreset)
  BY DEF Resolved
<1> QED BY <1>2, <1>3, WindowOfShape

\* The effect that completes the URL names a car only where none was named, and so
\* leaves the bounds and the cursor beside the car they belong to.
LEMMA CanonicalSound ==
  ASSUME HistoryInv, Scoped PROVE Sound(Canonical)
<1> DEFINE a == Canonical
<1>1. loc \in Address /\ Fits(loc) /\ BoundsNamed(loc) /\ None \notin Bounds \cup Cursor
  BY LocSound, NoneAssumption DEF Sound
<1>2. Selected \in Vehicle /\ Selected # None /\ Resolved # None /\ None \notin Vehicle
  BY SelectedIsACar, HistoryAssumption DEF Scoped
<1>3. loc.window # None => Resolved = loc.window
  BY DEF Resolved
<1>4. Resolved \in Bounds
  BY <1>1, <1>2, <1>3, ResolvedShape DEF Address
<1>5. /\ a.page = loc.page /\ a.record = loc.record /\ a.vehicle = Selected
      /\ a.window = Resolved /\ a.preset = loc.preset /\ a.cursor = loc.cursor
      /\ a \in Address
  BY <1>1, <1>2, <1>4 DEF Address, Canonical
<1>6. loc.vehicle # None => Selected = loc.vehicle
  BY <1>2, SelectedOfURL
<1>7. /\ Resolved.of # None => Resolved.of = Selected
      /\ Resolved.of # None <=> loc.preset = AllHistory
  <2>1. CASE loc.window = None
    BY <2>1, <1>2, ResolvedShape
  <2>2. CASE loc.window # None
    <3>1. /\ Resolved.of # None => Resolved.of = loc.vehicle
          /\ Resolved.of # None <=> loc.preset = AllHistory
      BY <2>2, <1>1, <1>3 DEF Fits, BoundsNamed
    <3>2. Resolved.of # None => loc.vehicle # None
      BY <3>1
    <3> QED BY <3>1, <3>2, <1>6
  <2> QED BY <2>1, <2>2
<1>8. loc.cursor # None =>
        loc.cursor = [kind |-> loc.page, vehicle |-> Selected, window |-> Resolved]
  <2> SUFFICES ASSUME loc.cursor # None
      PROVE loc.cursor = [kind |-> loc.page, vehicle |-> Selected, window |-> Resolved]
    OBVIOUS
  <2>1. loc.cursor \in Cursor
    BY <1>1 DEF Address
  <2>2. loc.cursor = [kind |-> loc.page, vehicle |-> loc.vehicle, window |-> loc.window]
    BY <1>1 DEF Fits
  <2>3. loc.vehicle \in Vehicle /\ loc.window \in Bounds
    BY <2>1, <2>2 DEF Cursor
  <2> QED BY <2>2, <2>3, <1>1, <1>2, <1>3, <1>6
<1> HIDE DEF a
<1>9. Sound(a)
  BY <1>2, <1>5, <1>7, <1>8 DEF Sound, Fits, BoundsNamed
<1> QED BY <1>9 DEF a

\* setPreset(): what is applied stands without a cursor, and a whole history without bounds.
LEMMA RequestSound ==
  ASSUME NEW r \in Request PROVE Sound(Applied(r))
<1> DEFINE a == Applied(r)
<1>1. /\ r.vehicle \in Vehicle /\ r.preset \in Preset /\ r.from \in Address
  BY DEF Request
<1> DEFINE w == IF r.preset = AllHistory THEN None ELSE WindowOf(r.vehicle, r.preset)
<1>2. /\ w \in Bounds \cup {None}
      /\ w # None => w.of = None /\ r.preset # AllHistory
  BY <1>1, WindowOfShape
<1>3. a = [r.from EXCEPT !.vehicle = r.vehicle, !.preset = r.preset, !.cursor = None,
             !.window = w]
  BY DEF Applied
<1> HIDE DEF w
<1>4. /\ a \in Address /\ a.window = w /\ a.cursor = None /\ a.preset = r.preset
  BY <1>1, <1>2, <1>3 DEF Address
<1> HIDE DEF a
<1>5. Sound(a)
  BY <1>2, <1>4 DEF Sound, Fits, BoundsNamed
<1> QED BY <1>5 DEF a

\* So does what is waited for.
LEMMA AppliedSound ==
  ASSUME HistoryInv, pendingPreset # None PROVE Sound(Applied(pendingPreset))
<1>1. pendingPreset \in Request
  BY DEF HistoryInv, HistoryTypeOK
<1> QED BY <1>1, RequestSound

\* A bare link carries nothing that could be another car's.
LEMMA BareSound ==
  ASSUME NEW p \in Page, NEW r \in Record \cup {None} PROVE Sound(Bare(p, r))
<1>1. Bare(p, r) \in Address
  BY DEF Bare, Address
<1> QED BY <1>1 DEF Sound, Fits, BoundsNamed, Bare

\* After its effects a page shows the car and the window of the URL.
LEMMA ReadyScope ==
  ASSUME HistoryInv, Ready, Scoped
  PROVE  /\ loc.vehicle = Selected /\ loc.window = Resolved /\ Selected # None
         /\ Selected \in Vehicle /\ Resolved \in Bounds
<1>1. loc.vehicle = Selected /\ loc.window = Resolved
  BY DEF Ready, EffectsPending, CanonicalPending
<1>2. Selected \in Vehicle /\ Selected # None
  BY SelectedIsACar DEF Scoped
<1>3. loc.window \in Bounds
  BY <1>1, LocSound DEF Sound, Address, Scoped
<1> QED BY <1>1, <1>2, <1>3

\* historyPath(): a cursor is taken along only to the list it came from.
LEMMA HistoryPathSound ==
  ASSUME HistoryInv, Ready, NEW p \in Page, NEW r \in Record \cup {None}, NEW b \in BOOLEAN,
         b /\ loc.cursor # None => p = loc.page
  PROVE  Sound(HistoryPath(p, r, b))
<1> DEFINE a == HistoryPath(p, r, b)
<1>1. CASE ~Scoped
  BY <1>1, BareSound DEF HistoryPath
<1>2. CASE Scoped
  <2>1. /\ loc.vehicle = Selected /\ loc.window = Resolved /\ Selected # None
        /\ Selected \in Vehicle /\ Resolved \in Bounds
    BY <1>2, ReadyScope
  <2>2. loc \in Address /\ Fits(loc) /\ BoundsNamed(loc)
    BY LocSound DEF Sound
  <2> DEFINE c == IF b THEN loc.cursor ELSE None
  <2>3. c \in Cursor \cup {None} /\ (c # None => b /\ c = loc.cursor)
    BY <2>2 DEF Address
  <2>4. a = [Bare(p, r) EXCEPT !.vehicle = Selected, !.window = Resolved,
               !.preset = loc.preset, !.cursor = c]
    BY <1>2 DEF HistoryPath
  <2> HIDE DEF c
  <2>5. /\ a \in Address /\ a.page = p /\ a.vehicle = loc.vehicle /\ a.window = loc.window
        /\ a.preset = loc.preset /\ a.cursor = c
    BY <2>1, <2>2, <2>3, <2>4 DEF Address, Bare
  <2> HIDE DEF a
  <2>6. Sound(a)
    BY <2>2, <2>3, <2>5 DEF Sound, Fits, BoundsNamed
  <2> QED BY <2>6 DEF a
<1> QED BY <1>1, <1>2

\* An action preserves the invariant if all it does to the history is to visit or to put
\* in place a sound address, or to go to another entry.
LEMMA MoveSound ==
  ASSUME HistoryInv,
         online' \in BOOLEAN, remembered' \in Vehicle \cup {None},
         pendingPreset' \in Request \cup {None},
         \/ \E e : Sound(e) /\ (Push(e) \/ Replace(e))
         \/ entries' = entries /\ at' \in 1..Len(entries)
  PROVE  HistoryInv'
<1>1. /\ entries' \in Seq(Address) /\ Len(entries') <= MaxEntries
      /\ at' \in 1..Len(entries')
      /\ \A i \in 1..Len(entries') : Sound(entries'[i])
  <2>1. CASE \E e : Sound(e) /\ (Push(e) \/ Replace(e))
    BY <2>1, PushSound, ReplaceSound
  <2>2. CASE entries' = entries /\ at' \in 1..Len(entries)
    BY <2>2 DEF HistoryInv, HistoryTypeOK
  <2> QED BY <2>1, <2>2
<1> QED BY <1>1 DEF HistoryInv, HistoryTypeOK, Sound, Fits, BoundsNamed

\* A link to a sound address.
LEMMA VisitSound ==
  ASSUME HistoryInv, NEW e, Sound(e), Visit(e) PROVE HistoryInv'
<1>1. Push(e) /\ online' = online /\ remembered' = remembered /\ pendingPreset' = pendingPreset
  BY DEF Visit
<1> QED BY <1>1, MoveSound DEF HistoryInv, HistoryTypeOK

\* Back and forward.
LEMMA TravelSound ==
  ASSUME HistoryInv, NEW i, Travel(i) PROVE HistoryInv'
<1>1. /\ entries' = entries /\ at' \in 1..Len(entries)
      /\ online' = online /\ remembered' = remembered /\ pendingPreset' = pendingPreset
  BY DEF Travel
<1> QED BY <1>1, MoveSound DEF HistoryInv, HistoryTypeOK

\* An action that leaves the history alone.
LEMMA Stays ==
  ASSUME HistoryInv, UNCHANGED <<entries, at>>,
         online' \in BOOLEAN, remembered' \in Vehicle \cup {None},
         pendingPreset' \in Request \cup {None}
  PROVE  HistoryInv'
<1>1. at' \in 1..Len(entries)
  BY DEF HistoryInv, HistoryTypeOK
<1> QED BY <1>1, MoveSound

\* The effects of a render.
LEMMA EffectsSound == ASSUME HistoryInv, Effects PROVE HistoryInv'
<1>0. Sound(loc)
  BY LocSound
<1>1. OwnPending => Owner \in Vehicle
  BY <1>0, HistoryAssumption DEF OwnPending, DetailShown, OnDetail, Owner, Sound, Address
<1>2. RememberPending => Selected \in Vehicle
  BY SelectedIsACar DEF RememberPending
<1>3. remembered' \in Vehicle \cup {None}
  BY <1>1, <1>2 DEF Effects, HistoryInv, HistoryTypeOK
<1>4. online' \in BOOLEAN /\ pendingPreset' \in Request \cup {None}
  BY DEF Effects, HistoryInv, HistoryTypeOK
<1> DEFINE e == IF CanonicalPending THEN Canonical
                ELSE IF OwnPending THEN AddressFor(Owner) ELSE loc
<1>5. Sound(e)
  <2>1. CASE CanonicalPending
    BY <2>1, CanonicalSound DEF CanonicalPending
  <2>2. CASE ~CanonicalPending /\ OwnPending
    BY <2>2, <1>1, AddressForSound
  <2>3. CASE ~CanonicalPending /\ ~OwnPending
    BY <2>3, <1>0
  <2> QED BY <2>1, <2>2, <2>3
<1>6. Replace(e)
  BY DEF Effects
<1> HIDE DEF e
<1> QED BY <1>3, <1>4, <1>5, <1>6, MoveSound

\* The choice of a car.
LEMMA SelectVehicleSound == ASSUME HistoryInv, NEW v \in Vehicle, SelectVehicle(v) PROVE HistoryInv'
<1>1. Sound(AddressFor(v))
  BY AddressForSound
<1>2. /\ Push(AddressFor(v)) /\ online' = online /\ remembered' = v /\ pendingPreset' = None
  BY DEF SelectVehicle
<1> QED BY <1>1, <1>2, MoveSound DEF HistoryInv, HistoryTypeOK

\* The request for a preset.
LEMMA StartPresetSound == ASSUME HistoryInv, NEW p \in Preset, StartPreset(p) PROVE HistoryInv'
<1>1. Selected \in Vehicle /\ loc \in Address
  BY SelectedIsACar, LocSound DEF StartPreset, Sound
<1>2. pendingPreset' \in Request
  BY <1>1 DEF StartPreset, Request
<1> QED BY <1>2, Stays DEF StartPreset, HistoryInv, HistoryTypeOK

\* Its answer.
LEMMA PresetAnswerSound == ASSUME HistoryInv, PresetAnswer PROVE HistoryInv'
<1>1. /\ pendingPreset # None /\ pendingPreset' = None
      /\ online' = online /\ remembered' = remembered
      /\ Push(Applied(pendingPreset)) \/ UNCHANGED <<entries, at>>
  BY DEF PresetAnswer
<1>2. Sound(Applied(pendingPreset))
  BY <1>1, AppliedSound
<1>3. CASE Push(Applied(pendingPreset))
  BY <1>1, <1>2, <1>3, MoveSound DEF HistoryInv, HistoryTypeOK
<1>4. CASE UNCHANGED <<entries, at>>
  BY <1>1, <1>4, Stays DEF HistoryInv, HistoryTypeOK
<1> QED BY <1>1, <1>3, <1>4

\* The link to a record keeps the cursor of the list it stands in.
LEMMA OpenRecordPath ==
  ASSUME HistoryInv, NEW r \in Record, OpenRecord(r)
  PROVE  Sound(HistoryPath(KindOf[r], r, TRUE))
<1>1. KindOf[r] \in Kind /\ KindOf[r] \in Page
  BY HistoryAssumption
<1>2. Ready /\ (loc.page = KindOf[r] \/ loc.page = "overview")
  BY DEF OpenRecord, Visit
<1>3. loc.cursor # None => loc.page \in Kind
  BY LocSound DEF Sound, Fits, Address, Cursor
<1>4. loc.cursor # None => KindOf[r] = loc.page
  BY <1>2, <1>3 DEF Kind
<1> QED BY <1>1, <1>2, <1>4, HistoryPathSound

\* A record is opened.
LEMMA OpenRecordSound ==
  ASSUME HistoryInv, NEW r \in Record, OpenRecord(r) PROVE HistoryInv'
<1> DEFINE h == HistoryPath(KindOf[r], r, TRUE)
           e == [h EXCEPT !.returns = TRUE]
<1>1. Visit(e)
  BY DEF OpenRecord
<1>2. Sound(h)
  BY OpenRecordPath
<1> HIDE DEF h
<1>3. Sound(e)
  BY <1>2 DEF Sound, Fits, BoundsNamed, Address
<1> HIDE DEF e
<1> QED BY <1>1, <1>3, VisitSound

\* The links of the shell.
LEMMA FollowSound == ASSUME HistoryInv, NEW p \in Page, Follow(p) PROVE HistoryInv'
<1>1. Ready
  BY DEF Follow, Visit
<1>2. Sound(Bare(p, None)) /\ Sound(HistoryPath(p, None, FALSE))
  BY <1>1, BareSound, HistoryPathSound
<1> QED BY <1>2, VisitSound DEF Follow

\* The cursor of the next page is of the list on show.
LEMMA NextPageSound ==
  ASSUME HistoryInv, NextPage
  PROVE  Sound([loc EXCEPT
           !.cursor = [kind |-> loc.page, vehicle |-> Selected, window |-> Resolved]])
<1> DEFINE c == [kind |-> loc.page, vehicle |-> Selected, window |-> Resolved]
           e == [loc EXCEPT !.cursor = c]
<1>1. loc \in Address /\ Fits(loc) /\ BoundsNamed(loc)
  BY LocSound DEF Sound
<1>2. Ready /\ Scoped /\ loc.page \in Kind
  BY DEF NextPage, Visit, OnList
<1>3. /\ loc.vehicle = Selected /\ loc.window = Resolved
      /\ Selected \in Vehicle /\ Resolved \in Bounds
  BY <1>2, ReadyScope
<1>4. /\ c \in Cursor
      /\ c = [kind |-> loc.page, vehicle |-> loc.vehicle, window |-> loc.window]
  BY <1>2, <1>3 DEF Cursor
<1> HIDE DEF c
<1>5. /\ e \in Address /\ e.page = loc.page /\ e.vehicle = loc.vehicle
      /\ e.window = loc.window /\ e.preset = loc.preset /\ e.cursor = c
  BY <1>1, <1>4 DEF Address
<1> HIDE DEF e
<1>6. Sound(e)
  BY <1>1, <1>4, <1>5 DEF Sound, Fits, BoundsNamed
<1> QED BY <1>6 DEF e, c

\* The first page has no cursor.
LEMMA PreviousPageSound ==
  ASSUME HistoryInv PROVE Sound([loc EXCEPT !.cursor = None])
<1> DEFINE e == [loc EXCEPT !.cursor = None]
<1>1. loc \in Address /\ Fits(loc) /\ BoundsNamed(loc)
  BY LocSound DEF Sound
<1>2. /\ e \in Address /\ e.vehicle = loc.vehicle
      /\ e.window = loc.window /\ e.preset = loc.preset /\ e.cursor = None
  BY <1>1 DEF Address
<1> HIDE DEF e
<1>3. Sound(e)
  BY <1>1, <1>2 DEF Sound, Fits, BoundsNamed
<1> QED BY <1>3 DEF e

\* The pages of a list.
LEMMA PageCursorSound ==
  ASSUME HistoryInv, NextPage \/ PreviousPage PROVE HistoryInv'
<1>1. CASE NextPage
  BY <1>1, NextPageSound, VisitSound DEF NextPage
<1>2. CASE PreviousPage
  BY <1>2, PreviousPageSound, VisitSound DEF PreviousPage
<1> QED BY <1>1, <1>2

\* The button of a detail.
LEMMA BackToListSound == ASSUME HistoryInv, BackToList PROVE HistoryInv'
<1>1. CASE loc.returns
  BY <1>1, TravelSound DEF BackToList
<1>2. CASE ~loc.returns
  <2>1. Visit(HistoryPath(loc.page, None, TRUE)) /\ Ready
    BY <1>2 DEF BackToList, Visit
  <2>2. loc.page \in Page
    BY LocSound DEF Sound, Address
  <2>3. Sound(HistoryPath(loc.page, None, TRUE))
    BY <2>1, <2>2, HistoryPathSound
  <2> QED BY <2>1, <2>3, VisitSound
<1> QED BY <1>1, <1>2

\* Every action of History.
LEMMA InvPreserved ==
  ASSUME HistoryInv, [Next]_vars PROVE HistoryInv'
<1> USE DEF HistoryInv, HistoryTypeOK
<1>1. CASE Effects
  BY <1>1, EffectsSound
<1>2. CASE AnswerStep \/ PresetFailure
  BY <1>2, Stays DEF AnswerStep, Answer, PresetFailure
<1>3. CASE PresetAnswer
  BY <1>3, PresetAnswerSound
<1>4. CASE \E v \in Vehicle : SelectVehicle(v)
  BY <1>4, SelectVehicleSound
<1>5. CASE \E p \in Preset : StartPreset(p)
  BY <1>5, StartPresetSound
<1>6. CASE CancelPreset \/ Reload \/ GoOffline \/ GoOnline
  BY <1>6, Stays DEF CancelPreset, Reload, GoOffline, GoOnline
<1>7. CASE \E page \in Page : Follow(page)
  BY <1>7, FollowSound
<1>8. CASE \E r \in Record : OpenRecord(r)
  BY <1>8, OpenRecordSound
<1>9. CASE NextPage \/ PreviousPage
  BY <1>9, PageCursorSound
<1>10. CASE BackToList
  BY <1>10, BackToListSound
<1>11. CASE Travel(at - 1) \/ Travel(at + 1)
  BY <1>11, TravelSound
<1>12. CASE UNCHANGED vars
  BY <1>12, Stays DEF vars
<1> QED
  BY <1>1, <1>2, <1>3, <1>4, <1>5, <1>6, <1>7, <1>8, <1>9, <1>10, <1>11, <1>12
     DEF Next, UserStep, PageStep

\* The browser is opened at a link these pages made, or at a bare one.
LEMMA InvStart == Init => HistoryInv
<1> SUFFICES ASSUME Init PROVE HistoryInv
  OBVIOUS
<1>1. PICK e \in Start : entries = <<e>>
  BY DEF Init
<1>2. Sound(e)
  BY StartAssumption DEF Sound
<1>3. entries \in Seq(Address) /\ Len(entries) = 1 /\ entries[1] = e
  BY <1>1, <1>2 DEF Sound
<1> QED BY <1>2, <1>3, MaxEntriesNat DEF Init, HistoryInv, HistoryTypeOK

\* The history of the browser holds addresses, and the page on show is one of them.
THEOREM HistoryType == Spec => []HistoryTypeOK
<1>1. Init => HistoryInv
  BY InvStart
<1>2. HistoryInv /\ [Next]_vars => HistoryInv'
  BY InvPreserved
<1>3. HistoryInv => HistoryTypeOK
  BY DEF HistoryInv
<1> QED
  BY <1>1, <1>2, <1>3, PTL DEF Spec

\* "For a vehicle change, re-resolve an All history preset for the new vehicle"
\* (M1.md:78): no address shows a car in the bounds of another's whole history or carries
\* the cursor of another list, wherever the user goes and whatever is answered late.
THEOREM HistoryAddressesFit == Spec => []AddressesFit
<1>1. Init => HistoryInv
  BY InvStart
<1>2. HistoryInv /\ [Next]_vars => HistoryInv'
  BY InvPreserved
<1>3. HistoryInv => AddressesFit
  BY DEF HistoryInv, AddressesFit, Sound
<1> QED
  BY <1>1, <1>2, <1>3, PTL DEF Spec

-----------------------------------------------------------------------------
(* History implements Selection: every step of the pages is one of its     *)
(* steps on the scopes of the addresses, or changes none of them.          *)

\* The stack of Selection.
Stack == [i \in 1..Len(entries) |-> ScopeOf(entries[i])]

\* The period of a sound address: the whole history of its car, or the bounds it carries.
LEMMA PeriodShape ==
  ASSUME NEW e, Sound(e)
  PROVE  /\ PeriodOf(e) = IF e.preset = AllHistory THEN AllHistory ELSE e.window
         /\ PeriodOf(e) \in Bounds \cup {AllHistory, None}
<1>1. /\ e.window \in Bounds \cup {None}
      /\ e.window # None /\ e.window.of # None => e.window.of = e.vehicle
      /\ e.window # None => (e.window.of # None <=> e.preset = AllHistory)
  BY DEF Sound, Address, Fits, BoundsNamed
<1> QED BY <1>1 DEF PeriodOf

\* A sound address names a scope of Selection.
LEMMA ScopeShape ==
  ASSUME NEW e, Sound(e)
  PROVE  /\ ScopeOf(e) \in S!Scope
         /\ ScopeOf(e).car = e.vehicle /\ ScopeOf(e).period = PeriodOf(e)
<1>1. e.vehicle \in Vehicle \cup {Unknown, None}
  BY DEF Sound, Address
<1> QED BY <1>1, PeriodShape DEF ScopeOf, S!Scope

\* Page, record and cursor are no part of a scope.
LEMMA SameScope ==
  ASSUME NEW e, Sound(e), NEW f, Sound(f),
         e.vehicle = f.vehicle, e.preset = f.preset, e.window = f.window
  PROVE  ScopeOf(e) = ScopeOf(f)
  BY PeriodShape DEF ScopeOf

\* navigate() pushes the scope of the new address.
LEMMA PushBar ==
  ASSUME HistoryInv, NEW e, Sound(e), Push(e) PROVE S!Push(ScopeOf(e))
<1> DEFINE longer == Append(SubSeq(entries, 1, at), e)
           slonger == Append(SubSeq(Stack, 1, at), ScopeOf(e))
<1>1. /\ entries \in Seq(Address) /\ at \in 1..Len(entries) /\ Len(entries) <= MaxEntries
      /\ e \in Address /\ MaxEntries \in Nat /\ MaxEntries >= 1
  BY MaxEntriesNat DEF HistoryInv, HistoryTypeOK, Sound
<1>2. /\ longer \in Seq(Address) /\ Len(longer) = at + 1
      /\ \A i \in 1..at : longer[i] = entries[i]
      /\ longer[at + 1] = e
  BY <1>1
<1> DEFINE V == S!Scope
<1>3. Stack \in Seq(V) /\ Len(Stack) = Len(entries)
  <2>1. \A i \in 1..Len(entries) : ScopeOf(entries[i]) \in V
    BY ScopeShape DEF HistoryInv
  <2>2. Len(entries) \in Nat
    BY <1>1
  <2> HIDE DEF V
  <2>3. Stack \in [1..Len(entries) -> V]
    BY <2>1 DEF Stack
  <2>4. Stack \in Seq(V)
    BY <2>2, <2>3
  <2> QED BY <2>2, <2>3, <2>4
<1>4. ScopeOf(e) \in V
  BY ScopeShape
<1>5. \A i \in 1..Len(entries) : Stack[i] = ScopeOf(entries[i])
  BY DEF Stack
<1> HIDE DEF V
<1>6. /\ slonger \in Seq(V) /\ Len(slonger) = at + 1
      /\ \A i \in 1..at : slonger[i] = Stack[i]
      /\ slonger[at + 1] = ScopeOf(e)
  BY <1>1, <1>3, <1>4
<1>7. \A i \in 1..(at + 1) : slonger[i] = ScopeOf(longer[i])
  <2> HIDE DEF longer, slonger
  <2> SUFFICES ASSUME NEW i \in 1..(at + 1) PROVE slonger[i] = ScopeOf(longer[i])
    OBVIOUS
  <2>1. CASE i = at + 1
    BY <2>1, <1>2, <1>6
  <2>2. CASE i # at + 1
    <3>1. i \in 1..at /\ i \in 1..Len(entries)
      BY <2>2, <1>1
    <3> QED BY <3>1, <1>2, <1>5, <1>6
  <2> QED BY <2>1, <2>2
<1>8. /\ entries' = IF Len(longer) > MaxEntries THEN Tail(longer) ELSE longer
      /\ at' = Len(entries')
  BY DEF Push
<1>9. S!Newest(slonger) = IF Len(slonger) > MaxEntries THEN Tail(slonger) ELSE slonger
  BY DEF S!Newest
<1> HIDE DEF longer, slonger
<1>10. Stack' = S!Newest(slonger) /\ Len(Stack') = Len(entries')
  <2>0. Stack' = [i \in 1..Len(entries') |-> ScopeOf(entries'[i])]
    BY DEF Stack, ScopeOf, PeriodOf
  <2>1. CASE Len(longer) > MaxEntries
    <3>1. /\ Len(entries') = at /\ \A i \in 1..at : entries'[i] = longer[i + 1]
      BY <2>1, <1>1, <1>2, <1>8
    <3>2. Tail(slonger) = [i \in 1..at |-> slonger[i + 1]]
      <4> DEFINE t == Tail(slonger)
      <4>1. /\ t \in Seq(V) /\ Len(t) = at
            /\ \A i \in 1..at : t[i] = slonger[i + 1]
        BY <1>1, <1>6
      <4> HIDE DEF t
      <4>2. t = [i \in 1..at |-> t[i]]
        BY <1>1, <4>1
      <4>3. [i \in 1..at |-> t[i]] = [i \in 1..at |-> slonger[i + 1]]
        BY <4>1
      <4>4. t = [i \in 1..at |-> slonger[i + 1]]
        BY <4>2, <4>3, Zenon
      <4> QED BY <4>4 DEF t
    <3>3. Stack' = [i \in 1..at |-> ScopeOf(entries'[i])]
      BY <2>0, <3>1
    <3>4. \A i \in 1..at : ScopeOf(entries'[i]) = slonger[i + 1]
      <4> SUFFICES ASSUME NEW i \in 1..at PROVE ScopeOf(entries'[i]) = slonger[i + 1]
        OBVIOUS
      <4>1. i + 1 \in 1..(at + 1)
        BY <1>1
      <4> QED BY <4>1, <3>1, <1>7
    <3>5. Stack' = Tail(slonger)
      BY <3>2, <3>3, <3>4
    <3>6. Len(Tail(slonger)) = at
      BY <1>1, <1>6
    <3> QED BY <3>1, <3>5, <3>6, <2>1, <1>2, <1>6, <1>9
  <2>2. CASE ~(Len(longer) > MaxEntries)
    <3>1. entries' = longer /\ Len(entries') = at + 1
      BY <2>2, <1>2, <1>8
    <3>2. slonger = [i \in 1..(at + 1) |-> slonger[i]]
      BY <1>1, <1>6
    <3>3. Stack' = [i \in 1..(at + 1) |-> slonger[i]]
      BY <2>0, <3>1, <1>7
    <3> QED BY <3>1, <3>2, <3>3, <2>2, <1>2, <1>6, <1>9
  <2> QED BY <2>1, <2>2
<1>11. Stack' = S!Newest(Append(SubSeq(Stack, 1, at), ScopeOf(e))) /\ at' = Len(Stack')
  BY <1>8, <1>10 DEF slonger
<1> QED BY <1>11 DEF S!Push, Stack

\* navigate() with replace puts it in the place of the one on show.
LEMMA ReplaceBar ==
  ASSUME HistoryInv, NEW e, Sound(e), Replace(e) PROVE S!Put(ScopeOf(e))
<1>1. entries \in Seq(Address) /\ at \in 1..Len(entries)
  BY DEF HistoryInv, HistoryTypeOK
<1>2. /\ Len(entries') = Len(entries) /\ at' = at
      /\ \A i \in 1..Len(entries) : entries'[i] = IF i = at THEN e ELSE entries[i]
  BY <1>1 DEF Replace
<1>3. Stack' = [i \in 1..Len(entries') |-> ScopeOf(entries'[i])]
  BY DEF Stack, ScopeOf, PeriodOf
<1>4. Stack' = [i \in 1..Len(entries) |-> IF i = at THEN ScopeOf(e) ELSE ScopeOf(entries[i])]
  BY <1>2, <1>3
<1>5. [Stack EXCEPT ![at] = ScopeOf(e)]
        = [i \in 1..Len(entries) |-> IF i = at THEN ScopeOf(e) ELSE ScopeOf(entries[i])]
  BY DEF Stack
<1>6. Stack' = [Stack EXCEPT ![at] = ScopeOf(e)] /\ UNCHANGED at
  BY <1>2, <1>4, <1>5
<1> QED BY <1>6 DEF S!Put, Stack

\* The steps of Selection, from the scope on show.
LEMMA NextIf ==
  ASSUME HistoryInv,
         \/ \E scope \in {ScopeOf(loc), S!Blank} : S!Enter(scope)
         \/ S!Establish(ScopeOf(loc))
         \/ \E c \in Vehicle : S!Reveal(c, ScopeOf(loc)) \/ S!Choose(c, ScopeOf(loc))
         \/ \E p \in Bounds \cup {AllHistory} : S!Ask(p, ScopeOf(loc))
         \/ S!Grant(ScopeOf(loc)) \/ S!Drop
         \/ \E i \in {at - 1, at + 1} : S!Travel(i)
  PROVE  S!Next
<1>1. at \in 1..Len(entries)
  BY DEF HistoryInv, HistoryTypeOK
<1>2. Stack[at] = ScopeOf(loc)
  BY <1>1 DEF Stack, loc
<1> QED BY <1>2 DEF S!Next, Stack

\* What is waited for does not depend on what is on show.
LEMMA WishStays == pendingPreset' = pendingPreset => Wish' = Wish
  BY DEF Wish, PeriodOf, ScopeOf, Applied, WindowOf

\* A preset that is forgotten is no wish.
LEMMA WishEnds == pendingPreset' = None => Wish' = S!NoWish
  BY DEF Wish, S!NoWish

\* The history is left alone, and so is the stack.
LEMMA StackStays ==
  UNCHANGED <<entries, at>> => UNCHANGED <<Stack, at>>
  BY DEF Stack, ScopeOf, PeriodOf

\* A preset that failed, was cancelled, came too late or was lost with the connection.
LEMMA DropStep ==
  ASSUME HistoryInv, UNCHANGED <<entries, at>>, pendingPreset' = None PROVE S!Next
<1>1. S!Drop
  BY StackStays, WishEnds DEF S!Drop, Stack
<1> QED BY <1>1, NextIf

\* Answers and the connection change no selection.
LEMMA Stutter ==
  ASSUME UNCHANGED <<entries, at, pendingPreset>> PROVE UNCHANGED S!selection
  BY StackStays, WishStays DEF S!selection, Stack

\* Back and forward.
LEMMA TravelStep ==
  ASSUME HistoryInv, NEW i \in {at - 1, at + 1}, Travel(i) PROVE S!Next
<1>1. entries' = entries /\ i \in 1..Len(entries) /\ at' = i /\ pendingPreset' = pendingPreset
  BY DEF Travel
<1>2. Stack' = Stack /\ Len(Stack) = Len(entries)
  <2>1. Stack' = Stack
    BY <1>1 DEF Stack, ScopeOf, PeriodOf
  <2>2. Len(entries) \in Nat
    BY DEF HistoryInv, HistoryTypeOK
  <2>3. Len(Stack) = Len(entries)
    BY <2>2 DEF Stack
  <2> QED BY <2>1, <2>3
<1>3. S!Travel(i)
  BY <1>1, <1>2, WishStays DEF S!Travel, Stack
<1> QED BY <1>3, NextIf

\* A link keeps the scope on show, or drops all of it.
LEMMA VisitStep ==
  ASSUME HistoryInv, NEW e, Sound(e), Visit(e),
         ScopeOf(e) \in {ScopeOf(loc), S!Blank}
  PROVE  S!Next
<1>1. Push(e) /\ pendingPreset' = pendingPreset
  BY DEF Visit
<1>2. S!Enter(ScopeOf(e))
  BY <1>1, PushBar, WishStays DEF S!Enter
<1> QED BY <1>2, NextIf

\* A bare link has nothing selected.
LEMMA BareBar ==
  ASSUME NEW p, NEW r PROVE ScopeOf(Bare(p, r)) = S!Blank
<1>1. None # AllHistory
  BY HistoryAssumption
<1> QED BY <1>1 DEF ScopeOf, Bare, PeriodOf, S!Blank

\* historyPath() keeps the scope on show, or has none to keep.
LEMMA PathBar ==
  ASSUME HistoryInv, Ready, NEW p \in Page, NEW r \in Record \cup {None}, NEW b \in BOOLEAN
  PROVE  ScopeOf(HistoryPath(p, r, b)) \in {ScopeOf(loc), S!Blank}
<1>1. CASE ~Scoped
  BY <1>1, BareBar DEF HistoryPath
<1>2. CASE Scoped
  <2>1. /\ loc.vehicle = Selected /\ loc.window = Resolved
    BY <1>2, ReadyScope
  <2> DEFINE c == IF b THEN loc.cursor ELSE None
  <2>2. HistoryPath(p, r, b) =
          [Bare(p, r) EXCEPT !.vehicle = Selected, !.window = Resolved,
             !.preset = loc.preset, !.cursor = c]
    BY <1>2 DEF HistoryPath
  <2> HIDE DEF c
  <2> DEFINE h == HistoryPath(p, r, b)
  <2>3. h.vehicle = loc.vehicle /\ h.window = loc.window /\ h.preset = loc.preset
    BY <2>1, <2>2 DEF Bare
  <2> HIDE DEF h
  <2>4. ScopeOf(h) = ScopeOf(loc)
    BY <2>3 DEF ScopeOf, PeriodOf
  <2> QED BY <2>4 DEF h
<1> QED BY <1>1, <1>2

\* The links of the shell.
LEMMA FollowStep == ASSUME HistoryInv, NEW p \in Page, Follow(p) PROVE S!Next
<1>1. Ready
  BY DEF Follow, Visit
<1>2. /\ Sound(Bare(p, None)) /\ Sound(HistoryPath(p, None, FALSE))
      /\ ScopeOf(Bare(p, None)) = S!Blank
      /\ ScopeOf(HistoryPath(p, None, FALSE)) \in {ScopeOf(loc), S!Blank}
  BY <1>1, BareSound, HistoryPathSound, BareBar, PathBar
<1> QED BY <1>2, VisitStep DEF Follow

\* The link to a record.
LEMMA OpenRecordStep == ASSUME HistoryInv, NEW r \in Record, OpenRecord(r) PROVE S!Next
<1> DEFINE h == HistoryPath(KindOf[r], r, TRUE)
           e == [h EXCEPT !.returns = TRUE]
<1>1. KindOf[r] \in Page
  BY HistoryAssumption
<1>2. Visit(e) /\ Ready
  BY DEF OpenRecord, Visit
<1>3. Sound(h)
  BY OpenRecordPath
<1>4. ScopeOf(h) \in {ScopeOf(loc), S!Blank}
  BY <1>1, <1>2, PathBar
<1> HIDE DEF h
<1>5. /\ Sound(e) /\ e.vehicle = h.vehicle /\ e.preset = h.preset /\ e.window = h.window
  BY <1>3 DEF Sound, Fits, BoundsNamed, Address
<1> HIDE DEF e
<1>6. ScopeOf(e) = ScopeOf(h)
  BY <1>3, <1>5, SameScope
<1> QED BY <1>2, <1>4, <1>5, <1>6, VisitStep

\* The pages of a list.
LEMMA CursorStep == ASSUME HistoryInv, NextPage \/ PreviousPage PROVE S!Next
<1>1. Sound(loc)
  BY LocSound
<1>2. PICK e : Visit(e) /\ Sound(e) /\ ScopeOf(e) = ScopeOf(loc)
  <2>1. CASE NextPage
    <3> DEFINE c == [kind |-> loc.page, vehicle |-> Selected, window |-> Resolved]
               e == [loc EXCEPT !.cursor = c]
    <3>1. Visit(e) /\ Sound(e)
      BY <2>1, NextPageSound DEF NextPage
    <3> HIDE DEF c
    <3>2. e.vehicle = loc.vehicle /\ e.preset = loc.preset /\ e.window = loc.window
      BY <1>1 DEF Sound, Address
    <3> HIDE DEF e
    <3> QED BY <1>1, <3>1, <3>2, SameScope
  <2>2. CASE PreviousPage
    <3> DEFINE e == [loc EXCEPT !.cursor = None]
    <3>1. Visit(e) /\ Sound(e)
      BY <2>2, PreviousPageSound DEF PreviousPage
    <3>2. e.vehicle = loc.vehicle /\ e.preset = loc.preset /\ e.window = loc.window
      BY <1>1 DEF Sound, Address
    <3> HIDE DEF e
    <3> QED BY <1>1, <3>1, <3>2, SameScope
  <2> QED BY <2>1, <2>2
<1> QED BY <1>2, VisitStep

\* The button of a detail.
LEMMA BackToListStep == ASSUME HistoryInv, BackToList PROVE S!Next
<1>1. CASE loc.returns
  BY <1>1, TravelStep DEF BackToList
<1>2. CASE ~loc.returns
  <2>1. Visit(HistoryPath(loc.page, None, TRUE)) /\ Ready
    BY <1>2 DEF BackToList, Visit
  <2>2. loc.page \in Page
    BY LocSound DEF Sound, Address
  <2>3. /\ Sound(HistoryPath(loc.page, None, TRUE))
        /\ ScopeOf(HistoryPath(loc.page, None, TRUE)) \in {ScopeOf(loc), S!Blank}
    BY <2>1, <2>2, HistoryPathSound, PathBar
  <2> QED BY <2>1, <2>3, VisitStep
<1> QED BY <1>1, <1>2

\* setVehicleId() changes the car and keeps the period.
LEMMA AddressForBar ==
  ASSUME HistoryInv, NEW v \in Vehicle
  PROVE  ScopeOf(AddressFor(v)) = [ScopeOf(loc) EXCEPT !.car = v]
<1> DEFINE a == AddressFor(v)
<1>1. Sound(loc) /\ Sound(a)
  BY LocSound, AddressForSound
<1>2. /\ a.vehicle = v /\ a.preset = loc.preset
      /\ a.window = IF loc.preset = AllHistory THEN None ELSE loc.window
  BY <1>1 DEF Sound, Address, AddressFor
<1> HIDE DEF a
<1>3. PeriodOf(a) = PeriodOf(loc)
  BY <1>1, <1>2, PeriodShape
<1>4. ScopeOf(a) = [car |-> v, period |-> PeriodOf(loc)]
  BY <1>2, <1>3 DEF ScopeOf
<1>5. ScopeOf(loc) = [car |-> loc.vehicle, period |-> PeriodOf(loc)]
  BY DEF ScopeOf
<1>6. [ScopeOf(loc) EXCEPT !.car = v] = [car |-> v, period |-> PeriodOf(loc)]
  BY <1>5
<1> QED BY <1>4, <1>6 DEF a

\* The choice of a car.
LEMMA SelectVehicleStep ==
  ASSUME HistoryInv, NEW v \in Vehicle, SelectVehicle(v) PROVE S!Next
<1>1. Push(AddressFor(v)) /\ pendingPreset' = None
  BY DEF SelectVehicle
<1>2. S!Push(ScopeOf(AddressFor(v)))
  BY <1>1, AddressForSound, PushBar
<1>3. S!Choose(v, ScopeOf(loc))
  BY <1>1, <1>2, AddressForBar, WishEnds DEF S!Choose
<1> QED BY <1>3, NextIf

\* What is applied is the period asked for, of the car it was asked for.
LEMMA AppliedBar ==
  ASSUME NEW r \in Request, Sound(Applied(r))
  PROVE  /\ PeriodOf(Applied(r)) \in Bounds \cup {AllHistory}
         /\ ScopeOf(Applied(r)) = [car |-> r.vehicle, period |-> PeriodOf(Applied(r))]
<1> DEFINE a == Applied(r)
           w == IF r.preset = AllHistory THEN None ELSE WindowOf(r.vehicle, r.preset)
<1>1. /\ r.vehicle \in Vehicle /\ r.preset \in Preset /\ r.from \in Address
  BY DEF Request
<1>2. r.preset # AllHistory => w = [preset |-> r.preset, of |-> None]
  BY DEF WindowOf
<1>3. r.preset # AllHistory => w \in Bounds
  BY <1>1, <1>2 DEF Bounds
<1>4. a = [r.from EXCEPT !.vehicle = r.vehicle, !.preset = r.preset, !.cursor = None,
             !.window = w]
  BY DEF Applied
<1> HIDE DEF w
<1>5. a.vehicle = r.vehicle /\ a.preset = r.preset /\ a.window = w
  BY <1>1, <1>4 DEF Address
<1> HIDE DEF a
<1>6. PeriodOf(a) = IF a.preset = AllHistory THEN AllHistory ELSE a.window
  BY PeriodShape DEF a
<1>7. /\ PeriodOf(a) \in Bounds \cup {AllHistory}
      /\ ScopeOf(a) = [car |-> r.vehicle, period |-> PeriodOf(a)]
  BY <1>3, <1>5, <1>6 DEF ScopeOf
<1> QED BY <1>7 DEF a

\* A period is asked for, for the scope on show.
LEMMA StartPresetStep ==
  ASSUME HistoryInv, NEW p \in Preset, StartPreset(p) PROVE S!Next
<1> DEFINE r == [vehicle |-> Selected, preset |-> p, from |-> loc]
<1>1. /\ pendingPreset' = r /\ UNCHANGED <<entries, at>>
      /\ Selected \in Vehicle /\ loc \in Address
  BY SelectedIsACar, LocSound DEF StartPreset, Sound
<1>2. r \in Request /\ r.from = loc /\ r # None
  BY <1>1, NoneAssumption DEF Request
<1> HIDE DEF r
<1>3. Sound(Applied(r))
  BY <1>2, RequestSound
<1>4. PeriodOf(Applied(r)) \in Bounds \cup {AllHistory}
  BY <1>2, <1>3, AppliedBar
<1>5. Wish' = [asked |-> PeriodOf(Applied(r)), for |-> ScopeOf(loc)]
  BY <1>1, <1>2 DEF Wish, PeriodOf, ScopeOf, Applied, WindowOf
<1>6. S!Ask(PeriodOf(Applied(r)), ScopeOf(loc))
  BY <1>1, <1>5, StackStays DEF S!Ask, Stack
<1> QED BY <1>4, <1>6, NextIf

\* setPreset() after its await: the answer counts for what it was asked for, or not at all.
LEMMA PresetAnswerStep == ASSUME HistoryInv, PresetAnswer PROVE S!Next
<1> DEFINE r == pendingPreset
<1>1. /\ r # None /\ r \in Request /\ pendingPreset' = None
  BY DEF PresetAnswer, HistoryInv, HistoryTypeOK
<1>2. CASE Selected = r.vehicle /\ loc = r.from
  <2>1. Push(Applied(r)) /\ Sound(Applied(r))
    BY <1>1, <1>2, AppliedSound DEF PresetAnswer
  <2>2. S!Push(ScopeOf(Applied(r)))
    BY <2>1, PushBar
  <2>3. /\ PeriodOf(Applied(r)) \in Bounds \cup {AllHistory}
        /\ ScopeOf(Applied(r)) = [car |-> r.vehicle, period |-> PeriodOf(Applied(r))]
    BY <1>1, <2>1, AppliedBar
  <2>4. Wish = [asked |-> PeriodOf(Applied(r)), for |-> ScopeOf(loc)]
    BY <1>1, <1>2 DEF Wish
  <2>5. None \notin Bounds \cup {AllHistory}
    BY NoneAssumption, HistoryAssumption
  <2>6. Wish # S!NoWish /\ Wish.for = ScopeOf(loc) /\ Wish.asked = PeriodOf(Applied(r))
    BY <2>3, <2>4, <2>5 DEF S!NoWish
  <2>7. r.vehicle \in S!Filled(ScopeOf(loc).car, Vehicle \cup {Unknown})
    <3>1. r.vehicle \in Vehicle /\ Selected # None
      BY <1>1, <1>2, HistoryAssumption DEF Request
    <3>2. loc.vehicle # None => r.vehicle = loc.vehicle
      BY <3>1, <1>2, SelectedOfURL
    <3>3. ScopeOf(loc).car = loc.vehicle
      BY DEF ScopeOf
    <3> QED BY <3>1, <3>2, <3>3 DEF S!Filled
  <2>8. S!Push([car |-> r.vehicle, period |-> Wish.asked])
    BY <2>2, <2>3, <2>6
  <2>9. S!Grant(ScopeOf(loc))
    BY <1>1, <2>6, <2>7, <2>8, WishEnds DEF S!Grant
  <2> QED BY <2>9, NextIf
<1>3. CASE ~(Selected = r.vehicle /\ loc = r.from)
  BY <1>1, <1>3, DropStep DEF PresetAnswer
<1> QED BY <1>2, <1>3

\* The effect that completes the URL fills in what is missing and changes nothing else.
LEMMA CanonicalBar ==
  ASSUME HistoryInv, Scoped
  PROVE  ScopeOf(Canonical) \in
           [car : S!Filled(ScopeOf(loc).car, Vehicle \cup {Unknown}),
            period : S!Filled(ScopeOf(loc).period, Bounds \cup {AllHistory})]
<1> DEFINE a == Canonical
<1>1. Sound(loc) /\ Sound(a)
  BY LocSound, CanonicalSound
<1>2. Selected \in Vehicle /\ Selected # None /\ Resolved # None
  BY SelectedIsACar DEF Scoped
<1>3. a.vehicle = Selected /\ a.window = Resolved /\ a.preset = loc.preset
  BY <1>1 DEF Canonical, Sound, Address
<1>4. loc.window # None => Resolved = loc.window
  BY DEF Resolved
<1>5. loc.vehicle # None => Selected = loc.vehicle
  BY <1>2, SelectedOfURL
<1>6. None # AllHistory
  BY HistoryAssumption
<1> HIDE DEF a
<1>7. PeriodOf(a) \in S!Filled(PeriodOf(loc), Bounds \cup {AllHistory})
  <2>1. /\ PeriodOf(a) = IF loc.preset = AllHistory THEN AllHistory ELSE Resolved
        /\ PeriodOf(a) \in Bounds \cup {AllHistory, None}
    BY <1>1, <1>3, PeriodShape
  <2>2. PeriodOf(loc) = IF loc.preset = AllHistory THEN AllHistory ELSE loc.window
    BY <1>1, PeriodShape
  <2> QED BY <1>4, <1>6, <2>1, <2>2 DEF S!Filled
<1>8. ScopeOf(a) = [car |-> Selected, period |-> PeriodOf(a)]
  BY <1>3 DEF ScopeOf
<1>9. ScopeOf(loc).car = loc.vehicle /\ ScopeOf(loc).period = PeriodOf(loc)
  BY DEF ScopeOf
<1>10. Selected \in S!Filled(loc.vehicle, Vehicle \cup {Unknown})
  BY <1>2, <1>5 DEF S!Filled
<1> QED BY <1>7, <1>8, <1>9, <1>10 DEF a

\* The effects of a render.
LEMMA EffectsStep == ASSUME HistoryInv, Effects PROVE [S!Next]_(S!selection)
<1>1. /\ Sound(loc)
      /\ OwnPending => Owner \in Vehicle
      /\ OwnPending => pendingPreset' = None
      /\ ~OwnPending => pendingPreset' = pendingPreset
  BY LocSound, HistoryAssumption
     DEF Effects, OwnPending, DetailShown, OnDetail, Owner, Sound, Address
<1>2. CASE CanonicalPending
  <2>1. Replace(Canonical) /\ Scoped
    BY <1>2 DEF Effects, CanonicalPending
  <2>2. S!Put(ScopeOf(Canonical))
    BY <2>1, CanonicalSound, ReplaceBar
  <2>3. Wish' \in {Wish, S!NoWish}
    BY <1>1, WishStays, WishEnds
  <2>4. S!Establish(ScopeOf(loc))
    BY <2>1, <2>2, <2>3, CanonicalBar DEF S!Establish
  <2> QED BY <2>4, NextIf
<1>3. CASE ~CanonicalPending /\ OwnPending
  <2>1. Replace(AddressFor(Owner))
    BY <1>3 DEF Effects
  <2>2. S!Put([ScopeOf(loc) EXCEPT !.car = Owner])
    BY <1>1, <1>3, <2>1, AddressForSound, AddressForBar, ReplaceBar
  <2>3. S!Reveal(Owner, ScopeOf(loc))
    BY <1>1, <1>3, <2>2, WishEnds DEF S!Reveal
  <2> QED BY <1>1, <1>3, <2>3, NextIf
<1>4. CASE ~CanonicalPending /\ ~OwnPending
  <2>1. Replace(loc) /\ pendingPreset' = pendingPreset
    BY <1>1, <1>4 DEF Effects
  <2>2. entries \in Seq(Address) /\ at \in 1..Len(entries)
    BY DEF HistoryInv, HistoryTypeOK
  <2>3. entries' = entries /\ at' = at
    BY <2>1, <2>2 DEF Replace, loc
  <2> QED BY <2>1, <2>3, Stutter
<1> QED BY <1>2, <1>3, <1>4

\* Every action of History.
LEMMA SelectionStep ==
  ASSUME HistoryInv, [Next]_vars PROVE [S!Next]_(S!selection)
<1>1. CASE Effects
  BY <1>1, EffectsStep
<1>2. CASE AnswerStep \/ GoOnline \/ UNCHANGED vars
  BY <1>2, Stutter DEF AnswerStep, Answer, GoOnline, vars
<1>3. CASE PresetAnswer
  BY <1>3, PresetAnswerStep
<1>4. CASE \E v \in Vehicle : SelectVehicle(v)
  BY <1>4, SelectVehicleStep
<1>5. CASE \E p \in Preset : StartPreset(p)
  BY <1>5, StartPresetStep
<1>6. CASE PresetFailure \/ CancelPreset \/ Reload \/ GoOffline
  BY <1>6, DropStep DEF PresetFailure, CancelPreset, Reload, GoOffline
<1>7. CASE \E page \in Page : Follow(page)
  BY <1>7, FollowStep
<1>8. CASE \E r \in Record : OpenRecord(r)
  BY <1>8, OpenRecordStep
<1>9. CASE NextPage \/ PreviousPage
  BY <1>9, CursorStep
<1>10. CASE BackToList
  BY <1>10, BackToListStep
<1>11. CASE Travel(at - 1) \/ Travel(at + 1)
  BY <1>11, TravelStep
<1> QED
  BY <1>1, <1>2, <1>3, <1>4, <1>5, <1>6, <1>7, <1>8, <1>9, <1>10, <1>11
     DEF Next, UserStep, PageStep

\* The browser is opened at one address.
LEMMA SelectionStart == Init => S!Init
<1> SUFFICES ASSUME Init PROVE S!Init
  OBVIOUS
<1>1. PICK e \in Start : entries = <<e>>
  BY DEF Init
<1>2. Sound(e)
  BY StartAssumption DEF Sound
<1>3. ScopeOf(e) \in S!Scope
  BY <1>2, ScopeShape
<1>4. Stack = <<ScopeOf(e)>>
  BY <1>1 DEF Stack
<1>5. at = 1 /\ Wish = S!NoWish
  BY DEF Init, Wish, S!NoWish
<1> QED BY <1>3, <1>4, <1>5 DEF S!Init, Stack

\* The pages implement Selection: "late responses must not republish old-car, old-window
\* ... data" (M1.md:102), and no step but a choice, an answer to what is on show or the
\* owner of a record changes what was selected.
THEOREM HistoryRefines == Spec => SelectionSpec
<1>1. Init => HistoryInv /\ S!Init
  BY InvStart, SelectionStart
<1>2. HistoryInv /\ [Next]_vars => HistoryInv'
  BY InvPreserved
<1>3. HistoryInv /\ [Next]_vars => [S!Next]_(S!selection)
  BY SelectionStep
<1> QED
  BY <1>1, <1>2, <1>3, PTL DEF Spec, SelectionSpec, S!Spec
=============================================================================
