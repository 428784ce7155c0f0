------------------------------- MODULE Paging -------------------------------
(***************************************************************************)
(* Paging through one list: the cursor trail that history-navigation.ts    *)
(* keeps in the session storage of the tab, and the buttons of HistoryList *)
(* that read it.  A cursor is the number of the page it opens; the first   *)
(* page has none.                                                          *)
(***************************************************************************)
EXTENDS Sequences, Naturals

CONSTANTS LastPage, MaxEntries, MaxTrail     \* the latter two bound the model

First == 1
Page == First..LastPage

VARIABLES
  trail,        \* cursorTrail(scope)
  entries, at   \* the cursors in the browser's history, and where in it

vars == <<trail, entries, at>>

here == entries[at]

\* rememberCursor(), an effect of every page that is rendered
Remembered(cursor) ==
  IF trail[Len(trail)] = cursor THEN trail ELSE Append(trail, cursor)

\* previousCursor(): what stands before the last occurrence, if anything does.
Occurrences(cursor) == {i \in 1..Len(trail) : trail[i] = cursor}
PriorIndex ==
  {i - 1 : i \in {k \in Occurrences(here) : \A j \in Occurrences(here) : j <= k}} \ {0}

Show(cursor) ==
  /\ Len(trail) < MaxTrail
  /\ trail' = Remembered(cursor)
\* moveToCursor()
MoveTo(cursor) ==
  LET longer == Append(SubSeq(entries, 1, at), cursor)
  IN /\ entries' = IF Len(longer) > MaxEntries THEN Tail(longer) ELSE longer
     /\ at' = Len(entries')
     /\ Show(cursor)

NextPage == here < LastPage /\ MoveTo(here + 1)
PreviousPage == \E i \in PriorIndex : MoveTo(trail[i])

\* Back and Forward of the browser, also from a detail that was opened in between.
Travel(i) ==
  /\ i \in 1..Len(entries) /\ at' = i
  /\ Show(entries[i])
  /\ UNCHANGED entries

\* clearVehicleData() on the way offline; online again, the page is still on show and
\* nothing remembers it a second time, until it is loaded anew.
Clear == trail' = <<First>> /\ UNCHANGED <<entries, at>>
Reload == Show(here) /\ UNCHANGED <<entries, at>>

Init == trail = <<First>> /\ entries = <<First>> /\ at = 1

Next ==
  \/ NextPage \/ PreviousPage
  \/ Travel(at - 1) \/ Travel(at + 1)
  \/ Clear \/ Reload

Spec == Init /\ [][Next]_vars
-----------------------------------------------------------------------------
\* "Use 50-row pages with Previous/Next" (M1.md:84): Previous leads to the page before
\* the one on show, and is not offered on the first.
PreviousIsPrevious == \A i \in PriorIndex : trail[i] = here - 1
=============================================================================
