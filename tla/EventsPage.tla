----------------------------- MODULE EventsPage -----------------------------
(***************************************************************************)
(* The event table of the dashboard (EventsPage.tsx): its filters, its     *)
(* polling, which can be switched off, and its pages of the rows listed.   *)
(* The page counts rows; which events they are does not matter here.  The  *)
(* dialog with one event and the exports change nothing and are left out.  *)
(***************************************************************************)
EXTENDS Integers, Pager

CONSTANTS MaxEvents,  \* bound: the newest events the server returns
          PageSize

VARIABLE view

Here == view.page = "events"

\* "kept" says that no events are deleted meanwhile, with their node.
Mounted ==
  {[page |-> "events", all |-> n, rows |-> n, type |-> FALSE, local |-> FALSE,
    at |-> 0, auto |-> TRUE, kept |-> k]
     : n \in {0, 1}, k \in BOOLEAN}

Change(next) == Here /\ view' = next

TotalPages == (view.rows + PageSize - 1) \div PageSize

Shown == {i \in 0 .. view.rows - 1 :
            view.at * PageSize <= i /\ i < (view.at + 1) * PageSize}

\* The filter by address or honeypot is applied to what was fetched: how many
\* rows it leaves is up to the events.
Lists(all) == {[view EXCEPT !.all = all, !.rows = rows] :
                 rows \in IF view.local THEN 0 .. all ELSE {all}}

\* New events push the oldest out, so no fewer are returned later.
Refetch ==
  \E n \in 0 .. MaxEvents :
    /\ view.kept => n >= view.all
    /\ \E next \in Lists(n) : Change(next)

Poll == view.auto /\ Refetch

RefreshButton == Refetch

SetRefreshInterval ==
  \E on \in BOOLEAN : Change([view EXCEPT !.auto = on])

\* A variant whose effect does not depend on the type.
SetType_KeepsPage ==
  \E on \in BOOLEAN \ {view.type}, n \in 0 .. MaxEvents :
    \E next \in Lists(n) : Change([next EXCEPT !.type = on])

\* Another type is another query: the list starts from what is cached of it,
\* and the effect goes back to the first page.
SetType ==
  \E on \in BOOLEAN \ {view.type}, n \in 0 .. MaxEvents :
    \E next \in Lists(n) : Change([next EXCEPT !.type = on, !.at = 0])

SetLocal ==
  \E on \in BOOLEAN :
    /\ on \/ view.local
    /\ \E rows \in IF on THEN 0 .. view.all ELSE {view.all} :
         Change([view EXCEPT !.local = on, !.rows = rows, !.at = 0])

ClearFilters ==
  /\ view.type \/ view.local
  /\ \E n \in IF view.type THEN 0 .. MaxEvents ELSE {view.all} :
       Change([view EXCEPT !.type = FALSE, !.local = FALSE,
                           !.all = n, !.rows = n, !.at = 0])

\* The buttons are there when the rows do not fit on one page.
Paged == view.rows > PageSize

Prev == Paged /\ view.at # 0 /\ Change([view EXCEPT !.at = @ - 1])

NextPage ==
  /\ Paged /\ view.at # TotalPages - 1 /\ view.at < MaxEvents
  /\ Change([view EXCEPT !.at = @ + 1])

GoTo ==
  /\ Paged
  /\ \E p \in EventPages(view.at, TotalPages) : Change([view EXCEPT !.at = p])

Step ==
  /\ Here
  /\ \/ Poll \/ RefreshButton \/ SetRefreshInterval
     \/ SetType \/ SetLocal \/ ClearFilters
     \/ Prev \/ NextPage \/ GoTo

-----------------------------------------------------------------------------
TypeOK ==
  /\ view.rows <= view.all /\ view.all <= MaxEvents
  /\ view.at \in 0 .. MaxEvents

\* Events that are listed are seen: unless the filter by address or honeypot
\* is on, or events were deleted with their node, the page the user is on has
\* rows whenever there are any.  (With that filter new events push matching
\* ones out of the list, and the user may be left on a page that is no more,
\* without the buttons to leave it, EventsPage.tsx:107,449,591.)
EventsAreSeen ==
  Here /\ view.kept /\ ~view.local /\ view.rows > 0 => Shown # {}

\* The page buttons tell where the user is and what is left out
\* (EventsPage.tsx:603-609).
EventButtonsTell ==
  Here /\ Paged /\ view.at < TotalPages =>
    Tells(EventButtons(view.at, TotalPages), EventPages(view.at, TotalPages),
          0, TotalPages - 1, view.at)
=============================================================================
