---------------------------- MODULE AuditLogPage ----------------------------
(***************************************************************************)
(* The audit log of the dashboard (AuditLogPage.tsx): search, range and    *)
(* action filters over the newest entries, and pages of what they leave.   *)
(* Entries are counted; the log itself only grows, but those that match    *)
(* are pushed out by newer ones, and age out of the range.                 *)
(***************************************************************************)
EXTENDS Integers, Pager

CONSTANTS MaxEntries, \* bound: the newest entries the server returns
          AuditPage   \* entries on a page

VARIABLE view

Here == view.page = "audit-log"

Filters == {"search", "action", "range"}

Mounted ==
  {[page |-> "audit-log", all |-> n, rows |-> n, on |-> {}, at |-> 1] : n \in {0, 1}}

Change(next) == Here /\ view' = next

Leaves(on, all) == IF on = {} THEN {all} ELSE 0 .. all

TotalPages ==
  LET pages == (view.rows + AuditPage - 1) \div AuditPage IN
    IF pages < 1 THEN 1 ELSE pages

\* A variant that shows the page asked for, there or not.
SafePage_Raw == view.at

SafePage == IF view.at <= TotalPages THEN view.at ELSE TotalPages

Shown == {i \in 0 .. view.rows - 1 :
            (SafePage - 1) * AuditPage <= i /\ i < SafePage * AuditPage}

Poll ==
  \E n \in view.all .. MaxEntries, rows \in 0 .. MaxEntries :
    /\ rows \in Leaves(view.on, n)
    /\ Change([view EXCEPT !.all = n, !.rows = rows])

\* Typing, choosing a range, clicking an action, which a second click undoes:
\* each goes back to the first page.
SetFilter(f, on) ==
  LET now == IF on THEN view.on \union {f} ELSE view.on \ {f} IN
    /\ on \/ f \in view.on
    /\ \E rows \in Leaves(now, view.all) :
         Change([view EXCEPT !.on = now, !.rows = rows, !.at = 1])

ClearAll ==
  /\ view.on # {}
  /\ Change([view EXCEPT !.on = {}, !.rows = view.all, !.at = 1])

\* "Prev" goes back from the page asked for, not from the page shown.
Prev ==
  /\ TotalPages > 1 /\ SafePage # 1
  /\ Change([view EXCEPT !.at = IF @ > 1 THEN @ - 1 ELSE 1])

NextPage ==
  /\ TotalPages > 1 /\ SafePage # TotalPages
  /\ Change([view EXCEPT !.at = IF @ + 1 < TotalPages THEN @ + 1 ELSE TotalPages])

GoTo ==
  /\ TotalPages > 1
  /\ \E p \in AuditPages(SafePage, TotalPages) : Change([view EXCEPT !.at = p])

Step ==
  /\ Here
  /\ \/ Poll \/ ClearAll \/ Prev \/ NextPage \/ GoTo
     \/ \E f \in Filters, on \in BOOLEAN : SetFilter(f, on)

-----------------------------------------------------------------------------
TypeOK ==
  /\ view.rows <= view.all /\ view.all <= MaxEntries
  /\ view.on \subseteq Filters
  /\ view.at \in 1 .. MaxEntries

\* Entries that match are seen: however the list shrinks under the page the
\* user is on, the page shown has rows whenever any entry matches
\* (AuditLogPage.tsx:288).
EntriesAreSeen == Here /\ view.rows > 0 => Shown # {}

\* The page buttons tell where the user is and what is left out
\* (AuditLogPage.tsx:435-437).
AuditButtonsTell ==
  Here /\ TotalPages > 1 =>
    Tells(AuditButtons(SafePage, TotalPages), AuditPages(SafePage, TotalPages),
          1, TotalPages, SafePage)
=============================================================================
