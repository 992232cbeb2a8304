----------------------- MODULE ConsoleScreens_proofs -----------------------
(***************************************************************************)
(* Proofs that what the pages of the dashboard show is there and true: the *)
(* rows of a page, the map of the fleet, the diagnostics, the analytics,   *)
(* the bots' switches, the store, and the frame with its palette.  Each    *)
(* page has an invariant of what it shows beside the one of what it does   *)
(* (Console_proofs), and the two are composed at the end.                  *)
(***************************************************************************)
EXTENDS Console_proofs, WellFoundedInduction

-----------------------------------------------------------------------------
(* Pages of rows.                                                          *)

\* A row of the last page is there, and a page that begins with a row is one.
LEMMA PagesHoldRows ==
  ASSUME NEW rows \in Nat, NEW size \in Nat \ {0}
  PROVE  LET total == (rows + size - 1) \div size IN
           /\ total \in Nat /\ total <= rows
           /\ \A p \in Nat : p < total <=> p * size < rows
<1>. DEFINE total == (rows + size - 1) \div size
<1>1. /\ total \in Int /\ total * size <= rows + size - 1 /\ rows + size - 1 < total * size + size
  <2>1. rows + size - 1 \in Int /\ size \in Int /\ size > 0
    OBVIOUS
  <2>2. ASSUME NEW a \in Int
        PROVE  a \div size \in Int /\ (a \div size) * size <= a /\ a < (a \div size) * size + size
    BY <2>1
  <2>. QED  BY <2>1, <2>2
<1>. HIDE DEF total
<1>2. total >= 0
  <2>1. ASSUME total <= -1 PROVE FALSE
    <3>1. total * size <= (-1) * size
      BY <1>1, <2>1
    <3>. QED  BY <1>1, <3>1
  <2>. QED  BY <1>1, <2>1
<1>3. ASSUME NEW p \in Nat PROVE p < total <=> p * size < rows
  <2>1. ASSUME p < total PROVE p * size < rows
    <3>1. (p + 1) * size <= total * size
      BY <1>1, <2>1
    <3>2. (p + 1) * size = p * size + size /\ p * size \in Int
      OBVIOUS
    <3>. QED  BY <1>1, <3>1, <3>2
  <2>2. ASSUME total <= p PROVE rows <= p * size
    <3>1. total * size <= p * size /\ p * size \in Int
      BY <1>1, <2>2
    <3>. QED  BY <1>1, <3>1
  <2>. QED  BY <1>1, <2>1, <2>2
<1>4. total <= rows
  <2>1. rows <= rows * size
    OBVIOUS
  <2>2. ~(rows < total)
    BY <1>3, <2>1
  <2>. QED  BY <1>1, <2>2
<1>. QED  BY <1>1, <1>2, <1>3, <1>4 DEF total

\* The first row of a page is on it.
LEMMA PageBegins ==
  ASSUME NEW at \in Nat, NEW size \in Nat \ {0}
  PROVE  at * size \in Nat /\ at * size < (at + 1) * size
<1>1. (at + 1) * size = at * size + size /\ at * size \in Nat
  OBVIOUS
<1>. QED  BY <1>1

-----------------------------------------------------------------------------
(* The events.                                                             *)

ExplorerFields == {"page", "all", "rows", "type", "local", "at", "auto", "kept"}

\* While events only come and the list is not filtered on the page, the page the
\* user is on begins with a row, or is the first.
ExplorerInv ==
  /\ view.page = "events" /\ DOMAIN view = ExplorerFields
  /\ view.all \in 0 .. MaxEvents /\ view.rows \in 0 .. view.all
  /\ view.at \in 0 .. MaxEvents
  /\ view.local \in BOOLEAN /\ view.type \in BOOLEAN
  /\ ~view.local => view.rows = view.all
  /\ view.kept /\ ~view.local => view.at = 0 \/ view.at * PageSize < view.rows

LEMMA ExplorerMounts ==
  ASSUME view' \in Explorer!Mounted
  PROVE  ExplorerInv'
<1>1. PICK n \in {0, 1}, k \in BOOLEAN :
        view' = [page |-> "events", all |-> n, rows |-> n, type |-> FALSE, local |-> FALSE,
                 at |-> 0, auto |-> TRUE, kept |-> k]
  BY DEF Explorer!Mounted
<1>. QED  BY <1>1, ScreensAssumption DEF ExplorerInv, ExplorerFields

\* Fetching again.
LEMMA ExplorerRefetched ==
  ASSUME ExplorerInv, Explorer!Refetch
  PROVE  ExplorerInv'
<1>0. MaxEvents \in Nat /\ PageSize \in Nat
  BY ScreensAssumption
<1>1. PICK n \in 0 .. MaxEvents :
        /\ view.kept => n >= view.all
        /\ \E next \in Explorer!Lists(n) : view' = next
  BY DEF Explorer!Refetch, Explorer!Change
<1>2. PICK rows \in (IF view.local THEN 0 .. n ELSE {n}) :
        view' = [view EXCEPT !.all = n, !.rows = rows]
  BY <1>1 DEF Explorer!Lists
<1>3. /\ DOMAIN view' = DOMAIN view /\ view'.page = view.page /\ view'.all = n
      /\ view'.rows = rows /\ view'.at = view.at /\ view'.kept = view.kept
      /\ view'.local = view.local /\ view'.type = view.type
  BY <1>2 DEF ExplorerInv, ExplorerFields
<1>4. rows \in 0 .. n /\ (~view.local => rows = n)
  BY <1>2 DEF ExplorerInv
<1>5. view.at * PageSize \in Int
  BY <1>0 DEF ExplorerInv
<1>6. view.kept /\ ~view.local => view.at = 0 \/ view.at * PageSize < rows
  BY <1>0, <1>1, <1>4, <1>5 DEF ExplorerInv
<1>. HIDE DEF ExplorerFields
<1>. QED  BY <1>3, <1>4, <1>6 DEF ExplorerInv

\* Every step of the page.
LEMMA ExplorerStep ==
  ASSUME ExplorerInv, Explorer!Step
  PROVE  ExplorerInv'
<1>. USE DEF Explorer!Change, Explorer!Here
<1>0. MaxEvents \in Nat /\ PageSize \in Nat \ {0}
  BY ScreensAssumption
<1>1. CASE Explorer!Poll \/ Explorer!RefreshButton
  BY <1>1, ExplorerRefetched DEF Explorer!Poll, Explorer!RefreshButton
<1>2. CASE Explorer!SetRefreshInterval
  <2>1. PICK on : view' = [view EXCEPT !.auto = on]
    BY <1>2 DEF Explorer!SetRefreshInterval
  <2>2. /\ DOMAIN view' = DOMAIN view /\ view'.page = view.page /\ view'.all = view.all
        /\ view'.rows = view.rows /\ view'.at = view.at /\ view'.kept = view.kept
        /\ view'.local = view.local /\ view'.type = view.type
    BY <2>1 DEF ExplorerInv, ExplorerFields
  <2>. QED  BY <2>2 DEF ExplorerInv
\* Back to the first page.
<1>a. ASSUME NEW n \in 0 .. MaxEvents, NEW rows \in 0 .. n,
             DOMAIN view' = DOMAIN view, view'.page = view.page, view'.all = n,
             view'.rows = rows, view'.at = 0, view'.local \in BOOLEAN, view'.type \in BOOLEAN,
             ~view'.local => rows = n
      PROVE  ExplorerInv'
  BY <1>0, <1>a DEF ExplorerInv
<1>3. CASE Explorer!SetType
  <2>1. PICK on \in BOOLEAN, n \in 0 .. MaxEvents :
          \E next \in Explorer!Lists(n) : view' = [next EXCEPT !.type = on, !.at = 0]
    BY <1>3 DEF Explorer!SetType
  <2>2. PICK rows \in (IF view.local THEN 0 .. n ELSE {n}) :
          view' = [[view EXCEPT !.all = n, !.rows = rows] EXCEPT !.type = on, !.at = 0]
    BY <2>1 DEF Explorer!Lists
  <2>3. /\ DOMAIN view' = DOMAIN view /\ view'.page = view.page /\ view'.all = n
        /\ view'.rows = rows /\ view'.at = 0 /\ view'.local = view.local /\ view'.type = on
    BY <2>2 DEF ExplorerInv, ExplorerFields
  <2>4. rows \in 0 .. n /\ (~view.local => rows = n)
    BY <2>2 DEF ExplorerInv
  <2>. QED  BY <1>a, <2>3, <2>4 DEF ExplorerInv
<1>4. CASE Explorer!SetLocal
  <2>1. PICK on \in BOOLEAN : \E rows \in (IF on THEN 0 .. view.all ELSE {view.all}) :
          view' = [view EXCEPT !.local = on, !.rows = rows, !.at = 0]
    BY <1>4 DEF Explorer!SetLocal
  <2>2. PICK rows \in (IF on THEN 0 .. view.all ELSE {view.all}) :
          view' = [view EXCEPT !.local = on, !.rows = rows, !.at = 0]
    BY <2>1
  <2>3. /\ DOMAIN view' = DOMAIN view /\ view'.page = view.page /\ view'.all = view.all
        /\ view'.rows = rows /\ view'.at = 0 /\ view'.local = on /\ view'.type = view.type
    BY <2>2 DEF ExplorerInv, ExplorerFields
  <2>4. rows \in 0 .. view.all /\ (~on => rows = view.all)
    BY <1>0, <2>2 DEF ExplorerInv
  <2>. QED  BY <1>a, <2>3, <2>4 DEF ExplorerInv
<1>5. CASE Explorer!ClearFilters
  <2>1. PICK n \in (IF view.type THEN 0 .. MaxEvents ELSE {view.all}) :
          view' = [view EXCEPT !.type = FALSE, !.local = FALSE, !.all = n, !.rows = n, !.at = 0]
    BY <1>5 DEF Explorer!ClearFilters
  <2>2. /\ DOMAIN view' = DOMAIN view /\ view'.page = view.page /\ view'.all = n
        /\ view'.rows = n /\ view'.at = 0 /\ view'.local = FALSE /\ view'.type = FALSE
    BY <2>1 DEF ExplorerInv, ExplorerFields
  <2>3. n \in 0 .. MaxEvents
    BY <2>1 DEF ExplorerInv
  <2>4. n \in 0 .. n
    BY <1>0, <2>3
  <2>. QED  BY <1>a, <2>2, <2>3, <2>4
\* Another page.
<1>b. ASSUME NEW p \in 0 .. MaxEvents, view' = [view EXCEPT !.at = p],
             view.kept /\ ~view.local => p * PageSize < view.rows
      PROVE  ExplorerInv'
  <2>1. /\ DOMAIN view' = DOMAIN view /\ view'.page = view.page /\ view'.all = view.all
        /\ view'.rows = view.rows /\ view'.at = p /\ view'.local = view.local
        /\ view'.type = view.type /\ view'.kept = view.kept
    BY <1>b DEF ExplorerInv, ExplorerFields
  <2>. QED  BY <1>b, <2>1 DEF ExplorerInv
<1>c. /\ view.rows \in Nat /\ view.rows <= MaxEvents /\ Explorer!TotalPages \in Nat
      /\ Explorer!TotalPages <= view.rows
      /\ \A p \in Nat : p < Explorer!TotalPages <=> p * PageSize < view.rows
  <2>1. view.rows \in Nat /\ view.rows <= MaxEvents
    BY <1>0 DEF ExplorerInv
  <2>. QED  BY <1>0, <2>1, PagesHoldRows DEF Explorer!TotalPages
<1>d. view.at \in 0 .. MaxEvents /\ view.at \in Nat
  BY <1>0 DEF ExplorerInv
<1>6. CASE Explorer!Prev
  <2>1. view' = [view EXCEPT !.at = view.at - 1] /\ view.at - 1 \in 0 .. MaxEvents
    BY <1>0, <1>6, <1>d DEF Explorer!Prev, ExplorerInv, ExplorerFields
  <2>2. view.kept /\ ~view.local => view.at < Explorer!TotalPages
    BY <1>6, <1>c, <1>d DEF ExplorerInv, Explorer!Prev
  <2>3. view.kept /\ ~view.local => (view.at - 1) * PageSize < view.rows
    BY <1>c, <1>d, <2>1, <2>2
  <2>. QED  BY <1>b, <2>1, <2>3
<1>7. CASE Explorer!NextPage
  <2>1. view' = [view EXCEPT !.at = view.at + 1] /\ view.at + 1 \in 0 .. MaxEvents
        /\ view.at # Explorer!TotalPages - 1 /\ view.rows > PageSize
    BY <1>0, <1>7, <1>d DEF Explorer!NextPage, ExplorerInv, ExplorerFields, Explorer!Paged
  <2>2. view.kept /\ ~view.local => view.at < Explorer!TotalPages
    <3>1. 0 * PageSize < view.rows
      BY <1>0, <1>c, <2>1
    <3>. QED  BY <1>c, <1>d, <3>1 DEF ExplorerInv
  <2>3. view.kept /\ ~view.local => view.at + 1 < Explorer!TotalPages
    BY <1>c, <1>d, <2>1, <2>2
  <2>. QED  BY <1>b, <1>c, <1>d, <2>1, <2>3
<1>8. CASE Explorer!GoTo
  <2>1. PICK p \in Explorer!EventPages(view.at, Explorer!TotalPages) :
          view' = [view EXCEPT !.at = p]
    BY <1>8 DEF Explorer!GoTo
  <2>2. p \in Nat /\ p < Explorer!TotalPages
    BY <1>c DEF Explorer!EventPages
  <2>3. p \in 0 .. MaxEvents
    BY <1>0, <1>c, <2>2
  <2>. QED  BY <1>b, <1>c, <2>1, <2>2, <2>3
<1>. QED  BY <1>1, <1>2, <1>3, <1>4, <1>5, <1>6, <1>7, <1>8 DEF Explorer!Step

LEMMA ExplorerShows ==
  ASSUME ExplorerInv
  PROVE  Explorer!EventsAreSeen
<1>1. SUFFICES ASSUME view.kept, ~view.local, view.rows > 0
               PROVE  Explorer!Shown # {}
  BY DEF Explorer!EventsAreSeen
<1>2. PageSize \in Nat \ {0} /\ MaxEvents \in Nat
  BY ScreensAssumption
<1>3. view.at \in Nat /\ view.rows \in Nat
  BY <1>2 DEF ExplorerInv
<1>4. view.at * PageSize \in Nat /\ view.at * PageSize < (view.at + 1) * PageSize
  BY <1>2, <1>3, PageBegins
<1>5. view.at * PageSize < view.rows
  <2>1. 0 * PageSize = 0
    BY <1>2
  <2>. QED  BY <1>1, <1>3, <2>1 DEF ExplorerInv
<1>6. view.at * PageSize \in Explorer!Shown
  BY <1>3, <1>4, <1>5 DEF Explorer!Shown
<1>. QED  BY <1>6

-----------------------------------------------------------------------------
(* The audit log.                                                          *)

AuditFields == {"page", "all", "rows", "on", "at"}

AuditInv ==
  /\ view.page = "audit-log" /\ DOMAIN view = AuditFields
  /\ view.all \in 0 .. MaxEntries /\ view.rows \in 0 .. view.all
  /\ view.on \subseteq Audit!Filters
  /\ view.at \in 1 .. MaxEntries

LEMMA AuditMounts ==
  ASSUME view' \in Audit!Mounted
  PROVE  AuditInv'
<1>1. PICK n \in {0, 1} : view' = [page |-> "audit-log", all |-> n, rows |-> n, on |-> {}, at |-> 1]
  BY DEF Audit!Mounted
<1>. QED  BY <1>1, ScreensAssumption DEF AuditInv, AuditFields

\* How many pages there are, and which one is shown.
LEMMA AuditTotal ==
  ASSUME AuditInv
  PROVE  /\ Audit!TotalPages \in 1 .. MaxEntries
         /\ Audit!SafePage \in 1 .. Audit!TotalPages
         /\ view.rows > 0 => (Audit!SafePage - 1) * AuditPage < view.rows
<1>1. AuditPage \in Nat \ {0} /\ MaxEntries \in Nat \ {0}
  BY ScreensAssumption
<1>2. view.rows \in Nat /\ view.rows <= MaxEntries /\ view.at \in Nat /\ view.at >= 1
  BY <1>1 DEF AuditInv
<1>. DEFINE pages == (view.rows + AuditPage - 1) \div AuditPage
<1>3. /\ pages \in Nat /\ pages <= view.rows
      /\ \A p \in Nat : p < pages <=> p * AuditPage < view.rows
  BY <1>1, <1>2, PagesHoldRows
<1>. HIDE DEF pages
<1>4. Audit!TotalPages = IF pages < 1 THEN 1 ELSE pages
  BY DEF Audit!TotalPages, pages
<1>5. Audit!TotalPages \in 1 .. MaxEntries /\ Audit!TotalPages \in Nat
  BY <1>1, <1>2, <1>3, <1>4
<1>6. Audit!SafePage \in 1 .. Audit!TotalPages
  BY <1>2, <1>5 DEF Audit!SafePage
<1>7. view.rows > 0 => pages >= 1
  <2>1. 0 * AuditPage = 0
    BY <1>1
  <2>. QED  BY <1>2, <1>3, <2>1
<1>8. ASSUME view.rows > 0 PROVE (Audit!SafePage - 1) * AuditPage < view.rows
  <2>1. Audit!SafePage - 1 \in Nat /\ Audit!SafePage - 1 < pages
    BY <1>3, <1>4, <1>5, <1>6, <1>7, <1>8
  <2>. QED  BY <1>3, <2>1
<1>. QED  BY <1>5, <1>6, <1>8

\* Every step of the page.
LEMMA AuditStep ==
  ASSUME AuditInv, Audit!Step
  PROVE  AuditInv'
<1>. USE DEF Audit!Change, Audit!Here
<1>0. MaxEntries \in Nat \ {0} /\ Audit!TotalPages \in 1 .. MaxEntries
      /\ view.all \in Nat /\ view.rows \in Nat /\ view.at \in Nat
  BY ScreensAssumption, AuditTotal DEF AuditInv
<1>1. CASE Audit!Poll
  <2>1. PICK n \in view.all .. MaxEntries, rows \in 0 .. MaxEntries :
          rows \in Audit!Leaves(view.on, n) /\ view' = [view EXCEPT !.all = n, !.rows = rows]
    BY <1>1 DEF Audit!Poll
  <2>2. n \in 0 .. MaxEntries /\ rows \in 0 .. n
    BY <1>0, <2>1 DEF Audit!Leaves
  <2>3. /\ DOMAIN view' = DOMAIN view /\ view'.page = view.page /\ view'.all = n
        /\ view'.rows = rows /\ view'.on = view.on /\ view'.at = view.at
    BY <2>1 DEF AuditInv, AuditFields
  <2>. QED  BY <2>2, <2>3 DEF AuditInv
<1>2. ASSUME NEW f \in Audit!Filters, NEW on \in BOOLEAN, Audit!SetFilter(f, on) PROVE AuditInv'
  <2>. DEFINE now == IF on THEN view.on \union {f} ELSE view.on \ {f}
  <2>1. PICK rows \in Audit!Leaves(now, view.all) :
          view' = [view EXCEPT !.on = now, !.rows = rows, !.at = 1]
    BY <1>2 DEF Audit!SetFilter
  <2>2. rows \in 0 .. view.all
    BY <1>0, <2>1 DEF Audit!Leaves
  <2>3. now \subseteq Audit!Filters
    BY DEF AuditInv
  <2>. HIDE DEF now
  <2>4. /\ DOMAIN view' = DOMAIN view /\ view'.page = view.page /\ view'.all = view.all
        /\ view'.rows = rows /\ view'.on = now /\ view'.at = 1
    BY <2>1 DEF AuditInv, AuditFields
  <2>. QED  BY <1>0, <2>2, <2>3, <2>4 DEF AuditInv
<1>3. CASE Audit!ClearAll
  <2>1. /\ DOMAIN view' = DOMAIN view /\ view'.page = view.page /\ view'.all = view.all
        /\ view'.rows = view.all /\ view'.on = {} /\ view'.at = 1
    BY <1>3 DEF AuditInv, AuditFields, Audit!ClearAll
  <2>2. view.all \in 0 .. view.all /\ 1 \in 1 .. MaxEntries
    BY <1>0
  <2>. QED  BY <2>1, <2>2 DEF AuditInv
\* Another page.
<1>a. ASSUME NEW p \in 1 .. MaxEntries, view' = [view EXCEPT !.at = p] PROVE AuditInv'
  <2>1. /\ DOMAIN view' = DOMAIN view /\ view'.page = view.page /\ view'.all = view.all
        /\ view'.rows = view.rows /\ view'.on = view.on /\ view'.at = p
    BY <1>a DEF AuditInv, AuditFields
  <2>. QED  BY <2>1 DEF AuditInv
<1>4. CASE Audit!Prev
  <2>1. view' = [view EXCEPT !.at = IF view.at > 1 THEN view.at - 1 ELSE 1]
    BY <1>4 DEF Audit!Prev, AuditInv, AuditFields
  <2>2. (IF view.at > 1 THEN view.at - 1 ELSE 1) \in 1 .. MaxEntries
    BY <1>0 DEF AuditInv
  <2>. QED  BY <1>a, <2>1, <2>2
<1>5. CASE Audit!NextPage
  <2>1. view' = [view EXCEPT !.at = IF view.at + 1 < Audit!TotalPages THEN view.at + 1
                                    ELSE Audit!TotalPages]
    BY <1>5 DEF Audit!NextPage, AuditInv, AuditFields
  <2>2. (IF view.at + 1 < Audit!TotalPages THEN view.at + 1 ELSE Audit!TotalPages)
          \in 1 .. MaxEntries
    BY <1>0 DEF AuditInv
  <2>. QED  BY <1>a, <2>1, <2>2
<1>6. CASE Audit!GoTo
  <2>1. PICK p \in Audit!AuditPages(Audit!SafePage, Audit!TotalPages) :
          view' = [view EXCEPT !.at = p]
    BY <1>6 DEF Audit!GoTo
  <2>2. p \in 1 .. MaxEntries
    BY <1>0 DEF Audit!AuditPages
  <2>. QED  BY <1>a, <2>1, <2>2
<1>. QED  BY <1>1, <1>2, <1>3, <1>4, <1>5, <1>6 DEF Audit!Step

LEMMA AuditShows ==
  ASSUME AuditInv
  PROVE  Audit!EntriesAreSeen
<1>1. SUFFICES ASSUME view.rows > 0
               PROVE  Audit!Shown # {}
  BY DEF Audit!EntriesAreSeen
<1>2. AuditPage \in Nat \ {0} /\ MaxEntries \in Nat
  BY ScreensAssumption
<1>. DEFINE before == Audit!SafePage - 1
<1>3. before \in Nat /\ view.rows \in Nat /\ before + 1 = Audit!SafePage
  BY <1>2, AuditTotal DEF AuditInv
<1>4. before * AuditPage < view.rows
  BY <1>1, AuditTotal
<1>5. before * AuditPage \in Nat /\ before * AuditPage < (before + 1) * AuditPage
  BY <1>2, <1>3, PageBegins
<1>6. before * AuditPage \in Audit!Shown
  BY <1>3, <1>4, <1>5 DEF Audit!Shown
<1>. QED  BY <1>6

-----------------------------------------------------------------------------
(* The store.                                                              *)

StoreFields ==
  {"page", "pots", "favorites", "favOnly", "cats", "langs", "protos", "dialog", "jobs",
   "made", "patient"}

StoreJob(j) == DOMAIN j = {"pot", "node", "own", "at"} /\ j = [f \in DOMAIN j |-> j[f]]

\* What a request asked for, and what the dialog does.
Wish(j) == [pot |-> j.pot, node |-> j.node]

\* The types of the page.
StoreTyped ==
  /\ view.pots \subseteq Catalogue
  /\ view.favorites \subseteq Store!Ids
  /\ view.dialog.node \in Hosts \union {NoHost}

\* A request the dialog hears of is its only one, and to a patient user about what
\* the dialog shows; what was served was made, and what is done too.
StoreInv ==
  /\ view.page = "potstore" /\ DOMAIN view = StoreFields
  /\ stored = view.favorites /\ StoreTyped
  /\ DOMAIN view.dialog = {"pot", "node", "at", "names"}
  /\ \A j \in view.jobs : StoreJob(j)
  /\ \A j \in view.jobs : j.at = "served" => Wish(j) \in view.made
  /\ \A i, j \in view.jobs : i.own /\ j.own => i = j
  /\ \A j \in view.jobs : j.own =>
       /\ view.dialog.at = "sent"
       /\ view.patient => j.pot = view.dialog.pot /\ j.node = view.dialog.node
  /\ view.patient /\ view.dialog.at = "done" =>
       [pot |-> view.dialog.pot, node |-> view.dialog.names] \in view.made

LEMMA StoreMounts ==
  ASSUME view' \in Store!Mounted, UNCHANGED stored, stored \subseteq Store!Ids
  PROVE  StoreInv'
<1>1. PICK k \in BOOLEAN :
        view' = [page |-> "potstore", pots |-> {}, favorites |-> stored, favOnly |-> FALSE,
                 cats |-> {}, langs |-> {}, protos |-> {}, dialog |-> Store!Closed,
                 jobs |-> {}, made |-> {}, patient |-> k]
  BY DEF Store!Mounted
<1>2. DOMAIN Store!Closed = {"pot", "node", "at", "names"} /\ Store!Closed.at = "closed"
      /\ Store!Closed.node = NoHost
  BY DEF Store!Closed
<1>. QED  BY <1>1, <1>2 DEF StoreInv, StoreFields, StoreTyped

\* A step that leaves the dialog and the requests alone.
LEMMA StoreLook ==
  ASSUME StoreInv, DOMAIN view' = DOMAIN view, view'.page = view.page,
         view'.dialog = view.dialog, view'.jobs = view.jobs, view'.made = view.made,
         view'.patient = view.patient, stored' = view'.favorites,
         view'.pots \subseteq Catalogue, view'.favorites \subseteq Store!Ids
  PROVE  StoreInv'
BY DEF StoreInv, StoreTyped, StoreJob, Wish

\* Every step of the page.
LEMMA StoreStep ==
  ASSUME StoreInv, Store!Step
  PROVE  StoreInv'
<1>. USE DEF Store!Change, Store!Here
<1>0. /\ view.page = "potstore" /\ DOMAIN view = StoreFields /\ stored = view.favorites
      /\ DOMAIN view.dialog = {"pot", "node", "at", "names"}
      /\ view.pots \subseteq Catalogue /\ view.favorites \subseteq Store!Ids
      /\ view.dialog.node \in Hosts \union {NoHost}
  BY DEF StoreInv, StoreTyped
<1>1. CASE Store!Arrives /\ UNCHANGED stored
  <2>1. PICK pots \in {{}, Catalogue} : view' = [view EXCEPT !.pots = pots]
    BY <1>1 DEF Store!Arrives
  <2>. QED  BY <1>0, <1>1, <2>1, StoreLook DEF StoreFields
<1>2. CASE Store!OpenDeploy /\ UNCHANGED stored
  <2>1. view.dialog.at = "closed"
    BY <1>2 DEF Store!OpenDeploy, Store!Closed
  <2>2. PICK p \in Store!Filtered :
          view' = [view EXCEPT !.dialog = [Store!Closed EXCEPT !.pot = p.id, !.at = "open"]]
    BY <1>2 DEF Store!OpenDeploy
  <2>3. /\ view'.dialog = [Store!Closed EXCEPT !.pot = p.id, !.at = "open"]
        /\ DOMAIN view' = DOMAIN view /\ view'.page = view.page /\ view'.jobs = view.jobs
        /\ view'.made = view.made /\ view'.patient = view.patient
        /\ view'.favorites = view.favorites /\ view'.pots = view.pots
    BY <1>0, <2>2 DEF StoreFields
  <2>5. DOMAIN view'.dialog = {"pot", "node", "at", "names"} /\ view'.dialog.at = "open"
        /\ view'.dialog.node = NoHost
    BY <2>3 DEF Store!Closed
  <2>4. \A j \in view.jobs : ~j.own
    BY <2>1 DEF StoreInv
  <2>. QED  BY <1>0, <1>2, <2>3, <2>4, <2>5 DEF StoreInv, StoreTyped, StoreJob, Wish
<1>3. CASE Store!CloseDeploy /\ UNCHANGED stored
  <2>1. /\ view'.dialog = Store!Closed
        /\ view'.jobs = {[j EXCEPT !.own = FALSE] : j \in view.jobs}
        /\ DOMAIN view' = DOMAIN view /\ view'.page = view.page
        /\ view'.made = view.made /\ view'.patient = view.patient
        /\ view'.favorites = view.favorites /\ view'.pots = view.pots
    BY <1>0, <1>3 DEF StoreFields, Store!CloseDeploy
  <2>2. DOMAIN view'.dialog = {"pot", "node", "at", "names"} /\ view'.dialog.at = "closed"
        /\ view'.dialog.node = NoHost
    BY <2>1 DEF Store!Closed
  <2>3. ASSUME NEW j \in view'.jobs
        PROVE  StoreJob(j) /\ ~j.own /\ (j.at = "served" => Wish(j) \in view'.made)
    <3>1. PICK i \in view.jobs : j = [i EXCEPT !.own = FALSE]
      BY <2>1
    <3>2. StoreJob(i) /\ (i.at = "served" => Wish(i) \in view.made)
      BY DEF StoreInv
    <3>3. StoreJob(j) /\ ~j.own /\ j.at = i.at /\ j.pot = i.pot /\ j.node = i.node
      BY <3>1, <3>2 DEF StoreJob
    <3>. QED  BY <2>1, <3>2, <3>3 DEF Wish
  <2>. QED  BY <1>0, <1>3, <2>1, <2>2, <2>3 DEF StoreInv, StoreTyped
<1>4. CASE Store!ChooseNode /\ UNCHANGED stored
  <2>1. PICK n \in Hosts : view' = [view EXCEPT !.dialog.node = n]
    BY <1>4 DEF Store!ChooseNode
  <2>2. view.dialog.at \in {"open", "failed"} \/ (~view.patient /\ view.dialog.at = "sent")
    BY <1>4 DEF Store!ChooseNode
  <2>3. /\ view'.dialog = [view.dialog EXCEPT !.node = n]
        /\ DOMAIN view' = DOMAIN view /\ view'.page = view.page /\ view'.jobs = view.jobs
        /\ view'.made = view.made /\ view'.patient = view.patient
        /\ view'.favorites = view.favorites /\ view'.pots = view.pots
    BY <1>0, <2>1 DEF StoreFields
  <2>4. DOMAIN view'.dialog = DOMAIN view.dialog /\ view'.dialog.at = view.dialog.at
        /\ view'.dialog.node = n
    BY <1>0, <2>3
  <2>. QED  BY <1>0, <1>4, <2>2, <2>3, <2>4 DEF StoreInv, StoreTyped, StoreJob, Wish
<1>5. CASE Store!Deploy /\ UNCHANGED stored
  <2>. DEFINE j == [pot |-> view.dialog.pot, node |-> view.dialog.node, own |-> TRUE, at |-> "sent"]
  <2>1. /\ view'.dialog = [view.dialog EXCEPT !.at = "sent"]
        /\ view'.jobs = view.jobs \union {j}
        /\ DOMAIN view' = DOMAIN view /\ view'.page = view.page
        /\ view'.made = view.made /\ view'.patient = view.patient
        /\ view'.favorites = view.favorites /\ view'.pots = view.pots
    BY <1>0, <1>5 DEF StoreFields, Store!Deploy
  <2>2. view.dialog.at # "sent"
    BY <1>5 DEF Store!Deploy
  <2>3. /\ DOMAIN view'.dialog = DOMAIN view.dialog /\ view'.dialog.at = "sent"
        /\ view'.dialog.pot = view.dialog.pot /\ view'.dialog.node = view.dialog.node
    BY <1>0, <2>1
  <2>4. \A i \in view.jobs : ~i.own
    BY <2>2 DEF StoreInv
  <2>5. /\ StoreJob(j) /\ j.own /\ j.at = "sent" /\ j.pot = view.dialog.pot
        /\ j.node = view.dialog.node
    BY DEF StoreJob
  <2>. HIDE DEF j
  <2>6. \A i \in view'.jobs : StoreJob(i) /\ (i.at = "served" => Wish(i) \in view'.made)
    BY <2>1, <2>5 DEF StoreInv
  <2>7. \A i \in view'.jobs : i.own => i = j
    BY <2>1, <2>4
  <2>. QED  BY <1>0, <1>5, <2>1, <2>3, <2>5, <2>6, <2>7 DEF StoreInv, StoreTyped
<1>6. ASSUME NEW j \in view.jobs, Store!Serve(j), UNCHANGED stored PROVE StoreInv'
  <2>. DEFINE i == [j EXCEPT !.at = "served"]
  <2>1. /\ view'.jobs = (view.jobs \ {j}) \union {i}
        /\ view'.made = view.made \union {Wish(j)} /\ view'.dialog = view.dialog
        /\ DOMAIN view' = DOMAIN view /\ view'.page = view.page
        /\ view'.patient = view.patient /\ view'.favorites = view.favorites /\ view'.pots = view.pots
    BY <1>0, <1>6 DEF StoreFields, Store!Serve, Wish
  <2>2. StoreJob(j)
    BY DEF StoreInv
  <2>3. /\ StoreJob(i) /\ i.own = j.own /\ i.pot = j.pot /\ i.node = j.node
    BY <2>2 DEF StoreJob
  <2>4. Wish(i) = Wish(j)
    BY <2>3 DEF Wish
  <2>. HIDE DEF i
  <2>5. \A k \in view'.jobs : StoreJob(k) /\ (k.at = "served" => Wish(k) \in view'.made)
    BY <2>1, <2>3, <2>4 DEF StoreInv
  <2>6. \A k, l \in view'.jobs : k.own /\ l.own => k = l
    BY <2>1, <2>3 DEF StoreInv
  <2>7. \A k \in view'.jobs : k.own =>
          /\ view.dialog.at = "sent"
          /\ view.patient => k.pot = view.dialog.pot /\ k.node = view.dialog.node
    BY <2>1, <2>3 DEF StoreInv
  <2>. QED  BY <1>0, <1>6, <2>1, <2>5, <2>6, <2>7 DEF StoreInv, StoreTyped
<1>7. ASSUME NEW j \in view.jobs, Store!Settle(j), UNCHANGED stored PROVE StoreInv'
  <2>1. /\ view'.jobs = view.jobs \ {j} /\ view'.made = view.made
        /\ view'.dialog = IF j.own THEN [view.dialog EXCEPT !.at = "done", !.names = view.dialog.node]
                          ELSE view.dialog
        /\ DOMAIN view' = DOMAIN view /\ view'.page = view.page
        /\ view'.patient = view.patient /\ view'.favorites = view.favorites /\ view'.pots = view.pots
    BY <1>0, <1>7 DEF StoreFields, Store!Settle
  <2>2. Wish(j) \in view.made
    BY <1>7 DEF StoreInv, Store!Settle
  <2>3. CASE ~j.own
    BY <1>0, <1>7, <2>1, <2>3 DEF StoreInv, StoreTyped, StoreJob, Wish
  <2>4. CASE j.own
    <3>1. /\ DOMAIN view'.dialog = DOMAIN view.dialog /\ view'.dialog.at = "done"
          /\ view'.dialog.pot = view.dialog.pot /\ view'.dialog.names = view.dialog.node
          /\ view'.dialog.node = view.dialog.node
      BY <1>0, <2>1, <2>4
    <3>2. view.patient => j.pot = view.dialog.pot /\ j.node = view.dialog.node
      BY <2>4 DEF StoreInv
    <3>3. \A i \in view'.jobs : ~i.own
      BY <2>1, <2>4 DEF StoreInv
    <3>4. view'.patient => [pot |-> view'.dialog.pot, node |-> view'.dialog.names] \in view'.made
      BY <2>1, <2>2, <3>1, <3>2 DEF Wish
    <3>. QED  BY <1>0, <1>7, <2>1, <3>1, <3>3, <3>4 DEF StoreInv, StoreTyped, StoreJob, Wish
  <2>. QED  BY <2>3, <2>4
<1>8. ASSUME NEW j \in view.jobs, Store!Refused(j), UNCHANGED stored PROVE StoreInv'
  <2>1. /\ view'.jobs = view.jobs \ {j} /\ view'.made = view.made
        /\ view'.dialog = [view.dialog EXCEPT !.at = IF j.own THEN "failed" ELSE @]
        /\ DOMAIN view' = DOMAIN view /\ view'.page = view.page
        /\ view'.patient = view.patient /\ view'.favorites = view.favorites /\ view'.pots = view.pots
    BY <1>0, <1>8 DEF StoreFields, Store!Refused
  <2>2. /\ DOMAIN view'.dialog = DOMAIN view.dialog
        /\ view'.dialog.at = IF j.own THEN "failed" ELSE view.dialog.at
        /\ view'.dialog.pot = view.dialog.pot /\ view'.dialog.node = view.dialog.node
        /\ view'.dialog.names = view.dialog.names
    BY <1>0, <2>1
  <2>3. j.own => \A i \in view'.jobs : ~i.own
    BY <2>1 DEF StoreInv
  <2>. QED  BY <1>0, <1>8, <2>1, <2>2, <2>3 DEF StoreInv, StoreTyped, StoreJob, Wish
<1>9. CASE (Store!ToggleFacet \/ Store!SetFavOnly \/ Store!ClearAll) /\ UNCHANGED stored
  <2>1. CASE Store!ToggleFacet
    <3>1. \E facet \in {"cats", "langs", "protos"} : \E k :
            view' = [view EXCEPT ![facet] = Store!Toggled(@, k)]
      BY <2>1 DEF Store!ToggleFacet
    <3>. QED  BY <1>0, <1>9, <3>1, StoreLook DEF StoreFields
  <2>2. CASE Store!SetFavOnly
    BY <1>0, <1>9, <2>2, StoreLook DEF StoreFields, Store!SetFavOnly
  <2>3. CASE Store!ClearAll
    BY <1>0, <1>9, <2>3, StoreLook DEF StoreFields, Store!ClearAll
  <2>. QED  BY <1>9, <2>1, <2>2, <2>3
<1>10. ASSUME NEW id, Store!ToggleFav(id) PROVE StoreInv'
  <2>1. id \in Store!Ids
    BY <1>0, <1>10 DEF Store!ToggleFav, Store!Filtered, Store!Ids
  <2>2. Store!Toggled(view.favorites, id) \subseteq Store!Ids
    BY <1>0, <2>1 DEF Store!Toggled
  <2>. QED  BY <1>0, <1>10, <2>2, StoreLook DEF StoreFields, Store!ToggleFav
<1>. QED  BY <1>1, <1>2, <1>3, <1>4, <1>5, <1>6, <1>7, <1>8, <1>9, <1>10 DEF Store!Step

\* The numbers beside the boxes are right for whatever catalogue has arrived.
LEMMA FacetCounts == Store!FacetCountsAreTrue
<1>1. ASSUME NEW k
      PROVE  {p \in view.pots : k \in Store!FacetOf(p)["cats"]}
               = {p \in view.pots : Store!InFacets(p, {k}, {}, {})}
  BY DEF Store!FacetOf, Store!InFacets
<1>2. ASSUME NEW k \in Store!Keys("langs")
      PROVE  {p \in view.pots : k \in Store!FacetOf(p)["langs"]}
               = {p \in view.pots : Store!InFacets(p, {}, {k}, {})}
  <2>1. PICK q : k \in Store!FacetOf(q)["langs"]
    BY <1>2 DEF Store!Keys
  <2>2. k # ""
    BY <2>1 DEF Store!FacetOf
  <2>. QED  BY <2>2 DEF Store!FacetOf, Store!InFacets
<1>3. ASSUME NEW k
      PROVE  {p \in view.pots : k \in Store!FacetOf(p)["protos"]}
               = {p \in view.pots : Store!InFacets(p, {}, {}, {k})}
  BY DEF Store!FacetOf, Store!InFacets
<1>. QED  BY <1>1, <1>2, <1>3 DEF Store!FacetCountsAreTrue, Store!Count

-----------------------------------------------------------------------------
(* The diagnostics.                                                        *)

DiagnosticsFields == {"page", "data", "loaded", "error", "fetching"}

\* What the server composes of its checks.
IsReport(data) ==
  \E db, analyzer, synced \in BOOLEAN : \E host \in Diagnostics!Measured :
    \E status \in Diagnostics!Breakdowns :
      data = Diagnostics!Report(Diagnostics!Checks(db, host, analyzer, synced), host, status)

\* What is shown once a report came is what the server composed of its checks.
DiagnosticsInv ==
  /\ view.page = "system" /\ DOMAIN view = DiagnosticsFields
  /\ {view.loaded, view.error, view.fetching} \subseteq BOOLEAN
  /\ view.loaded => IsReport(view.data)

LEMMA DiagnosticsMounts ==
  ASSUME view' \in Diagnostics!Mounted
  PROVE  DiagnosticsInv'
<1>1. view' = [page |-> "system", data |-> Diagnostics!NoReport, loaded |-> FALSE,
               error |-> FALSE, fetching |-> TRUE]
  BY DEF Diagnostics!Mounted
<1>. QED  BY <1>1 DEF DiagnosticsInv, DiagnosticsFields

\* Every step of the page.
LEMMA DiagnosticsStep ==
  ASSUME DiagnosticsInv, Diagnostics!Step
  PROVE  DiagnosticsInv'
<1>. USE DEF Diagnostics!Change, Diagnostics!Here
<1>1. CASE Diagnostics!Refetch
  <2>1. /\ DOMAIN view' = DOMAIN view /\ view'.page = view.page /\ view'.data = view.data
        /\ view'.loaded = view.loaded /\ view'.fetching = TRUE
        /\ view'.error = (view.error /\ view.loaded)
    BY <1>1 DEF Diagnostics!Refetch, DiagnosticsInv, DiagnosticsFields
  <2>. QED  BY <2>1 DEF DiagnosticsInv
<1>2. CASE Diagnostics!Arrives
  <2>1. PICK db, analyzer, synced \in BOOLEAN, host \in Diagnostics!Measured,
             status \in Diagnostics!Breakdowns :
          view' = [view EXCEPT !.fetching = FALSE, !.error = FALSE, !.loaded = TRUE,
                    !.data = Diagnostics!Report(Diagnostics!Checks(db, host, analyzer, synced),
                                                host, status)]
    BY <1>2 DEF Diagnostics!Arrives
  <2>. DEFINE data == Diagnostics!Report(Diagnostics!Checks(db, host, analyzer, synced), host, status)
  <2>2. IsReport(data)
    BY DEF IsReport
  <2>. HIDE DEF data
  <2>3. view' = [view EXCEPT !.fetching = FALSE, !.error = FALSE, !.loaded = TRUE, !.data = data]
    BY <2>1 DEF data
  <2>4. /\ DOMAIN view' = DOMAIN view /\ view'.page = view.page /\ view'.data = data
        /\ view'.loaded = TRUE /\ view'.fetching = FALSE /\ view'.error = FALSE
    BY <2>3 DEF DiagnosticsInv, DiagnosticsFields
  <2>. QED  BY <2>2, <2>4 DEF DiagnosticsInv
<1>3. CASE Diagnostics!Fails
  <2>1. /\ DOMAIN view' = DOMAIN view /\ view'.page = view.page /\ view'.data = view.data
        /\ view'.loaded = view.loaded /\ view'.fetching = FALSE /\ view'.error = TRUE
    BY <1>3 DEF Diagnostics!Fails, DiagnosticsInv, DiagnosticsFields
  <2>. QED  BY <2>1 DEF DiagnosticsInv
<1>. QED  BY <1>1, <1>2, <1>3 DEF Diagnostics!Step

\* The check of a measurement warns from 90 per cent on, and is never critical.
LEMMA ThresholdWarns ==
  ASSUME NEW name, NEW pct \in Percents \union {Diagnostics!Unknown}
  PROVE  /\ \A c \in Diagnostics!Threshold(name, pct) : c.name = name /\ ~c.critical /\ c.ok \in BOOLEAN
         /\ (\E c \in Diagnostics!Threshold(name, pct) : ~c.ok)
              <=> Diagnostics!GaugeColor(pct) = "red"
<1>1. pct \in Int
  <2>1. Percents \subseteq Nat
    BY ScreensAssumption
  <2>2. Diagnostics!Unknown \in Int
    BY DEF Diagnostics!Unknown
  <2>. QED  BY <2>1, <2>2
<1>2. CASE pct = Diagnostics!Unknown
  BY <1>2 DEF Diagnostics!Threshold, Diagnostics!GaugeColor
<1>3. CASE pct # Diagnostics!Unknown
  <2>1. Diagnostics!Threshold(name, pct) = {[name |-> name, ok |-> pct < 90, critical |-> FALSE]}
    BY <1>3 DEF Diagnostics!Threshold
  <2>2. Diagnostics!GaugeColor(pct) = "red" <=> pct >= 90
    BY <1>1, <1>3 DEF Diagnostics!GaugeColor
  <2>3. pct >= 90 <=> ~(pct < 90)
    BY <1>1
  <2>. DEFINE low == pct < 90
  <2>4. low \in BOOLEAN /\ (low <=> Diagnostics!GaugeColor(pct) # "red")
    BY <2>2, <2>3
  <2>5. Diagnostics!Threshold(name, pct) = {[name |-> name, ok |-> low, critical |-> FALSE]}
    BY <2>1
  <2>. HIDE DEF low
  <2>. QED  BY <2>4, <2>5
<1>. QED  BY <1>2, <1>3

LEMMA DiagnosticsAgree ==
  ASSUME DiagnosticsInv, Diagnostics!Screen = "report"
  PROVE  /\ Diagnostics!Banner = "Issues Detected"
              <=> \E c \in view.data.checks : Diagnostics!Card(c) = "FAIL"
         /\ Diagnostics!Banner # "Issues Detected" =>
              Diagnostics!Advisories = {c \in view.data.checks : Diagnostics!Card(c) # "OK"}
         /\ Diagnostics!Gauge(view.data.host.disk).color = "red"
              <=> \E c \in view.data.checks : c.name = "disk_space" /\ Diagnostics!Card(c) = "WARN"
         /\ Diagnostics!Gauge(view.data.host.memory).color = "red"
              <=> \E c \in view.data.checks : c.name = "memory" /\ Diagnostics!Card(c) = "WARN"
<1>1. view.loaded
  BY DEF Diagnostics!Screen, DiagnosticsInv
<1>2. PICK db, analyzer, synced \in BOOLEAN, host \in Diagnostics!Measured,
           status \in Diagnostics!Breakdowns :
        view.data = Diagnostics!Report(Diagnostics!Checks(db, host, analyzer, synced), host, status)
  BY <1>1 DEF DiagnosticsInv, IsReport
<1>. DEFINE checks == Diagnostics!Checks(db, host, analyzer, synced)
            plain == {[name |-> "database", ok |-> db, critical |-> TRUE],
                      [name |-> "node_gateway", ok |-> TRUE, critical |-> TRUE],
                      [name |-> "log_analyzer", ok |-> analyzer, critical |-> FALSE],
                      [name |-> "potstore", ok |-> synced, critical |-> FALSE]}
            disk == Diagnostics!Threshold("disk_space", host.disk)
            memory == Diagnostics!Threshold("memory", host.memory)
<1>3. checks = plain \union disk \union memory
  BY DEF Diagnostics!Checks
<1>4. /\ \A c \in plain : c.name \notin {"disk_space", "memory"} /\ c.ok \in BOOLEAN
                          /\ c.critical \in BOOLEAN
  OBVIOUS
<1>5. host.disk \in Percents \union {Diagnostics!Unknown}
      /\ host.memory \in Percents \union {Diagnostics!Unknown}
  BY DEF Diagnostics!Measured
<1>6. /\ \A c \in disk : c.name = "disk_space" /\ ~c.critical /\ c.ok \in BOOLEAN
      /\ (\E c \in disk : ~c.ok) <=> Diagnostics!GaugeColor(host.disk) = "red"
  BY <1>5, ThresholdWarns
<1>7. /\ \A c \in memory : c.name = "memory" /\ ~c.critical /\ c.ok \in BOOLEAN
      /\ (\E c \in memory : ~c.ok) <=> Diagnostics!GaugeColor(host.memory) = "red"
  BY <1>5, ThresholdWarns
<1>8. /\ view.data.checks = checks /\ view.data.ok = Diagnostics!OverallOK(checks)
      /\ view.data.host = host
  BY <1>2 DEF Diagnostics!Report
<1>. HIDE DEF checks, plain, disk, memory
<1>9. \A c \in checks : Diagnostics!Card(c) = "FAIL" <=> ~c.ok /\ c.critical
  BY DEF Diagnostics!Card
<1>10. \A c \in checks : Diagnostics!Card(c) = "WARN" <=> ~c.ok /\ ~c.critical
  BY DEF Diagnostics!Card
<1>11. \A c \in checks : Diagnostics!Card(c) = "OK" <=> c.ok
  BY DEF Diagnostics!Card
<1>12. Diagnostics!OverallOK(checks) <=> ~\E c \in checks : Diagnostics!Card(c) = "FAIL"
  BY <1>9 DEF Diagnostics!OverallOK
<1>13. Diagnostics!Banner = "Issues Detected" <=> ~Diagnostics!OverallOK(checks)
  BY <1>8 DEF Diagnostics!Banner
<1>14. Diagnostics!OverallOK(checks) =>
         Diagnostics!Advisories = {c \in view.data.checks : Diagnostics!Card(c) # "OK"}
  BY <1>8, <1>11 DEF Diagnostics!Advisories, Diagnostics!OverallOK
<1>15. \A c \in checks : c.name = "disk_space" <=> c \in disk
  BY <1>3, <1>4, <1>6, <1>7
<1>16. \A c \in checks : c.name = "memory" <=> c \in memory
  BY <1>3, <1>4, <1>6, <1>7
<1>17. Diagnostics!Gauge(host.disk).color = Diagnostics!GaugeColor(host.disk)
       /\ Diagnostics!Gauge(host.memory).color = Diagnostics!GaugeColor(host.memory)
  BY DEF Diagnostics!Gauge
<1>18. (\E c \in checks : c.name = "disk_space" /\ Diagnostics!Card(c) = "WARN")
         <=> \E c \in disk : ~c.ok
  BY <1>3, <1>6, <1>10, <1>15
<1>19. (\E c \in checks : c.name = "memory" /\ Diagnostics!Card(c) = "WARN")
         <=> \E c \in memory : ~c.ok
  BY <1>3, <1>7, <1>10, <1>16
<1>. QED  BY <1>6, <1>7, <1>8, <1>12, <1>13, <1>14, <1>17, <1>18, <1>19

LEMMA DiagnosticsShows ==
  ASSUME DiagnosticsInv
  PROVE  Diagnostics!BannerIsTrue /\ Diagnostics!GaugesAgree
BY DiagnosticsAgree DEF Diagnostics!BannerIsTrue, Diagnostics!GaugesAgree

-----------------------------------------------------------------------------
(* The tabs of a node.                                                     *)

TabbedFields ==
  {"page", "tab", "plat", "online", "known", "copied", "clipboard", "timers", "confirm", "removal"}

\* What is marked as copied is in the clipboard, and a timer will take the mark.
TabbedInv ==
  /\ view.page = "node-tabs" /\ DOMAIN view = TabbedFields
  /\ view.tab \in Tabbed!Tabs /\ view.plat \in {"linux", "windows"}
  /\ view.timers \in Nat /\ view.timers <= MaxTimers
  /\ view.copied # << >> => view.copied = view.clipboard /\ view.timers > 0

LEMMA TabbedMounts ==
  ASSUME view' \in Tabbed!Mounted
  PROVE  TabbedInv'
<1>1. PICK o, k \in BOOLEAN :
        view' = [page |-> "node-tabs", tab |-> "deployments", plat |-> "linux", online |-> o,
                 known |-> k, copied |-> << >>, clipboard |-> << >>, timers |-> 0,
                 confirm |-> FALSE, removal |-> "none"]
  BY DEF Tabbed!Mounted
<1>. QED  BY <1>1, ScreensAssumption DEF TabbedInv, TabbedFields, Tabbed!Tabs

\* Every step of the page.
LEMMA TabbedStep ==
  ASSUME TabbedInv, Tabbed!Step
  PROVE  TabbedInv' \/ view' = Between
<1>. USE DEF Tabbed!Change, Tabbed!Here
<1>0. MaxTimers \in Nat
  BY ScreensAssumption
<1>a. ASSUME DOMAIN view' = DOMAIN view, view'.page = view.page, view'.tab \in Tabbed!Tabs,
             view'.plat \in {"linux", "windows"}, view'.timers = view.timers,
             view'.copied = view.copied, view'.clipboard = view.clipboard
      PROVE  TabbedInv'
  BY <1>a DEF TabbedInv
<1>1. CASE Tabbed!TimerEnds
  <2>1. /\ DOMAIN view' = DOMAIN view /\ view'.page = view.page /\ view'.tab = view.tab
        /\ view'.plat = view.plat /\ view'.timers = view.timers - 1 /\ view'.copied = << >>
        /\ view.timers > 0
    BY <1>1 DEF Tabbed!TimerEnds, TabbedInv, TabbedFields
  <2>. QED  BY <1>0, <2>1 DEF TabbedInv
<1>2. ASSUME NEW c, Tabbed!CopyText(c) PROVE TabbedInv'
  <2>1. /\ DOMAIN view' = DOMAIN view /\ view'.page = view.page /\ view'.tab = view.tab
        /\ view'.plat = view.plat /\ view'.timers = view.timers + 1 /\ view'.copied = c
        /\ view'.clipboard = c /\ view.timers < MaxTimers
    BY <1>2 DEF Tabbed!CopyText, TabbedInv, TabbedFields
  <2>. QED  BY <1>0, <2>1 DEF TabbedInv
<1>b. ASSUME NEW t \in Tabbed!Tabs, Tabbed!SetTab(t) PROVE TabbedInv'
  <2>1. /\ DOMAIN view' = DOMAIN view /\ view'.page = view.page /\ view'.tab = t
        /\ view'.plat = view.plat /\ view'.timers = view.timers /\ view'.copied = view.copied
        /\ view'.clipboard = view.clipboard
    BY <1>b DEF Tabbed!SetTab, TabbedInv, TabbedFields
  <2>. QED  BY <1>a, <2>1 DEF TabbedInv
<1>3. CASE Tabbed!OpenInstall
  BY <1>3, <1>b DEF Tabbed!OpenInstall, Tabbed!Tabs
<1>4. CASE Tabbed!SetPlatform
  <2>1. /\ DOMAIN view' = DOMAIN view /\ view'.page = view.page /\ view'.tab = view.tab
        /\ view'.plat \in {"linux", "windows"} /\ view'.timers = view.timers
        /\ view'.copied = view.copied /\ view'.clipboard = view.clipboard
    BY <1>4 DEF Tabbed!SetPlatform, TabbedInv, TabbedFields
  <2>. QED  BY <1>a, <2>1 DEF TabbedInv
<1>5. CASE Tabbed!OnlineChanges \/ Tabbed!AskUninstall \/ Tabbed!CancelUninstall
           \/ Tabbed!Uninstall \/ Tabbed!Serve
  <2>1. /\ DOMAIN view' = DOMAIN view /\ view'.page = view.page /\ view'.tab = view.tab
        /\ view'.plat = view.plat /\ view'.timers = view.timers
        /\ view'.copied = view.copied /\ view'.clipboard = view.clipboard
    BY <1>5 DEF Tabbed!OnlineChanges, Tabbed!AskUninstall, Tabbed!CancelUninstall,
                Tabbed!Uninstall, Tabbed!Serve, TabbedInv, TabbedFields
  <2>. QED  BY <1>a, <2>1 DEF TabbedInv
<1>6. CASE Tabbed!Navigates
  BY <1>6 DEF Tabbed!Navigates, Between
<1>. QED  BY <1>1, <1>2, <1>b, <1>3, <1>4, <1>5, <1>6 DEF Tabbed!Step

-----------------------------------------------------------------------------
(* The posture of the organisation.                                        *)

\* Two administrators are healthy, and one is not, whatever the other roles are.
LEMMA PostureTells == Staff!PostureAgrees
<1>. DEFINE admins == Staff!Admins(view.list)
            all == Staff!In(view.list)
<1>1. admins \subseteq all /\ all \subseteq People
  BY DEF Staff!Admins, Staff!In
<1>2. IsFiniteSet(all) /\ IsFiniteSet(admins)
  BY <1>1, ScreensAssumption, FS_Subset
<1>3. Cardinality(admins) \in Nat /\ Cardinality(all) \in Nat
  BY <1>2, FS_CardinalityType
<1>4. Staff!Cardinality(admins) = Cardinality(admins) /\ Staff!Cardinality(all) = Cardinality(all)
  BY DEF Staff!Cardinality, Cardinality
<1>. DEFINE many == Cardinality(admins)
            total == Cardinality(all)
<1>5. ASSUME NEW privileged \in many .. total, NEW viewers \in 0 .. total - many
      PROVE  Staff!Posture(Staff!Score(privileged, viewers)) = "Healthy"
               <=> Staff!FirstInsight = "Redundant"
  <2>1. Staff!FirstInsight = "Redundant" <=> many # 0 /\ many # 1
    BY <1>4 DEF Staff!FirstInsight
  <2>2. Staff!Score(privileged, viewers)
          = Staff!Base(many) - (IF privileged * 10 > total * 6 THEN 15 ELSE 0)
                             - (IF total > 1 /\ viewers = 0 THEN 5 ELSE 0)
    BY <1>4 DEF Staff!Score
  <2>3. Staff!Base(many) = IF many = 0 THEN 40 ELSE IF many = 1 THEN 75 ELSE 100
    BY <1>3 DEF Staff!Base
  <2>. DEFINE role == IF privileged * 10 > total * 6 THEN 15 ELSE 0
              look == IF total > 1 /\ viewers = 0 THEN 5 ELSE 0
  <2>4. role \in {0, 15} /\ look \in {0, 5}
    OBVIOUS
  <2>5. Staff!Score(privileged, viewers) = Staff!Base(many) - role - look
    BY <2>2
  <2>. HIDE DEF role, look, many, total
  <2>6. Staff!Score(privileged, viewers) >= 80 <=> many # 0 /\ many # 1
    BY <2>3, <2>4, <2>5
  <2>7. Staff!Posture(Staff!Score(privileged, viewers)) = "Healthy"
          <=> Staff!Score(privileged, viewers) >= 80
    BY DEF Staff!Posture
  <2>. QED  BY <2>1, <2>6, <2>7
<1>. QED  BY <1>4, <1>5 DEF Staff!PostureAgrees

-----------------------------------------------------------------------------
(* The sockets of the attack map.                                          *)

SocketFields == {"page", "sockets", "connected", "inOrder", "frames", "token", "effectFor"}

\* One socket at most connects or is open, and where they come in order none
\* closes under an open one, which is what the page says.
SocketsInv ==
  /\ SocketFields \subseteq DOMAIN view /\ view.page = "attack-map"
  /\ view.sockets \in [Sockets -> {"none", "connecting", "open", "closing"}]
  /\ \A k, l \in Sockets :
       view.sockets[k] \in {"connecting", "open"} /\ view.sockets[l] \in {"connecting", "open"}
         => k = l
  /\ view.inOrder =>
       /\ \A k \in Sockets : view.sockets[k] = "open" =>
            view.connected /\ \A l \in Sockets : view.sockets[l] # "closing"
       /\ view.connected => \E k \in Sockets : view.sockets[k] \in {"open", "closing"}

LEMMA SocketsMount ==
  ASSUME view' \in Map!Mounted
  PROVE  SocketsInv'
<1>1. PICK s \in {{}, {1} \cap Hits}, o \in BOOLEAN :
        view' = [page |-> "attack-map", srv |-> s, seeded |-> {}, fetch |-> Map!Asked,
                 live |-> <<>>, last |-> 0, frames |-> {}, token |-> 1, effectFor |-> 0,
                 sockets |-> [k \in Sockets |-> "none"], connected |-> FALSE, inOrder |-> o]
  BY DEF Map!Mounted
<1>. QED  BY <1>1 DEF SocketsInv, SocketFields

\* A step that leaves the sockets alone.
LEMMA SocketsLook ==
  ASSUME SocketsInv, DOMAIN view' = DOMAIN view, view'.page = view.page,
         view'.sockets = view.sockets, view'.connected = view.connected,
         view'.inOrder = view.inOrder
  PROVE  SocketsInv'
BY DEF SocketsInv

\* Every step of the page.
LEMMA SocketsStep ==
  ASSUME SocketsInv, Map!Step
  PROVE  SocketsInv'
<1>. USE DEF Map!Change
<1>1. CASE \/ Map!SeedStarts \/ Map!SeedIsRead \/ Map!SeedArrives \/ Map!SeedFails
           \/ Map!TokenChanges \/ Map!Drawn
           \/ (\E e \in Hits : Map!Hit(e)) \/ (\E e \in Hits : Map!Message(e))
  <2>1. /\ DOMAIN view' = DOMAIN view /\ view'.page = view.page /\ view'.sockets = view.sockets
        /\ view'.connected = view.connected /\ view'.inOrder = view.inOrder
    BY <1>1 DEF SocketsInv, SocketFields, Map!SeedStarts, Map!SeedIsRead, Map!SeedArrives,
                Map!SeedFails, Map!TokenChanges, Map!Drawn, Map!Hit, Map!Message
  <2>. QED  BY <2>1, SocketsLook
<1>2. CASE Map!Effect
  <2>1. PICK k \in Map!At({"none"}) :
          view' = [view EXCEPT !.effectFor = view.token, !.frames = {},
                               !.sockets = [Map!Cleanup EXCEPT ![k] = "connecting"]]
    BY <1>2 DEF Map!Effect
  <2>2. k \in Sockets /\ view.sockets[k] = "none"
    BY <2>1 DEF Map!At
  <2>3. /\ DOMAIN view' = DOMAIN view /\ view'.page = view.page
        /\ view'.sockets = [Map!Cleanup EXCEPT ![k] = "connecting"]
        /\ view'.connected = view.connected /\ view'.inOrder = view.inOrder
    BY <2>1 DEF SocketsInv, SocketFields
  <2>4. view'.sockets = [l \in Sockets |-> IF l = k THEN "connecting"
                            ELSE IF view.sockets[l] = "none" THEN "none" ELSE "closing"]
    BY <2>3 DEF Map!Cleanup
  <2>5. \A l \in Sockets : view.sockets[l] \in {"open", "closing"} => view'.sockets[l] = "closing"
    BY <2>2, <2>4
  <2>. QED  BY <2>2, <2>3, <2>4, <2>5 DEF SocketsInv
<1>3. ASSUME NEW k \in Sockets, Map!Opened(k)
      PROVE  SocketsInv'
  <2>1. /\ DOMAIN view' = DOMAIN view /\ view'.page = view.page
        /\ view'.sockets = [view.sockets EXCEPT ![k] = "open"]
        /\ view'.connected = TRUE /\ view'.inOrder = view.inOrder
        /\ view.sockets[k] = "connecting"
    BY <1>3 DEF Map!Opened, SocketsInv, SocketFields
  <2>2. view.inOrder => \A l \in Sockets : view.sockets[l] # "closing"
    BY <1>3 DEF Map!Opened, Map!At
  <2>. QED  BY <2>1, <2>2 DEF SocketsInv
<1>4. ASSUME NEW k \in Sockets, Map!Ended(k)
      PROVE  SocketsInv'
  <2>1. /\ DOMAIN view' = DOMAIN view /\ view'.page = view.page
        /\ view'.sockets = [view.sockets EXCEPT ![k] = "none"]
        /\ view'.connected = FALSE /\ view'.inOrder = view.inOrder
        /\ view.sockets[k] # "none"
    BY <1>4 DEF Map!Ended, SocketsInv, SocketFields
  <2>. QED  BY <2>1 DEF SocketsInv
<1>. QED  BY <1>1, <1>2, <1>3, <1>4 DEF Map!Step

\* What the page shows of its sockets.
LEMMA SocketsShow ==
  ASSUME SocketsInv
  PROVE  Map!OneFeed /\ Map!LiveIsTrue
<1>1. Map!OneFeed
  <2>. DEFINE open == Map!At({"open"})
  <2>1. \A k, l \in open : k = l
    BY DEF SocketsInv, Map!At
  <2>2. open = {} \/ \E k : open = {k}
    BY <2>1
  <2>. HIDE DEF open
  <2>3. Cardinality(open) <= 1
    BY <2>2, FS_EmptySet, FS_Singleton
  <2>4. Map!Cardinality(open) = Cardinality(open)
    BY DEF Map!Cardinality, Cardinality
  <2>. QED  BY <2>3, <2>4 DEF open, Map!OneFeed
<1>2. Map!LiveIsTrue
  BY DEF SocketsInv, Map!LiveIsTrue, Map!At
<1>. QED  BY <1>1, <1>2

-----------------------------------------------------------------------------
(* The analytics.                                                          *)

AnalyticsFields == {"page", "happened", "hours", "asked", "cache", "failed", "composing"}

\* Overviews: what the queries found are events that happened.
Overview ==
  [about : Periods \union {0}, total : 0 .. Len(Recorded), ips : 0 .. Len(Recorded),
   rest : 0 .. Len(Recorded)]

\* What is kept for a period is an overview of it, or of nothing.
AnalyticsInv ==
  /\ view.page = "analytics" /\ DOMAIN view = AnalyticsFields
  /\ view.happened \in 0 .. Len(Recorded)
  /\ view.hours \in Periods /\ view.asked \subseteq Periods
  /\ view.cache \in [Periods -> Overview]
  /\ \A p \in Periods : view.cache[p] = Analytics!NoOverview \/ view.cache[p].about = p
  /\ DOMAIN view.composing = {"at", "of"} /\ view.composing.of \in Overview
  /\ view.composing.at # "none" => view.composing.of.about \in Periods

LEMMA NoOverviewIsOne ==
  /\ Len(Recorded) \in Nat /\ Analytics!NoOverview \in Overview
  /\ 0 \in 0 .. Len(Recorded)
<1>1. Len(Recorded) \in Nat
  BY ScreensAssumption
<1>. QED  BY <1>1 DEF Overview, Analytics!NoOverview

LEMMA AnalyticsMounts ==
  ASSUME view' \in Analytics!Mounted
  PROVE  AnalyticsInv'
<1>1. PICK h \in Periods :
        view' = [page |-> "analytics", happened |-> 0, hours |-> h, asked |-> {h},
                 cache |-> [p \in Periods |-> Analytics!NoOverview], failed |-> {},
                 composing |-> Analytics!Idle]
  BY DEF Analytics!Mounted
<1>2. Analytics!Idle.at = "none" /\ Analytics!Idle.of = Analytics!NoOverview
      /\ DOMAIN Analytics!Idle = {"at", "of"}
  BY DEF Analytics!Idle
<1>. QED  BY <1>1, <1>2, NoOverviewIsOne DEF AnalyticsInv, AnalyticsFields

\* What a query finds is a number of events that happened.
LEMMA FoundSoMany ==
  ASSUME AnalyticsInv, NEW query, NEW n \in Analytics!Found(query)
  PROVE  n \in 0 .. Len(Recorded)
BY NoOverviewIsOne DEF AnalyticsInv, Analytics!Found

\* A step that leaves what is known and what is composed alone.
LEMMA AnalyticsLook ==
  ASSUME AnalyticsInv, DOMAIN view' = DOMAIN view, view'.page = view.page,
         view'.happened \in 0 .. Len(Recorded), view'.hours \in Periods,
         view'.asked \subseteq Periods, view'.cache = view.cache,
         view'.composing = view.composing
  PROVE  AnalyticsInv'
BY DEF AnalyticsInv

\* A step that goes on with the overview that is composed.
LEMMA AnalyticsComposes ==
  ASSUME AnalyticsInv, NEW asked \in SUBSET Periods, NEW at, NEW of \in Overview,
         of.about \in Periods,
         view' = [view EXCEPT !.asked = asked, !.composing = [at |-> at, of |-> of]]
  PROVE  AnalyticsInv'
<1>1. /\ DOMAIN view' = DOMAIN view /\ view'.page = view.page
      /\ view'.happened = view.happened /\ view'.hours = view.hours /\ view'.asked = asked
      /\ view'.cache = view.cache /\ view'.composing = [at |-> at, of |-> of]
  BY DEF AnalyticsInv, AnalyticsFields
<1>. QED  BY <1>1 DEF AnalyticsInv

\* Every step of the page.
LEMMA AnalyticsStep ==
  ASSUME AnalyticsInv, Analytics!Step
  PROVE  AnalyticsInv'
<1>. USE DEF Analytics!Change, Analytics!Here
<1>1. CASE Analytics!Happens
  <2>1. /\ DOMAIN view' = DOMAIN view /\ view'.page = view.page
        /\ view'.happened = view.happened + 1 /\ view.happened < Len(Recorded)
        /\ view'.hours = view.hours /\ view'.asked = view.asked /\ view'.cache = view.cache
        /\ view'.composing = view.composing
    BY <1>1 DEF Analytics!Happens, AnalyticsInv, AnalyticsFields
  <2>2. view.happened + 1 \in 0 .. Len(Recorded)
    BY <2>1, NoOverviewIsOne DEF AnalyticsInv
  <2>. QED  BY <2>1, <2>2, AnalyticsLook DEF AnalyticsInv
<1>2. CASE Analytics!CountTotal
  <2>1. PICK p \in view.asked, all \in Analytics!Found("total") :
          view' = [view EXCEPT !.asked = @ \ {p},
            !.composing = [at |-> "total", of |-> [about |-> p, total |-> all,
                                                   ips |-> 0, rest |-> 0]]]
    BY <1>2 DEF Analytics!CountTotal
  <2>2. p \in Periods /\ all \in 0 .. Len(Recorded)
    BY <2>1, FoundSoMany DEF AnalyticsInv
  <2>. DEFINE of == [about |-> p, total |-> all, ips |-> 0, rest |-> 0]
  <2>3. of \in Overview /\ of.about \in Periods
    BY <2>2, NoOverviewIsOne DEF Overview
  <2>4. view.asked \ {p} \in SUBSET Periods
    BY DEF AnalyticsInv
  <2>5. view' = [view EXCEPT !.asked = view.asked \ {p}, !.composing = [at |-> "total", of |-> of]]
    BY <2>1
  <2>. HIDE DEF of
  <2>. QED  BY <2>3, <2>4, <2>5, AnalyticsComposes
<1>3. CASE Analytics!GroupByIP
  <2>1. PICK ips \in Analytics!Found("ips") :
          view' = [view EXCEPT !.composing = [at |-> "ips", of |-> [@.of EXCEPT !.ips = ips]]]
    BY <1>3 DEF Analytics!GroupByIP
  <2>. DEFINE of == [view.composing.of EXCEPT !.ips = ips]
  <2>2. ips \in 0 .. Len(Recorded)
    BY <2>1, FoundSoMany
  <2>3. view.composing.of \in Overview /\ view.composing.of.about \in Periods
    BY <1>3 DEF Analytics!GroupByIP, AnalyticsInv
  <2>4. of \in Overview /\ of.about \in Periods
    BY <2>2, <2>3 DEF Overview
  <2>5. view' = [view EXCEPT !.asked = view.asked, !.composing = [at |-> "ips", of |-> of]]
    BY <2>1 DEF AnalyticsInv, AnalyticsFields
  <2>6. view.asked \in SUBSET Periods
    BY DEF AnalyticsInv
  <2>. HIDE DEF of
  <2>. QED  BY <2>4, <2>5, <2>6, AnalyticsComposes
<1>4. CASE Analytics!GroupTheRest
  <2>1. PICK rest \in Analytics!Found("rest") :
          view' = [view EXCEPT !.composing = [at |-> "rest", of |-> [@.of EXCEPT !.rest = rest]]]
    BY <1>4 DEF Analytics!GroupTheRest
  <2>. DEFINE of == [view.composing.of EXCEPT !.rest = rest]
  <2>2. rest \in 0 .. Len(Recorded)
    BY <2>1, FoundSoMany
  <2>3. view.composing.of \in Overview /\ view.composing.of.about \in Periods
    BY <1>4 DEF Analytics!GroupTheRest, AnalyticsInv
  <2>4. of \in Overview /\ of.about \in Periods
    BY <2>2, <2>3 DEF Overview
  <2>5. view' = [view EXCEPT !.asked = view.asked, !.composing = [at |-> "rest", of |-> of]]
    BY <2>1 DEF AnalyticsInv, AnalyticsFields
  <2>6. view.asked \in SUBSET Periods
    BY DEF AnalyticsInv
  <2>. HIDE DEF of
  <2>. QED  BY <2>4, <2>5, <2>6, AnalyticsComposes
<1>5. CASE Analytics!Poll
  <2>1. /\ DOMAIN view' = DOMAIN view /\ view'.page = view.page
        /\ view'.happened = view.happened /\ view'.hours = view.hours
        /\ view'.asked = view.asked \union {view.hours} /\ view'.cache = view.cache
        /\ view'.composing = view.composing
    BY <1>5 DEF Analytics!Poll, AnalyticsInv, AnalyticsFields
  <2>. QED  BY <2>1, AnalyticsLook DEF AnalyticsInv
<1>6. ASSUME NEW h \in Periods, Analytics!SetHours(h)
      PROVE  AnalyticsInv'
  <2>1. /\ DOMAIN view' = DOMAIN view /\ view'.page = view.page
        /\ view'.happened = view.happened /\ view'.hours = h
        /\ view'.asked \subseteq view.asked \union {h} /\ view'.cache = view.cache
        /\ view'.composing = view.composing
    BY <1>6 DEF Analytics!SetHours, AnalyticsInv, AnalyticsFields
  <2>. QED  BY <1>6, <2>1, AnalyticsLook DEF AnalyticsInv
<1>7. CASE Analytics!Arrives
  <2>. DEFINE p == view.composing.of.about
              of == view.composing.of
  <2>1. p \in Periods /\ of \in Overview /\ of.about = p
    BY <1>7 DEF Analytics!Arrives, AnalyticsInv
  <2>2. /\ DOMAIN view' = DOMAIN view /\ view'.page = view.page
        /\ view'.happened = view.happened /\ view'.hours = view.hours
        /\ view'.asked = view.asked /\ view'.cache = [view.cache EXCEPT ![p] = of]
        /\ view'.composing = Analytics!Idle
    BY <1>7 DEF Analytics!Arrives, AnalyticsInv, AnalyticsFields
  <2>3. Analytics!Idle.at = "none" /\ Analytics!Idle.of = Analytics!NoOverview
        /\ DOMAIN Analytics!Idle = {"at", "of"}
    BY DEF Analytics!Idle
  <2>. HIDE DEF p, of
  <2>. QED  BY <2>1, <2>2, <2>3, NoOverviewIsOne DEF AnalyticsInv
<1>8. CASE Analytics!Fails
  <2>2. /\ DOMAIN view' = DOMAIN view /\ view'.page = view.page
        /\ view'.happened = view.happened /\ view'.hours = view.hours
        /\ view'.asked = view.asked /\ view'.cache = view.cache
        /\ view'.composing = Analytics!Idle
    BY <1>8 DEF Analytics!Fails, AnalyticsInv, AnalyticsFields
  <2>3. Analytics!Idle.at = "none" /\ Analytics!Idle.of = Analytics!NoOverview
        /\ DOMAIN Analytics!Idle = {"at", "of"}
    BY DEF Analytics!Idle
  <2>. QED  BY <2>2, <2>3, NoOverviewIsOne DEF AnalyticsInv
<1>. QED  BY <1>1, <1>2, <1>3, <1>4, <1>5, <1>6, <1>7, <1>8 DEF Analytics!Step

\* The chart has a bucket for the hour of every event that its overview counts, and
\* for no other hour.
LEMMA BucketsAreOfEvents ==
  ASSUME NEW report, NEW hour
  PROVE  (\E row \in Analytics!Timeline(report) : row.key = hour)
           <=> \E e \in Analytics!InPeriod(report) : Recorded[e].age = hour
<1>. DEFINE of == [e \in Analytics!InPeriod(report) |-> Recorded[e].age]
            hours == {of[e] : e \in DOMAIN of}
            row(x) == [key |-> x, count |-> Analytics!Cardinality({e \in DOMAIN of : of[e] = x})]
<1>1. Analytics!Timeline(report) = {row(x) : x \in hours}
  BY DEF Analytics!Timeline, Analytics!Grouped, Analytics!Range
<1>2. \A x : row(x).key = x
  OBVIOUS
<1>3. hours = {Recorded[e].age : e \in Analytics!InPeriod(report)}
  OBVIOUS
<1>. HIDE DEF of, hours, row
<1>4. (\E r \in Analytics!Timeline(report) : r.key = hour) <=> hour \in hours
  BY <1>1, <1>2
<1>. QED  BY <1>3, <1>4

\* The timeline is of the period it stands under, since an overview is kept under the
\* period that its timeline is of.
LEMMA AnalyticsShows ==
  ASSUME AnalyticsInv PROVE Analytics!PeriodIsTrue
<1>. SUFFICES ASSUME Analytics!Data # Analytics!NoOverview, NEW e \in 1 .. Analytics!Data.rest
              PROVE  Recorded[e].age <= view.hours
                       <=> \E row \in Analytics!Chart : row.key = Recorded[e].age
  BY DEF Analytics!PeriodIsTrue, Analytics!Screen
<1>1. Analytics!Data.about = view.hours
  BY DEF AnalyticsInv, Analytics!Data
<1>2. (\E row \in Analytics!Chart : row.key = Recorded[e].age)
        <=> \E x \in Analytics!InPeriod(Analytics!Data) : Recorded[x].age = Recorded[e].age
  BY BucketsAreOfEvents DEF Analytics!Chart
<1>3. \A x \in Analytics!InPeriod(Analytics!Data) : Recorded[x].age <= view.hours
  BY <1>1 DEF Analytics!InPeriod
<1>4. Recorded[e].age <= view.hours => e \in Analytics!InPeriod(Analytics!Data)
  BY <1>1 DEF Analytics!InPeriod
<1>. QED  BY <1>2, <1>3, <1>4

-----------------------------------------------------------------------------
(* The frame and the palette.                                              *)

FrameFields == {"page", "path", "may", "palette", "menu", "collapsed", "theme"}

PaletteFields == {"open", "term", "idx"}

\* The entry that Enter opens is one of those listed, if any is.
FrameInv ==
  /\ view.page = "frame" /\ DOMAIN view = FrameFields
  /\ view.path \in Around!Routes /\ view.may \subseteq {"users", "notifications"}
  /\ DOMAIN view.palette = PaletteFields
  /\ view.palette.idx \in Int
  /\ Around!Matches # {} => Around!Chosen \in 1 .. Around!Listed

-----------------------------------------------------------------------------
\* A sequence that lists the elements of T, each of them once.
Lists(s, T) ==
  /\ s \in Seq(T)
  /\ \A i, j \in 1 .. Len(s) : s[i] = s[j] => i = j
  /\ \A x \in T : \E i \in 1 .. Len(s) : s[i] = x

LEMMA OneMoreIsListed ==
  ASSUME NEW s, NEW T, Lists(s, T), NEW x, x \notin T
  PROVE  Lists(s \o <<x>>, T \union {x})
<1>. DEFINE S == T \union {x}
            n == Len(s)
<1>1. s \in Seq(S) /\ n \in Nat /\ \A i \in 1 .. n : s[i] \in T
  BY DEF Lists
<1>2. s \o <<x>> = [i \in 1 .. n + 1 |-> IF i <= n THEN s[i] ELSE x]
  BY <1>1
<1>3. s \o <<x>> \in Seq(S) /\ Len(s \o <<x>>) = n + 1
  BY <1>1
<1>. DEFINE t == s \o <<x>>
<1>4. /\ \A i \in 1 .. n : t[i] = s[i]
      /\ t[n + 1] = x
  BY <1>1, <1>2
<1>5. \A i \in 1 .. n + 1 : i \in 1 .. n \/ i = n + 1
  BY <1>1
<1>. HIDE DEF t, n
<1>6. \A i, j \in 1 .. n + 1 : t[i] = t[j] => i = j
  BY <1>1, <1>4, <1>5 DEF Lists, n
<1>7. \A y \in S : \E i \in 1 .. n + 1 : t[i] = y
  <2>1. \A i \in 1 .. n : i \in 1 .. n + 1
    BY <1>1
  <2>2. n + 1 \in 1 .. n + 1
    BY <1>1
  <2>. QED  BY <1>4, <2>1, <2>2 DEF Lists, n
<1>. QED  BY <1>3, <1>6, <1>7 DEF Lists, t

LEMMA NoMoreIsListed ==
  ASSUME NEW s, NEW T, Lists(s, T)
  PROVE  s \o <<>> = s
BY DEF Lists

\* The navigation has an entry for every page with a fixed path that the role of
\* the user offers, and no entry twice.
Offered ==
  Around!Fixed \ ((IF "notifications" \in view.may THEN {} ELSE {"/telegram-bots"})
                    \union (IF "users" \in view.may THEN {} ELSE {"/users"}))

LEMMA NavItemsAreOffered == Lists(Around!NavItems, Offered)
<1>. DEFINE T == Around!Fixed \ {"/telegram-bots", "/users"}
            U == Around!Fixed \ {"/users"}
<1>1. Lists(Around!Nav, T)
  BY DEF Lists, Around!Nav, Around!Fixed
<1>2. "/telegram-bots" \notin T /\ "/users" \notin T /\ "/users" \notin U
      /\ T \union {"/telegram-bots"} = U /\ U \union {"/users"} = Around!Fixed
      /\ T \union {"/users"} = Around!Fixed \ {"/telegram-bots"}
  BY DEF Around!Fixed
<1>. HIDE DEF T, U
<1>3. CASE "notifications" \in view.may
  <2>1. Lists(Around!Nav \o <<"/telegram-bots">>, U)
    BY <1>1, <1>2, OneMoreIsListed
  <2>2. CASE "users" \in view.may
    <3>1. Lists((Around!Nav \o <<"/telegram-bots">>) \o <<"/users">>, Around!Fixed)
      BY <1>2, <2>1, OneMoreIsListed
    <3>. QED  BY <1>3, <2>2, <3>1 DEF Around!NavItems, Offered
  <2>3. CASE "users" \notin view.may
    <3>1. (Around!Nav \o <<"/telegram-bots">>) \o <<>> = Around!Nav \o <<"/telegram-bots">>
      BY <2>1, NoMoreIsListed
    <3>. QED  BY <1>3, <2>1, <2>3, <3>1 DEF Around!NavItems, Offered, U
  <2>. QED  BY <2>2, <2>3
<1>4. CASE "notifications" \notin view.may
  <2>1. Around!Nav \o <<>> = Around!Nav
    BY <1>1, NoMoreIsListed
  <2>2. CASE "users" \in view.may
    <3>1. Lists(Around!Nav \o <<"/users">>, Around!Fixed \ {"/telegram-bots"})
      BY <1>1, <1>2, OneMoreIsListed
    <3>. QED  BY <1>4, <2>1, <2>2, <3>1 DEF Around!NavItems, Offered
  <2>3. CASE "users" \notin view.may
    <3>. QED  BY <1>1, <1>4, <2>1, <2>3 DEF Around!NavItems, Offered, T
  <2>. QED  BY <2>2, <2>3
<1>. QED  BY <1>3, <1>4
\* What the palette lists are finitely many entries.
ListedIsNumber ==
  /\ Around!Listed \in Nat
  /\ Around!Matches # {} => Around!Listed >= 1

LEMMA MatchesAreFinite == ListedIsNumber
<1>1. Around!NavItems \in Seq(Offered) /\ Len(Around!NavItems) \in Nat
      /\ DOMAIN Around!NavItems = 1 .. Len(Around!NavItems)
  <2>1. Around!NavItems \in Seq(Offered)
    BY NavItemsAreOffered DEF Lists
  <2>. QED  BY <2>1
<1>2. Around!Matches \in SUBSET (1 .. Len(Around!NavItems))
  BY <1>1 DEF Around!Matches
<1>3. IsFiniteSet(1 .. Len(Around!NavItems))
  <2>1. \A n \in Nat : IsFiniteSet(1 .. n)
    BY FS_Interval
  <2>. QED  BY <1>1, <2>1
<1>4. IsFiniteSet(Around!Matches)
  BY <1>2, <1>3, FS_Subset
<1>5. Around!Listed = Cardinality(Around!Matches)
  BY DEF Around!Listed, Around!Cardinality, Cardinality
<1>6. Cardinality(Around!Matches) \in Nat
  BY <1>4, FS_CardinalityType
<1>7. Around!Matches # {} => Cardinality(Around!Matches) # 0
  BY <1>4, FS_EmptySet
<1>. QED  BY <1>5, <1>6, <1>7 DEF ListedIsNumber

LEMMA MatchesStayFinite == ListedIsNumber'
BY MatchesAreFinite, PTL

LEMMA FrameMounts ==
  ASSUME view' \in Around!Mounted
  PROVE  FrameInv'
<1>1. PICK may \in SUBSET {"users", "notifications"} :
        view' = [page |-> "frame", path |-> "/", may |-> may, palette |-> Around!ClosedPalette,
                 menu |-> FALSE, collapsed |-> FALSE, theme |-> "light"]
  BY DEF Around!Mounted
<1>2. /\ view'.page = "frame" /\ DOMAIN view' = FrameFields /\ view'.path = "/"
      /\ view'.may = may /\ view'.palette = Around!ClosedPalette
  BY <1>1 DEF FrameFields
<1>3. "/" \in Around!Routes
  BY DEF Around!Routes, Around!Fixed
<1>4. DOMAIN Around!ClosedPalette = PaletteFields /\ Around!ClosedPalette.idx = 0
  BY DEF Around!ClosedPalette, PaletteFields
<1>5. (Around!Chosen)' = 1
  BY <1>2, <1>4 DEF Around!Chosen
<1>. QED  BY <1>2, <1>3, <1>4, <1>5, MatchesStayFinite DEF ListedIsNumber, FrameInv

\* A step of the frame that leaves the palette alone.
LEMMA FrameMoves ==
  ASSUME FrameInv, DOMAIN view' = DOMAIN view, view'.page = view.page,
         view'.path \in Around!Routes, view'.may = view.may, view'.palette = view.palette
  PROVE  FrameInv'
<1>1. Around!NavItems' = Around!NavItems
  BY DEF Around!NavItems
<1>2. (Around!Matches)' = Around!Matches
  BY <1>1 DEF Around!Matches
<1>3. Around!Listed' = Around!Listed /\ Around!Chosen' = Around!Chosen
  BY <1>2 DEF Around!Listed, Around!Chosen
<1>. QED  BY <1>2, <1>3 DEF FrameInv

\* A step that goes to the first entry, or to another one that is listed.
LEMMA PaletteMoves ==
  ASSUME FrameInv, DOMAIN view' = DOMAIN view, view'.page = view.page,
         view'.path \in Around!Routes, view'.may = view.may,
         DOMAIN view'.palette = DOMAIN view.palette, view'.palette.idx \in Int,
         \/ view'.palette.idx = 0
         \/ /\ view'.palette.term = view.palette.term
            /\ Around!Matches # {} => view'.palette.idx + 1 \in 1 .. Around!Listed
  PROVE  FrameInv'
<1>1. CASE view'.palette.idx = 0
  <2>1. Around!Chosen' = 1
    BY <1>1 DEF Around!Chosen
  <2>. QED  BY <2>1, MatchesStayFinite DEF ListedIsNumber, FrameInv
<1>2. CASE /\ view'.palette.term = view.palette.term
           /\ Around!Matches # {} => view'.palette.idx + 1 \in 1 .. Around!Listed
  <2>1. Around!NavItems' = Around!NavItems
    BY DEF Around!NavItems
  <2>2. (Around!Matches)' = Around!Matches
    BY <1>2, <2>1 DEF Around!Matches
  <2>3. Around!Listed' = Around!Listed
    BY <2>2 DEF Around!Listed
  <2>4. Around!Chosen' = view'.palette.idx + 1
    BY DEF Around!Chosen
  <2>. QED  BY <1>2, <2>2, <2>3, <2>4 DEF FrameInv
<1>. QED  BY <1>1, <1>2

LEMMA NavigatedRoutes ==
  ASSUME FrameInv, NEW to, NEW v, v \in {view, [view EXCEPT !.menu = FALSE],
                                         [view EXCEPT !.palette = Around!ClosedPalette]},
         view' = Around!Navigated(v, to)
  PROVE  /\ DOMAIN view' = DOMAIN view /\ view'.page = view.page
         /\ view'.path \in Around!Routes /\ view'.may = view.may /\ view'.palette = v.palette
<1>1. "/" \in Around!Routes
  BY DEF Around!Routes, Around!Fixed
<1>2. DOMAIN v = DOMAIN view /\ v.page = view.page /\ v.may = view.may /\ v.path = view.path
  BY DEF FrameInv, FrameFields
<1>3. view' = [v EXCEPT !.path = IF to \in Around!Routes THEN to ELSE "/"]
  BY DEF Around!Navigated
<1>4. DOMAIN view = FrameFields
  BY DEF FrameInv
<1>. HIDE DEF FrameInv
<1>. QED  BY <1>1, <1>2, <1>3, <1>4 DEF FrameFields

\* Every step of the frame.
LEMMA FrameStep ==
  ASSUME FrameInv, Around!Step
  PROVE  FrameInv'
<1>. USE DEF Around!Change
<1>1. CASE Around!Follow \/ Around!Visit
  <2>1. PICK to : view' = Around!Navigated(view, to)
    BY <1>1 DEF Around!Follow, Around!Visit
  <2>. QED  BY <2>1, NavigatedRoutes, FrameMoves
<1>2. CASE Around!ManageUsers
  <2>1. view' = Around!Navigated([view EXCEPT !.menu = FALSE], "/users")
    BY <1>2 DEF Around!ManageUsers
  <2>2. [view EXCEPT !.menu = FALSE].palette = view.palette
    BY DEF FrameInv, FrameFields
  <2>. QED  BY <2>1, <2>2, NavigatedRoutes, FrameMoves
<1>3. CASE \/ Around!ToggleMenu \/ Around!ClickOutside \/ Around!ToggleCollapsed
           \/ Around!ToggleTheme
  <2>1. /\ DOMAIN view' = DOMAIN view /\ view'.page = view.page /\ view'.path = view.path
        /\ view'.may = view.may /\ view'.palette = view.palette
    BY <1>3 DEF Around!ToggleMenu, Around!ClickOutside, Around!ToggleCollapsed,
                Around!ToggleTheme, FrameInv, FrameFields
  <2>. QED  BY <2>1, FrameMoves DEF FrameInv
<1>4. DOMAIN Around!ClosedPalette = PaletteFields /\ Around!ClosedPalette.idx = 0
  BY DEF Around!ClosedPalette, PaletteFields
<1>5. CASE Around!ToggleKey \/ Around!Escape
  <2>1. PICK palette \in {Around!ClosedPalette, [Around!ClosedPalette EXCEPT !.open = TRUE]} :
          view' = [view EXCEPT !.palette = palette]
    BY <1>5 DEF Around!ToggleKey, Around!Escape, FrameInv, FrameFields
  <2>2. DOMAIN palette = PaletteFields /\ palette.idx = 0
    BY DEF Around!ClosedPalette, PaletteFields
  <2>3. /\ DOMAIN view' = DOMAIN view /\ view'.page = view.page /\ view'.path = view.path
        /\ view'.may = view.may /\ view'.palette = palette
    BY <2>1 DEF FrameInv, FrameFields
  <2>. QED  BY <2>2, <2>3, PaletteMoves DEF FrameInv
<1>6. CASE \E i : Around!Choose(i)
  <2>1. PICK i : view' = Around!Navigated([view EXCEPT !.palette = Around!ClosedPalette],
                                          Around!NavItems[i])
    BY <1>6 DEF Around!Choose
  <2>2. [view EXCEPT !.palette = Around!ClosedPalette].palette = Around!ClosedPalette
    BY DEF FrameInv, FrameFields
  <2>3. /\ DOMAIN view' = DOMAIN view /\ view'.page = view.page
        /\ view'.path \in Around!Routes /\ view'.may = view.may
        /\ view'.palette = Around!ClosedPalette
    BY <2>1, <2>2, NavigatedRoutes
  <2>. QED  BY <1>4, <2>3, PaletteMoves DEF FrameInv
<1>7. ASSUME NEW term, Around!Type(term)
      PROVE  FrameInv'
  <2>1. view' = [view EXCEPT !.palette.term = term, !.palette.idx = 0]
    BY <1>7 DEF Around!Type
  <2>2. /\ DOMAIN view' = DOMAIN view /\ view'.page = view.page /\ view'.path = view.path
        /\ view'.may = view.may
        /\ DOMAIN view'.palette = DOMAIN view.palette /\ view'.palette.idx = 0
    BY <2>1 DEF FrameInv, FrameFields, PaletteFields
  <2>. QED  BY <2>2, PaletteMoves DEF FrameInv
<1>8. ASSUME NEW idx \in Int, view' = [view EXCEPT !.palette.idx = idx],
             Around!Matches # {} => idx + 1 \in 1 .. Around!Listed
      PROVE  FrameInv'
  <2>1. /\ DOMAIN view' = DOMAIN view /\ view'.page = view.page /\ view'.path = view.path
        /\ view'.may = view.may
        /\ DOMAIN view'.palette = DOMAIN view.palette /\ view'.palette.idx = idx
        /\ view'.palette.term = view.palette.term
    BY <1>8 DEF FrameInv, FrameFields, PaletteFields
  <2>. QED  BY <1>8, <2>1, PaletteMoves DEF FrameInv
<1>9. view.palette.idx \in Int /\ Around!Listed \in Nat
      /\ (Around!Matches # {} => /\ view.palette.idx + 1 \in 1 .. Around!Listed
                                 /\ Around!Listed >= 1)
  BY MatchesAreFinite DEF ListedIsNumber, FrameInv, Around!Chosen
<1>10. CASE Around!ArrowDown
  <2>. DEFINE idx == IF view.palette.idx + 1 <= Around!Listed - 1 THEN view.palette.idx + 1
                     ELSE Around!Listed - 1
  <2>1. idx \in Int /\ (Around!Matches # {} => idx + 1 \in 1 .. Around!Listed)
    BY <1>9
  <2>2. view' = [view EXCEPT !.palette.idx = idx]
    BY <1>10 DEF Around!ArrowDown, FrameInv, FrameFields, PaletteFields
  <2>. QED  BY <1>8, <2>1, <2>2
<1>11. CASE Around!ArrowUp
  <2>. DEFINE idx == IF view.palette.idx - 1 >= 0 THEN view.palette.idx - 1 ELSE 0
  <2>1. idx \in Int /\ (Around!Matches # {} => idx + 1 \in 1 .. Around!Listed)
    BY <1>9
  <2>2. view' = [view EXCEPT !.palette.idx = idx]
    BY <1>11 DEF Around!ArrowUp, FrameInv, FrameFields, PaletteFields
  <2>. QED  BY <1>8, <2>1, <2>2
<1>12. CASE Around!Hover
  <2>1. PICK n \in 1 .. Around!Listed : view' = [view EXCEPT !.palette.idx = n - 1]
    BY <1>12 DEF Around!Hover
  <2>2. n - 1 \in Int /\ (n - 1) + 1 \in 1 .. Around!Listed
    BY <1>9
  <2>. QED  BY <1>8, <2>1, <2>2
<1>13. CASE Around!Enter
  BY <1>6, <1>13 DEF Around!Enter
<1>14. CASE Around!Click
  BY <1>6, <1>14 DEF Around!Click
<1>. QED
  BY <1>1, <1>2, <1>3, <1>5, <1>7, <1>10, <1>11, <1>12, <1>13, <1>14 DEF Around!Step

\* One entry is marked, or none, and Enter opens a match.
LEMMA FrameShows ==
  ASSUME FrameInv
  PROVE  Around!OneEntryIsMarked /\ Around!EnterOpensAMatch
<1>1. Around!EnterOpensAMatch
  BY DEF FrameInv, Around!EnterOpensAMatch
<1>. DEFINE target == IF view.path = NodePath THEN "/nodes" ELSE view.path
            n == Len(Around!NavItems)
<1>2. Lists(Around!NavItems, Offered) /\ Around!NavItems \in Seq(Offered)
      /\ DOMAIN Around!NavItems = 1 .. n
  <2>1. Lists(Around!NavItems, Offered)
    BY NavItemsAreOffered
  <2>2. Around!NavItems \in Seq(Offered)
    BY <2>1 DEF Lists
  <2>. QED  BY <2>1, <2>2
<1>3. \A i \in 1 .. n : Around!NavItems[i] \in Offered
  BY <1>2
<1>4. \A to \in Around!Fixed : Around!IsActive(to) <=> to = target
  <2>. SUFFICES ASSUME NEW to \in Around!Fixed
                PROVE  Around!IsActive(to) <=> to = target
    OBVIOUS
  <2>1. /\ to \in Around!Routes /\ view.path \in Around!Routes
        /\ NodePath # to /\ "/" \in Around!Fixed /\ NodePath # "/"
    BY RoutesAssumption DEF FrameInv, Around!Routes, Around!Fixed
  <2>2. Around!StartsWith(view.path, to)
          <=> to = "/" \/ to = view.path \/ (view.path = NodePath /\ to = "/nodes")
    BY <2>1, RoutesAssumption
  <2>. QED  BY <2>1, <2>2 DEF Around!IsActive
<1>5. Offered \subseteq Around!Fixed
  BY DEF Offered
<1>. HIDE DEF target
<1>6. Around!Active = {i \in 1 .. n : Around!NavItems[i] = target}
  BY <1>2, <1>3, <1>4, <1>5 DEF Around!Active
<1>7. target \in Offered <=>
        ~(\/ view.path = "/users" /\ "users" \notin view.may
          \/ view.path = "/telegram-bots" /\ "notifications" \notin view.may)
  <2>1. target \in Around!Fixed
    BY DEF FrameInv, Around!Routes, Around!Fixed, target
  <2>2. NodePath # "/users" /\ NodePath # "/telegram-bots"
    BY RoutesAssumption DEF Around!Fixed
  <2>. QED  BY <2>1, <2>2 DEF Offered, target
<1>8. \A S : Around!Cardinality(S) = Cardinality(S)
  BY DEF Around!Cardinality, Cardinality
<1>9. CASE target \in Offered
  <2>1. PICK i \in 1 .. n : Around!NavItems[i] = target
    BY <1>2, <1>9 DEF Lists
  <2>2. Around!Active = {i}
    BY <1>2, <1>6, <2>1 DEF Lists
  <2>3. Cardinality(Around!Active) = 1
    BY <2>2, FS_Singleton
  <2>. QED  BY <1>1, <1>7, <1>8, <1>9, <2>3 DEF Around!OneEntryIsMarked
<1>10. CASE target \notin Offered
  <2>1. Around!Active = {}
    BY <1>3, <1>6, <1>10
  <2>2. Cardinality(Around!Active) = 0
    BY <2>1, FS_EmptySet
  <2>. QED  BY <1>1, <1>7, <1>8, <1>10, <2>2 DEF Around!OneEntryIsMarked
<1>. QED  BY <1>9, <1>10

-----------------------------------------------------------------------------
(* The switches of the bots.                                               *)

SwitchFields ==
  {"page", "srv", "list", "fetch", "modal", "confirm", "testing", "jobs", "wanted", "patient"}

SwitchJob(j) ==
  /\ DOMAIN j = {"kind", "bot", "enabled", "config", "at"}
  /\ j.kind \in {"create", "update", "toggle", "delete", "test"}
  /\ j.bot \in Bots /\ j.enabled \in BOOLEAN /\ j.config \subseteq Options
  /\ j.at \in {"sent", "served"}

SwitchModal(m) ==
  /\ DOMAIN m = {"of", "bot", "enabled", "config", "moved"}
  /\ m.of \in {"none", "new", "bot"} /\ m.enabled \in BOOLEAN /\ m.config \subseteq Options
  /\ m.moved \in BOOLEAN
  /\ m.of = "bot" => m.bot \in Bots
  /\ m.of = "none" => m = Notifiers!NoModal
  /\ m.bot \in Bots \union {NoBot}

SwitchShape ==
  /\ view.page = "telegram-bots" /\ DOMAIN view = SwitchFields
  /\ view.srv \in [Bots -> Notifiers!Bot] /\ view.list \in [Bots -> Notifiers!Bot]
  /\ DOMAIN view.fetch = {"at", "list"} /\ view.fetch.at \in {"none", "asked", "read"}
  /\ view.fetch.list \in [Bots -> Notifiers!Bot]
  /\ SwitchModal(view.modal)
  /\ view.confirm \in Bots \union {NoBot} /\ view.testing \in Bots \union {NoBot}
  /\ view.modal.of = "none" \/ view.confirm = NoBot
  /\ \A j \in view.jobs : SwitchJob(j)
  /\ view.wanted \in [Bots -> BOOLEAN] /\ view.patient \in BOOLEAN

\* A request that will move a bot's switch.
Moves(j) == j.at = "sent" /\ j.kind \in {"create", "update", "toggle"}

\* The editor is open for nobody, or for the one that is being saved.
SwitchDialog(j) ==
  /\ j.kind \notin {"create", "update"} => view.modal.of = "none"
  /\ j.kind = "create" => view.modal.of # "bot"
  /\ j.kind = "update" =>
       /\ view.modal.of # "new"
       /\ view.modal.of = "bot" =>
            view.modal.bot = j.bot /\ (view.modal.moved \/ view.modal.enabled = j.enabled)

\* A patient user has one request under way, which moves a switch to where he
\* wants it; the others are there, an untouched editor shows one as it is, and a
\* list that is not about to be asked for anew shows them all.
SwitchCareful ==
  /\ \A i, j \in view.jobs : i = j
  /\ \A j \in view.jobs : SwitchDialog(j)
  /\ \A j \in view.jobs :
       Moves(j) /\ (j.kind = "create" \/ view.srv[j.bot].there) => j.enabled = view.wanted[j.bot]
  /\ view.modal.of = "new" => view.modal.moved
  /\ view.modal.of = "bot" /\ ~view.modal.moved /\ view.srv[view.modal.bot].there =>
       view.srv[view.modal.bot].enabled = view.modal.enabled
  /\ \A b \in Bots :
       view.srv[b].there /\ (\A j \in view.jobs : j.bot = b => ~Moves(j))
         => view.srv[b].enabled = view.wanted[b]
  /\ (\A j \in view.jobs : j.at = "served" => j.kind = "test") =>
       /\ view.fetch.at = "read" => view.fetch.list = view.srv
       /\ view.fetch.at = "none" => view.list = view.srv

SwitchInv == SwitchShape /\ (view.patient => SwitchCareful)

LEMMA GoneIsABot ==
  /\ Notifiers!Gone \in Notifiers!Bot /\ Notifiers!Gone.there = FALSE
  /\ \A e \in BOOLEAN, c \in SUBSET Options :
       /\ [there |-> TRUE, enabled |-> e, config |-> c] \in Notifiers!Bot
       /\ [there |-> TRUE, enabled |-> e, config |-> c].enabled = e
  /\ \A bot \in Notifiers!Bot :
       bot.there \in BOOLEAN /\ bot.enabled \in BOOLEAN /\ bot.config \subseteq Options
<1>1. ASSUME NEW bot \in Notifiers!Bot
      PROVE  bot.there \in BOOLEAN /\ bot.enabled \in BOOLEAN /\ bot.config \subseteq Options
  <2>1. CASE bot = Notifiers!Gone
    BY <2>1 DEF Notifiers!Gone
  <2>2. CASE bot \in [there : {TRUE}, enabled : BOOLEAN, config : SUBSET Options]
    BY <2>2
  <2>. QED  BY <1>1, <2>1, <2>2 DEF Notifiers!Bot
<1>. QED  BY <1>1 DEF Notifiers!Gone, Notifiers!Bot

LEMMA NoModalIsOne ==
  SwitchModal(Notifiers!NoModal) /\ Notifiers!NoModal.of = "none"
BY DEF SwitchModal, Notifiers!NoModal

LEMMA AskedIsOne ==
  /\ DOMAIN Notifiers!Asked = {"at", "list"} /\ Notifiers!Asked.at = "asked"
  /\ Notifiers!Asked.list \in [Bots -> Notifiers!Bot]
BY GoneIsABot DEF Notifiers!Asked, Notifiers!None

LEMMA SwitchMounts ==
  ASSUME view' \in Notifiers!Mounted
  PROVE  SwitchInv'
<1>1. PICK s \in [Bots -> {Notifiers!Gone, [there |-> TRUE, enabled |-> TRUE, config |-> {}]}],
           k \in BOOLEAN :
        view' = [page |-> "telegram-bots", srv |-> s, list |-> Notifiers!None,
                 fetch |-> Notifiers!Asked, modal |-> Notifiers!NoModal, confirm |-> NoBot,
                 testing |-> NoBot, jobs |-> {}, wanted |-> [b \in Bots |-> TRUE], patient |-> k]
  BY DEF Notifiers!Mounted
<1>2. /\ view'.page = "telegram-bots" /\ DOMAIN view' = SwitchFields /\ view'.srv = s
      /\ view'.list = Notifiers!None /\ view'.fetch = Notifiers!Asked
      /\ view'.modal = Notifiers!NoModal /\ view'.confirm = NoBot /\ view'.testing = NoBot
      /\ view'.jobs = {} /\ view'.wanted = [b \in Bots |-> TRUE] /\ view'.patient = k
  BY <1>1 DEF SwitchFields
<1>3. s \in [Bots -> Notifiers!Bot] /\ Notifiers!None \in [Bots -> Notifiers!Bot]
  BY GoneIsABot DEF Notifiers!None
<1>4. \A b \in Bots : s[b].there => s[b].enabled = TRUE
  BY DEF Notifiers!Gone
<1>5. SwitchShape'
  BY <1>2, <1>3, AskedIsOne, NoModalIsOne DEF SwitchShape
<1>6. SwitchCareful'
  BY <1>2, <1>4, AskedIsOne, NoModalIsOne DEF SwitchCareful
<1>. QED  BY <1>5, <1>6 DEF SwitchInv

-----------------------------------------------------------------------------
\* A step of the list.
LEMMA SwitchPolls ==
  ASSUME SwitchInv, Notifiers!PollStarts \/ Notifiers!PollIsRead \/ Notifiers!PollArrives
  PROVE  SwitchInv'
<1>. USE DEF Notifiers!Change
<1>1. CASE Notifiers!PollStarts
  <2>1. /\ DOMAIN view' = DOMAIN view /\ view'.page = view.page /\ view'.srv = view.srv
        /\ view'.list = view.list /\ view'.fetch = Notifiers!Asked /\ view'.modal = view.modal
        /\ view'.confirm = view.confirm /\ view'.testing = view.testing /\ view'.jobs = view.jobs
        /\ view'.wanted = view.wanted /\ view'.patient = view.patient
    BY <1>1 DEF Notifiers!PollStarts, SwitchInv, SwitchShape, SwitchFields
  <2>2. SwitchShape'
    BY <2>1, AskedIsOne DEF SwitchInv, SwitchShape
  <2>3. SwitchCareful => SwitchCareful'
    BY <2>1, AskedIsOne DEF SwitchCareful, SwitchDialog
  <2>. QED  BY <2>1, <2>2, <2>3 DEF SwitchInv
<1>2. CASE Notifiers!PollIsRead
  <2>1. /\ DOMAIN view' = DOMAIN view /\ view'.page = view.page /\ view'.srv = view.srv
        /\ view'.list = view.list /\ view'.fetch = [at |-> "read", list |-> view.srv]
        /\ view'.modal = view.modal
        /\ view'.confirm = view.confirm /\ view'.testing = view.testing /\ view'.jobs = view.jobs
        /\ view'.wanted = view.wanted /\ view'.patient = view.patient
    BY <1>2 DEF Notifiers!PollIsRead, SwitchInv, SwitchShape, SwitchFields
  <2>2. SwitchShape'
    BY <2>1 DEF SwitchInv, SwitchShape
  <2>3. SwitchCareful => SwitchCareful'
    BY <2>1 DEF SwitchCareful, SwitchDialog
  <2>. QED  BY <2>1, <2>2, <2>3 DEF SwitchInv
<1>3. CASE Notifiers!PollArrives
  <2>1. /\ DOMAIN view' = DOMAIN view /\ view'.page = view.page /\ view'.srv = view.srv
        /\ view'.list = view.fetch.list /\ view'.modal = view.modal
        /\ view'.fetch = [Notifiers!Asked EXCEPT !.at = "none"]
        /\ view'.confirm = view.confirm /\ view'.testing = view.testing /\ view'.jobs = view.jobs
        /\ view'.wanted = view.wanted /\ view'.patient = view.patient /\ view.fetch.at = "read"
    BY <1>3 DEF Notifiers!PollArrives, SwitchInv, SwitchShape, SwitchFields
  <2>2. /\ DOMAIN view'.fetch = {"at", "list"} /\ view'.fetch.at = "none"
        /\ view'.fetch.list \in [Bots -> Notifiers!Bot]
    BY <2>1, AskedIsOne
  <2>3. SwitchShape'
    BY <2>1, <2>2 DEF SwitchInv, SwitchShape
  <2>4. SwitchCareful => SwitchCareful'
    BY <2>1, <2>2 DEF SwitchCareful, SwitchDialog
  <2>. QED  BY <2>1, <2>3, <2>4 DEF SwitchInv
<1>. QED  BY <1>1, <1>2, <1>3

\* What a patient user does, he does when nothing is under way and the list is
\* what the server has.
LEMMA SwitchActs ==
  ASSUME SwitchInv, Notifiers!Acts, view.patient
  PROVE  /\ SwitchCareful /\ view.jobs = {} /\ view.list = view.srv
         /\ \A b \in Bots : view.srv[b].there => view.srv[b].enabled = view.wanted[b]
BY DEF SwitchInv, SwitchCareful, Notifiers!Acts, Notifiers!Quiet

\* A step of the editor, or of the question before a deletion.
LEMMA SwitchEdits ==
  ASSUME SwitchInv,
         \/ Notifiers!AddBot \/ Notifiers!SetEnabled \/ Notifiers!CloseModal
         \/ Notifiers!CancelDelete
         \/ \E b \in Bots : Notifiers!Edit(b) \/ Notifiers!AskDelete(b)
         \/ \E o \in Options : Notifiers!SetOption(o)
  PROVE  SwitchInv'
<1>. USE DEF Notifiers!Change
<1>1. ASSUME NEW modal, SwitchModal(modal), view' = [view EXCEPT !.modal = modal],
             modal.of = "none" \/ view.confirm = NoBot,
             view.patient => /\ \A j \in view.jobs : (SwitchDialog(j))'
                             /\ modal.of = "new" => modal.moved
                             /\ modal.of = "bot" /\ ~modal.moved /\ view.srv[modal.bot].there =>
                                  view.srv[modal.bot].enabled = modal.enabled
      PROVE  SwitchInv'
  <2>1. /\ DOMAIN view' = DOMAIN view /\ view'.page = view.page /\ view'.srv = view.srv
        /\ view'.list = view.list /\ view'.fetch = view.fetch /\ view'.modal = modal
        /\ view'.confirm = view.confirm /\ view'.testing = view.testing /\ view'.jobs = view.jobs
        /\ view'.wanted = view.wanted /\ view'.patient = view.patient
    BY <1>1 DEF SwitchInv, SwitchShape, SwitchFields
  <2>2. SwitchShape'
    BY <1>1, <2>1 DEF SwitchInv, SwitchShape
  <2>3. view.patient /\ SwitchCareful => SwitchCareful'
    BY <1>1, <2>1 DEF SwitchCareful
  <2>. QED  BY <2>1, <2>2, <2>3 DEF SwitchInv
<1>2. CASE Notifiers!AddBot
  <2>. DEFINE modal == [of |-> "new", bot |-> NoBot, enabled |-> TRUE, config |-> {}, moved |-> TRUE]
  <2>1. SwitchModal(modal) /\ modal.of = "new" /\ modal.moved
    BY DEF SwitchModal
  <2>2. view' = [view EXCEPT !.modal = modal] /\ view.confirm = NoBot
    BY <1>2 DEF Notifiers!AddBot, Notifiers!Free
  <2>3. view.patient => view.jobs = {}
    BY <1>2, SwitchActs DEF Notifiers!AddBot
  <2>. HIDE DEF modal
  <2>. QED  BY <1>1, <2>1, <2>2, <2>3
<1>3. ASSUME NEW b \in Bots, Notifiers!Edit(b)
      PROVE  SwitchInv'
  <2>. DEFINE bot == view.list[b]
              modal == [of |-> "bot", bot |-> b, enabled |-> bot.enabled, config |-> bot.config,
                        moved |-> FALSE]
  <2>1. bot \in Notifiers!Bot
    BY DEF SwitchInv, SwitchShape
  <2>2. view' = [view EXCEPT !.modal = modal] /\ Notifiers!Acts /\ view.confirm = NoBot
    BY <1>3 DEF Notifiers!Edit, Notifiers!Free
  <2>3. view.patient => view.jobs = {} /\ bot = view.srv[b]
    BY <2>2, SwitchActs
  <2>. HIDE DEF bot
  <2>4. SwitchModal(modal) /\ modal.of = "bot" /\ modal.bot = b /\ modal.enabled = bot.enabled
    BY <2>1, GoneIsABot DEF SwitchModal
  <2>. HIDE DEF modal
  <2>. QED  BY <1>1, <2>2, <2>3, <2>4
<1>4. ASSUME NEW modal, SwitchModal(modal), view' = [view EXCEPT !.modal = modal],
             modal.of = view.modal.of, modal.bot = view.modal.bot,
             view.patient /\ ~modal.moved => ~view.modal.moved /\ modal.enabled = view.modal.enabled
      PROVE  SwitchInv'
  <2>1. view'.modal = modal
    BY <1>4 DEF SwitchInv, SwitchShape, SwitchFields
  <2>2. view.patient => SwitchCareful
    BY DEF SwitchInv
  <2>3. modal.moved \in BOOLEAN /\ view.modal.moved \in BOOLEAN
        /\ (modal.of = "none" \/ view.confirm = NoBot)
    BY <1>4 DEF SwitchInv, SwitchShape, SwitchModal
  <2>. QED  BY <1>1, <1>4, <2>1, <2>2, <2>3 DEF SwitchCareful, SwitchDialog
<1>5. SwitchModal(view.modal) /\ (view.modal # Notifiers!NoModal => view.modal.of # "none")
  BY DEF SwitchInv, SwitchShape, SwitchModal
<1>6. CASE Notifiers!SetEnabled
  <2>. DEFINE m == [view.modal EXCEPT !.enabled = ~@, !.moved = view.patient]
  <2>1. view.modal # Notifiers!NoModal /\ view.patient \in BOOLEAN
    BY <1>6 DEF Notifiers!SetEnabled, SwitchInv, SwitchShape
  <2>2. /\ SwitchModal(m) /\ m.of = view.modal.of /\ m.bot = view.modal.bot
        /\ m.moved = view.patient
    BY <1>5, <2>1 DEF SwitchModal
  <2>3. view' = [view EXCEPT !.modal = m]
    BY <1>6 DEF Notifiers!SetEnabled, SwitchInv, SwitchShape, SwitchFields, SwitchModal
  <2>. HIDE DEF m
  <2>. QED  BY <1>4, <2>2, <2>3
<1>7. ASSUME NEW o \in Options, Notifiers!SetOption(o)
      PROVE  SwitchInv'
  <2>. DEFINE config == Notifiers!Toggled(view.modal.config, o)
              m == [view.modal EXCEPT !.config = config]
  <2>1. view.modal # Notifiers!NoModal
    BY <1>7 DEF Notifiers!SetOption
  <2>2. config \subseteq Options
    BY <1>5 DEF SwitchModal, Notifiers!Toggled
  <2>3. view' = [view EXCEPT !.modal = m]
    BY <1>7 DEF Notifiers!SetOption, SwitchInv, SwitchShape, SwitchFields, SwitchModal
  <2>. HIDE DEF config
  <2>4. /\ SwitchModal(m) /\ m.of = view.modal.of /\ m.bot = view.modal.bot
        /\ m.moved = view.modal.moved /\ m.enabled = view.modal.enabled
    BY <1>5, <2>1, <2>2 DEF SwitchModal
  <2>. HIDE DEF m
  <2>. QED  BY <1>4, <2>3, <2>4
<1>8. CASE Notifiers!CloseModal
  <2>1. view' = [view EXCEPT !.modal = Notifiers!NoModal]
    BY <1>8 DEF Notifiers!CloseModal
  <2>2. view'.modal.of = "none"
    BY <2>1, NoModalIsOne DEF SwitchInv, SwitchShape, SwitchFields
  <2>. QED  BY <1>1, <2>1, <2>2, NoModalIsOne DEF SwitchDialog
<1>9. ASSUME Notifiers!CancelDelete \/ \E b \in Bots : Notifiers!AskDelete(b)
      PROVE  SwitchInv'
  <2>1. /\ DOMAIN view' = DOMAIN view /\ view'.page = view.page /\ view'.srv = view.srv
        /\ view'.list = view.list /\ view'.fetch = view.fetch /\ view'.modal = view.modal
        /\ view'.confirm \in Bots \union {NoBot}
        /\ (view'.confirm = NoBot \/ view.modal = Notifiers!NoModal)
        /\ view'.testing = view.testing /\ view'.jobs = view.jobs
        /\ view'.wanted = view.wanted /\ view'.patient = view.patient
    BY <1>9 DEF Notifiers!CancelDelete, Notifiers!AskDelete, Notifiers!Free, SwitchInv, SwitchShape, SwitchFields
  <2>2. SwitchShape'
    BY <2>1, NoModalIsOne DEF SwitchInv, SwitchShape
  <2>3. SwitchCareful => SwitchCareful'
    BY <2>1 DEF SwitchCareful, SwitchDialog
  <2>. QED  BY <2>1, <2>2, <2>3 DEF SwitchInv
<1>. QED  BY <1>2, <1>3, <1>6, <1>7, <1>8, <1>9
\* A request that is sent: alone, if the user is patient, and where he wants it.
LEMMA SwitchSends ==
  ASSUME SwitchInv, NEW j, SwitchJob(j), j.at = "sent", NEW wanted \in [Bots -> BOOLEAN],
         NEW testing \in Bots \union {NoBot},
         view' = [view EXCEPT !.jobs = @ \union {j}, !.wanted = wanted, !.testing = testing],
         Notifiers!Acts,
         view.patient =>
           /\ SwitchDialog(j)
           /\ \A b \in Bots \ {j.bot} : wanted[b] = view.wanted[b]
           /\ j.kind \in {"delete", "test"} => wanted = view.wanted
           /\ Moves(j) /\ (j.kind = "create" \/ view.srv[j.bot].there) => j.enabled = wanted[j.bot]
  PROVE  SwitchInv'
<1>1. /\ DOMAIN view' = DOMAIN view /\ view'.page = view.page /\ view'.srv = view.srv
      /\ view'.list = view.list /\ view'.fetch = view.fetch /\ view'.modal = view.modal
      /\ view'.confirm = view.confirm /\ view'.testing = testing
      /\ view'.jobs = view.jobs \union {j} /\ view'.wanted = wanted /\ view'.patient = view.patient
  BY DEF SwitchInv, SwitchShape, SwitchFields
<1>2. SwitchShape'
  BY <1>1 DEF SwitchInv, SwitchShape
<1>3. ASSUME view.patient
      PROVE  SwitchCareful'
  <2>1. SwitchCareful /\ view.jobs = {} /\ view'.jobs = {j} /\ view.list = view.srv
        /\ \A b \in Bots : view.srv[b].there => view.srv[b].enabled = view.wanted[b]
    BY <1>1, <1>3, SwitchActs
  <2>2. \A i \in view'.jobs : SwitchDialog(i)'
    BY <1>1, <1>3, <2>1 DEF SwitchDialog
  <2>3. ASSUME NEW b \in Bots, view.srv[b].there, \A i \in view'.jobs : i.bot = b => ~Moves(i)
        PROVE  view.srv[b].enabled = wanted[b]
    <3>1. CASE b # j.bot
      BY <1>3, <2>1, <2>3, <3>1
    <3>2. CASE b = j.bot
      <4>1. ~Moves(j)
        BY <2>1, <2>3, <3>2
      <4>2. j.kind \in {"delete", "test"}
        BY <4>1 DEF Moves, SwitchJob
      <4>. QED  BY <1>3, <2>1, <2>3, <4>2
    <3>. QED  BY <3>1, <3>2
  <2>4. view.fetch.at = "none"
    BY <1>3 DEF Notifiers!Acts, Notifiers!Quiet
  <2>. QED  BY <1>1, <1>3, <2>1, <2>2, <2>3, <2>4 DEF SwitchCareful
<1>. QED  BY <1>1, <1>2, <1>3 DEF SwitchInv

LEMMA JobIsOne ==
  ASSUME NEW kind \in {"create", "update", "toggle", "delete", "test"}, NEW b \in Bots,
         NEW enabled \in BOOLEAN, NEW config \in SUBSET Options
  PROVE  LET j == Notifiers!Job(kind, b, enabled, config) IN
           /\ SwitchJob(j) /\ j.at = "sent" /\ j.kind = kind /\ j.bot = b /\ j.enabled = enabled
           /\ j.config = config
BY DEF Notifiers!Job, SwitchJob

LEMMA SwitchAsks ==
  ASSUME SwitchInv,
         \/ Notifiers!Save \/ Notifiers!Delete
         \/ \E b \in Bots : Notifiers!Toggle(b) \/ Notifiers!Test(b)
  PROVE  SwitchInv'
<1>. USE DEF Notifiers!Change
<1>0. SwitchModal(view.modal) /\ view.wanted \in [Bots -> BOOLEAN] /\ view.patient \in BOOLEAN
      /\ (view.patient => SwitchCareful) /\ Notifiers!NoModal.of = "none"
  BY NoModalIsOne DEF SwitchInv, SwitchShape
<1>1. CASE Notifiers!Save
  <2>. DEFINE kind == IF view.modal.of = "new" THEN "create" ELSE "update"
  <2>1. PICK b \in IF view.modal.of = "new" THEN Notifiers!Fresh ELSE {view.modal.bot} :
          view' = [view EXCEPT
            !.jobs = @ \union {Notifiers!Job(kind, b, view.modal.enabled, view.modal.config)},
            !.wanted[b] = IF view.patient /\ view.modal.moved THEN view.modal.enabled ELSE @]
    BY <1>1 DEF Notifiers!Save
  <2>2. view.modal.of \in {"new", "bot"} /\ b \in Bots /\ Notifiers!Acts
    BY <1>0, <1>1, <2>1 DEF Notifiers!Save, SwitchModal, Notifiers!Fresh
  <2>. DEFINE j == Notifiers!Job(kind, b, view.modal.enabled, view.modal.config)
  <2>3. /\ SwitchJob(j) /\ j.at = "sent" /\ j.kind = kind /\ j.bot = b
        /\ j.enabled = view.modal.enabled
    <3>1. view.modal.enabled \in BOOLEAN /\ view.modal.config \in SUBSET Options
          /\ kind \in {"create", "update", "toggle", "delete", "test"}
      BY <1>0 DEF SwitchModal
    <3>. HIDE DEF kind
    <3>. QED  BY <2>2, <3>1, JobIsOne
  <2>. DEFINE wanted == [view.wanted EXCEPT ![b] = IF view.patient /\ view.modal.moved
                                                   THEN view.modal.enabled ELSE @]
  <2>4. wanted \in [Bots -> BOOLEAN] /\ (\A c \in Bots \ {b} : wanted[c] = view.wanted[c])
        /\ wanted[b] = IF view.patient /\ view.modal.moved THEN view.modal.enabled
                       ELSE view.wanted[b]
    BY <1>0, <2>2 DEF SwitchModal
  <2>5. view' = [view EXCEPT !.jobs = @ \union {j}, !.wanted = wanted, !.testing = view.testing]
    BY <2>1 DEF SwitchInv, SwitchShape, SwitchFields
  <2>6. view.testing \in Bots \union {NoBot}
    BY DEF SwitchInv, SwitchShape
  <2>. HIDE DEF j, wanted
  <2>7. ASSUME view.patient
        PROVE  /\ SwitchDialog(j)
               /\ (j.kind = "create" \/ view.srv[j.bot].there) => j.enabled = wanted[j.bot]
    <3>1. SwitchCareful /\ \A c \in Bots : view.srv[c].there => view.srv[c].enabled = view.wanted[c]
      BY <2>2, <2>7, SwitchActs
    <3>2. SwitchDialog(j)
      BY <1>0, <2>1, <2>2, <2>3 DEF SwitchDialog, SwitchModal
    <3>3. CASE view.modal.moved
      BY <2>3, <2>4, <2>7, <3>2, <3>3
    <3>4. CASE ~view.modal.moved
      <4>1. view.modal.of = "bot" /\ b = view.modal.bot /\ j.kind = "update"
        BY <2>1, <2>2, <2>3, <3>1, <3>4 DEF SwitchCareful
      <4>2. view.srv[b].there => view.srv[b].enabled = view.modal.enabled
        BY <3>1, <3>4, <4>1 DEF SwitchCareful
      <4>3. wanted[b] = view.wanted[b]
        BY <2>4, <3>4
      <4>. QED  BY <2>2, <2>3, <3>1, <3>2, <4>1, <4>2, <4>3
    <3>. QED  BY <1>0, <3>3, <3>4 DEF SwitchModal
  <2>8. j.kind \notin {"delete", "test"}
    BY <2>3
  <2>. QED  BY <2>2, <2>3, <2>4, <2>5, <2>6, <2>7, <2>8, SwitchSends
<1>2. ASSUME NEW b \in Bots, Notifiers!Toggle(b)
      PROVE  SwitchInv'
  <2>. DEFINE on == ~view.list[b].enabled
              j == Notifiers!Job("toggle", b, on, {})
              wanted == [view.wanted EXCEPT ![b] = IF view.patient THEN on ELSE @]
  <2>1. on \in BOOLEAN /\ Notifiers!Acts /\ view.modal = Notifiers!NoModal
    BY <1>2 DEF Notifiers!Toggle, Notifiers!Free
  <2>2. view' = [view EXCEPT !.jobs = @ \union {j}, !.wanted = wanted, !.testing = view.testing]
    BY <1>2 DEF Notifiers!Toggle, SwitchInv, SwitchShape, SwitchFields
  <2>. HIDE DEF on
  <2>3. SwitchJob(j) /\ j.at = "sent" /\ j.kind = "toggle" /\ j.bot = b /\ j.enabled = on
    BY <2>1, JobIsOne
  <2>4. wanted \in [Bots -> BOOLEAN] /\ (\A c \in Bots \ {b} : wanted[c] = view.wanted[c])
        /\ (view.patient => wanted[b] = on)
    BY <1>0, <2>1
  <2>5. view.testing \in Bots \union {NoBot}
    BY DEF SwitchInv, SwitchShape
  <2>6. SwitchDialog(j)
    BY <1>0, <2>1, <2>3 DEF SwitchDialog
  <2>. HIDE DEF j, wanted
  <2>. QED  BY <2>1, <2>2, <2>3, <2>4, <2>5, <2>6, SwitchSends
<1>3. ASSUME NEW j, SwitchJob(j), j.at = "sent", j.kind \in {"delete", "test"},
             NEW testing \in Bots \union {NoBot},
             Notifiers!Acts, view.patient => view.modal.of = "none",
             view' = [view EXCEPT !.jobs = @ \union {j}, !.testing = testing]
      PROVE  SwitchInv'
  <2>. DEFINE wanted == view.wanted
  <2>1. view' = [view EXCEPT !.jobs = @ \union {j}, !.wanted = wanted, !.testing = testing]
    BY <1>3 DEF SwitchInv, SwitchShape, SwitchFields
  <2>2. view.patient => SwitchDialog(j)
    BY <1>3 DEF SwitchDialog
  <2>3. ~Moves(j)
    BY <1>3 DEF Moves
  <2>4. wanted \in [Bots -> BOOLEAN] /\ wanted = view.wanted
    BY <1>0
  <2>. HIDE DEF wanted
  <2>5. view.patient =>
          /\ SwitchDialog(j)
          /\ \A b \in Bots \ {j.bot} : wanted[b] = view.wanted[b]
          /\ j.kind \in {"delete", "test"} => wanted = view.wanted
          /\ Moves(j) /\ (j.kind = "create" \/ view.srv[j.bot].there) => j.enabled = wanted[j.bot]
    BY <2>2, <2>3, <2>4
  <2>6. SwitchJob(j) /\ j.at = "sent" /\ Notifiers!Acts
    BY <1>3
  <2>. QED  BY <2>1, <2>4, <2>5, <2>6, SwitchSends
<1>4. ASSUME NEW b \in Bots, Notifiers!Test(b)
      PROVE  SwitchInv'
  <2>. DEFINE j == Notifiers!Job("test", b, FALSE, {})
  <2>1. view' = [view EXCEPT !.jobs = @ \union {j}, !.testing = b]
        /\ Notifiers!Acts /\ view.modal = Notifiers!NoModal
    BY <1>4 DEF Notifiers!Test, Notifiers!Free
  <2>2. SwitchJob(j) /\ j.at = "sent" /\ j.kind = "test"
    BY DEF SwitchJob, Notifiers!Job
  <2>. HIDE DEF j
  <2>. QED  BY <1>0, <1>3, <2>1, <2>2
<1>5. CASE Notifiers!Delete
  <2>. DEFINE j == Notifiers!Job("delete", view.confirm, FALSE, {})
              testing == view.testing
  <2>1. view' = [view EXCEPT !.jobs = @ \union {j}]
        /\ Notifiers!Acts /\ view.confirm \in Bots /\ view.modal.of = "none"
    BY <1>5 DEF Notifiers!Delete, SwitchInv, SwitchShape
  <2>2. view' = [view EXCEPT !.jobs = @ \union {j}, !.testing = testing]
    BY <2>1 DEF SwitchInv, SwitchShape, SwitchFields
  <2>3. testing \in Bots \union {NoBot}
    BY DEF SwitchInv, SwitchShape
  <2>4. SwitchJob(j) /\ j.at = "sent" /\ j.kind = "delete"
    BY <2>1 DEF SwitchJob, Notifiers!Job
  <2>. HIDE DEF j, testing
  <2>. QED  BY <1>3, <2>1, <2>2, <2>3, <2>4
<1>. QED  BY <1>1, <1>2, <1>4, <1>5
\* The server serves a request: the switch is where the request moves it.
LEMMA SwitchServes ==
  ASSUME SwitchInv, NEW j \in view.jobs, Notifiers!Serve(j)
  PROVE  SwitchInv'
<1>. DEFINE bot == view.srv[j.bot]
            known == j.kind = "create" \/ bot.there
            k == [j EXCEPT !.at = "served"]
            after == Notifiers!After(bot, j)
            new == IF known THEN after ELSE bot
            srv == [view.srv EXCEPT ![j.bot] = new]
<1>1. SwitchJob(j) /\ bot \in Notifiers!Bot /\ j.at = "sent"
  BY DEF SwitchInv, SwitchShape, SwitchJob, Notifiers!Serve
<1>2. /\ SwitchJob(k) /\ k.at = "served" /\ k.kind = j.kind /\ k.bot = j.bot
      /\ k.enabled = j.enabled
  BY <1>1 DEF SwitchJob
<1>3. view' = [view EXCEPT !.jobs = (@ \ {j}) \union {k},
                           !.srv[j.bot] = IF known THEN after ELSE @]
      /\ (known \/ j.kind \in {"delete", "toggle"})
  BY DEF Notifiers!Serve, Notifiers!Change
<1>4. /\ DOMAIN view' = DOMAIN view /\ view'.page = view.page
      /\ view'.srv = srv
      /\ view'.list = view.list /\ view'.fetch = view.fetch /\ view'.modal = view.modal
      /\ view'.confirm = view.confirm /\ view'.testing = view.testing
      /\ view'.jobs = (view.jobs \ {j}) \union {k}
      /\ view'.wanted = view.wanted /\ view'.patient = view.patient
  <2>. HIDE DEF k, known, after
  <2>. QED  BY <1>3 DEF SwitchInv, SwitchShape, SwitchFields
<1>5. known => /\ after \in Notifiers!Bot
               /\ j.kind \in {"create", "update", "toggle"} => after.enabled = j.enabled
               /\ j.kind = "delete" => ~after.there
               /\ j.kind = "test" => after = bot
  <2>1. CASE j.kind = "create"
    BY <1>1, <2>1, GoneIsABot DEF SwitchJob, Notifiers!After
  <2>2. ASSUME bot.there
        PROVE  bot \in [there : {TRUE}, enabled : BOOLEAN, config : SUBSET Options]
    <3>1. bot # Notifiers!Gone
      BY <2>2 DEF Notifiers!Gone
    <3>. HIDE DEF bot
    <3>. QED  BY <1>1, <3>1 DEF Notifiers!Bot
  <2>3. CASE j.kind = "update"
    <3>1. after = [bot EXCEPT !.enabled = j.enabled, !.config = j.config]
      BY <2>3 DEF Notifiers!After
    <3>. QED  BY <1>1, <2>2, <2>3, <3>1 DEF SwitchJob, Notifiers!Bot
  <2>4. CASE j.kind = "toggle"
    <3>1. after = [bot EXCEPT !.enabled = j.enabled]
      BY <2>4 DEF Notifiers!After
    <3>. QED  BY <1>1, <2>2, <2>4, <3>1 DEF SwitchJob, Notifiers!Bot
  <2>5. CASE j.kind = "delete"
    BY <2>5, GoneIsABot DEF Notifiers!After
  <2>6. CASE j.kind = "test"
    BY <1>1, <2>6 DEF Notifiers!After
  <2>. QED  BY <1>1, <2>1, <2>3, <2>4, <2>5, <2>6 DEF SwitchJob
<1>6. new \in Notifiers!Bot /\ (new.there => known)
  <2>. HIDE DEF after
  <2>. QED  BY <1>1, <1>5, GoneIsABot
<1>7. /\ j.kind = "test" => new = bot
      /\ j.kind = "delete" => ~new.there
      /\ known /\ j.kind \in {"create", "update", "toggle"} => new.enabled = j.enabled
  <2>. HIDE DEF after
  <2>. QED  BY <1>1, <1>5, GoneIsABot
<1>8. j.bot \in Bots /\ view.srv \in [Bots -> Notifiers!Bot]
  BY <1>1 DEF SwitchJob, SwitchInv, SwitchShape
<1>9. srv \in [Bots -> Notifiers!Bot] /\ srv[j.bot] = new
      /\ \A b \in Bots : b # j.bot => srv[b] = view.srv[b]
  <2>. HIDE DEF new
  <2>. QED  BY <1>6, <1>8
<1>. HIDE DEF k, srv, new, after
<1>10. SwitchShape'
  BY <1>2, <1>4, <1>9 DEF SwitchInv, SwitchShape
<1>11. ASSUME view.patient
       PROVE  SwitchCareful'
  <2>1. SwitchCareful
    BY <1>11 DEF SwitchInv
  <2>2. view.jobs = {j} /\ view'.jobs = {k}
    BY <1>4, <2>1 DEF SwitchCareful
  <2>3. SwitchDialog(k)'
    <3>1. SwitchDialog(j)
      BY <2>1, <2>2 DEF SwitchCareful
    <3>. QED  BY <1>2, <1>4, <3>1 DEF SwitchDialog
  <2>4. ~Moves(k) /\ k.at # "sent"
    BY <1>2 DEF Moves
  <2>5. ASSUME NEW b \in Bots, srv[b].there
        PROVE  srv[b].enabled = view.wanted[b]
    <3>1. CASE b # j.bot
      <4>1. view.srv[b].there /\ \A i \in view.jobs : i.bot = b => ~Moves(i)
        BY <1>9, <2>2, <2>5, <3>1
      <4>. QED  BY <1>9, <2>1, <3>1, <4>1 DEF SwitchCareful
    <3>2. CASE b = j.bot /\ j.kind \in {"create", "update", "toggle"}
      <4>1. known /\ Moves(j)
        BY <1>1, <1>6, <1>9, <2>5, <3>2 DEF Moves
      <4>2. j.enabled = view.wanted[j.bot]
        BY <2>1, <4>1 DEF SwitchCareful
      <4>. QED  BY <1>7, <1>9, <3>2, <4>1, <4>2
    <3>3. CASE b = j.bot /\ j.kind = "delete"
      BY <1>7, <1>9, <2>5, <3>3
    <3>4. CASE b = j.bot /\ j.kind = "test"
      <4>1. view.srv[b].there /\ srv[b] = view.srv[b]
        BY <1>7, <1>9, <2>5, <3>4
      <4>2. \A i \in view.jobs : ~Moves(i)
        BY <2>2, <3>4 DEF Moves
      <4>. QED  BY <2>1, <4>1, <4>2 DEF SwitchCareful
    <3>. QED  BY <1>1, <3>1, <3>2, <3>3, <3>4 DEF SwitchJob
  <2>6. ASSUME view.modal.of = "bot", ~view.modal.moved, srv[view.modal.bot].there
        PROVE  srv[view.modal.bot].enabled = view.modal.enabled
    <3>1. view.modal.bot \in Bots
      BY <2>6 DEF SwitchInv, SwitchShape, SwitchModal
    <3>2. SwitchDialog(j)
      BY <2>1, <2>2 DEF SwitchCareful
    <3>3. j.kind = "update" /\ view.modal.bot = j.bot /\ view.modal.enabled = j.enabled
      BY <1>1, <2>6, <3>2 DEF SwitchDialog, SwitchJob
    <3>4. known
      BY <1>6, <1>9, <2>6, <3>3
    <3>. QED  BY <1>7, <1>9, <3>3, <3>4
  <2>7. j.kind = "test" => srv = view.srv
    BY <1>7, <1>8 DEF srv
  <2>8. (\A i \in view'.jobs : i.at = "served" => i.kind = "test") =>
          /\ view.fetch.at = "read" => view.fetch.list = srv
          /\ view.fetch.at = "none" => view.list = srv
    <3>1. ASSUME \A i \in view'.jobs : i.at = "served" => i.kind = "test"
          PROVE  srv = view.srv
      BY <1>2, <2>2, <2>7, <3>1
    <3>2. \A i \in view.jobs : i.at # "served"
      BY <1>1, <2>2
    <3>. QED  BY <2>1, <3>1, <3>2 DEF SwitchCareful
  <2>. QED  BY <1>4, <1>11, <2>1, <2>2, <2>3, <2>4, <2>5, <2>6, <2>8 DEF SwitchCareful
<1>. QED  BY <1>4, <1>10, <1>11 DEF SwitchInv

\* A request is refused, or its answer arrives.
LEMMA SwitchEnds ==
  ASSUME SwitchInv, NEW j \in view.jobs, Notifiers!Refused(j) \/ Notifiers!Settle(j)
  PROVE  SwitchInv'
<1>. USE DEF Notifiers!Change
<1>0. SwitchJob(j)
  BY DEF SwitchInv, SwitchShape
<1>1. CASE Notifiers!Refused(j)
  <2>. DEFINE wanted == [view.wanted EXCEPT ![j.bot] = IF view.patient THEN view.srv[j.bot].enabled
                                                      ELSE @]
  <2>1. /\ DOMAIN view' = DOMAIN view /\ view'.page = view.page /\ view'.srv = view.srv
        /\ view'.list = view.list /\ view'.fetch = view.fetch /\ view'.modal = view.modal
        /\ view'.confirm = view.confirm /\ view'.testing \in {view.testing, NoBot}
        /\ view'.jobs = view.jobs \ {j} /\ view'.wanted = wanted
        /\ view'.patient = view.patient /\ j.at = "sent"
    BY <1>1 DEF Notifiers!Refused, SwitchInv, SwitchShape, SwitchFields
  <2>2. j.bot \in Bots /\ view.srv[j.bot] \in Notifiers!Bot
    BY <1>0 DEF SwitchJob, SwitchInv, SwitchShape
  <2>3. wanted \in [Bots -> BOOLEAN] /\ (view.patient => wanted[j.bot] = view.srv[j.bot].enabled)
        /\ \A b \in Bots : b # j.bot => wanted[b] = view.wanted[b]
    BY <2>2, GoneIsABot DEF SwitchInv, SwitchShape
  <2>. HIDE DEF wanted
  <2>4. SwitchShape'
    BY <2>1, <2>3 DEF SwitchInv, SwitchShape
  <2>5. ASSUME view.patient
        PROVE  SwitchCareful'
    <3>1. SwitchCareful
      BY <2>5 DEF SwitchInv
    <3>2. view.jobs = {j} /\ view'.jobs = {}
      BY <2>1, <3>1 DEF SwitchCareful
    <3>3. ASSUME NEW b \in Bots, view.srv[b].there
          PROVE  view.srv[b].enabled = wanted[b]
      BY <2>3, <2>5, <3>1, <3>2, <3>3 DEF SwitchCareful
    <3>. QED  BY <2>1, <3>1, <3>2, <3>3 DEF SwitchCareful
  <2>. QED  BY <2>1, <2>4, <2>5 DEF SwitchInv
<1>2. CASE Notifiers!Settle(j)
  <2>1. /\ DOMAIN view' = DOMAIN view /\ view'.page = view.page /\ view'.srv = view.srv
        /\ view'.list = view.list
        /\ view'.fetch = IF j.kind = "test" THEN view.fetch ELSE Notifiers!Asked
        /\ view'.modal = IF j.kind \in {"create", "update"} THEN Notifiers!NoModal ELSE view.modal
        /\ view'.confirm \in {view.confirm, NoBot} /\ view'.testing \in {view.testing, NoBot}
        /\ view'.jobs = view.jobs \ {j} /\ view'.wanted = view.wanted
        /\ view'.patient = view.patient /\ j.at = "served"
    BY <1>2 DEF Notifiers!Settle, SwitchInv, SwitchShape, SwitchFields
  <2>2. view'.modal \in {view.modal, Notifiers!NoModal}
        /\ view'.fetch \in {view.fetch, Notifiers!Asked}
    BY <2>1
  <2>3. SwitchShape'
    BY <2>1, <2>2, NoModalIsOne, AskedIsOne DEF SwitchInv, SwitchShape
  <2>4. ASSUME view.patient
        PROVE  SwitchCareful'
    <3>1. SwitchCareful
      BY <2>4 DEF SwitchInv
    <3>2. view.jobs = {j} /\ view'.jobs = {}
      BY <2>1, <3>1 DEF SwitchCareful
    <3>3. ~Moves(j)
      BY <2>1 DEF Moves
    <3>4. \A b \in Bots : view.srv[b].there => view.srv[b].enabled = view.wanted[b]
      BY <3>1, <3>2, <3>3 DEF SwitchCareful
    <3>5. /\ view'.fetch.at = "read" => view'.fetch.list = view.srv
          /\ view'.fetch.at = "none" => view.list = view.srv
      BY <2>1, <3>1, <3>2, AskedIsOne DEF SwitchCareful
    <3>6. /\ view'.modal.of = "new" => view'.modal.moved
          /\ view'.modal.of = "bot" /\ ~view'.modal.moved /\ view.srv[view'.modal.bot].there =>
               view.srv[view'.modal.bot].enabled = view'.modal.enabled
      BY <2>2, <3>1, NoModalIsOne DEF SwitchCareful
    <3>. QED  BY <2>1, <3>2, <3>4, <3>5, <3>6 DEF SwitchCareful
  <2>. QED  BY <2>1, <2>3, <2>4 DEF SwitchInv
<1>. QED  BY <1>1, <1>2

\* Every step of the page.
LEMMA SwitchStep ==
  ASSUME SwitchInv, Notifiers!Step
  PROVE  SwitchInv'
BY SwitchPolls, SwitchEdits, SwitchAsks, SwitchServes, SwitchEnds DEF Notifiers!Step

LEMMA SwitchShows ==
  ASSUME SwitchInv
  PROVE  Notifiers!SwitchStays /\ Notifiers!TypeOK
<1>1. Notifiers!SwitchStays
  BY DEF SwitchInv, SwitchCareful, Notifiers!SwitchStays, Notifiers!There
<1>2. Notifiers!TypeOK
  BY DEF SwitchInv, SwitchShape, SwitchModal, Notifiers!TypeOK
<1>. QED  BY <1>1, <1>2

-----------------------------------------------------------------------------
(* The map of the fleet: what it is drawn of.                              *)

GraphFields ==
  {"page", "nodes", "pots", "tab", "graph", "selected", "hover", "mode", "search",
   "layout", "due", "frames"}

\* The map is the one that the lists make, when it is open.
GraphOf(v) ==
  IF v.tab = "topology" THEN Front!Built(v.nodes, v.pots) ELSE Front!NoGraph

GraphShape(v) ==
  /\ v.page = "dashboard" /\ DOMAIN v = GraphFields
  /\ v.nodes \in Front!NodeStates /\ v.pots \in Front!PotStates
  /\ v.tab \in {"live", "topology"}
  /\ v.selected \in Front!Things \union {Front!NoThing}
  /\ v.hover \in Front!Things \union {Front!NoThing}
  /\ v.mode \in Front!Modes /\ v.search \in BOOLEAN

GraphInv == GraphShape(view) /\ view.graph = GraphOf(view)

LEMMA FreshIsOne ==
  /\ GraphShape(Front!Fresh) /\ Front!Fresh.tab = "live" /\ Front!Fresh.graph = Front!NoGraph
BY DEF Front!Fresh, GraphShape, GraphFields, Front!NodeStates, Front!PotStates, Front!Modes

LEMMA GraphMounts ==
  ASSUME view' \in Front!Mounted
  PROVE  GraphInv'
<1>1. view' = Front!Fresh
  BY DEF Front!Mounted
<1>. QED  BY <1>1, FreshIsOne DEF GraphInv, GraphOf

\* Starting a layout leaves the map alone.
LEMMA GraphRelaid ==
  ASSUME NEW v, GraphShape(v), v.graph = GraphOf(v), view' = Front!Relaid(v)
  PROVE  GraphInv'
<1>1. /\ DOMAIN view' = DOMAIN v /\ view'.page = v.page /\ view'.nodes = v.nodes
      /\ view'.pots = v.pots /\ view'.tab = v.tab /\ view'.graph = v.graph
      /\ view'.selected = v.selected /\ view'.hover = v.hover
      /\ view'.mode = v.mode /\ view'.search = v.search
  BY DEF Front!Relaid, GraphShape, GraphFields
<1>. QED  BY <1>1 DEF GraphInv, GraphShape, GraphOf

\* The map is built anew of the lists.
LEMMA GraphRebuilt ==
  ASSUME NEW v, GraphShape(v), v.tab = "topology" \/ v.graph = Front!NoGraph,
         view' = Front!Rebuilt(v)
  PROVE  GraphInv'
<1>. DEFINE graph == Front!Built(v.nodes, v.pots)
            w == [v EXCEPT !.graph = graph]
<1>. HIDE DEF graph
<1>1. /\ DOMAIN w = DOMAIN v /\ w.page = v.page /\ w.nodes = v.nodes
      /\ w.pots = v.pots /\ w.tab = v.tab /\ w.graph = graph
      /\ w.selected = v.selected /\ w.hover = v.hover
      /\ w.mode = v.mode /\ w.search = v.search
  BY DEF GraphShape, GraphFields
<1>2. \/ view' = v /\ v.tab # "topology"
      \/ view' \in {w, Front!Relaid(w)} /\ v.tab = "topology"
  BY DEF Front!Rebuilt, graph
<1>. HIDE DEF w
<1>3. v.tab = "topology" => GraphShape(w) /\ w.graph = GraphOf(w)
  BY <1>1 DEF GraphShape, GraphOf, graph
<1>4. CASE view' = v /\ v.tab # "topology"
  BY <1>4 DEF GraphInv, GraphOf
<1>5. CASE view' = w /\ v.tab = "topology"
  BY <1>3, <1>5 DEF GraphInv
<1>6. CASE view' = Front!Relaid(w) /\ v.tab = "topology"
  BY <1>3, <1>6, GraphRelaid
<1>. QED  BY <1>2, <1>4, <1>5, <1>6

\* Every step of the page.
LEMMA GraphStep ==
  ASSUME GraphInv, Front!Step
  PROVE  GraphInv'
<1>. USE DEF Front!Change, Front!Here, Front!Canvas
<1>0. GraphShape(view) /\ view.graph = GraphOf(view)
      /\ (view.tab = "topology" \/ view.graph = Front!NoGraph)
  BY DEF GraphInv, GraphOf
<1>1. CASE Front!NodesArrive
  <2>1. PICK nodes \in Fleets : view' = Front!Rebuilt([view EXCEPT !.nodes = nodes])
    BY <1>1 DEF Front!NodesArrive
  <2>. DEFINE v == [view EXCEPT !.nodes = nodes]
  <2>2. nodes \in Front!NodeStates
    BY ScreensAssumption
  <2>3. GraphShape(v) /\ (v.tab = "topology" \/ v.graph = Front!NoGraph)
    BY <1>0, <2>2 DEF GraphShape, GraphFields
  <2>. HIDE DEF v
  <2>. QED  BY <2>1, <2>3, GraphRebuilt DEF v
<1>2. CASE Front!DeploymentsArrive
  <2>1. PICK pots \in PotLists : view' = Front!Rebuilt([view EXCEPT !.pots = pots])
    BY <1>2 DEF Front!DeploymentsArrive
  <2>. DEFINE v == [view EXCEPT !.pots = pots]
  <2>2. pots \in Front!PotStates
    BY ScreensAssumption
  <2>3. GraphShape(v) /\ (v.tab = "topology" \/ v.graph = Front!NoGraph)
    BY <1>0, <2>2 DEF GraphShape, GraphFields
  <2>. HIDE DEF v
  <2>. QED  BY <2>1, <2>3, GraphRebuilt DEF v
<1>3. ASSUME NEW tab \in {"live", "topology"}, Front!SetTab(tab) PROVE GraphInv'
  <2>. DEFINE v == [Front!Fresh EXCEPT !.nodes = view.nodes, !.pots = view.pots, !.tab = tab]
  <2>1. view' = Front!Rebuilt(v)
    BY <1>3 DEF Front!SetTab
  <2>2. GraphShape(v) /\ v.graph = Front!NoGraph
    BY <1>0, FreshIsOne DEF GraphShape, GraphFields
  <2>. HIDE DEF v
  <2>. QED  BY <2>1, <2>2, GraphRebuilt
<1>4. CASE Front!Resize
  <2>. DEFINE v == [view EXCEPT !.graph = Front!Built(view.nodes, view.pots)]
  <2>1. view' = Front!Relaid(v) /\ view.tab = "topology"
    BY <1>4 DEF Front!Resize
  <2>2. GraphShape(v) /\ v.graph = GraphOf(v)
    BY <1>0, <2>1 DEF GraphShape, GraphFields, GraphOf
  <2>. HIDE DEF v
  <2>. QED  BY <2>1, <2>2, GraphRelaid
<1>5. ASSUME NEW t \in Front!Things, NEW m \in Front!Modes,
             \/ Front!Tick \/ Front!Background \/ Front!LeaveThing \/ Front!SetSearch
             \/ Front!Select(t) \/ Front!Enter(t) \/ Front!SetFilter(m)
      PROVE  GraphInv'
  <2>1. /\ DOMAIN view' = DOMAIN view /\ view'.page = view.page /\ view'.nodes = view.nodes
        /\ view'.pots = view.pots /\ view'.tab = view.tab /\ view'.graph = view.graph
        /\ view'.selected \in {view.selected, Front!NoThing, t}
        /\ view'.hover \in {view.hover, Front!NoThing, t}
        /\ view'.mode \in {view.mode, m} /\ view'.search \in BOOLEAN
    BY <1>0, <1>5 DEF Front!Tick, Front!Background, Front!LeaveThing, Front!SetSearch,
                      Front!Select, Front!Enter, Front!SetFilter, GraphShape, GraphFields
  <2>. QED  BY <1>0, <1>5, <2>1 DEF GraphInv, GraphShape, GraphOf
<1>6. (\E t \in Front!Things : TRUE) /\ (\E m \in Front!Modes : TRUE)
  BY DEF Front!Things, Front!Modes
<1>. QED  BY <1>1, <1>2, <1>3, <1>4, <1>5, <1>6 DEF Front!Step
-----------------------------------------------------------------------------
\* What the map is drawn of, part by part.
UserPart == [id |-> Front!User, online |-> TRUE, parent |-> Front!NoThing, pots |-> 0]
NodePart(nodes, pots, n) ==
  [id |-> Front!NodeThing(n), online |-> nodes[n] = "online", parent |-> Front!NoThing,
   pots |-> Front!Cardinality(Front!PotsByNode(pots, n))]
AnalyserPart(n) ==
  [id |-> Front!Analyser(n), online |-> TRUE, parent |-> Front!NodeThing(n), pots |-> 0]
PotPart(pots, p) ==
  [id |-> Front!Pot(p), online |-> pots[p] = "running", parent |-> Front!NodeThing(Home[p]),
   pots |-> 0]

\* The honeypots of listed nodes, and the listed nodes with an analyser.
Hung(nodes, pots) == {p \in Pots : pots[p] # "none" /\ Home[p] \in Front!Known(nodes)}
Analysed(nodes, pots) == {n \in Front!Known(nodes) : Front!HasAnalyser(pots, n)}

LEMMA GraphParts ==
  ASSUME NEW nodes, NEW pots
  PROVE  /\ Front!Built(nodes, pots).things =
              {UserPart} \union {NodePart(nodes, pots, n) : n \in Front!Known(nodes)}
                \union {AnalyserPart(n) : n \in Analysed(nodes, pots)}
                \union {PotPart(pots, p) : p \in Hung(nodes, pots)}
         /\ Front!Built(nodes, pots).edges =
              {<<Front!User, Front!NodeThing(n)>> : n \in Front!Known(nodes)}
                \union {<<Front!NodeThing(n), Front!Analyser(n)>> : n \in Analysed(nodes, pots)}
                \union {<<IF Front!HasAnalyser(pots, Home[p]) THEN Front!Analyser(Home[p])
                          ELSE Front!NodeThing(Home[p]), Front!Pot(p)>> : p \in Hung(nodes, pots)}
BY DEF Front!Built, UserPart, NodePart, AnalyserPart, PotPart, Hung, Analysed

LEMMA PartFields ==
  ASSUME NEW nodes, NEW pots, NEW n, NEW p
  PROVE  /\ UserPart.id = Front!User /\ UserPart.parent = Front!NoThing
         /\ NodePart(nodes, pots, n).id = Front!NodeThing(n)
         /\ NodePart(nodes, pots, n).parent = Front!NoThing
         /\ NodePart(nodes, pots, n).pots = Front!Cardinality(Front!PotsByNode(pots, n))
         /\ NodePart(nodes, pots, n).online <=> nodes[n] = "online"
         /\ AnalyserPart(n).id = Front!Analyser(n)
         /\ AnalyserPart(n).parent = Front!NodeThing(n)
         /\ PotPart(pots, p).id = Front!Pot(p)
         /\ PotPart(pots, p).parent = Front!NodeThing(Home[p])
<1>. DEFINE online == nodes[n] = "online"
            running == pots[p] = "running"
<1>1. NodePart(nodes, pots, n) =
        [id |-> Front!NodeThing(n), online |-> online, parent |-> Front!NoThing,
         pots |-> Front!Cardinality(Front!PotsByNode(pots, n))]
  BY DEF NodePart
<1>2. PotPart(pots, p) =
        [id |-> Front!Pot(p), online |-> running, parent |-> Front!NodeThing(Home[p]), pots |-> 0]
  BY DEF PotPart
<1>3. online <=> nodes[n] = "online"
  OBVIOUS
<1>. HIDE DEF online, running
<1>. QED  BY <1>1, <1>2, <1>3 DEF UserPart, AnalyserPart

LEMMA AnalyserFields ==
  ASSUME NEW n
  PROVE  AnalyserPart(n).id = Front!Analyser(n) /\ AnalyserPart(n).parent = Front!NodeThing(n)
BY PartFields

LEMMA ThingsDiffer ==
  ASSUME NEW n, NEW m, NEW p, NEW q
  PROVE  /\ Front!Kind(Front!User) = "user" /\ Front!Kind(Front!NodeThing(n)) = "node"
         /\ Front!Kind(Front!Analyser(n)) = "loganalyzer" /\ Front!Kind(Front!Pot(p)) = "honeypot"
         /\ Front!Kind(Front!NoThing) = "none"
         /\ Front!NodeThing(n) = Front!NodeThing(m) => n = m
         /\ Front!Analyser(n) = Front!Analyser(m) => n = m
         /\ Front!Pot(p) = Front!Pot(q) => p = q
BY DEF Front!Kind, Front!User, Front!NodeThing, Front!Analyser, Front!Pot, Front!NoThing

\* The node that a part of the map is said to belong to, or no thing.
LEMMA OfNode ==
  ASSUME NEW nodes, NEW pots, NEW n \in Front!Known(nodes)
  PROVE  LET t == Front!Of(Front!Built(nodes, pots), Front!NodeThing(n)) IN
           /\ t = NodePart(nodes, pots, n)
           /\ Front!NodeThing(n) \in Front!Ids(Front!Built(nodes, pots))
<1>. DEFINE graph == Front!Built(nodes, pots)
            t == NodePart(nodes, pots, n)
<1>1. t \in graph.things /\ t.id = Front!NodeThing(n)
  BY GraphParts, PartFields
<1>2. ASSUME NEW u \in graph.things, u.id = Front!NodeThing(n)
      PROVE  u = t
  <2>1. CASE u = UserPart
    BY <1>2, <2>1, PartFields, ThingsDiffer
  <2>2. ASSUME NEW m \in Front!Known(nodes), u = NodePart(nodes, pots, m)
        PROVE  u = t
    BY <1>2, <2>2, PartFields, ThingsDiffer
  <2>3. ASSUME NEW m, u = AnalyserPart(m)
        PROVE  u = t
    BY <1>2, <2>3, PartFields, ThingsDiffer
  <2>4. ASSUME NEW p, u = PotPart(pots, p)
        PROVE  u = t
    BY <1>2, <2>4, PartFields, ThingsDiffer
  <2>. QED  BY <1>2, <2>1, <2>2, <2>3, <2>4, GraphParts
<1>. HIDE DEF t, graph
<1>3. Front!Of(graph, Front!NodeThing(n)) = t
  BY <1>1, <1>2 DEF Front!Of
<1>4. Front!NodeThing(n) \in Front!Ids(graph)
  BY <1>1 DEF Front!Ids
<1>. QED  BY <1>3, <1>4 DEF t, graph

-----------------------------------------------------------------------------
\* Three steps along edges reach what is at their end.
Tied(edges, a, b) == <<a, b>> \in edges \/ <<b, a>> \in edges

LEMMA ThreeSteps ==
  ASSUME NEW ids, NEW from, NEW edges,
         \A x \in ids : \E y, z : /\ y = from \/ Tied(edges, from, y)
                                  /\ z = y \/ Tied(edges, y, z)
                                  /\ x = z \/ Tied(edges, z, x)
  PROVE  Front!Together(ids, from, edges)
<1>. DEFINE step(S) == S \union {e[2] : e \in {f \in edges : f[1] \in S}}
                         \union {e[1] : e \in {f \in edges : f[2] \in S}}
<1>1. ASSUME NEW S, NEW a \in S, NEW b, b = a \/ Tied(edges, a, b)
      PROVE  b \in step(S)
  <2>1. CASE b = a
    BY <1>1, <2>1
  <2>2. CASE <<a, b>> \in edges
    BY <1>1, <2>2
  <2>3. CASE <<b, a>> \in edges
    BY <1>1, <2>3
  <2>. QED  BY <1>1, <2>1, <2>2, <2>3 DEF Tied
<1>2. ASSUME NEW x \in ids
      PROVE  x \in step(step(step({from})))
  <2>1. PICK y, z : /\ y = from \/ Tied(edges, from, y)
                    /\ z = y \/ Tied(edges, y, z)
                    /\ x = z \/ Tied(edges, z, x)
    BY <1>2
  <2>2. from \in {from}
    OBVIOUS
  <2>. DEFINE A == {from}
              B == step(A)
              C == step(B)
              D == step(C)
  <2>. HIDE DEF step, A, B, C, D
  <2>3. y \in B
    BY <1>1, <2>1, <2>2 DEF A, B
  <2>4. z \in C
    BY <1>1, <2>1, <2>3 DEF C
  <2>5. x \in D
    BY <1>1, <2>1, <2>4 DEF D
  <2>. QED  BY <2>5 DEF A, B, C, D
<1>. QED  BY <1>2 DEF Front!Together
LEMMA NothingHangs ==
  ASSUME GraphInv
  PROVE  Front!NothingHangsInTheAir
<1>. SUFFICES ASSUME view.mode # "online", ~view.search
              PROVE  Front!Together(Front!Shown, Front!User,
                       Front!DrawnEdges(view.graph, view.mode, view.search))
  BY DEF Front!NothingHangsInTheAir
<1>. DEFINE edges == Front!DrawnEdges(view.graph, view.mode, view.search)
            nodes == view.nodes
            pots == view.pots
            graph == Front!Built(nodes, pots)
<1>1. CASE Front!Shown = {}
  <2>1. \A x \in Front!Shown : FALSE
    BY <1>1
  <2>. QED  BY <2>1, ThreeSteps
<1>2. CASE Front!Shown # {}
  <2>0. view.mode \in {"all", "withpots"}
    BY DEF GraphInv, GraphShape, Front!Modes
  <2>1. view.graph = graph
    <3>1. ASSUME view.graph = Front!NoGraph
          PROVE  FALSE
      BY <1>2, <3>1 DEF Front!Shown, Front!Drawn, Front!NoGraph, Front!Ids
    <3>. QED  BY <3>1 DEF GraphInv, GraphOf
  <2>. HIDE DEF nodes, pots
  <2>2. Front!Shown = {t.id : t \in {u \in graph.things :
                                       Front!PassesFilter(graph, view.mode, view.search, u)}}
    BY <1>2, <2>1 DEF Front!Shown, Front!Drawn
  <2>. DEFINE Passes(u) == Front!PassesFilter(graph, view.mode, view.search, u)
  <2>3. \A u \in graph.things : Passes(u) => u.id \in Front!Shown
    BY <2>2
  <2>. DEFINE Full(n) == view.mode = "withpots" => NodePart(nodes, pots, n).pots > 0
  <2>4. Front!User \in Front!Shown
    <3>1. UserPart \in graph.things /\ Passes(UserPart) /\ UserPart.id = Front!User
      BY GraphParts, PartFields DEF Front!PassesFilter
    <3>. QED  BY <2>3, <3>1
  <2>5. ASSUME NEW n \in Front!Known(nodes), Full(n)
        PROVE  Front!NodeThing(n) \in Front!Shown
    <3>1. NodePart(nodes, pots, n) \in graph.things
      BY GraphParts
    <3>2. Passes(NodePart(nodes, pots, n))
      BY <2>0, <2>5, PartFields, ThingsDiffer DEF Front!PassesFilter
    <3>. QED  BY <2>3, <3>1, <3>2, PartFields
  <2>6. ASSUME NEW u \in graph.things, Passes(u), NEW n \in Front!Known(nodes),
               u.parent = Front!NodeThing(n), Front!Kind(u.id) \in {"loganalyzer", "honeypot"}
        PROVE  Full(n)
    <3>1. Front!Of(graph, Front!NodeThing(n)) = NodePart(nodes, pots, n)
      BY OfNode
    <3>2. Front!Kind(u.id) # "node" /\ u.id # Front!User
      BY <2>6, ThingsDiffer
    <3>. QED  BY <2>6, <3>1, <3>2 DEF Front!PassesFilter
  <2>7. ASSUME NEW n \in Analysed(nodes, pots), Full(n)
        PROVE  Front!Analyser(n) \in Front!Shown
    <3>1. AnalyserPart(n) \in graph.things
      BY GraphParts
    <3>2. n \in Front!Known(nodes)
      BY DEF Analysed
    <3>3. /\ Front!Of(graph, Front!NodeThing(n)) = NodePart(nodes, pots, n)
          /\ Front!NodeThing(n) \in Front!Ids(graph)
      BY <3>2, OfNode
    <3>4. Passes(AnalyserPart(n))
      BY <2>0, <2>7, <3>3, PartFields, ThingsDiffer DEF Front!PassesFilter
    <3>. QED  BY <2>3, <3>1, <3>4, PartFields
  <2>8. edges = {e \in graph.edges : {e[1], e[2]} \subseteq Front!Shown}
    BY <2>1 DEF Front!DrawnEdges, Front!Shown
  <2>9. \A a, b : <<a, b>> \in graph.edges /\ a \in Front!Shown /\ b \in Front!Shown
          => Tied(edges, a, b)
    BY <2>8 DEF Tied
  <2>. HIDE DEF edges, Passes, Full
  <2>10. ASSUME NEW n \in Front!Known(nodes), Full(n)
         PROVE  Tied(edges, Front!User, Front!NodeThing(n))
    <3>1. <<Front!User, Front!NodeThing(n)>> \in graph.edges
      BY GraphParts
    <3>. QED  BY <2>4, <2>5, <2>9, <2>10, <3>1
  <2>11. ASSUME NEW n \in Analysed(nodes, pots), Full(n)
         PROVE  Tied(edges, Front!NodeThing(n), Front!Analyser(n))
    <3>1. <<Front!NodeThing(n), Front!Analyser(n)>> \in graph.edges
      BY GraphParts
    <3>2. n \in Front!Known(nodes)
      BY DEF Analysed
    <3>. QED  BY <2>5, <2>7, <2>9, <2>11, <3>1, <3>2
  <2>. DEFINE Reached(x) == \E y, z : /\ y = Front!User \/ Tied(edges, Front!User, y)
                                      /\ z = y \/ Tied(edges, y, z)
                                      /\ x = z \/ Tied(edges, z, x)
  <2>12. ASSUME NEW x \in Front!Shown
         PROVE  Reached(x)
    <3>1. PICK u \in graph.things : Passes(u) /\ x = u.id
      BY <2>2 DEF Passes
    <3>2. CASE u = UserPart
      BY <3>1, <3>2, PartFields
    <3>3. ASSUME NEW n \in Front!Known(nodes), u = NodePart(nodes, pots, n)
          PROVE  Reached(x)
      <4>1. x = Front!NodeThing(n)
        BY <3>1, <3>3, PartFields
      <4>2. <<Front!User, x>> \in graph.edges
        BY <4>1, GraphParts
      <4>3. Tied(edges, Front!User, x)
        BY <2>4, <2>9, <2>12, <4>2
      <4>. QED  BY <4>3
    <3>4. ASSUME NEW n \in Analysed(nodes, pots), u = AnalyserPart(n)
          PROVE  Reached(x)
      <4>1. x = Front!Analyser(n) /\ n \in Front!Known(nodes)
        BY <3>1, <3>4, PartFields DEF Analysed
      <4>2. Full(n)
        BY <2>6, <3>1, <3>4, <4>1, PartFields, ThingsDiffer
      <4>3. Tied(edges, Front!User, Front!NodeThing(n)) /\ Tied(edges, Front!NodeThing(n), x)
        BY <2>10, <2>11, <4>1, <4>2
      <4>. QED  BY <4>3
    <3>5. ASSUME NEW p \in Hung(nodes, pots), u = PotPart(pots, p)
          PROVE  Reached(x)
      <4>. DEFINE n == Home[p]
                  top == IF Front!HasAnalyser(pots, n) THEN Front!Analyser(n) ELSE Front!NodeThing(n)
      <4>1. x = Front!Pot(p) /\ n \in Front!Known(nodes) /\ u.parent = Front!NodeThing(n)
        BY <3>1, <3>5, PartFields DEF Hung
      <4>2. Full(n)
        BY <2>6, <3>1, <3>5, <4>1, PartFields, ThingsDiffer
      <4>3. <<top, Front!Pot(p)>> \in graph.edges
        BY GraphParts
      <4>4. Tied(edges, Front!User, Front!NodeThing(n))
        BY <2>10, <4>1, <4>2
      <4>5. CASE Front!HasAnalyser(pots, n)
        <5>1. n \in Analysed(nodes, pots) /\ top = Front!Analyser(n)
          BY <4>1, <4>5 DEF Analysed
        <5>2. Tied(edges, Front!NodeThing(n), top)
          BY <2>11, <4>2, <5>1
        <5>3. Tied(edges, top, x)
          BY <2>7, <2>9, <2>12, <4>1, <4>2, <4>3, <5>1
        <5>. QED  BY <4>4, <5>2, <5>3
      <4>6. CASE ~Front!HasAnalyser(pots, n)
        <5>1. Tied(edges, Front!NodeThing(n), x)
          BY <2>5, <2>9, <2>12, <4>1, <4>2, <4>3, <4>6
        <5>. QED  BY <4>4, <5>1
      <4>. QED  BY <4>5, <4>6
    <3>6. \/ u = UserPart
          \/ \E n \in Front!Known(nodes) : u = NodePart(nodes, pots, n)
          \/ \E n \in Analysed(nodes, pots) : u = AnalyserPart(n)
          \/ \E p \in Hung(nodes, pots) : u = PotPart(pots, p)
      BY <3>1, GraphParts
    <3>. HIDE DEF Reached
    <3>. QED  BY <3>2, <3>3, <3>4, <3>5, <3>6
  <2>13. Front!Together(Front!Shown, Front!User, edges)
    BY <2>12, ThreeSteps
  <2>. QED  BY <2>13 DEF edges
<1>. QED  BY <1>1, <1>2
\* An edge ends at a thing of the map, never at none.
LEMMA EdgesEnd ==
  ASSUME NEW nodes, NEW pots, NEW a, NEW b, <<a, b>> \in Front!Built(nodes, pots).edges
  PROVE  a # Front!NoThing /\ b # Front!NoThing
<1>1. CASE \E n \in Front!Known(nodes) : <<a, b>> = <<Front!User, Front!NodeThing(n)>>
  BY <1>1, ThingsDiffer
<1>2. CASE \E n \in Analysed(nodes, pots) : <<a, b>> = <<Front!NodeThing(n), Front!Analyser(n)>>
  BY <1>2, ThingsDiffer
<1>3. ASSUME NEW p \in Hung(nodes, pots),
             <<a, b>> = <<IF Front!HasAnalyser(pots, Home[p]) THEN Front!Analyser(Home[p])
                          ELSE Front!NodeThing(Home[p]), Front!Pot(p)>>
      PROVE  a # Front!NoThing /\ b # Front!NoThing
  BY <1>3, ThingsDiffer
<1>. QED  BY <1>1, <1>2, <1>3, GraphParts

LEMMA EdgesArePairs ==
  ASSUME NEW nodes, NEW pots, NEW e \in Front!Built(nodes, pots).edges
  PROVE  e = <<e[1], e[2]>>
BY GraphParts

LEMMA HighlightHangs ==
  ASSUME GraphInv
  PROVE  Front!HighlightHangsTogether
<1>. DEFINE active == Front!Active
            nodes == view.nodes
            pots == view.pots
            graph == Front!Built(nodes, pots)
            lit == Front!ActiveSet(view.graph, active)
            edges == {e \in view.graph.edges : {e[1], e[2]} \subseteq lit}
<1>. SUFFICES ASSUME view.mode = "all", active \in Front!Shown
              PROVE  Front!Together(lit, active, edges)
  BY DEF Front!HighlightHangsTogether
<1>1. view.graph = graph
  <2>1. ASSUME view.graph = Front!NoGraph
        PROVE  FALSE
    BY <2>1 DEF Front!Shown, Front!Drawn, Front!NoGraph, Front!Ids
  <2>. QED  BY <2>1 DEF GraphInv, GraphOf
<1>. HIDE DEF nodes, pots
<1>2. \E t \in graph.things : active = t.id
  BY <1>1 DEF Front!Shown, Front!Drawn
<1>. HIDE DEF active
<1>3. active # Front!NoThing
  <2>1. PICK t \in graph.things : active = t.id
    BY <1>2
  <2>2. Front!Kind(t.id) # "none"
    <3>1. CASE t = UserPart
      BY <3>1, PartFields, ThingsDiffer
    <3>2. ASSUME NEW n, t = NodePart(nodes, pots, n) PROVE Front!Kind(t.id) # "none"
      BY <3>2, PartFields, ThingsDiffer
    <3>3. ASSUME NEW n, t = AnalyserPart(n) PROVE Front!Kind(t.id) # "none"
      BY <3>3, AnalyserFields, ThingsDiffer
    <3>4. ASSUME NEW p, t = PotPart(pots, p) PROVE Front!Kind(t.id) # "none"
      BY <3>4, PartFields, ThingsDiffer
    <3>5. \/ t = UserPart
          \/ \E n : t = NodePart(nodes, pots, n)
          \/ \E n : t = AnalyserPart(n)
          \/ \E p : t = PotPart(pots, p)
      BY GraphParts
    <3>. QED  BY <3>1, <3>2, <3>3, <3>4, <3>5
  <2>. QED  BY <2>1, <2>2, ThingsDiffer
<1>. DEFINE near == {active} \union {e[2] : e \in {f \in graph.edges : f[1] = active}}
                      \union {e[1] : e \in {f \in graph.edges : f[2] = active}}
<1>4. lit = near \union {t.id : t \in {u \in graph.things : u.parent \in near}}
  BY <1>1 DEF Front!ActiveSet
<1>5. ASSUME NEW x \in near
      PROVE  x = active \/ <<active, x>> \in graph.edges \/ <<x, active>> \in graph.edges
  <2>1. ASSUME NEW e \in graph.edges, e[1] = active, x = e[2]
        PROVE  <<active, x>> \in graph.edges
    BY <2>1, EdgesArePairs
  <2>2. ASSUME NEW e \in graph.edges, e[2] = active, x = e[1]
        PROVE  <<x, active>> \in graph.edges
    BY <2>2, EdgesArePairs
  <2>. QED  BY <1>5, <2>1, <2>2
<1>6. active \in near /\ near \subseteq lit
  BY <1>4
<1>7. Front!NoThing \notin near
  BY <1>3, <1>5, EdgesEnd
<1>8. \A t \in graph.things : t.parent \in near => t.id \in lit
  BY <1>4
<1>9. \A x \in lit : x \in near \/ \E t \in graph.things : t.parent \in near /\ x = t.id
  BY <1>4
<1>10. \A a, b \in lit : <<a, b>> \in graph.edges \/ <<b, a>> \in graph.edges => Tied(edges, a, b)
  BY <1>1 DEF Tied
<1>. HIDE DEF lit, near, edges
<1>11. \A x \in near : x = active \/ Tied(edges, active, x)
  BY <1>5, <1>6, <1>10
<1>. DEFINE Reached(x) == \E y, z : /\ y = active \/ Tied(edges, active, y)
                                    /\ z = y \/ Tied(edges, y, z)
                                    /\ x = z \/ Tied(edges, z, x)
<1>12. ASSUME NEW x \in lit
       PROVE  Reached(x)
  <2>1. CASE x \in near
    BY <1>11, <2>1
  <2>2. ASSUME NEW t \in graph.things, t.parent \in near, x = t.id
        PROVE  Reached(x)
    <3>1. t.parent # Front!NoThing
      BY <1>7, <2>2
    <3>2. ASSUME NEW n \in Analysed(nodes, pots), t = AnalyserPart(n)
          PROVE  Reached(x)
      <4>1. x = Front!Analyser(n) /\ Front!NodeThing(n) \in near
        BY <2>2, <3>2, AnalyserFields
      <4>2. <<Front!NodeThing(n), x>> \in graph.edges
        BY <4>1, GraphParts
      <4>3. Tied(edges, Front!NodeThing(n), x)
        BY <1>6, <1>10, <1>12, <4>1, <4>2
      <4>. QED  BY <1>11, <4>1, <4>3
    <3>3. ASSUME NEW p \in Hung(nodes, pots), t = PotPart(pots, p)
          PROVE  Reached(x)
      <4>. DEFINE n == Home[p]
      <4>1. x = Front!Pot(p) /\ n \in Front!Known(nodes) /\ Front!NodeThing(n) \in near
        BY <2>2, <3>3, PartFields DEF Hung
      <4>2. <<IF Front!HasAnalyser(pots, n) THEN Front!Analyser(n) ELSE Front!NodeThing(n), x>>
              \in graph.edges
        BY <4>1, GraphParts
      <4>. HIDE DEF n
      <4>3. CASE Front!HasAnalyser(pots, n)
        <5>1. n \in Analysed(nodes, pots)
          BY <4>1, <4>3 DEF Analysed
        <5>2. AnalyserPart(n) \in graph.things
          BY <5>1, GraphParts
        <5>3. Front!Analyser(n) \in lit
          BY <1>8, <4>1, <5>2, AnalyserFields
        <5>4. <<Front!NodeThing(n), Front!Analyser(n)>> \in graph.edges
          BY <5>1, GraphParts
        <5>5. Tied(edges, Front!NodeThing(n), Front!Analyser(n))
          BY <1>6, <1>10, <4>1, <5>3, <5>4
        <5>6. Tied(edges, Front!Analyser(n), x)
          BY <1>10, <1>12, <4>2, <4>3, <5>3
        <5>. QED  BY <1>11, <4>1, <5>5, <5>6
      <4>4. CASE ~Front!HasAnalyser(pots, n)
        <5>1. Tied(edges, Front!NodeThing(n), x)
          BY <1>6, <1>10, <1>12, <4>1, <4>2, <4>4
        <5>. QED  BY <1>11, <4>1, <5>1
      <4>. QED  BY <4>3, <4>4
    <3>4. \/ t.parent = Front!NoThing
          \/ \E n \in Analysed(nodes, pots) : t = AnalyserPart(n)
          \/ \E p \in Hung(nodes, pots) : t = PotPart(pots, p)
      BY <2>2, GraphParts, PartFields
    <3>. HIDE DEF Reached
    <3>. QED  BY <3>1, <3>2, <3>3, <3>4
  <2>. QED  BY <1>9, <1>12, <2>1, <2>2
<1>13. Front!Together(lit, active, edges)
  BY <1>12, ThreeSteps
<1>. QED  BY <1>13 DEF lit, active, edges
-----------------------------------------------------------------------------
\* Things that stand for different ones are as many as these.
LEMMA AsMany ==
  ASSUME NEW S, IsFiniteSet(S), NEW f, f = [x \in S |-> f[x]],
         \A x, y \in S : f[x] = f[y] => x = y,
         NEW T, T = {f[x] : x \in S}
  PROVE  Front!Cardinality(T) = Cardinality(S)
<1>1. f \in [S -> T]
  OBVIOUS
<1>2. f \in Injection(S, T)
  BY <1>1 DEF Injection, IsInjective
<1>3. f \in Surjection(S, T)
  BY <1>1 DEF Surjection
<1>4. f \in Bijection(S, T)
  BY <1>2, <1>3 DEF Bijection
<1>5. ExistsBijection(S, T)
  BY <1>4 DEF ExistsBijection
<1>6. Cardinality(T) = Cardinality(S)
  BY <1>5, FS_Bijection
<1>. QED  BY <1>6 DEF Front!Cardinality, Cardinality

LEMMA SameSize == \A S : Front!Cardinality(S) = Cardinality(S)
BY DEF Front!Cardinality, Cardinality

\* A finite set is as large as two parts that share nothing.
LEMMA TwoParts ==
  ASSUME NEW S, IsFiniteSet(S), NEW A, NEW B, S = A \union B, A \intersect B = {}
  PROVE  /\ IsFiniteSet(A) /\ IsFiniteSet(B)
         /\ Cardinality(A) \in Nat /\ Cardinality(B) \in Nat
         /\ Cardinality(S) = Cardinality(A) + Cardinality(B)
<1>1. A \in SUBSET S /\ B \in SUBSET S
  OBVIOUS
<1>2. IsFiniteSet(A) /\ IsFiniteSet(B)
  BY <1>1, FS_Subset
<1>3. Cardinality(A) \in Nat /\ Cardinality(B) \in Nat
  BY <1>2, FS_CardinalityType
<1>4. Cardinality(A \union B) = Cardinality(A) + Cardinality(B) - Cardinality(A \intersect B)
  BY <1>2, FS_Union
<1>5. Cardinality(A \intersect B) = 0
  BY FS_EmptySet
<1>. QED  BY <1>2, <1>3, <1>4, <1>5

LEMMA MapAgrees ==
  ASSUME GraphInv
  PROVE  Front!MapAgreesWithNumbers
<1>. DEFINE nodes == view.nodes
            pots == view.pots
            graph == Front!Built(nodes, pots)
            count(kind) == Front!Cardinality({t \in Front!Ids(view.graph) : Front!Kind(t) = kind})
            marked == {n \in Nodes : nodes[n] = "marked"}
            stray == {p \in Pots : pots[p] # "none" /\ nodes[Home[p]] = "none"}
<1>. SUFFICES ASSUME view.tab = "topology"
              PROVE  /\ count("node") = Front!Total
                     /\ Front!PanelOnline = Front!Online - Front!Cardinality(marked)
                     /\ \A n \in Front!Known(nodes) :
                          /\ Front!Of(view.graph, Front!NodeThing(n)).pots = Front!Chip(n)
                          /\ Front!Chip(n) = Front!Cardinality({t \in view.graph.things :
                               Front!Kind(t.id) = "honeypot" /\ t.parent = Front!NodeThing(n)})
                     /\ count("honeypot") + Front!Cardinality(stray) = Front!Honeypots
  BY DEF Front!MapAgreesWithNumbers
<1>1. /\ view.graph = graph /\ nodes \in Front!NodeStates /\ pots \in Front!PotStates
      /\ Home \in [Pots -> Nodes] /\ IsFiniteSet(Nodes) /\ IsFiniteSet(Pots)
  BY ScreensAssumption DEF GraphInv, GraphShape, GraphOf
<1>2. /\ Front!Total = Front!Cardinality(Front!Known(nodes))
      /\ Front!Online = Front!Cardinality({n \in Nodes : nodes[n] \in {"marked", "online"}})
      /\ Front!Honeypots = Front!Cardinality({p \in Pots : pots[p] # "none"})
      /\ \A n : Front!Chip(n) = Front!Cardinality(Front!PotsByNode(pots, n))
      /\ Front!PanelOnline = Front!Cardinality({t \in view.graph.things :
                                                  Front!Kind(t.id) = "node" /\ t.online})
  BY DEF Front!Total, Front!Online, Front!IsOnline, Front!Honeypots, Front!Chip, Front!PanelOnline
<1>. HIDE DEF nodes, pots
<1>3. Front!Known(nodes) \in SUBSET Nodes /\ Hung(nodes, pots) \in SUBSET Pots
      /\ \A n : Front!PotsByNode(pots, n) \in SUBSET Pots
  BY DEF Front!Known, Hung, Front!PotsByNode
<1>4. /\ IsFiniteSet(Front!Known(nodes)) /\ IsFiniteSet(Hung(nodes, pots))
      /\ \A n : IsFiniteSet(Front!PotsByNode(pots, n))
  BY <1>1, <1>3, FS_Subset
\* The things of the map, by their kind.
<1>5. ASSUME NEW t \in graph.things
      PROVE  /\ Front!Kind(t.id) = "node" => \E n \in Front!Known(nodes) : t = NodePart(nodes, pots, n)
             /\ Front!Kind(t.id) = "honeypot" => \E p \in Hung(nodes, pots) : t = PotPart(pots, p)
  <2>1. CASE t = UserPart
    BY <2>1, PartFields, ThingsDiffer
  <2>2. ASSUME NEW n \in Front!Known(nodes), t = NodePart(nodes, pots, n)
        PROVE  Front!Kind(t.id) # "honeypot"
    BY <2>2, PartFields, ThingsDiffer
  <2>3. ASSUME NEW n, t = AnalyserPart(n)
        PROVE  Front!Kind(t.id) \notin {"node", "honeypot"}
    BY <2>3, AnalyserFields, ThingsDiffer
  <2>4. ASSUME NEW p \in Hung(nodes, pots), t = PotPart(pots, p)
        PROVE  Front!Kind(t.id) # "node"
    BY <2>4, PartFields, ThingsDiffer
  <2>5. \/ t = UserPart
        \/ \E n \in Front!Known(nodes) : t = NodePart(nodes, pots, n)
        \/ \E n : t = AnalyserPart(n)
        \/ \E p \in Hung(nodes, pots) : t = PotPart(pots, p)
    BY GraphParts
  <2>. QED  BY <2>1, <2>2, <2>3, <2>4, <2>5
<1>6. /\ \A n \in Front!Known(nodes) :
           /\ NodePart(nodes, pots, n) \in graph.things
           /\ NodePart(nodes, pots, n).id = Front!NodeThing(n)
           /\ NodePart(nodes, pots, n).online <=> nodes[n] = "online"
      /\ \A p \in Hung(nodes, pots) :
           /\ PotPart(pots, p) \in graph.things
           /\ PotPart(pots, p).id = Front!Pot(p)
           /\ PotPart(pots, p).parent = Front!NodeThing(Home[p])
  BY GraphParts, PartFields
<1>. HIDE DEF graph
<1>7. count("node") = Front!Total
  <2>. DEFINE f == [n \in Front!Known(nodes) |-> Front!NodeThing(n)]
              T == {t \in Front!Ids(graph) : Front!Kind(t) = "node"}
  <2>1. T = {f[n] : n \in Front!Known(nodes)}
    <3>1. ASSUME NEW x \in T
          PROVE  \E n \in Front!Known(nodes) : x = Front!NodeThing(n)
      <4>1. PICK t \in graph.things : x = t.id
        BY DEF Front!Ids
      <4>2. PICK n \in Front!Known(nodes) : t = NodePart(nodes, pots, n)
        BY <1>5, <3>1, <4>1
      <4>. QED  BY <1>6, <4>1, <4>2
    <3>2. ASSUME NEW n \in Front!Known(nodes)
          PROVE  Front!NodeThing(n) \in T
      BY <1>6, ThingsDiffer DEF Front!Ids
    <3>. HIDE DEF T
    <3>3. \A x \in T : x \in {f[n] : n \in Front!Known(nodes)}
      BY <3>1
    <3>. QED  BY <3>2, <3>3
  <2>2. \A n, m \in Front!Known(nodes) : f[n] = f[m] => n = m
    BY ThingsDiffer
  <2>3. f = [n \in Front!Known(nodes) |-> f[n]]
    OBVIOUS
  <2>. HIDE DEF f, T
  <2>4. Front!Cardinality(T) = Cardinality(Front!Known(nodes))
    BY <1>4, <2>1, <2>2, <2>3, AsMany
  <2>. QED  BY <1>1, <1>2, <2>4, SameSize DEF T
<1>8. Front!PanelOnline = Front!Online - Front!Cardinality(marked)
  <2>. DEFINE up == {n \in Nodes : nodes[n] = "online"}
              both == {n \in Nodes : nodes[n] \in {"marked", "online"}}
              f == [n \in up |-> NodePart(nodes, pots, n)]
              T == {t \in graph.things : Front!Kind(t.id) = "node" /\ t.online}
  <2>1. up \subseteq Front!Known(nodes) /\ up \in SUBSET Nodes
    BY DEF Front!Known
  <2>2. T = {f[n] : n \in up}
    <3>1. ASSUME NEW t \in T
          PROVE  \E n \in up : t = NodePart(nodes, pots, n)
      <4>1. PICK n \in Front!Known(nodes) : t = NodePart(nodes, pots, n)
        BY <1>5, <3>1
      <4>2. nodes[n] = "online"
        BY <1>6, <3>1, <4>1
      <4>. QED  BY <4>1, <4>2 DEF Front!Known
    <3>2. ASSUME NEW n \in up
          PROVE  NodePart(nodes, pots, n) \in T
      BY <1>6, <2>1, ThingsDiffer
    <3>. HIDE DEF T
    <3>3. \A t \in T : t \in {f[n] : n \in up}
      BY <3>1
    <3>. QED  BY <3>2, <3>3
  <2>3. \A n, m \in up : f[n] = f[m] => n = m
    <3>1. \A n \in up : f[n].id = Front!NodeThing(n)
      BY <1>6, <2>1
    <3>. HIDE DEF f
    <3>. QED  BY <3>1, ThingsDiffer
  <2>4. f = [n \in up |-> f[n]]
    OBVIOUS
  <2>5. IsFiniteSet(up) /\ IsFiniteSet(both)
    <3>1. both \in SUBSET Nodes
      OBVIOUS
    <3>. HIDE DEF both, up
    <3>. QED  BY <1>1, <2>1, <3>1, FS_Subset
  <2>6. both = up \union marked /\ up \intersect marked = {}
    OBVIOUS
  <2>. HIDE DEF f, T, up, both, marked
  <2>7. Front!Cardinality(T) = Cardinality(up)
    BY <2>2, <2>3, <2>4, <2>5, AsMany
  <2>8. IsFiniteSet(up) /\ IsFiniteSet(marked)
    BY <2>5, <2>6, TwoParts
  <2>9. Cardinality(up) \in Nat /\ Cardinality(marked) \in Nat
    BY <2>8, FS_CardinalityType
  <2>10. Cardinality(both) = Cardinality(up) + Cardinality(marked)
    BY <2>5, <2>6, TwoParts
  <2>11. Front!PanelOnline = Cardinality(up) /\ Front!Online = Cardinality(both)
        /\ Front!Cardinality(marked) = Cardinality(marked)
    BY <1>1, <1>2, <2>7, SameSize DEF T, both
  <2>. QED  BY <2>9, <2>10, <2>11
<1>9. ASSUME NEW n \in Front!Known(nodes)
      PROVE  /\ Front!Of(view.graph, Front!NodeThing(n)).pots = Front!Chip(n)
             /\ Front!Chip(n) = Front!Cardinality({t \in view.graph.things :
                  Front!Kind(t.id) = "honeypot" /\ t.parent = Front!NodeThing(n)})
  <2>1. Front!Of(graph, Front!NodeThing(n)) = NodePart(nodes, pots, n)
    BY OfNode DEF graph
  <2>2. NodePart(nodes, pots, n).pots = Front!Cardinality(Front!PotsByNode(pots, n))
    BY DEF NodePart
  <2>. DEFINE S == Front!PotsByNode(pots, n)
              f == [p \in S |-> PotPart(pots, p)]
              T == {t \in graph.things : Front!Kind(t.id) = "honeypot" /\ t.parent = Front!NodeThing(n)}
  <2>3. S = {p \in Hung(nodes, pots) : Home[p] = n}
    BY <1>9 DEF Hung, Front!PotsByNode
  <2>4. T = {f[p] : p \in S}
    <3>1. ASSUME NEW t \in T
          PROVE  \E p \in S : t = PotPart(pots, p)
      <4>1. PICK p \in Hung(nodes, pots) : t = PotPart(pots, p)
        BY <1>5, <3>1
      <4>2. Home[p] = n
        BY <1>6, <3>1, <4>1, ThingsDiffer
      <4>. QED  BY <2>3, <4>1, <4>2
    <3>2. ASSUME NEW p \in S
          PROVE  PotPart(pots, p) \in T
      BY <1>6, <2>3, ThingsDiffer
    <3>. HIDE DEF T, S
    <3>3. \A t \in T : t \in {f[p] : p \in S}
      BY <3>1
    <3>. QED  BY <3>2, <3>3
  <2>5. \A p, q \in S : f[p] = f[q] => p = q
    <3>1. \A p \in S : f[p].id = Front!Pot(p)
      BY <1>6, <2>3
    <3>. HIDE DEF f, S
    <3>. QED  BY <3>1, ThingsDiffer
  <2>6. f = [p \in S |-> f[p]] /\ IsFiniteSet(S)
    BY <1>4
  <2>. HIDE DEF f, T, S
  <2>7. Front!Cardinality(T) = Cardinality(S)
    BY <2>4, <2>5, <2>6, AsMany
  <2>. QED  BY <1>1, <1>2, <2>1, <2>2, <2>7, SameSize DEF T, S
<1>10. count("honeypot") + Front!Cardinality(stray) = Front!Honeypots
  <2>. DEFINE S == Hung(nodes, pots)
              all == {p \in Pots : pots[p] # "none"}
              f == [p \in S |-> Front!Pot(p)]
              T == {t \in Front!Ids(graph) : Front!Kind(t) = "honeypot"}
  <2>1. T = {f[p] : p \in S}
    <3>1. ASSUME NEW x \in T
          PROVE  \E p \in S : x = Front!Pot(p)
      <4>1. PICK t \in graph.things : x = t.id
        BY DEF Front!Ids
      <4>2. PICK p \in S : t = PotPart(pots, p)
        BY <1>5, <3>1, <4>1
      <4>. QED  BY <1>6, <4>1, <4>2
    <3>2. ASSUME NEW p \in S
          PROVE  Front!Pot(p) \in T
      BY <1>6, ThingsDiffer DEF Front!Ids
    <3>. HIDE DEF T, S
    <3>3. \A x \in T : x \in {f[p] : p \in S}
      BY <3>1
    <3>. QED  BY <3>2, <3>3
  <2>2. \A p, q \in S : f[p] = f[q] => p = q
    BY ThingsDiffer
  <2>3. f = [p \in S |-> f[p]] /\ IsFiniteSet(S)
    BY <1>4
  <2>4. all = S \union stray /\ S \intersect stray = {}
    BY <1>1 DEF Hung, Front!Known
  <2>5. IsFiniteSet(all)
    <3>1. all \in SUBSET Pots
      OBVIOUS
    <3>. HIDE DEF all
    <3>. QED  BY <1>1, <3>1, FS_Subset
  <2>. HIDE DEF f, T, S, all, stray
  <2>6. Front!Cardinality(T) = Cardinality(S)
    BY <2>1, <2>2, <2>3, AsMany
  <2>7. Cardinality(all) = Cardinality(S) + Cardinality(stray)
    BY <2>4, <2>5, TwoParts
  <2>8. count("honeypot") = Cardinality(S)
    BY <1>1, <2>6 DEF T
  <2>9. Front!Honeypots = Cardinality(all) /\ Front!Cardinality(stray) = Cardinality(stray)
    BY <1>2, SameSize DEF all
  <2>. QED  BY <2>7, <2>8, <2>9
<1>. QED  BY <1>7, <1>8, <1>9, <1>10

-----------------------------------------------------------------------------
(* The types of the list of nodes.                                         *)

FleetJobs ==
  [kind : {"none", "create", "delete", "regen", "bulk"}, ids : SUBSET Nodes, left : SUBSET Nodes,
   ok : SUBSET Nodes]

FleetTyped ==
  /\ view.page = "nodes"
  /\ {"page", "srv", "listed", "fetch", "filter", "selected", "dialog", "jobs"} \subseteq DOMAIN view
  /\ view.filter \in {"all", "online", "offline"}
  /\ view.srv \subseteq Nodes /\ view.listed \in [Nodes -> 0 .. 2]
  /\ view.fetch \in [at : {"none", "asked", "read"}, ids : SUBSET Nodes]
  /\ view.selected \subseteq Nodes
  /\ view.dialog \in [kind : {"none", "delete", "regen", "bulk"}, ids : SUBSET Nodes]
  /\ view.jobs \subseteq FleetJobs

LEMMA FleetTypedMounts ==
  ASSUME view' \in Fleet!Mounted
  PROVE  FleetTyped'
<1>1. PICK s \in SUBSET Nodes, c \in {{}, Nodes} :
        view' = [page |-> "nodes", srv |-> s, listed |-> [n \in Nodes |-> IF n \in c THEN 1 ELSE 0],
                 fetch |-> [at |-> "asked", ids |-> {}], filter |-> "all", selectMode |-> FALSE,
                 selected |-> {}, dialog |-> Fleet!NoDialog, banner |-> NoNode, jobs |-> {}]
  BY DEF Fleet!Mounted
<1>. QED  BY <1>1 DEF FleetTyped, Fleet!NoDialog

LEMMA FleetTypedStep ==
  ASSUME FleetTyped, Fleet!Step
  PROVE  FleetTyped'
<1>. USE DEF FleetTyped, Fleet!Change, Fleet!Here
<1>1. CASE Fleet!PollStarts \/ Fleet!PollIsRead
  BY <1>1 DEF Fleet!PollStarts, Fleet!PollIsRead, Fleet!Asked
<1>2. CASE Fleet!PollArrives
  <2>1. /\ \A f \in DOMAIN view : f \notin {"fetch", "listed"} => view'[f] = view[f]
        /\ DOMAIN view' = DOMAIN view
        /\ view'.listed = [n \in Nodes |-> IF n \in view.fetch.ids THEN 1 ELSE 0]
        /\ view'.fetch = [view.fetch EXCEPT !.at = "none", !.ids = {}]
    BY <1>2 DEF Fleet!PollArrives
  <2>2. view'.fetch \in [at : {"none", "asked", "read"}, ids : SUBSET Nodes]
    BY <2>1
  <2>. QED  BY <2>1, <2>2
<1>3. CASE Fleet!SetFilter \/ Fleet!CloseBanner
  BY <1>3 DEF Fleet!SetFilter, Fleet!CloseBanner
<1>b. CASE Fleet!CancelPending
  BY <1>b DEF Fleet!CancelPending, Fleet!NoDialog
<1>4. CASE Fleet!ToggleSelectMode \/ Fleet!ToggleSelectAll
  <2>1. Fleet!Visible \subseteq Nodes
    BY DEF Fleet!Visible, Fleet!Listed
  <2>2. CASE Fleet!ToggleSelectMode
    BY <2>2 DEF Fleet!ToggleSelectMode
  <2>3. CASE Fleet!ToggleSelectAll
    <3>1. /\ \A f \in DOMAIN view : f # "selected" => view'[f] = view[f]
          /\ DOMAIN view' = DOMAIN view
          /\ view'.selected \in {view.selected \ Fleet!Visible, view.selected \union Fleet!Visible}
      BY <2>3 DEF Fleet!ToggleSelectAll
    <3>. QED  BY <2>1, <3>1
  <2>. QED  BY <1>4, <2>2, <2>3
<1>5. ASSUME NEW n \in Nodes, Fleet!ToggleSel(n) \/ Fleet!Elsewhere(n) PROVE FleetTyped'
  BY <1>5 DEF Fleet!ToggleSel, Fleet!Elsewhere
<1>6. CASE Fleet!OpenBulk
  BY <1>6 DEF Fleet!OpenBulk
<1>7. ASSUME NEW n \in Nodes, Fleet!OnAct(n) PROVE FleetTyped'
  <2>1. CASE view' = [view EXCEPT !.fetch = Fleet!Asked]
    BY <2>1 DEF Fleet!Asked
  <2>2. ASSUME NEW k \in {"delete", "regen"}, view' = [view EXCEPT !.dialog = [kind |-> k, ids |-> {n}]]
        PROVE  FleetTyped'
    BY <2>2
  <2>. QED  BY <1>7, <2>1, <2>2 DEF Fleet!OnAct
<1>8. CASE Fleet!ConfirmPending \/ Fleet!Create
  <2>1. PICK job \in FleetJobs : Fleet!Begin(job)
    <3>1. CASE Fleet!ConfirmPending
      BY <3>1 DEF Fleet!ConfirmPending, Fleet!Job, FleetJobs
    <3>2. ASSUME NEW n \in Fleet!Fresh, Fleet!Begin(Fleet!Job("create", {n}))
          PROVE  \E job \in FleetJobs : Fleet!Begin(job)
      <4>1. Fleet!Job("create", {n}) \in FleetJobs
        BY DEF Fleet!Fresh, Fleet!Job, FleetJobs
      <4>. QED  BY <3>2, <4>1
    <3>. QED  BY <1>8, <3>1, <3>2 DEF Fleet!Create
  <2>. QED  BY <2>1 DEF Fleet!Begin, Fleet!NoDialog
<1>9. ASSUME NEW j \in view.jobs, NEW n \in j.left, Fleet!Serve(j, n) PROVE FleetTyped'
  <2>1. PICK good \in BOOLEAN :
          view' = [view EXCEPT
            !.jobs = (@ \ {j}) \union
                       {[j EXCEPT !.left = @ \ {n}, !.ok = IF good THEN @ \union {n} ELSE @]},
            !.srv = CASE good /\ j.kind = "create" -> @ \union {n}
                      [] good /\ j.kind \in {"delete", "bulk"} -> @ \ {n}
                      [] OTHER -> @]
    BY <1>9 DEF Fleet!Serve
  <2>2. j \in FleetJobs /\ n \in Nodes
    BY DEF FleetJobs
  <2>3. [j EXCEPT !.left = @ \ {n}, !.ok = IF good THEN @ \union {n} ELSE @] \in FleetJobs
    BY <2>2 DEF FleetJobs
  <2>4. view'.srv \subseteq Nodes
    BY <2>1, <2>2
  <2>. QED  BY <2>1, <2>3, <2>4
<1>10. ASSUME NEW j \in view.jobs, Fleet!CreateSettles(j) PROVE FleetTyped'
  <2>1. CASE view' = [view EXCEPT !.jobs = @ \ {j}]
    BY <2>1
  <2>2. ASSUME NEW n \in j.ok,
               view' = [view EXCEPT !.jobs = @ \ {j}, !.banner = n,
                                    !.listed[n] = IF @ = 2 THEN 2 ELSE @ + 1]
        PROVE  FleetTyped'
    <3>1. n \in Nodes
      BY DEF FleetJobs
    <3>2. view'.listed \in [Nodes -> 0 .. 2]
      BY <2>2, <3>1
    <3>. QED  BY <2>2, <3>2
  <2>. QED  BY <1>10, <2>1, <2>2 DEF Fleet!CreateSettles
<1>11. ASSUME NEW j \in view.jobs, Fleet!RegenSettles(j) PROVE FleetTyped'
  BY <1>11 DEF Fleet!RegenSettles
<1>12. ASSUME NEW j \in view.jobs, Fleet!OneSettles(j) PROVE FleetTyped'
  BY <1>12 DEF Fleet!OneSettles, Fleet!Asked
<1>13. ASSUME NEW j \in view.jobs, Fleet!BulkSettles(j) PROVE FleetTyped'
  BY <1>13 DEF Fleet!BulkSettles, Fleet!Asked
<1>. HIDE DEF FleetTyped
<1>. QED
  BY <1>1, <1>2, <1>3, <1>b, <1>4, <1>5, <1>6, <1>7, <1>8, <1>9, <1>10, <1>11,
     <1>12, <1>13
  DEF Fleet!Step, Fleet!Data, Fleet!User, Fleet!Server

LEMMA FleetTypeOK ==
  ASSUME FleetTyped
  PROVE  Fleet!TypeOK
BY DEF FleetTyped, Fleet!TypeOK

-----------------------------------------------------------------------------
(* The types of the page of a node.                                        *)

DetailJobs == [pot : Pots, act : Detail!Acts, at : {"sent", "served"}]

DetailTyped ==
  /\ view.page = "node"
  /\ {"page", "real", "badge", "fetch", "jobs"} \subseteq DOMAIN view
  /\ view.real \in [Pots -> Detail!Status] /\ view.badge \in [Pots -> Detail!Status]
  /\ view.fetch \in [at : {"none", "asked", "read"}, real : [Pots -> Detail!Status]]
  /\ view.jobs \subseteq DetailJobs

LEMMA OptimisticIsOne ==
  ASSUME NEW act \in Detail!Acts
  PROVE  Detail!Optimistic(act) \in Detail!Status
BY DEF Detail!Acts, Detail!Optimistic, Detail!Status

LEMMA DetailTypedMounts ==
  ASSUME view' \in Detail!Mounted
  PROVE  DetailTyped'
<1>1. PICK r \in [Pots -> {"running", "stopped"}], k \in BOOLEAN :
        view' = [page |-> "node", real |-> r, badge |-> r, fetch |-> [at |-> "none", real |-> r],
                 pending |-> Detail!Idle, jobs |-> {}, oneByOne |-> k]
  BY DEF Detail!Mounted
<1>2. r \in [Pots -> Detail!Status]
  BY DEF Detail!Status
<1>. QED  BY <1>1, <1>2 DEF DetailTyped

LEMMA DetailTypedStep ==
  ASSUME DetailTyped, Detail!Step
  PROVE  DetailTyped'
<1>. USE DEF DetailTyped, Detail!Change, Detail!Here
<1>1. CASE Detail!PollStarts \/ Detail!PollIsRead
  BY <1>1 DEF Detail!PollStarts, Detail!PollIsRead, Detail!Asked
<1>b. CASE Detail!PollArrives
  <2>1. /\ \A f \in DOMAIN view : f \notin {"fetch", "badge"} => view'[f] = view[f]
        /\ DOMAIN view' = DOMAIN view
        /\ view'.badge = view.fetch.real /\ view'.fetch = [view.fetch EXCEPT !.at = "none"]
    BY <1>b DEF Detail!PollArrives
  <2>2. view'.fetch \in [at : {"none", "asked", "read"}, real : [Pots -> Detail!Status]]
    BY <2>1
  <2>. QED  BY <2>1, <2>2
<1>2. ASSUME NEW p \in Pots, NEW a \in Detail!Acts, Detail!Act(p, a) PROVE DetailTyped'
  <2>1. [pot |-> p, act |-> a, at |-> "sent"] \in DetailJobs
    BY DEF DetailJobs
  <2>. QED  BY <1>2, <2>1, OptimisticIsOne DEF Detail!Act
<1>3. ASSUME NEW j \in view.jobs, Detail!Serve(j) PROVE DetailTyped'
  <2>1. PICK good \in BOOLEAN :
          view' = [view EXCEPT
            !.jobs = (@ \ {j}) \union {[j EXCEPT !.at = "served"]},
            !.real[j.pot] = IF good /\ @ # "removed" THEN Detail!Optimistic(j.act) ELSE @]
    BY <1>3 DEF Detail!Serve
  <2>2. j.act \in Detail!Acts /\ j.pot \in Pots /\ [j EXCEPT !.at = "served"] \in DetailJobs
    BY DEF DetailJobs
  <2>3. Detail!Optimistic(j.act) \in Detail!Status
    BY <2>2, OptimisticIsOne
  <2>. QED  BY <2>1, <2>2, <2>3
<1>4. ASSUME NEW j \in view.jobs, Detail!Settle(j) PROVE DetailTyped'
  BY <1>4 DEF Detail!Settle, Detail!Asked
<1>5. ASSUME NEW p \in Pots, Detail!AgentReports(p) PROVE DetailTyped'
  <2>1. PICK s \in {"running", "stopped"} : view' = [view EXCEPT !.real[p] = s]
    BY <1>5 DEF Detail!AgentReports
  <2>2. s \in Detail!Status
    BY DEF Detail!Status
  <2>. QED  BY <2>1, <2>2
<1>. HIDE DEF DetailTyped
<1>. QED  BY <1>1, <1>b, <1>2, <1>3, <1>4, <1>5 DEF Detail!Step

LEMMA DetailTypeOK ==
  ASSUME DetailTyped
  PROVE  Detail!TypeOK
BY DEF DetailTyped, DetailJobs, Detail!TypeOK

-----------------------------------------------------------------------------
(* The types of the users and of the alerts.                               *)

StaffTyped ==
  /\ view.page = "users" /\ view.fetch.at \in {"none", "asked", "read"}
  /\ view.busy \in People \union {NoUser} /\ view.dialog.who \in People \union {NoUser}

LEMMA StaffTypedMounts ==
  ASSUME view' \in Staff!Mounted
  PROVE  StaffTyped'
BY DEF Staff!Mounted, StaffTyped, Staff!Asked, Staff!NoDialog

LEMMA StaffTypedStep ==
  ASSUME StaffShape, StaffTyped, Staff!Step
  PROVE  StaffTyped'
<1>. USE DEF StaffTyped, Staff!Change, Staff!Here
<1>0. /\ {"page", "srv", "list", "fetch", "filter", "selected", "busy", "dialog", "jobs",
          "suspect", "user"} \subseteq DOMAIN view
      /\ {"at", "list"} \subseteq DOMAIN view.fetch
      /\ {"kind", "who", "role", "sent"} \subseteq DOMAIN view.dialog
  BY DEF StaffShape
<1>1. CASE Staff!PollStarts \/ Staff!PollIsRead \/ Staff!Refresh
  <2>1. /\ \A f \in DOMAIN view : f \notin {"fetch", "suspect"} => view'[f] = view[f]
        /\ view'.fetch \in {Staff!Asked, [at |-> "read", list |-> view.srv]}
    BY <1>0, <1>1 DEF Staff!PollStarts, Staff!PollIsRead, Staff!Refresh
  <2>2. view'.fetch.at \in {"asked", "read"}
    BY <2>1 DEF Staff!Asked
  <2>. QED  BY <1>0, <2>1, <2>2
<1>2. CASE Staff!PollArrives
  <2>1. /\ \A f \in DOMAIN view : f \notin {"fetch", "list"} => view'[f] = view[f]
        /\ view'.fetch = [Staff!Asked EXCEPT !.at = "none"]
    BY <1>0, <1>2 DEF Staff!PollArrives
  <2>2. view'.fetch.at = "none"
    BY <2>1 DEF Staff!Asked
  <2>. QED  BY <1>0, <2>1, <2>2
<1>3. CASE Staff!SetFilter \/ Staff!ToggleAll \/ Staff!ClearSelection \/ Staff!Close
           \/ \E p \in People : Staff!ToggleOne(p)
  BY <1>0, <1>3 DEF Staff!SetFilter, Staff!ToggleAll, Staff!ClearSelection, Staff!Close,
     Staff!ToggleOne, Staff!NoDialog, Staff!OnPage, Staff!Acts
<1>4. ASSUME NEW kind, NEW p \in People \union {NoUser}, Staff!Opens(kind, p) PROVE StaffTyped'
  BY <1>0, <1>4 DEF Staff!Opens
<1>5. ASSUME NEW r, Staff!PickRole(r) PROVE StaffTyped'
  <2>1. /\ \A f \in DOMAIN view : f # "dialog" => view'[f] = view[f]
        /\ view'.dialog = [view.dialog EXCEPT !.role = r]
    BY <1>0, <1>5 DEF Staff!PickRole
  <2>. QED  BY <1>0, <2>1
<1>6. CASE Staff!Submit
  <2>1. /\ \A f \in DOMAIN view : f \notin {"dialog", "jobs"} => view'[f] = view[f]
        /\ view'.dialog = [view.dialog EXCEPT !.sent = TRUE]
    BY <1>0, <1>6 DEF Staff!Submit
  <2>. QED  BY <1>0, <2>1
<1>7. ASSUME NEW p \in People, NEW r, Staff!ChangeRole(p, r) PROVE StaffTyped'
  BY <1>0, <1>7 DEF Staff!ChangeRole
<1>8. ASSUME NEW j \in view.jobs, NEW p \in j.left, Staff!Serve(j, p) PROVE StaffTyped'
  <2>1. \A f \in DOMAIN view : f \notin {"jobs", "srv"} => view'[f] = view[f]
    BY <1>0, <1>8 DEF Staff!Serve
  <2>. QED  BY <1>0, <2>1
<1>9. ASSUME NEW j \in view.jobs, Staff!Succeeds(j) PROVE StaffTyped'
  BY <1>0, <1>9 DEF Staff!Succeeds, Staff!Asked, Staff!NoDialog
<1>10. ASSUME NEW j \in view.jobs, Staff!Fails(j) PROVE StaffTyped'
  <2>1. /\ \A f \in DOMAIN view : f \notin {"dialog", "jobs", "busy", "suspect"} => view'[f] = view[f]
        /\ view'.busy \in {NoUser, view.busy}
        /\ view'.dialog = [view.dialog EXCEPT
             !.sent = @ /\ ~(j.watched /\ view.dialog.kind = Staff!Family(j.kind))]
    BY <1>0, <1>10 DEF Staff!Fails
  <2>. QED  BY <1>0, <2>1
<1>11. ASSUME NEW p \in People, Staff!Elsewhere(p) PROVE StaffTyped'
  <2>1. \A f \in DOMAIN view : f \notin {"user", "srv"} => view'[f] = view[f]
    BY <1>0, <1>11 DEF Staff!Elsewhere
  <2>. QED  BY <1>0, <2>1
<1>. HIDE DEF StaffTyped
<1>12. CASE Staff!Data
  BY <1>12, <1>1, <1>2, <1>8, <1>9, <1>10, <1>11 DEF Staff!Data
<1>13. CASE Staff!User
  <2>1. CASE Staff!OpenAdd \/ Staff!OpenBulk
    BY <2>1, <1>4 DEF Staff!OpenAdd, Staff!OpenBulk
  <2>2. ASSUME NEW p \in People, Staff!OpenEdit(p) \/ Staff!OpenDelete(p) PROVE StaffTyped'
    BY <2>2, <1>4 DEF Staff!OpenEdit, Staff!OpenDelete
  <2>. QED  BY <1>13, <1>1, <1>3, <2>1, <2>2, <1>5, <1>6, <1>7 DEF Staff!User
<1>. QED  BY <1>12, <1>13 DEF Staff!Step

LEMMA StaffTypeOK ==
  ASSUME StaffShape, StaffTyped
  PROVE  Staff!TypeOK
BY DEF StaffShape, StaffTyped, StaffJob, RoleOrGone, Staff!TypeOK, Staff!Roles

AlarmTyped ==
  /\ view.page = "alerts"
  /\ view.srv \in [Alerts -> Alarm!State] /\ view.list \in [Alerts -> Alarm!State]
  /\ view.fetch.list \in [Alerts -> Alarm!State]
  /\ view.bell \in 0 .. Cardinality(Alerts)

LEMMA AlarmTypedMounts ==
  ASSUME view' \in Alarm!Mounted, IsFiniteSet(Alerts)
  PROVE  AlarmTyped'
<1>1. Cardinality(Alerts) \in Nat
  BY FS_CardinalityType
<1>. QED  BY <1>1 DEF Alarm!Mounted, AlarmTyped, Alarm!Asked, Alarm!State

LEMMA AlarmTypedStep ==
  ASSUME AlarmInv, AlarmTyped, Alarm!Step, IsFiniteSet(Alerts)
  PROVE  AlarmTyped'
<1>. USE DEF AlarmTyped, Alarm!Change, Alarm!Here
<1>0. /\ {"page", "srv", "list", "fetch", "bell", "jobs", "told"} \subseteq DOMAIN view
      /\ {"at", "list"} \subseteq DOMAIN view.fetch
      /\ Alarm!Asked.list \in [Alerts -> Alarm!State]
  BY DEF AlarmInv, Alarm!Asked, Alarm!State
<1>1. CASE Alarm!PollStarts \/ Alarm!PollIsRead
  BY <1>0, <1>1 DEF Alarm!PollStarts, Alarm!PollIsRead
<1>2. CASE Alarm!PollArrives
  <2>1. /\ \A f \in DOMAIN view : f \notin {"fetch", "list"} => view'[f] = view[f]
        /\ view'.fetch = [Alarm!Asked EXCEPT !.at = "none"] /\ view'.list = view.fetch.list
    BY <1>0, <1>2 DEF Alarm!PollArrives
  <2>2. view'.fetch.list = Alarm!Asked.list
    BY <2>1 DEF Alarm!Asked
  <2>. QED  BY <1>0, <2>1, <2>2
<1>3. CASE Alarm!BellPolls
  <2>1. Alarm!Open(view.srv) \subseteq Alerts
    BY DEF Alarm!Open
  <2>2. Cardinality(Alarm!Open(view.srv)) \in 0 .. Cardinality(Alerts)
    BY <2>1, FS_Subset, FS_CardinalityType
  <2>3. /\ \A f \in DOMAIN view : f # "bell" => view'[f] = view[f]
        /\ view'.bell = Cardinality(Alarm!Open(view.srv))
    <3>1. \A S : Alarm!Cardinality(S) = Cardinality(S)
      BY DEF Alarm!Cardinality, Cardinality
    <3>. QED  BY <3>1, <1>0, <1>3 DEF Alarm!BellPolls
  <2>. QED  BY <1>0, <2>2, <2>3
<1>4. ASSUME NEW a \in Alerts, Alarm!Acknowledge(a) \/ Alarm!Delete(a) PROVE AlarmTyped'
  BY <1>0, <1>4 DEF Alarm!Acknowledge, Alarm!Delete
<1>5. ASSUME NEW a \in Alerts, Alarm!Raised(a) PROVE AlarmTyped'
  <2>1. /\ \A f \in DOMAIN view : f # "srv" => view'[f] = view[f]
        /\ view'.srv = [view.srv EXCEPT ![a] = "open"]
    BY <1>0, <1>5 DEF Alarm!Raised
  <2>. QED  BY <1>0, <2>1 DEF Alarm!State
<1>6. ASSUME NEW j \in view.jobs, Alarm!Serve(j) PROVE AlarmTyped'
  <2>1. /\ \A f \in DOMAIN view : f \notin {"srv", "jobs"} => view'[f] = view[f]
        /\ \E s \in {"none", "acknowledged"} : view'.srv = [view.srv EXCEPT ![j.of] = s]
    <3>. DEFINE s == IF j.kind = "delete" \/ view.srv[j.of] = "none" THEN "none" ELSE "acknowledged"
    <3>1. s \in {"none", "acknowledged"}
      OBVIOUS
    <3>2. /\ \A f \in DOMAIN view : f \notin {"srv", "jobs"} => view'[f] = view[f]
          /\ view'.srv = [view.srv EXCEPT ![j.of] = s]
      BY <1>0, <1>6 DEF Alarm!Serve
    <3>. QED  BY <3>1, <3>2
  <2>. QED  BY <1>0, <2>1 DEF Alarm!State
<1>7. ASSUME NEW j \in view.jobs, Alarm!Refused(j) \/ Alarm!Settle(j) PROVE AlarmTyped'
  BY <1>0, <1>7 DEF Alarm!Refused, Alarm!Settle
<1>. HIDE DEF AlarmTyped
<1>. QED  BY <1>1, <1>2, <1>3, <1>4, <1>5, <1>6, <1>7 DEF Alarm!Step

LEMMA AlarmTypeOK ==
  ASSUME AlarmTyped
  PROVE  Alarm!TypeOK
<1>1. ASSUME NEW v, v = view.srv \/ v = view.list \/ v = view.fetch.list
      PROVE  v \in [Alerts -> Alarm!State]
  BY <1>1 DEF AlarmTyped
<1>2. {view.srv, view.list, view.fetch.list} \subseteq [Alerts -> Alarm!State]
  BY <1>1
<1>3. Alarm!Cardinality(Alerts) = Cardinality(Alerts)
  BY DEF Alarm!Cardinality, Cardinality
<1>. QED  BY <1>2, <1>3 DEF AlarmTyped, Alarm!TypeOK

-----------------------------------------------------------------------------
(* The types of the roles.                                                 *)

Grants == [there : BOOLEAN, grants : SUBSET Perms]

Given == Custom \union {"viewer"}

RightsModals ==
  [kind : {"none", "new", "edit", "view"}, role : Custom \union {NoRole}, grants : SUBSET Perms]

RightsJobs ==
  {j \in [kind : {"create", "update", "delete", "assign"}, role : Given \union {NoRole},
          of : SUBSET Holders, grants : SUBSET Perms, at : {"sent", "checked", "served"}]
     : j.kind = "assign" => j.role \in Given}

RightsTyped ==
  /\ view.page = "roles"
  /\ {"page", "srv", "holds", "list", "counted", "modal", "deleting", "jobs", "oneByOne"}
       \subseteq DOMAIN view
  /\ view.srv \in [Custom -> Grants] /\ view.list \in [Custom -> Grants]
  /\ view.holds \in [Holders -> Given] /\ view.counted \in [Holders -> Given]
  /\ view.modal \in RightsModals /\ view.deleting \in Custom \union {NoRole}
  /\ view.jobs \subseteq RightsJobs

LEMMA RightsTypedMounts ==
  ASSUME view' \in Rights!Mounted
  PROVE  RightsTyped'
<1>1. PICK s \in [Custom -> {Rights!Gone, Rights!Role({})}], k \in BOOLEAN :
        view' = [page |-> "roles", srv |-> s, holds |-> [u \in Holders |-> "viewer"],
                 list |-> [r \in Custom |-> Rights!Gone], counted |-> [u \in Holders |-> "viewer"],
                 modal |-> Rights!NoModal, deleting |-> NoRole, jobs |-> {}, oneByOne |-> k]
  BY DEF Rights!Mounted
<1>2. Rights!Gone \in Grants /\ Rights!Role({}) \in Grants
  BY DEF Rights!Gone, Rights!Role, Grants
<1>3. s \in [Custom -> Grants] /\ [r \in Custom |-> Rights!Gone] \in [Custom -> Grants]
  BY <1>2
<1>4. Rights!NoModal \in RightsModals
  BY DEF Rights!NoModal, RightsModals
<1>. QED  BY <1>1, <1>3, <1>4 DEF RightsTyped, Given

LEMMA RightsTypedServe ==
  ASSUME RightsTyped, NEW j \in view.jobs, Rights!Serve(j)
  PROVE  RightsTyped'
<1>. USE DEF RightsTyped, Rights!Change, Rights!Here
<1>. DEFINE k == [j EXCEPT !.at = "served"]
            w == [view EXCEPT !.jobs = (@ \ {j}) \union {k}]
<1>1. j \in RightsJobs /\ k \in RightsJobs
  BY DEF RightsJobs
<1>2. /\ Rights!Becomes(j, j) = w
      /\ DOMAIN w = DOMAIN view /\ \A f \in DOMAIN view : f # "jobs" => w[f] = view[f]
      /\ w.jobs = (view.jobs \ {j}) \union {k}
  BY DEF Rights!Becomes
<1>. HIDE DEF k, w
<1>3. ASSUME NEW r, NEW role \in Grants, view' = [w EXCEPT !.srv[r] = role] PROVE RightsTyped'
  <2>1. /\ DOMAIN view' = DOMAIN view /\ view'.srv = [view.srv EXCEPT ![r] = role]
        /\ \A f \in DOMAIN view : f \notin {"srv", "jobs"} => view'[f] = view[f]
        /\ view'.jobs = (view.jobs \ {j}) \union {k}
    BY <1>2, <1>3
  <2>2. view'.srv \in [Custom -> Grants]
    BY <2>1
  <2>. QED  BY <1>1, <2>1, <2>2
<1>4. Rights!Role(j.grants) \in Grants /\ Rights!Gone \in Grants
  BY <1>1 DEF RightsJobs, Rights!Role, Rights!Gone, Grants
<1>5. CASE j.kind = "create"
  <2>1. PICK r : view' = [w EXCEPT !.srv[r] = Rights!Role(j.grants)]
    BY <1>2, <1>5 DEF Rights!Serve
  <2>. QED  BY <1>3, <1>4, <2>1
<1>6. CASE j.kind = "update"
  <2>1. view' = [w EXCEPT !.srv[j.role] = Rights!Role(j.grants)]
    BY <1>2, <1>6 DEF Rights!Serve
  <2>. QED  BY <1>3, <1>4, <2>1
<1>7. CASE j.kind = "delete"
  <2>1. view' = [w EXCEPT !.srv[j.role] = Rights!Gone]
    BY <1>2, <1>7 DEF Rights!Serve
  <2>. QED  BY <1>3, <1>4, <2>1
<1>8. CASE j.kind = "assign"
  <2>1. view' = [w EXCEPT !.holds = [u \in Holders |-> IF u \in j.of THEN j.role ELSE view.holds[u]]]
    BY <1>2, <1>8 DEF Rights!Serve
  <2>2. /\ DOMAIN view' = DOMAIN view
        /\ view'.holds = [u \in Holders |-> IF u \in j.of THEN j.role ELSE view.holds[u]]
        /\ \A f \in DOMAIN view : f \notin {"holds", "jobs"} => view'[f] = view[f]
        /\ view'.jobs = (view.jobs \ {j}) \union {k}
    BY <1>2, <2>1
  <2>3. view'.holds \in [Holders -> Given]
    <3>1. j.role \in Given
      BY <1>1, <1>8 DEF RightsJobs
    <3>. QED  BY <2>2, <3>1
  <2>. QED  BY <1>1, <2>2, <2>3
<1>. QED  BY <1>5, <1>6, <1>7, <1>8 DEF Rights!Serve

LEMMA RightsTypedStep ==
  ASSUME RightsTyped, Rights!Step
  PROVE  RightsTyped'
<1>. USE DEF Rights!Change, Rights!Here
<1>a. Rights!NoModal \in RightsModals
  BY DEF Rights!NoModal, RightsModals
\* What leaves the server and the requests alone.
<1>b. ASSUME NEW modal \in RightsModals, view' = [view EXCEPT !.modal = modal]
      PROVE  RightsTyped'
  BY <1>b DEF RightsTyped
<1>1. CASE Rights!RolesArrive \/ Rights!UsersArrive
  BY <1>1 DEF Rights!RolesArrive, Rights!UsersArrive, RightsTyped
<1>2. ASSUME NEW kind \in {"new", "view"}, view' = [view EXCEPT !.modal.kind = kind]
      PROVE  RightsTyped'
  <2>1. view' = [view EXCEPT !.modal = [view.modal EXCEPT !.kind = kind]]
    BY <1>2
  <2>2. [view.modal EXCEPT !.kind = kind] \in RightsModals
    BY DEF RightsTyped, RightsModals
  <2>. QED  BY <1>b, <2>1, <2>2
<1>3. CASE Rights!CloseModal
  BY <1>3, <1>a, <1>b DEF Rights!CloseModal
<1>4. CASE Rights!CancelDelete
  BY <1>4 DEF Rights!CancelDelete, RightsTyped
<1>5. ASSUME NEW r \in Custom, Rights!OpenEdit(r) PROVE RightsTyped'
  <2>1. [kind |-> "edit", role |-> r, grants |-> view.list[r].grants] \in RightsModals
    BY DEF RightsTyped, RightsModals, Grants
  <2>. QED  BY <1>5, <1>b, <2>1 DEF Rights!OpenEdit
<1>6. ASSUME NEW r \in Custom, Rights!AskDelete(r) PROVE RightsTyped'
  BY <1>6 DEF Rights!AskDelete, RightsTyped
<1>7. ASSUME NEW p \in Perms, Rights!Toggle(p) PROVE RightsTyped'
  <2>1. PICK g \in SUBSET Perms : view' = [view EXCEPT !.modal = [view.modal EXCEPT !.grants = g]]
    <3>1. \A g : g \in {view.modal.grants \ {p}, view.modal.grants \union {p}} => g \subseteq Perms
      BY DEF RightsTyped, RightsModals
    <3>. QED  BY <1>7, <3>1 DEF Rights!Toggle
  <2>2. [view.modal EXCEPT !.grants = g] \in RightsModals
    BY DEF RightsTyped, RightsModals
  <2>. QED  BY <1>b, <2>1, <2>2
<1>8. ASSUME NEW kind, NEW role, NEW of, NEW grants, Rights!Send(kind, role, of, grants),
             [kind |-> kind, role |-> role, of |-> of, grants |-> grants, at |-> "sent"] \in RightsJobs
      PROVE  RightsTyped'
  BY <1>8 DEF Rights!Send, RightsTyped
<1>9. CASE Rights!Submit
  <2>1. [kind |-> "create", role |-> NoRole, of |-> {}, grants |-> view.modal.grants, at |-> "sent"]
          \in RightsJobs
    BY DEF RightsTyped, RightsModals, RightsJobs
  <2>2. [kind |-> "update", role |-> view.modal.role, of |-> {}, grants |-> view.modal.grants,
         at |-> "sent"] \in RightsJobs
    BY DEF RightsTyped, RightsModals, RightsJobs, Given
  <2>. QED  BY <1>8, <1>9, <2>1, <2>2 DEF Rights!Submit
<1>10. CASE Rights!ConfirmDelete
  <2>1. [kind |-> "delete", role |-> view.deleting, of |-> {}, grants |-> {}, at |-> "sent"]
          \in RightsJobs
    BY DEF RightsTyped, RightsJobs, Given
  <2>. QED  BY <1>8, <1>10, <2>1 DEF Rights!ConfirmDelete
<1>11. ASSUME NEW u \in Holders, Rights!Assign(u) PROVE RightsTyped'
  <2>1. PICK r \in Given : Rights!Send("assign", r, {u}, {})
    BY <1>11 DEF Rights!Assign, Rights!There, Given
  <2>2. [kind |-> "assign", role |-> r, of |-> {u}, grants |-> {}, at |-> "sent"] \in RightsJobs
    BY DEF RightsJobs
  <2>. QED  BY <1>8, <2>1, <2>2
<1>12. ASSUME NEW j \in view.jobs, Rights!Check(j) PROVE RightsTyped'
  <2>1. [j EXCEPT !.at = "checked"] \in RightsJobs
    BY DEF RightsTyped, RightsJobs
  <2>. QED  BY <1>12, <2>1 DEF Rights!Check, RightsTyped
<1>13. ASSUME NEW j \in view.jobs, Rights!Refused(j) PROVE RightsTyped'
  BY <1>13 DEF Rights!Refused, RightsTyped
<1>14. ASSUME NEW j \in view.jobs, Rights!Settle(j) PROVE RightsTyped'
  <2>1. /\ DOMAIN view' = DOMAIN view /\ view'.jobs = view.jobs \ {j}
        /\ view'.modal \in {Rights!NoModal, view.modal} /\ view'.deleting \in {NoRole, view.deleting}
        /\ \A f \in DOMAIN view : f \notin {"modal", "deleting", "jobs"} => view'[f] = view[f]
    BY <1>14 DEF Rights!Settle, RightsTyped
  <2>. QED  BY <1>a, <2>1 DEF RightsTyped
<1>. QED
  BY <1>1, <1>2, <1>3, <1>4, <1>5, <1>6, <1>7, <1>9, <1>10, <1>11, <1>12, <1>13, <1>14,
     RightsTypedServe
  DEF Rights!Step, Rights!OpenNew, Rights!OpenView

LEMMA RightsTypeOK ==
  ASSUME RightsTyped
  PROVE  Rights!TypeOK
BY DEF RightsTyped, RightsModals, Grants, Given, Rights!TypeOK

-----------------------------------------------------------------------------
(* The types of the frame: the marked entry is one of the navigation's, or *)
(* the one before the first.                                               *)

Entries == -1 .. Len(Around!NavItems) - 1

FrameTyped ==
  /\ view.page = "frame"
  /\ view.palette.idx \in Entries
  /\ view.menu \in BOOLEAN /\ view.collapsed \in BOOLEAN /\ view.palette.open \in BOOLEAN

EntriesAreThere ==
  /\ Len(Around!NavItems) \in Nat /\ 0 \in Entries
  /\ Around!Listed \in Nat /\ Around!Listed <= Len(Around!NavItems)

LEMMA EntriesAreSome == EntriesAreThere
<1>1. Lists(Around!NavItems, Offered) /\ Around!NavItems \in Seq(Offered)
  <2>1. Lists(Around!NavItems, Offered)
    BY NavItemsAreOffered
  <2>. QED  BY <2>1 DEF Lists
<1>. DEFINE n == Len(Around!NavItems)
<1>2. n \in Nat /\ DOMAIN Around!NavItems = 1 .. n
  BY <1>1
<1>3. 0 \in Entries
  <2>1. "/" \in Offered
    BY DEF Offered, Around!Fixed
  <2>2. PICK i \in 1 .. n : Around!NavItems[i] = "/"
    BY <1>1, <2>1 DEF Lists
  <2>. QED  BY <1>2, <2>2 DEF Entries
<1>. HIDE DEF n
<1>4. Around!Matches \subseteq 1 .. n
  BY <1>2 DEF Around!Matches
<1>5. IsFiniteSet(1 .. n) /\ Cardinality(1 .. n) = n
  BY <1>2, FS_Interval
<1>6. Cardinality(Around!Matches) <= n /\ Cardinality(Around!Matches) \in Nat
  BY <1>4, <1>5, FS_Subset, FS_CardinalityType
<1>7. Around!Listed = Cardinality(Around!Matches)
  BY DEF Around!Listed, Around!Cardinality, Cardinality
<1>. QED  BY <1>2, <1>3, <1>6, <1>7 DEF EntriesAreThere, n

LEMMA EntriesStaySome == EntriesAreThere'
BY EntriesAreSome, PTL

LEMMA FrameTypedMounts ==
  ASSUME view' \in Around!Mounted
  PROVE  FrameTyped'
<1>1. /\ view'.page = "frame" /\ view'.palette = Around!ClosedPalette
      /\ view'.menu = FALSE /\ view'.collapsed = FALSE
  BY DEF Around!Mounted
<1>2. view'.palette.idx = 0 /\ view'.palette.open = FALSE
  BY <1>1 DEF Around!ClosedPalette
<1>3. view'.palette.idx \in Entries'
  BY <1>2, EntriesStaySome DEF EntriesAreThere
<1>. QED  BY <1>1, <1>2, <1>3 DEF FrameTyped

\* A step that goes to the first entry, or to another one of the navigation.
LEMMA FrameTypedMoves ==
  ASSUME FrameTyped, view'.page = view.page, view'.may = view.may,
         view'.menu \in BOOLEAN, view'.collapsed \in BOOLEAN, view'.palette.open \in BOOLEAN,
         view'.palette.idx = 0 \/ view'.palette.idx \in Entries
  PROVE  FrameTyped'
<1>1. Entries' = Entries
  BY DEF Entries, Around!NavItems
<1>2. view'.palette.idx \in Entries'
  BY <1>1, EntriesStaySome DEF EntriesAreThere
<1>. QED  BY <1>2 DEF FrameTyped

LEMMA FrameTypedNavigated ==
  ASSUME FrameInv, FrameTyped, NEW to,
         NEW v, v \in {view, [view EXCEPT !.menu = FALSE],
                       [view EXCEPT !.palette = Around!ClosedPalette]},
         view' = Around!Navigated(v, to)
  PROVE  FrameTyped'
<1>1. DOMAIN view = FrameFields
  BY DEF FrameInv
<1>2. /\ DOMAIN v = DOMAIN view /\ v.page = view.page /\ v.may = view.may
      /\ v.menu \in {view.menu, FALSE} /\ v.collapsed = view.collapsed
      /\ v.palette \in {view.palette, Around!ClosedPalette}
  BY <1>1 DEF FrameFields
<1>3. \A f \in FrameFields \ {"path"} : view'[f] = v[f]
  BY <1>1, <1>2 DEF Around!Navigated
<1>4. view'.palette.open \in BOOLEAN /\ (view'.palette.idx = 0 \/ view'.palette.idx \in Entries)
  <2>1. view'.palette \in {view.palette, Around!ClosedPalette}
    BY <1>2, <1>3 DEF FrameFields
  <2>2. Around!ClosedPalette.open = FALSE /\ Around!ClosedPalette.idx = 0
    BY DEF Around!ClosedPalette
  <2>. QED  BY <2>1, <2>2 DEF FrameTyped
<1>5. view'.menu \in BOOLEAN /\ view'.collapsed \in BOOLEAN
  BY <1>2, <1>3 DEF FrameTyped, FrameFields
<1>6. view'.page = view.page /\ view'.may = view.may
  BY <1>2, <1>3 DEF FrameFields
<1>. QED  BY <1>4, <1>5, <1>6, FrameTypedMoves

LEMMA FrameTypedStep ==
  ASSUME FrameInv, FrameTyped, Around!Step
  PROVE  FrameTyped'
<1>. USE DEF Around!Change
<1>0. /\ DOMAIN view = FrameFields /\ DOMAIN view.palette = PaletteFields
      /\ view.palette.idx \in Entries /\ view.palette.idx \in Int
  BY DEF FrameInv, FrameTyped
<1>1. CASE Around!Follow \/ Around!Visit
  <2>1. PICK to : view' = Around!Navigated(view, to)
    BY <1>1 DEF Around!Follow, Around!Visit
  <2>. QED  BY <2>1, FrameTypedNavigated
<1>2. CASE Around!ManageUsers
  <2>1. view' = Around!Navigated([view EXCEPT !.menu = FALSE], "/users")
    BY <1>2 DEF Around!ManageUsers
  <2>. QED  BY <2>1, FrameTypedNavigated
<1>3. CASE \/ Around!ToggleMenu \/ Around!ClickOutside \/ Around!ToggleCollapsed
           \/ Around!ToggleTheme
  <2>1. /\ view'.page = view.page /\ view'.may = view.may /\ view'.palette = view.palette
        /\ view'.menu \in {~view.menu, view.menu, FALSE}
        /\ view'.collapsed \in {~view.collapsed, view.collapsed}
    BY <1>0, <1>3 DEF Around!ToggleMenu, Around!ClickOutside, Around!ToggleCollapsed,
                Around!ToggleTheme, FrameFields
  <2>. QED  BY <2>1, FrameTypedMoves DEF FrameTyped
<1>4. CASE Around!ToggleKey \/ Around!Escape
  <2>1. ASSUME NEW palette, palette.open \in BOOLEAN, palette.idx = 0,
               view' = [view EXCEPT !.palette = palette]
        PROVE  FrameTyped'
    <3>1. /\ view'.page = view.page /\ view'.may = view.may /\ view'.palette = palette
          /\ view'.menu = view.menu /\ view'.collapsed = view.collapsed
      BY <1>0, <2>1 DEF FrameFields
    <3>. QED  BY <2>1, <3>1, FrameTypedMoves DEF FrameTyped
  <2>2. /\ Around!ClosedPalette.open \in BOOLEAN /\ Around!ClosedPalette.idx = 0
    BY DEF Around!ClosedPalette
  <2>3. /\ [Around!ClosedPalette EXCEPT !.open = TRUE].open \in BOOLEAN
        /\ [Around!ClosedPalette EXCEPT !.open = TRUE].idx = 0
    BY DEF Around!ClosedPalette
  <2>4. CASE view' = [view EXCEPT !.palette = Around!ClosedPalette]
    BY <2>1, <2>2, <2>4
  <2>5. CASE view' = [view EXCEPT !.palette = [Around!ClosedPalette EXCEPT !.open = TRUE]]
    <3>1. PICK opened : opened = [Around!ClosedPalette EXCEPT !.open = TRUE]
      OBVIOUS
    <3>2. opened.open \in BOOLEAN /\ opened.idx = 0
      BY <2>3, <3>1
    <3>3. view' = [view EXCEPT !.palette = opened]
      BY <2>5, <3>1
    <3>. QED  BY <2>1, <3>2, <3>3
  <2>6. Around!ToggleKey => \/ view' = [view EXCEPT !.palette = Around!ClosedPalette]
                            \/ view' = [view EXCEPT !.palette = [Around!ClosedPalette EXCEPT !.open = TRUE]]
    <3>1. Around!ToggleKey /\ view.palette.open => view' = [view EXCEPT !.palette = Around!ClosedPalette]
      BY <1>0 DEF Around!ToggleKey, FrameFields
    <3>2. Around!ToggleKey /\ ~view.palette.open
            => view' = [view EXCEPT !.palette = [Around!ClosedPalette EXCEPT !.open = TRUE]]
      BY <1>0 DEF Around!ToggleKey, FrameFields
    <3>. QED  BY <3>1, <3>2
  <2>. QED  BY <1>4, <2>4, <2>5, <2>6 DEF Around!Escape
<1>5. CASE \E i : Around!Choose(i)
  <2>1. PICK i : view' = Around!Navigated([view EXCEPT !.palette = Around!ClosedPalette],
                                          Around!NavItems[i])
    BY <1>5 DEF Around!Choose
  <2>. QED  BY <2>1, FrameTypedNavigated
<1>6. ASSUME NEW term, Around!Type(term)
      PROVE  FrameTyped'
  <2>1. view' = [view EXCEPT !.palette.term = term, !.palette.idx = 0]
    BY <1>6 DEF Around!Type
  <2>2. /\ view'.page = view.page /\ view'.may = view.may
        /\ view'.menu = view.menu /\ view'.collapsed = view.collapsed
        /\ view'.palette.open = view.palette.open /\ view'.palette.idx = 0
    BY <1>0, <2>1 DEF FrameFields, PaletteFields
  <2>. QED  BY <2>2, FrameTypedMoves DEF FrameTyped
<1>7. ASSUME NEW idx \in Entries, view' = [view EXCEPT !.palette.idx = idx]
      PROVE  FrameTyped'
  <2>1. /\ view'.page = view.page /\ view'.may = view.may
        /\ view'.menu = view.menu /\ view'.collapsed = view.collapsed
        /\ view'.palette.open = view.palette.open /\ view'.palette.idx = idx
    BY <1>0, <1>7 DEF FrameFields, PaletteFields
  <2>. QED  BY <2>1, FrameTypedMoves DEF FrameTyped
<1>8. /\ Len(Around!NavItems) \in Nat /\ 0 \in Entries
      /\ Around!Listed \in Nat /\ Around!Listed <= Len(Around!NavItems)
  BY EntriesAreSome DEF EntriesAreThere
<1>9. CASE Around!ArrowDown
  <2>. DEFINE idx == IF view.palette.idx + 1 <= Around!Listed - 1 THEN view.palette.idx + 1
                     ELSE Around!Listed - 1
  <2>1. idx \in Entries
    BY <1>0, <1>8 DEF Entries
  <2>2. view' = [view EXCEPT !.palette.idx = idx]
    BY <1>0, <1>9 DEF Around!ArrowDown, FrameFields, PaletteFields
  <2>. QED  BY <1>7, <2>1, <2>2
<1>10. CASE Around!ArrowUp
  <2>. DEFINE idx == IF view.palette.idx - 1 >= 0 THEN view.palette.idx - 1 ELSE 0
  <2>1. idx \in Entries
    BY <1>0, <1>8 DEF Entries
  <2>2. view' = [view EXCEPT !.palette.idx = idx]
    BY <1>0, <1>10 DEF Around!ArrowUp, FrameFields, PaletteFields
  <2>. QED  BY <1>7, <2>1, <2>2
<1>11. CASE Around!Hover
  <2>1. PICK n \in 1 .. Around!Listed : view' = [view EXCEPT !.palette.idx = n - 1]
    BY <1>11 DEF Around!Hover
  <2>2. n - 1 \in Entries
    BY <1>8 DEF Entries
  <2>. QED  BY <1>7, <2>1, <2>2
<1>12. CASE Around!Enter \/ Around!Click
  BY <1>5, <1>12 DEF Around!Enter, Around!Click
<1>. QED
  BY <1>1, <1>2, <1>3, <1>4, <1>6, <1>9, <1>10, <1>11, <1>12 DEF Around!Step

LEMMA FrameTypeOK ==
  ASSUME FrameInv, FrameTyped
  PROVE  Around!TypeOK
BY DEF FrameInv, FrameTyped, Entries, Around!TypeOK

-----------------------------------------------------------------------------
(* The types of the attack map: what is kept of the pushed events has no   *)
(* event twice.                                                            *)

HitsFields == {"page", "srv", "seeded", "fetch", "live", "last", "frames", "inOrder"}

Pushed(s) ==
  /\ s \in Seq(Hits) /\ Len(s) <= LiveCap
  /\ \A i, j \in 1 .. Len(s) : s[i] = s[j] => i = j

HitsTyped ==
  /\ view.page = "attack-map"
  /\ HitsFields \subseteq DOMAIN view /\ {"at", "list"} \subseteq DOMAIN view.fetch
  /\ view.srv \subseteq Hits /\ view.seeded \subseteq Hits
  /\ view.fetch.list \subseteq Hits /\ view.frames \subseteq Hits
  /\ view.last \in Hits \union {0}
  /\ Pushed(view.live)

LEMMA HitsTypedMounts ==
  ASSUME view' \in Map!Mounted
  PROVE  HitsTyped'
<1>1. PICK s \in {{}, {1} \cap Hits}, o \in BOOLEAN :
        view' = [page |-> "attack-map", srv |-> s, seeded |-> {}, fetch |-> Map!Asked,
                 live |-> <<>>, last |-> 0, frames |-> {}, token |-> 1, effectFor |-> 0,
                 sockets |-> [k \in Sockets |-> "none"], connected |-> FALSE, inOrder |-> o]
  BY DEF Map!Mounted
<1>2. {"at", "list"} \subseteq DOMAIN Map!Asked /\ Map!Asked.list = {}
  BY DEF Map!Asked
<1>3. Pushed(<<>>)
  BY ConsoleAssumption DEF Pushed
<1>. QED  BY <1>1, <1>2, <1>3 DEF HitsTyped, HitsFields

\* One that is new is put before the others, and the oldest may go.
LEMMA PushedPut ==
  ASSUME NEW s, Pushed(s), NEW x \in Hits, ~Map!Contains(s, x), NEW k \in 0 .. Len(s),
         k + 1 <= LiveCap, NEW t, t = <<x>> \o SubSeq(s, 1, k)
  PROVE  Pushed(t)
<1>1. s \in Seq(Hits) /\ \A i \in 1 .. Len(s) : s[i] # x
  BY DEF Pushed, Map!Contains
<1>2. SubSeq(s, 1, k) \in Seq(Hits) /\ Len(SubSeq(s, 1, k)) = k
      /\ \A i \in 1 .. k : SubSeq(s, 1, k)[i] = s[i]
  BY <1>1
<1>3. t \in Seq(Hits) /\ Len(t) = k + 1 /\ t[1] = x /\ \A i \in 2 .. k + 1 : t[i] = s[i - 1]
  BY <1>2
<1>4. ASSUME NEW i \in 1 .. Len(t), NEW j \in 1 .. Len(t), t[i] = t[j] PROVE i = j
  <2>1. ASSUME NEW h \in 1 .. Len(t), h # 1
        PROVE  h - 1 \in 1 .. Len(s) /\ t[h] = s[h - 1] /\ t[h] # x
    <3>1. h \in 2 .. k + 1 /\ h - 1 \in 1 .. Len(s)
      BY <1>3, <2>1
    <3>. QED  BY <1>1, <1>3, <3>1
  <2>2. CASE i = 1 \/ j = 1
    BY <1>3, <1>4, <2>1, <2>2
  <2>3. CASE i # 1 /\ j # 1
    <3>1. i - 1 = j - 1
      BY <1>4, <2>1, <2>3 DEF Pushed
    <3>. QED  BY <3>1
  <2>. QED  BY <2>2, <2>3
<1>. QED  BY <1>3, <1>4 DEF Pushed

LEMMA HitsTypedDrawn ==
  ASSUME HitsTyped, Map!Drawn
  PROVE  HitsTyped'
<1>. DEFINE s == view.live
            x == view.last
<1>1. /\ DOMAIN view' = DOMAIN view /\ view'.page = view.page /\ view'.srv = view.srv
      /\ view'.seeded = view.seeded /\ view'.fetch = view.fetch /\ view'.last = 0
      /\ view'.inOrder = view.inOrder /\ view'.frames = view.frames /\ x # 0
      /\ view'.live = IF x \in Unplaced \/ Map!Contains(s, x) THEN s
                      ELSE IF Len(s) < LiveCap THEN <<x>> \o s
                      ELSE <<x>> \o SubSeq(s, 1, LiveCap - 1)
  BY DEF HitsTyped, HitsFields, Map!Drawn, Map!Change, Map!Here
<1>2. Pushed(s) /\ x \in Hits /\ Len(s) \in Nat /\ s \in Seq(Hits) /\ Len(s) <= LiveCap
  BY <1>1 DEF HitsTyped, Pushed
<1>3. Pushed(view'.live)
  <2>1. CASE x \in Unplaced \/ Map!Contains(s, x)
    BY <1>1, <1>2, <2>1
  <2>2. CASE ~(x \in Unplaced \/ Map!Contains(s, x)) /\ Len(s) < LiveCap
    <3>1. SubSeq(s, 1, Len(s)) = s /\ Len(s) \in 0 .. Len(s) /\ Len(s) + 1 <= LiveCap
      BY <1>2, <2>2, ConsoleAssumption
    <3>2. view'.live = <<x>> \o SubSeq(s, 1, Len(s))
      BY <1>1, <2>2, <3>1
    <3>. QED  BY <1>2, <2>2, <3>1, <3>2, PushedPut
  <2>3. CASE ~(x \in Unplaced \/ Map!Contains(s, x)) /\ ~(Len(s) < LiveCap)
    <3>1. LiveCap - 1 \in 0 .. Len(s) /\ (LiveCap - 1) + 1 <= LiveCap
      BY <1>2, <2>3, ConsoleAssumption
    <3>2. view'.live = <<x>> \o SubSeq(s, 1, LiveCap - 1)
      BY <1>1, <2>3
    <3>. QED  BY <1>2, <2>3, <3>1, <3>2, PushedPut
  <2>. QED  BY <2>1, <2>2, <2>3
<1>. HIDE DEF s, x
<1>. QED  BY <1>1, <1>3 DEF HitsTyped

LEMMA HitsTypedStep ==
  ASSUME HitsTyped, Map!Step
  PROVE  HitsTyped'
<1>. USE DEF Map!Change, Map!Here
<1>0. /\ HitsFields \subseteq DOMAIN view /\ {"at", "list"} \subseteq DOMAIN Map!Asked
      /\ Map!Asked.list = {}
  BY DEF HitsTyped, Map!Asked
<1>1. ASSUME DOMAIN view' = DOMAIN view, view'.page = view.page, view'.srv = view.srv,
             view'.live = view.live, view'.last = view.last, view'.frames = view.frames,
             view'.seeded \in {view.seeded, view.fetch.list},
             {"at", "list"} \subseteq DOMAIN view'.fetch, view'.fetch.list \subseteq Hits
      PROVE  HitsTyped'
  BY <1>1 DEF HitsTyped
<1>2. CASE Map!SeedStarts \/ Map!SeedArrives \/ Map!SeedFails
  <2>1. /\ DOMAIN view' = DOMAIN view /\ view'.page = view.page /\ view'.srv = view.srv
        /\ view'.live = view.live /\ view'.last = view.last /\ view'.frames = view.frames
        /\ view'.seeded \in {view.seeded, view.fetch.list}
        /\ view'.fetch \in {Map!Asked, [Map!Asked EXCEPT !.at = "none"]}
    BY <1>0, <1>2 DEF HitsFields, Map!SeedStarts, Map!SeedArrives, Map!SeedFails
  <2>2. {"at", "list"} \subseteq DOMAIN view'.fetch /\ view'.fetch.list = {}
    BY <1>0, <2>1
  <2>. QED  BY <1>1, <2>1, <2>2
<1>3. CASE Map!SeedIsRead
  <2>1. /\ DOMAIN view' = DOMAIN view /\ view'.page = view.page /\ view'.srv = view.srv
        /\ view'.live = view.live /\ view'.last = view.last /\ view'.frames = view.frames
        /\ view'.seeded = view.seeded
        /\ view'.fetch = [at |-> "read", list |-> Map!Newest(view.srv, SeedCap) \ Unplaced]
    BY <1>0, <1>3 DEF HitsFields, Map!SeedIsRead
  <2>2. view'.fetch.list \subseteq Hits
    BY <2>1 DEF HitsTyped, Map!Newest
  <2>. QED  BY <1>1, <2>1, <2>2
<1>4. CASE Map!TokenChanges
  BY <1>4 DEF HitsTyped, HitsFields, Map!TokenChanges
<1>5. CASE Map!Effect \/ \E k \in Sockets : Map!Opened(k) \/ Map!Ended(k)
  <2>1. /\ DOMAIN view' = DOMAIN view /\ view'.page = view.page /\ view'.srv = view.srv
        /\ view'.live = view.live /\ view'.last = view.last /\ view'.frames \in {{}, view.frames}
        /\ view'.seeded = view.seeded /\ view'.fetch = view.fetch
    BY <1>0, <1>5 DEF HitsFields, Map!Effect, Map!Opened, Map!Ended
  <2>. QED  BY <2>1 DEF HitsTyped
<1>6. ASSUME NEW e \in Hits, Map!Hit(e) \/ Map!Message(e) PROVE HitsTyped'
  <2>1. /\ DOMAIN view' = DOMAIN view /\ view'.page = view.page
        /\ view'.srv \in {view.srv, view.srv \union {e}} /\ view'.last \in {view.last, e}
        /\ view'.frames \in {view.frames, view.frames \union {e}, view.frames \ {e}}
        /\ view'.live = view.live /\ view'.seeded = view.seeded /\ view'.fetch = view.fetch
    BY <1>0, <1>6 DEF HitsFields, Map!Hit, Map!Message
  <2>. QED  BY <2>1 DEF HitsTyped
<1>. QED  BY <1>2, <1>3, <1>4, <1>5, <1>6, HitsTypedDrawn DEF Map!Step

LEMMA HitsTypeOK ==
  ASSUME HitsTyped, SocketsInv
  PROVE  Map!TypeOK
<1>1. Map!IsInjective(view.live) /\ Len(view.live) <= LiveCap
  BY DEF HitsTyped, Pushed, Map!IsInjective
<1>. QED  BY <1>1 DEF HitsTyped, SocketsInv, Map!TypeOK

-----------------------------------------------------------------------------
(* The types of the deployment dialog.  The number in a name is no more    *)
(* than how many requests the server has dealt with, one more for a name   *)
(* that is chosen and not yet stored.                                      *)

DeployJobs ==
  [k : 1 .. MaxRows, by : {"dialog", "left", "other"}, type : Kinds, prefix : Kinds,
   at : {"sent", "named", "stored", "refused"}, n : Nat]

DeployModals ==
  {m \in [open : BOOLEAN, type : Kinds \union {""}, pending : BOOLEAN, error : BOOLEAN]
     : m.open => m.type \in Kinds}

Untouched(jobs) == {j.k : j \in {i \in jobs : i.at \in {"sent", "named"}}}

DealtWith(jobs, made) == (1 .. made) \ Untouched(jobs)

JobsTyped(jobs, made) ==
  /\ jobs \subseteq DeployJobs /\ \A j \in jobs : j.k <= made
  /\ \A i, j \in jobs : i.k = j.k => i = j
  /\ \A j \in jobs :
       j.at = "named" => j.n >= 1 /\ j.n <= Cardinality(DealtWith(jobs, made)) + 1

RowsTyped(rows, n) == rows \subseteq Deploying!Row /\ \A r \in rows : r.n <= n

DeployFields == {"page", "deps", "list", "modal", "jobs", "made", "active", "named"}

DeployTyped ==
  /\ view.page = "node-deploy" /\ DOMAIN view = DeployFields
  /\ view.modal \in DeployModals /\ view.active \in 0 .. MaxRows /\ view.made \in 0 .. MaxRows
  /\ JobsTyped(view.jobs, view.made)
  /\ RowsTyped(view.deps \union view.list, Cardinality(DealtWith(view.jobs, view.made)))

\* More that is dealt with is more, and no more than was made.
LEMMA DealtWithCounts ==
  ASSUME NEW made \in Nat, NEW jobs
  PROVE  /\ Cardinality(DealtWith(jobs, made)) \in 0 .. made
         /\ \A S : S \subseteq DealtWith(jobs, made) =>
              /\ Cardinality(S) \in Nat /\ Cardinality(S) <= Cardinality(DealtWith(jobs, made))
              /\ \A k \in DealtWith(jobs, made) \ S :
                   Cardinality(S) + 1 <= Cardinality(DealtWith(jobs, made))
<1>1. IsFiniteSet(1 .. made) /\ Cardinality(1 .. made) = made
  BY FS_Interval
<1>. DEFINE D == DealtWith(jobs, made)
<1>2. D \subseteq 1 .. made
  BY DEF DealtWith
<1>. HIDE DEF D
<1>3. IsFiniteSet(D) /\ Cardinality(D) <= made /\ Cardinality(D) \in Nat
  BY <1>1, <1>2, FS_Subset, FS_CardinalityType
<1>4. ASSUME NEW S, S \subseteq D
      PROVE  /\ Cardinality(S) \in Nat /\ Cardinality(S) <= Cardinality(D)
             /\ \A k \in D \ S : Cardinality(S) + 1 <= Cardinality(D)
  <2>1. IsFiniteSet(S) /\ Cardinality(S) <= Cardinality(D) /\ Cardinality(S) \in Nat
    BY <1>3, <1>4, FS_Subset, FS_CardinalityType
  <2>2. ASSUME NEW k \in D \ S PROVE Cardinality(S) + 1 <= Cardinality(D)
    <3>1. Cardinality(S \union {k}) = Cardinality(S) + 1
      BY <2>1, <2>2, FS_AddElement
    <3>2. S \union {k} \subseteq D
      BY <1>4, <2>2
    <3>3. Cardinality(S \union {k}) <= Cardinality(D)
      BY <1>3, <3>2, FS_Subset
    <3>. QED  BY <3>1, <3>3
  <2>. QED  BY <2>1, <2>2
<1>. QED  BY <1>3, <1>4 DEF D

\* Requests that are the same but for who asked, and without some that were
\* answered.
LEMMA JobsRenamed ==
  ASSUME NEW jobs, NEW made \in Nat, JobsTyped(jobs, made), NEW now, now \subseteq DeployJobs,
         \A k \in now : \E j \in jobs : k.k = j.k /\ k.at = j.at /\ k.n = j.n,
         \A j \in jobs : j.at \in {"sent", "named"} =>
           \E k \in now : k.k = j.k /\ k.at = j.at,
         \A i, k \in now : i.k = k.k => i = k
  PROVE  JobsTyped(now, made) /\ DealtWith(now, made) = DealtWith(jobs, made)
<1>1. Untouched(now) = Untouched(jobs)
  BY DEF Untouched
<1>2. DealtWith(now, made) = DealtWith(jobs, made)
  BY <1>1 DEF DealtWith
<1>. QED  BY <1>2 DEF JobsTyped

LEMMA DeployTypedMounts ==
  ASSUME view' \in Deploying!Mounted
  PROVE  DeployTyped'
<1>1. PICK k \in BOOLEAN :
        view' = [page |-> "node-deploy", deps |-> {}, list |-> {}, modal |-> Deploying!Closed,
                 jobs |-> {}, made |-> 0, active |-> 0, named |-> k]
  BY DEF Deploying!Mounted
<1>2. Deploying!Closed \in DeployModals
  BY DEF Deploying!Closed, DeployModals
<1>3. MaxRows \in Nat
  BY ScreensAssumption
<1>. QED  BY <1>1, <1>2, <1>3 DEF DeployTyped, DeployFields, JobsTyped, RowsTyped

\* A step that does not touch the requests, the server's rows, or what is shown.
LEMMA DeployTypedLook ==
  ASSUME DeployTyped, DOMAIN view' = DOMAIN view, view'.page = view.page, view'.made = view.made,
         view'.jobs = view.jobs, view'.modal \in DeployModals, view'.active \in 0 .. MaxRows,
         view'.list \in {view.list, view.deps}, view'.deps = view.deps
  PROVE  DeployTyped'
BY DEF DeployTyped, RowsTyped

\* A set of numbers that are not beyond n has a greatest one, which Max picks.
LEMMA MaxIsGreatest ==
  ASSUME NEW S \in SUBSET Nat, S # {}, NEW n \in Nat, \A m \in S : m <= n
  PROVE  Analytics!Max(S) \in S /\ \A m \in S : m <= Analytics!Max(S)
<1>. DEFINE T == {n - m : m \in S}
            R == OpToRel(<, Nat)
<1>1. T \subseteq Nat /\ T # {}
  <2>1. ASSUME NEW m \in S PROVE n - m \in Nat
    BY <2>1
  <2>2. PICK m \in S : TRUE
    OBVIOUS
  <2>3. n - m \in T
    BY <2>2
  <2>. QED  BY <2>1, <2>3
<1>2. IsWellFoundedOn(R, Nat)
  BY NatLessThanWellFounded
<1>3. PICK t \in T : \A u \in T : ~(<<u, t>> \in R)
  <2>. HIDE DEF T, R
  <2>. QED  BY <1>1, <1>2, WFMin
<1>4. PICK g \in S : t = n - g
  BY DEF T
<1>5. ASSUME NEW m \in S PROVE m <= g
  <2>1. n - m \in T /\ n - m \in Nat /\ t \in Nat
    BY <1>1
  <2>2. ~(n - m < t)
    BY <1>3, <2>1 DEF OpToRel
  <2>. QED  BY <1>4, <2>2
<1>6. \E x \in S : \A y \in S : x >= y
  BY <1>5
<1>7. Analytics!Max(S) \in S /\ \A y \in S : Analytics!Max(S) >= y
  BY <1>6 DEF Analytics!Max
<1>. QED  BY <1>7

\* The highest number of rows that are there, and one more.
LEMMA HighestIsThere ==
  ASSUME NEW rows, NEW n \in Nat, \A r \in rows : r.n \in Nat /\ r.n <= n
  PROVE  Deploying!Highest(rows) \in 0 .. n
<1>1. CASE rows = {}
  BY <1>1 DEF Deploying!Highest
<1>2. CASE rows # {}
  <2>. DEFINE S == {r.n : r \in rows}
  <2>1. S \in SUBSET Nat /\ S # {} /\ \A m \in S : m <= n
    BY <1>2
  <2>. HIDE DEF S
  <2>2. Deploying!Max(S) = Analytics!Max(S)
    BY DEF Deploying!Max, Analytics!Max
  <2>3. Deploying!Max(S) \in S
    BY <2>1, <2>2, MaxIsGreatest
  <2>. QED  BY <1>2, <2>1, <2>3 DEF Deploying!Highest, S
<1>. QED  BY <1>1, <1>2

\* A new request is not dealt with.
LEMMA JobsAdded ==
  ASSUME NEW jobs, NEW made \in Nat, JobsTyped(jobs, made), NEW j \in DeployJobs,
         j.k = made + 1, j.at = "sent"
  PROVE  /\ JobsTyped(jobs \union {j}, made + 1)
         /\ DealtWith(jobs \union {j}, made + 1) = DealtWith(jobs, made)
<1>1. Untouched(jobs \union {j}) = Untouched(jobs) \union {made + 1}
  BY DEF Untouched
<1>2. Untouched(jobs) \subseteq 1 .. made
  BY DEF Untouched, JobsTyped, DeployJobs
<1>3. DealtWith(jobs \union {j}, made + 1) = DealtWith(jobs, made)
  BY <1>1, <1>2 DEF DealtWith
<1>4. \A i \in jobs : i.k \in Nat /\ i.k # j.k /\ i.k <= made + 1
  BY DEF JobsTyped, DeployJobs
<1>. QED  BY <1>3, <1>4 DEF JobsTyped

LEMMA DeployTypedNamed ==
  ASSUME DeployTyped, NEW j \in view.jobs, Deploying!ChooseName(j)
  PROVE  DeployTyped'
<1>. DEFINE n == IF j.prefix = j.type THEN Deploying!NextPotID(j.type) ELSE 1
            k == [j EXCEPT !.at = "named", !.n = n]
            now == (view.jobs \ {j}) \union {k}
            D == DealtWith(view.jobs, view.made)
<1>1. /\ view' = [view EXCEPT !.jobs = now] /\ j.at = "sent"
      /\ view.made \in Nat /\ JobsTyped(view.jobs, view.made) /\ j \in DeployJobs
  BY ScreensAssumption DEF Deploying!ChooseName, Deploying!Becomes, Deploying!Change, DeployTyped, JobsTyped
<1>2. Cardinality(D) \in Nat
  BY <1>1, DealtWithCounts
<1>3. n \in Nat /\ n >= 1 /\ n <= Cardinality(D) + 1
  <2>. DEFINE rows == {r \in view.deps : r.type = j.type /\ r.prefix = j.type}
  <2>1. \A r \in rows : r.n \in Nat /\ r.n <= Cardinality(D)
    BY DEF DeployTyped, RowsTyped, Deploying!Row
  <2>2. Deploying!Highest(rows) \in 0 .. Cardinality(D)
    <3>. HIDE DEF rows, D
    <3>. QED  BY <1>2, <2>1, HighestIsThere
  <2>3. Deploying!NextPotID(j.type) = Deploying!Highest(rows) + 1
    BY DEF Deploying!NextPotID
  <2>. HIDE DEF rows, D
  <2>. QED  BY <1>2, <2>2, <2>3
<1>. HIDE DEF n
<1>4. k \in DeployJobs /\ k.k = j.k /\ k.at = "named" /\ k.n = n
  BY <1>1, <1>3 DEF DeployJobs
<1>. HIDE DEF k
<1>5. Untouched(now) = Untouched(view.jobs)
  BY <1>1, <1>4 DEF Untouched
<1>6. DealtWith(now, view.made) = D
  BY <1>5 DEF DealtWith
<1>7. JobsTyped(now, view.made)
  BY <1>1, <1>3, <1>4, <1>6 DEF JobsTyped
<1>8. /\ DOMAIN view' = DOMAIN view /\ view'.jobs = now
      /\ \A f \in DeployFields \ {"jobs"} : view'[f] = view[f]
  BY <1>1 DEF DeployTyped, DeployFields
<1>. QED  BY <1>6, <1>7, <1>8 DEF DeployTyped, DeployFields

LEMMA DeployTypedStored ==
  ASSUME DeployTyped, NEW j \in view.jobs, Deploying!Store(j)
  PROVE  DeployTyped'
<1>. DEFINE row == [id |-> j.k, type |-> j.type, prefix |-> j.prefix, n |-> j.n, status |-> "pending"]
            D == DealtWith(view.jobs, view.made)
<1>1. /\ view.made \in Nat /\ JobsTyped(view.jobs, view.made) /\ j \in DeployJobs
      /\ j.at = "named" /\ view.made <= MaxRows
  BY ScreensAssumption DEF Deploying!Store, DeployTyped, JobsTyped
<1>2. PICK at \in {"refused", "stored"} :
        /\ view'.jobs = (view.jobs \ {j}) \union {[j EXCEPT !.at = at]}
        /\ view'.deps \in {view.deps, view.deps \union {row}}
        /\ \A f \in DeployFields \ {"jobs", "deps"} : view'[f] = view[f]
        /\ DOMAIN view' = DOMAIN view
  <2>. HIDE DEF row
  <2>1. CASE Deploying!Taken(j)
    BY <2>1 DEF Deploying!Store, Deploying!Becomes, Deploying!Change, DeployTyped, DeployFields
  <2>2. CASE ~Deploying!Taken(j)
    BY <2>2 DEF Deploying!Store, Deploying!Becomes, Deploying!Change, DeployTyped, DeployFields, row
  <2>. QED  BY <2>1, <2>2
<1>. DEFINE k == [j EXCEPT !.at = at]
            now == (view.jobs \ {j}) \union {k}
<1>3. k \in DeployJobs /\ k.k = j.k /\ k.at \in {"refused", "stored"}
  BY <1>1 DEF DeployJobs
<1>. HIDE DEF k
<1>4. Untouched(now) = Untouched(view.jobs) \ {j.k} /\ j.k \in Untouched(view.jobs)
  BY <1>1, <1>3 DEF Untouched, JobsTyped
<1>5. j.k \in 1 .. view.made
  BY <1>1 DEF JobsTyped, DeployJobs
<1>6. D \subseteq DealtWith(now, view.made) /\ j.k \in DealtWith(now, view.made) \ D
  BY <1>4, <1>5 DEF DealtWith
<1>7. /\ Cardinality(D) \in Nat /\ Cardinality(DealtWith(now, view.made)) \in 0 .. view.made
      /\ Cardinality(D) + 1 <= Cardinality(DealtWith(now, view.made))
  <2>. HIDE DEF D, now
  <2>. QED  BY <1>1, <1>6, DealtWithCounts
<1>8. j.n \in Nat /\ j.n >= 1 /\ j.n <= Cardinality(D) + 1
  BY <1>1 DEF JobsTyped, DeployJobs
<1>. DEFINE c == Cardinality(D)
            d == Cardinality(DealtWith(now, view.made))
<1>9. c \in Nat /\ d \in Nat /\ c + 1 <= d /\ d <= MaxRows /\ j.n <= c + 1 /\ MaxRows \in Nat
  BY <1>1, <1>7, <1>8, ScreensAssumption
<1>10. JobsTyped(now, view.made)
  <2>1. \A i \in view.jobs : i.at = "named" => i.n \in Nat /\ i.n >= 1 /\ i.n <= c + 1
    BY <1>1 DEF JobsTyped, DeployJobs
  <2>. HIDE DEF c, D
  <2>2. \A i \in now : i.at = "named" => i.n >= 1 /\ i.n <= d + 1
    <3>. HIDE DEF d
    <3>. QED  BY <1>3, <1>9, <2>1
  <2>. QED  BY <1>1, <1>3, <2>2 DEF JobsTyped
<1>11. row \in Deploying!Row /\ row.n = j.n
  <2>1. j.n \in 1 .. MaxRows + 1
    <3>. HIDE DEF c, d
    <3>. QED  BY <1>8, <1>9
  <2>. QED  BY <1>1, <2>1 DEF Deploying!Row, DeployJobs
<1>12. RowsTyped(view.deps \union view.list, c)
  BY DEF DeployTyped
<1>. HIDE DEF row, c, d, D
<1>13. RowsTyped(view'.deps \union view'.list, d)
  <2>1. view'.list = view.list
    BY <1>2 DEF DeployFields
  <2>2. ASSUME NEW r \in view'.deps \union view'.list
        PROVE  r \in Deploying!Row /\ r.n <= d
    <3>1. CASE r = row
      BY <1>9, <1>11, <3>1, <1>8
    <3>2. CASE r # row
      <4>1. r \in Deploying!Row /\ r.n <= c
        BY <1>2, <1>12, <2>1, <2>2, <3>2 DEF RowsTyped
      <4>2. r.n \in Nat
        BY <4>1 DEF Deploying!Row
      <4>. QED  BY <1>9, <4>1, <4>2
    <3>. QED  BY <3>1, <3>2
  <2>. QED  BY <2>2 DEF RowsTyped
<1>14. view'.jobs = now /\ view'.made = view.made
  BY <1>2 DEF k, DeployFields
<1>. QED  BY <1>2, <1>10, <1>13, <1>14 DEF DeployTyped, DeployFields, d

\* A step of the dialog that asks for nothing.
LEMMA DeployTypedDialog ==
  ASSUME DeployTyped,
         Deploying!ListArrives \/ Deploying!OpenModal \/ Deploying!ChooseType
           \/ Deploying!ToggleLogs \/ Deploying!CloseLogs
  PROVE  DeployTyped'
<1>0. /\ DOMAIN view = DeployFields /\ view.modal \in DeployModals /\ view.active \in 0 .. MaxRows
      /\ MaxRows \in Nat /\ view.list \subseteq Deploying!Row
  BY ScreensAssumption DEF DeployTyped, RowsTyped
<1>1. CASE Deploying!ListArrives
  BY <1>0, <1>1, DeployTypedLook DEF Deploying!ListArrives, Deploying!Change, DeployFields
<1>2. CASE Deploying!OpenModal
  <2>1. PICK type \in Kinds :
          view' = [view EXCEPT !.modal = [Deploying!Closed EXCEPT !.open = TRUE, !.type = type]]
    BY <1>2 DEF Deploying!OpenModal, Deploying!Change
  <2>2. [Deploying!Closed EXCEPT !.open = TRUE, !.type = type] \in DeployModals
    BY DEF Deploying!Closed, DeployModals
  <2>. QED  BY <1>0, <2>1, <2>2, DeployTypedLook DEF DeployFields
<1>3. CASE Deploying!ChooseType
  <2>1. PICK type \in Kinds : view' = [view EXCEPT !.modal = [view.modal EXCEPT !.type = type]]
    BY <1>3 DEF Deploying!ChooseType, Deploying!Change
  <2>2. [view.modal EXCEPT !.type = type] \in DeployModals
    BY <1>0 DEF DeployModals
  <2>. QED  BY <1>0, <2>1, <2>2, DeployTypedLook DEF DeployFields
<1>4. CASE Deploying!ToggleLogs
  <2>1. PICK r \in view.list :
          view' = [view EXCEPT !.active = IF view.active = r.id THEN 0 ELSE r.id]
    BY <1>4 DEF Deploying!ToggleLogs, Deploying!Change
  <2>2. r.id \in 1 .. MaxRows
    BY <1>0 DEF Deploying!Row
  <2>. QED  BY <1>0, <2>1, <2>2, DeployTypedLook DEF DeployFields
<1>5. CASE Deploying!CloseLogs
  BY <1>0, <1>5, DeployTypedLook DEF Deploying!CloseLogs, Deploying!Change, DeployFields
<1>. QED  BY <1>1, <1>2, <1>3, <1>4, <1>5

\* A step that renames or drops requests that were answered.
LEMMA DeployTypedRenamed ==
  ASSUME DeployTyped, DOMAIN view' = DOMAIN view, view'.page = view.page, view'.made = view.made,
         view'.modal \in DeployModals, view'.active \in 0 .. MaxRows,
         view'.list = view.list, view'.deps = view.deps,
         view'.jobs \subseteq DeployJobs,
         \A k \in view'.jobs : \E j \in view.jobs : k.k = j.k /\ k.at = j.at /\ k.n = j.n,
         \A j \in view.jobs : j.at \in {"sent", "named"} =>
           \E k \in view'.jobs : k.k = j.k /\ k.at = j.at,
         \A i, k \in view'.jobs : i.k = k.k => i = k
  PROVE  DeployTyped'
<1>1. JobsTyped(view.jobs, view.made) /\ view.made \in Nat
  BY ScreensAssumption DEF DeployTyped
<1>2. /\ JobsTyped(view'.jobs, view.made)
      /\ DealtWith(view'.jobs, view.made) = DealtWith(view.jobs, view.made)
  BY <1>1, JobsRenamed
<1>. QED  BY <1>2 DEF DeployTyped

LEMMA DeployTypedClosed ==
  ASSUME DeployTyped, Deploying!CloseModal
  PROVE  DeployTyped'
<1>. DEFINE By(j) == IF j.by = "dialog" THEN "left" ELSE j.by
            Left(j) == [j EXCEPT !.by = By(j)]
            now == {Left(j) : j \in view.jobs}
<1>0. /\ DOMAIN view = DeployFields /\ view.active \in 0 .. MaxRows
      /\ view.jobs \subseteq DeployJobs /\ \A i, j \in view.jobs : i.k = j.k => i = j
  BY DEF DeployTyped, JobsTyped
<1>1. view' = [view EXCEPT !.modal = Deploying!Closed, !.jobs = now]
  BY DEF Deploying!CloseModal, Deploying!Change
<1>2. \A j \in view.jobs :
        Left(j) \in DeployJobs /\ Left(j).k = j.k /\ Left(j).at = j.at /\ Left(j).n = j.n
  BY <1>0 DEF DeployJobs
<1>. HIDE DEF Left
<1>3. /\ now \subseteq DeployJobs
      /\ \A k \in now : \E j \in view.jobs : k.k = j.k /\ k.at = j.at /\ k.n = j.n
      /\ \A j \in view.jobs : j.at \in {"sent", "named"} => \E k \in now : k.k = j.k /\ k.at = j.at
      /\ \A i, k \in now : i.k = k.k => i = k
  BY <1>0, <1>2
<1>. HIDE DEF now
<1>4. Deploying!Closed \in DeployModals
  BY DEF Deploying!Closed, DeployModals
<1>5. /\ DOMAIN view' = DOMAIN view /\ view'.jobs = now /\ view'.modal = Deploying!Closed
      /\ view'.page = view.page /\ view'.made = view.made /\ view'.active = view.active
      /\ view'.list = view.list /\ view'.deps = view.deps
  BY <1>0, <1>1 DEF DeployFields
<1>. QED  BY <1>0, <1>3, <1>4, <1>5, DeployTypedRenamed

LEMMA DeployTypedSettled ==
  ASSUME DeployTyped, NEW job \in view.jobs, Deploying!Settle(job)
  PROVE  DeployTyped'
<1>. DEFINE By(j) == IF j.by = "dialog" /\ job.by # "other" THEN "left" ELSE j.by
            Left(j) == [j EXCEPT !.by = By(j)]
            now == {Left(j) : j \in view.jobs \ {job}}
<1>0. /\ DOMAIN view = DeployFields /\ view.active \in 0 .. MaxRows /\ view.modal \in DeployModals
      /\ view.jobs \subseteq DeployJobs /\ \A i, j \in view.jobs : i.k = j.k => i = j
      /\ MaxRows \in Nat
  BY ScreensAssumption DEF DeployTyped, JobsTyped
<1>1. /\ view' = [view EXCEPT !.active = IF job.by = "other" THEN view.active ELSE job.k,
                              !.modal = IF job.by = "other" THEN view.modal ELSE Deploying!Closed,
                              !.jobs = now]
      /\ job.at = "stored"
  BY DEF Deploying!Settle, Deploying!Change
<1>2. \A j \in view.jobs :
        Left(j) \in DeployJobs /\ Left(j).k = j.k /\ Left(j).at = j.at /\ Left(j).n = j.n
  BY <1>0 DEF DeployJobs
<1>. HIDE DEF Left
<1>3. /\ now \subseteq DeployJobs
      /\ \A k \in now : \E j \in view.jobs : k.k = j.k /\ k.at = j.at /\ k.n = j.n
      /\ \A j \in view.jobs : j.at \in {"sent", "named"} => \E k \in now : k.k = j.k /\ k.at = j.at
      /\ \A i, k \in now : i.k = k.k => i = k
  BY <1>0, <1>1, <1>2
<1>. HIDE DEF now
<1>4. Deploying!Closed \in DeployModals /\ job.k \in 0 .. MaxRows
  <2>1. Deploying!Closed \in DeployModals
    BY DEF Deploying!Closed, DeployModals
  <2>2. job.k \in 1 .. MaxRows
    BY <1>0 DEF DeployJobs
  <2>. QED  BY <1>0, <2>1, <2>2
<1>5. /\ DOMAIN view' = DOMAIN view /\ view'.jobs = now
      /\ view'.modal \in DeployModals /\ view'.active \in 0 .. MaxRows
      /\ view'.page = view.page /\ view'.made = view.made
      /\ view'.list = view.list /\ view'.deps = view.deps
  BY <1>0, <1>1, <1>4 DEF DeployFields
<1>. QED  BY <1>3, <1>5, DeployTypedRenamed

LEMMA DeployTypedRefused ==
  ASSUME DeployTyped, NEW job \in view.jobs, Deploying!Refused(job)
  PROVE  DeployTyped'
<1>. DEFINE shown == [view.modal EXCEPT !.pending = FALSE, !.error = TRUE]
<1>0. /\ DOMAIN view = DeployFields /\ view.active \in 0 .. MaxRows /\ view.modal \in DeployModals
      /\ view.jobs \subseteq DeployJobs /\ \A i, j \in view.jobs : i.k = j.k => i = j
  BY DEF DeployTyped, JobsTyped
<1>1. /\ view' = [view EXCEPT !.jobs = view.jobs \ {job},
                              !.modal = IF job.by = "dialog" THEN shown ELSE view.modal]
      /\ job.at = "refused"
  BY DEF Deploying!Refused, Deploying!Change
<1>2. shown \in DeployModals
  BY <1>0 DEF DeployModals
<1>. HIDE DEF shown
<1>3. /\ DOMAIN view' = DOMAIN view /\ view'.jobs = view.jobs \ {job}
      /\ view'.modal \in DeployModals /\ view'.active = view.active
      /\ view'.page = view.page /\ view'.made = view.made
      /\ view'.list = view.list /\ view'.deps = view.deps
  BY <1>0, <1>1, <1>2 DEF DeployFields
<1>4. \A j \in view.jobs : j.at \in {"sent", "named"} => j \in view'.jobs
  BY <1>1, <1>3
<1>5. view'.jobs \subseteq view.jobs
  BY <1>3
<1>. QED  BY <1>0, <1>3, <1>4, <1>5, DeployTypedRenamed

LEMMA DeployTypedAsked ==
  ASSUME DeployTyped, Deploying!Deploy \/ Deploying!DeployElsewhere
  PROVE  DeployTyped'
<1>0. /\ DOMAIN view = DeployFields /\ view.active \in 0 .. MaxRows /\ view.modal \in DeployModals
      /\ view.made \in Nat /\ view.made < MaxRows /\ MaxRows \in Nat
      /\ JobsTyped(view.jobs, view.made)
  <2>1. view.made < MaxRows
    BY DEF Deploying!Deploy, Deploying!DeployElsewhere
  <2>2. MaxRows \in Nat
    BY ScreensAssumption
  <2>. QED  BY <2>1, <2>2 DEF DeployTyped
<1>1. PICK by \in {"dialog", "other"}, type \in Kinds, prefix \in Kinds, modal \in DeployModals :
        view' = [view EXCEPT !.modal = modal, !.made = view.made + 1,
                             !.jobs = view.jobs \union {Deploying!Request(by, type, prefix)}]
  <2>1. CASE Deploying!Deploy
    <3>. DEFINE modal == [view.modal EXCEPT !.pending = TRUE, !.error = FALSE]
    <3>1. modal \in DeployModals /\ view.modal.type \in Kinds
      BY <1>0, <2>1 DEF DeployModals, Deploying!Deploy
    <3>2. view' = [view EXCEPT !.modal = modal, !.made = view.made + 1,
                     !.jobs = view.jobs \union
                                {Deploying!Request("dialog", view.modal.type, view.modal.type)}]
      BY <1>0, <2>1 DEF Deploying!Deploy, Deploying!Change, DeployFields
    <3>. HIDE DEF modal
    <3>. QED  BY <3>1, <3>2
  <2>2. CASE Deploying!DeployElsewhere
    <3>1. PICK type \in Kinds, prefix \in Kinds :
            view' = [view EXCEPT !.made = view.made + 1,
                       !.jobs = view.jobs \union {Deploying!Request("other", type, prefix)}]
      BY <2>2 DEF Deploying!DeployElsewhere, Deploying!Change
    <3>2. view' = [view EXCEPT !.modal = view.modal, !.made = view.made + 1,
                     !.jobs = view.jobs \union {Deploying!Request("other", type, prefix)}]
      BY <1>0, <3>1 DEF DeployFields
    <3>. QED  BY <1>0, <3>2
  <2>. QED  BY <2>1, <2>2
<1>. DEFINE j == Deploying!Request(by, type, prefix)
<1>2. j \in DeployJobs /\ j.k = view.made + 1 /\ j.at = "sent"
  BY <1>0 DEF Deploying!Request, DeployJobs
<1>. HIDE DEF j
<1>3. /\ JobsTyped(view.jobs \union {j}, view.made + 1)
      /\ DealtWith(view.jobs \union {j}, view.made + 1) = DealtWith(view.jobs, view.made)
  BY <1>0, <1>2, JobsAdded
<1>4. /\ DOMAIN view' = DOMAIN view /\ view'.jobs = view.jobs \union {j}
      /\ view'.modal \in DeployModals /\ view'.active = view.active
      /\ view'.page = view.page /\ view'.made = view.made + 1
      /\ view'.list = view.list /\ view'.deps = view.deps
  BY <1>0, <1>1 DEF DeployFields, j
<1>. QED  BY <1>0, <1>3, <1>4 DEF DeployTyped

LEMMA DeployTypedReported ==
  ASSUME DeployTyped, NEW r \in view.deps, Deploying!AgentReports(r)
  PROVE  DeployTyped'
<1>. DEFINE D == Cardinality(DealtWith(view.jobs, view.made))
<1>0. DOMAIN view = DeployFields /\ RowsTyped(view.deps \union view.list, D)
  BY DEF DeployTyped
<1>1. PICK deps :
        /\ view' = [view EXCEPT !.deps = deps]
        /\ \/ deps = view.deps \ {r}
           \/ \E s \in {"running", "failed"} :
                deps = (view.deps \ {r}) \union {[r EXCEPT !.status = s]}
  BY DEF Deploying!AgentReports, Deploying!Change
<1>2. \A s \in {"running", "failed"} :
        [r EXCEPT !.status = s] \in Deploying!Row /\ [r EXCEPT !.status = s].n = r.n
  BY <1>0 DEF RowsTyped, Deploying!Row
<1>. HIDE DEF D
<1>3. RowsTyped(deps \union view.list, D)
  BY <1>0, <1>1, <1>2 DEF RowsTyped
<1>4. /\ DOMAIN view' = DOMAIN view /\ view'.deps = deps
      /\ \A f \in DeployFields \ {"deps"} : view'[f] = view[f]
  BY <1>0, <1>1 DEF DeployFields
<1>. QED  BY <1>3, <1>4 DEF DeployTyped, DeployFields, D

LEMMA DeployTypedStep ==
  ASSUME DeployTyped, Deploying!Step
  PROVE  DeployTyped'
BY DeployTypedDialog, DeployTypedClosed, DeployTypedSettled, DeployTypedRefused, DeployTypedAsked,
   DeployTypedReported, DeployTypedNamed, DeployTypedStored DEF Deploying!Step

LEMMA DeployTypeOK ==
  ASSUME DeployTyped
  PROVE  Deploying!TypeOK
BY DEF DeployTyped, DeployModals, RowsTyped, Deploying!TypeOK

-----------------------------------------------------------------------------
(* The screens of the dashboard.                                           *)

Screens ==
  {"events", "audit-log", "frame", "system", "node-tabs", "analytics", "potstore",
   "attack-map", "telegram-bots", "dashboard", "nodes", "users", "roles", "node-deploy",
   "node", "alerts"}

\* The favourites are of the catalogue, and the page that is open satisfies the
\* invariant of what it shows.
ScreensInv ==
  /\ stored \subseteq Store!Ids
  /\ view.page = "events" => ExplorerInv
  /\ view.page = "audit-log" => AuditInv
  /\ view.page = "frame" => FrameInv /\ FrameTyped
  /\ view.page = "system" => DiagnosticsInv
  /\ view.page = "node-tabs" => TabbedInv
  /\ view.page = "analytics" => AnalyticsInv
  /\ view.page = "potstore" => StoreInv
  /\ view.page = "attack-map" => SocketsInv /\ HitsTyped
  /\ view.page = "telegram-bots" => SwitchInv
  /\ view.page = "dashboard" => GraphInv
  /\ view.page = "nodes" => FleetTyped
  /\ view.page = "users" => StaffTyped
  /\ view.page = "roles" => RightsTyped
  /\ view.page = "node-deploy" => DeployTyped
  /\ view.page = "node" => DetailTyped
  /\ view.page = "alerts" => AlarmTyped

\* What one page is, the others are not.
LEMMA OneScreen ==
  ASSUME stored' \subseteq Store!Ids,
         \/ view'.page \notin Screens
         \/ view'.page = "events" /\ ExplorerInv'
         \/ view'.page = "audit-log" /\ AuditInv'
         \/ view'.page = "frame" /\ FrameInv' /\ FrameTyped'
         \/ view'.page = "system" /\ DiagnosticsInv'
         \/ view'.page = "node-tabs" /\ TabbedInv'
         \/ view'.page = "analytics" /\ AnalyticsInv'
         \/ view'.page = "potstore" /\ StoreInv'
         \/ view'.page = "attack-map" /\ SocketsInv' /\ HitsTyped'
         \/ view'.page = "telegram-bots" /\ SwitchInv'
         \/ view'.page = "dashboard" /\ GraphInv'
         \/ view'.page = "nodes" /\ FleetTyped'
         \/ view'.page = "users" /\ StaffTyped'
         \/ view'.page = "roles" /\ RightsTyped'
         \/ view'.page = "node-deploy" /\ DeployTyped'
         \/ view'.page = "node" /\ DetailTyped'
         \/ view'.page = "alerts" /\ AlarmTyped'
  PROVE  ScreensInv'
BY DEF ScreensInv, Screens

LEMMA ScreensInit ==
  ASSUME Init
  PROVE  ScreensInv
BY DEF Init, ScreensInv, Between

\* The page that is opened.
LEMMA ScreensMount ==
  ASSUME ScreensInv, Mount
  PROVE  ScreensInv'
<1>0. UNCHANGED stored /\ stored' \subseteq Store!Ids
  BY DEF Mount, ScreensInv
<1>1. CASE view' \in Explorer!Mounted
  <2>1. ExplorerInv'
    BY <1>1, ExplorerMounts
  <2>2. view'.page = "events"
    BY <2>1 DEF ExplorerInv
  <2>. QED  BY <1>0, <2>1, <2>2, OneScreen
<1>2. CASE view' \in Audit!Mounted
  <2>1. AuditInv'
    BY <1>2, AuditMounts
  <2>2. view'.page = "audit-log"
    BY <2>1 DEF AuditInv
  <2>. QED  BY <1>0, <2>1, <2>2, OneScreen
<1>3. CASE view' \in Around!Mounted
  <2>1. FrameInv' /\ FrameTyped'
    BY <1>3, FrameMounts, FrameTypedMounts
  <2>2. view'.page = "frame"
    BY <2>1 DEF FrameTyped
  <2>. QED  BY <1>0, <2>1, <2>2, OneScreen
<1>4. CASE view' \in Diagnostics!Mounted
  <2>1. DiagnosticsInv'
    BY <1>4, DiagnosticsMounts
  <2>2. view'.page = "system"
    BY <2>1 DEF DiagnosticsInv
  <2>. QED  BY <1>0, <2>1, <2>2, OneScreen
<1>5. CASE view' \in Tabbed!Mounted
  <2>1. TabbedInv'
    BY <1>5, TabbedMounts
  <2>2. view'.page = "node-tabs"
    BY <2>1 DEF TabbedInv
  <2>. QED  BY <1>0, <2>1, <2>2, OneScreen
<1>6. CASE view' \in Analytics!Mounted
  <2>1. AnalyticsInv'
    BY <1>6, AnalyticsMounts
  <2>2. view'.page = "analytics"
    BY <2>1 DEF AnalyticsInv
  <2>. QED  BY <1>0, <2>1, <2>2, OneScreen
<1>7. CASE view' \in Store!Mounted
  <2>1. StoreInv'
    BY <1>7, StoreMounts, <1>0 DEF ScreensInv
  <2>2. view'.page = "potstore"
    BY <2>1 DEF StoreInv
  <2>. QED  BY <1>0, <2>1, <2>2, OneScreen
<1>8. CASE view' \in Map!Mounted
  <2>1. SocketsInv' /\ HitsTyped'
    BY <1>8, SocketsMount, HitsTypedMounts
  <2>2. view'.page = "attack-map"
    BY <2>1 DEF HitsTyped
  <2>. QED  BY <1>0, <2>1, <2>2, OneScreen
<1>9. CASE view' \in Notifiers!Mounted
  <2>1. SwitchInv'
    BY <1>9, SwitchMounts
  <2>2. view'.page = "telegram-bots"
    BY <2>1 DEF SwitchInv, SwitchShape
  <2>. QED  BY <1>0, <2>1, <2>2, OneScreen
<1>10. CASE view' \in Front!Mounted
  <2>1. GraphInv'
    BY <1>10, GraphMounts
  <2>2. view'.page = "dashboard"
    BY <2>1 DEF GraphInv, GraphShape
  <2>. QED  BY <1>0, <2>1, <2>2, OneScreen
<1>11. CASE view' \in Fleet!Mounted
  <2>1. FleetTyped'
    BY <1>11, FleetTypedMounts
  <2>2. view'.page = "nodes"
    BY <2>1 DEF FleetTyped
  <2>. QED  BY <1>0, <2>1, <2>2, OneScreen
<1>12. CASE view' \in Staff!Mounted
  <2>1. StaffTyped'
    BY <1>12, StaffTypedMounts
  <2>2. view'.page = "users"
    BY <2>1 DEF StaffTyped
  <2>. QED  BY <1>0, <2>1, <2>2, OneScreen
<1>13. CASE view' \in Rights!Mounted
  <2>1. RightsTyped'
    BY <1>13, RightsTypedMounts
  <2>2. view'.page = "roles"
    BY <2>1 DEF RightsTyped
  <2>. QED  BY <1>0, <2>1, <2>2, OneScreen
<1>14. CASE view' \in Deploying!Mounted
  <2>1. DeployTyped'
    BY <1>14, DeployTypedMounts
  <2>2. view'.page = "node-deploy"
    BY <2>1 DEF DeployTyped
  <2>. QED  BY <1>0, <2>1, <2>2, OneScreen
<1>15. CASE view' \in Detail!Mounted
  <2>1. DetailTyped'
    BY <1>15, DetailTypedMounts
  <2>2. view'.page = "node"
    BY <2>1 DEF DetailTyped
  <2>. QED  BY <1>0, <2>1, <2>2, OneScreen
<1>16. CASE view' \in Alarm!Mounted
  <2>1. AlarmTyped'
    BY <1>16, AlarmTypedMounts, ScreensAssumption
  <2>2. view'.page = "alerts"
    BY <2>1 DEF AlarmTyped
  <2>. QED  BY <1>0, <2>1, <2>2, OneScreen
<1>17. CASE view' \in Metrics!Mounted
  <2>1. MetricsInv'
    BY <1>17, MetricsMounts
  <2>2. view'.page \notin Screens
    BY <2>1 DEF MetricsInv, MetricsFields, Screens
  <2>. QED  BY <1>0, <2>2, OneScreen
<1>. QED
  BY <1>1, <1>2, <1>3, <1>4, <1>5, <1>6, <1>7, <1>8, <1>9, <1>10, <1>11, <1>12, <1>13,
     <1>14, <1>15, <1>16, <1>17 DEF Mount

\* A step of the page that is open.
LEMMA ScreensSteps ==
  ASSUME ConsoleInv, ScreensInv, Step
  PROVE  ScreensInv'
<1>0. Store!Step \/ UNCHANGED stored
  BY DEF Step
<1>a. UNCHANGED stored => stored' \subseteq Store!Ids
  BY DEF ScreensInv
<1>1. CASE Explorer!Step /\ UNCHANGED stored
  <2>1. view.page = "events"
    BY <1>1 DEF Explorer!Step, Explorer!Here
  <2>2. ExplorerInv'
    BY <1>1, <2>1, ExplorerStep DEF ScreensInv
  <2>3. view'.page = "events"
    BY <2>2 DEF ExplorerInv
  <2>. QED  BY <1>a, <1>1, <2>2, <2>3, OneScreen
<1>2. CASE Audit!Step /\ UNCHANGED stored
  <2>1. view.page = "audit-log"
    BY <1>2 DEF Audit!Step, Audit!Here
  <2>2. AuditInv'
    BY <1>2, <2>1, AuditStep DEF ScreensInv
  <2>3. view'.page = "audit-log"
    BY <2>2 DEF AuditInv
  <2>. QED  BY <1>a, <1>2, <2>2, <2>3, OneScreen
<1>3. CASE Around!Step /\ UNCHANGED stored
  <2>1. view.page = "frame"
    BY <1>3 DEF Around!Step, Around!Here
  <2>2. FrameInv' /\ FrameTyped'
    BY <1>3, <2>1, FrameStep, FrameTypedStep DEF ScreensInv
  <2>3. view'.page = "frame"
    BY <2>2 DEF FrameTyped
  <2>. QED  BY <1>a, <1>3, <2>2, <2>3, OneScreen
<1>4. CASE Diagnostics!Step /\ UNCHANGED stored
  <2>1. view.page = "system"
    BY <1>4 DEF Diagnostics!Step, Diagnostics!Here
  <2>2. DiagnosticsInv'
    BY <1>4, <2>1, DiagnosticsStep DEF ScreensInv
  <2>3. view'.page = "system"
    BY <2>2 DEF DiagnosticsInv
  <2>. QED  BY <1>a, <1>4, <2>2, <2>3, OneScreen
<1>5. CASE Tabbed!Step /\ UNCHANGED stored
  <2>1. view.page = "node-tabs"
    BY <1>5 DEF Tabbed!Step, Tabbed!Here
  <2>2. TabbedInv' \/ view' = Between
    BY <1>5, <2>1, TabbedStep DEF ScreensInv
  <2>3. TabbedInv' => view'.page = "node-tabs"
    BY DEF TabbedInv
  <2>4. view' = Between => view'.page \notin Screens
    BY DEF Between, Screens
  <2>. QED  BY <1>a, <1>5, <2>2, <2>3, <2>4, OneScreen
<1>6. CASE Analytics!Step /\ UNCHANGED stored
  <2>1. view.page = "analytics"
    BY <1>6 DEF Analytics!Step, Analytics!Here
  <2>2. AnalyticsInv'
    BY <1>6, <2>1, AnalyticsStep DEF ScreensInv
  <2>3. view'.page = "analytics"
    BY <2>2 DEF AnalyticsInv
  <2>. QED  BY <1>a, <1>6, <2>2, <2>3, OneScreen
<1>7. CASE Store!Step
  <2>1. view.page = "potstore"
    BY <1>7 DEF Store!Step, Store!Here
  <2>2. StoreInv'
    BY <1>7, <2>1, StoreStep DEF ScreensInv
  <2>3. view'.page = "potstore" /\ stored' \subseteq Store!Ids
    BY <2>2 DEF StoreInv, StoreTyped
  <2>. QED  BY <2>2, <2>3, OneScreen
<1>8. CASE Map!Step /\ UNCHANGED stored
  <2>1. view.page = "attack-map"
    BY <1>8 DEF Map!Step, Map!Here
  <2>2. SocketsInv' /\ HitsTyped'
    BY <1>8, <2>1, SocketsStep, HitsTypedStep DEF ScreensInv
  <2>3. view'.page = "attack-map"
    BY <2>2 DEF HitsTyped
  <2>. QED  BY <1>a, <1>8, <2>2, <2>3, OneScreen
<1>9. CASE Notifiers!Step /\ UNCHANGED stored
  <2>1. view.page = "telegram-bots"
    BY <1>9 DEF Notifiers!Step, Notifiers!Here
  <2>2. SwitchInv'
    BY <1>9, <2>1, SwitchStep DEF ScreensInv
  <2>3. view'.page = "telegram-bots"
    BY <2>2 DEF SwitchInv, SwitchShape
  <2>. QED  BY <1>a, <1>9, <2>2, <2>3, OneScreen
<1>10. CASE Front!Step /\ UNCHANGED stored
  <2>1. view.page = "dashboard"
    BY <1>10 DEF Front!Step, Front!Here
  <2>2. GraphInv'
    BY <1>10, <2>1, GraphStep DEF ScreensInv
  <2>3. view'.page = "dashboard"
    BY <2>2 DEF GraphInv, GraphShape
  <2>. QED  BY <1>a, <1>10, <2>2, <2>3, OneScreen
<1>11. CASE Fleet!Step /\ UNCHANGED stored
  <2>1. view.page = "nodes"
    BY <1>11 DEF Fleet!Step, Fleet!Here
  <2>2. FleetTyped'
    BY <1>11, <2>1, FleetTypedStep DEF ScreensInv
  <2>3. view'.page = "nodes"
    BY <2>2 DEF FleetTyped
  <2>. QED  BY <1>a, <1>11, <2>2, <2>3, OneScreen
<1>12. CASE Staff!Step /\ UNCHANGED stored
  <2>1. view.page = "users"
    BY <1>12 DEF Staff!Step, Staff!Here
  <2>2. StaffTyped'
    BY <1>12, <2>1, StaffTypedStep DEF ScreensInv, ConsoleInv, StaffInv
  <2>3. view'.page = "users"
    BY <2>2 DEF StaffTyped
  <2>. QED  BY <1>a, <1>12, <2>2, <2>3, OneScreen
<1>13. CASE Rights!Step /\ UNCHANGED stored
  <2>1. view.page = "roles"
    BY <1>13 DEF Rights!Step, Rights!Here
  <2>2. RightsTyped'
    BY <1>13, <2>1, RightsTypedStep DEF ScreensInv
  <2>3. view'.page = "roles"
    BY <2>2 DEF RightsTyped
  <2>. QED  BY <1>a, <1>13, <2>2, <2>3, OneScreen
<1>14. CASE Deploying!Step /\ UNCHANGED stored
  <2>1. view.page = "node-deploy"
    BY <1>14 DEF Deploying!Step, Deploying!Here
  <2>2. DeployTyped'
    BY <1>14, <2>1, DeployTypedStep DEF ScreensInv
  <2>3. view'.page = "node-deploy"
    BY <2>2 DEF DeployTyped
  <2>. QED  BY <1>a, <1>14, <2>2, <2>3, OneScreen
<1>15. CASE Detail!Step /\ UNCHANGED stored
  <2>1. view.page = "node"
    BY <1>15 DEF Detail!Step, Detail!Here
  <2>2. DetailTyped'
    BY <1>15, <2>1, DetailTypedStep DEF ScreensInv
  <2>3. view'.page = "node"
    BY <2>2 DEF DetailTyped
  <2>. QED  BY <1>a, <1>15, <2>2, <2>3, OneScreen
<1>16. CASE Alarm!Step /\ UNCHANGED stored
  <2>1. view.page = "alerts"
    BY <1>16 DEF Alarm!Step, Alarm!Here
  <2>2. AlarmTyped'
    BY <1>16, <2>1, AlarmTypedStep, ScreensAssumption DEF ScreensInv, ConsoleInv
  <2>3. view'.page = "alerts"
    BY <2>2 DEF AlarmTyped
  <2>. QED  BY <1>a, <1>16, <2>2, <2>3, OneScreen
<1>17. CASE Metrics!Step /\ UNCHANGED stored
  <2>1. view.page = "node-metrics"
    BY <1>17 DEF Metrics!Step, Metrics!Here
  <2>2. MetricsInv'
    BY <1>17, <2>1, MetricsStep DEF ConsoleInv
  <2>3. view'.page \notin Screens
    BY <2>2 DEF MetricsInv, MetricsFields, Screens
  <2>. QED  BY <1>a, <1>17, <2>3, OneScreen
<1>. QED
  BY <1>1, <1>2, <1>3, <1>4, <1>5, <1>6, <1>7, <1>8, <1>9, <1>10, <1>11, <1>12, <1>13,
     <1>14, <1>15, <1>16, <1>17 DEF Step

LEMMA ScreensStutter ==
  ASSUME ScreensInv, UNCHANGED vars
  PROVE  ScreensInv'
<1>. USE DEF vars
<1>1. ExplorerInv => ExplorerInv'
  BY DEF ExplorerInv
<1>2. AuditInv => AuditInv'
  BY DEF AuditInv
<1>3. FrameInv => FrameInv'
  BY DEF FrameInv, Around!Matches, Around!Chosen, Around!Listed, Around!NavItems
<1>4. DiagnosticsInv => DiagnosticsInv'
  BY DEF DiagnosticsInv
<1>5. TabbedInv => TabbedInv'
  BY DEF TabbedInv
<1>6. AnalyticsInv => AnalyticsInv'
  BY DEF AnalyticsInv
<1>7. StoreInv => StoreInv'
  BY DEF StoreInv, StoreTyped
<1>8. SocketsInv => SocketsInv'
  BY DEF SocketsInv
<1>9. SwitchInv => SwitchInv'
  <2>1. SwitchShape => SwitchShape'
    BY DEF SwitchShape, SwitchJob
  <2>2. SwitchCareful => SwitchCareful'
    BY DEF SwitchCareful, SwitchDialog
  <2>. QED  BY <2>1, <2>2 DEF SwitchInv
<1>10. GraphInv => GraphInv'
  BY DEF GraphInv
<1>11. FleetTyped => FleetTyped'
  BY DEF FleetTyped
<1>12. StaffTyped => StaffTyped'
  BY DEF StaffTyped
<1>13. RightsTyped => RightsTyped'
  BY DEF RightsTyped
<1>14. DeployTyped => DeployTyped'
  BY DEF DeployTyped
<1>15. DetailTyped => DetailTyped'
  BY DEF DetailTyped
<1>16. AlarmTyped => AlarmTyped'
  BY DEF AlarmTyped
<1>17. FrameTyped => FrameTyped'
  BY DEF FrameTyped, Entries, Around!Matches, Around!NavItems
<1>18. HitsTyped => HitsTyped'
  BY DEF HitsTyped
<1>. QED
  BY <1>1, <1>2, <1>3, <1>4, <1>5, <1>6, <1>7, <1>8, <1>9, <1>10, <1>11, <1>12, <1>13,
     <1>14, <1>15, <1>16, <1>17, <1>18 DEF ScreensInv

LEMMA ScreensInvariant == Spec => []ScreensInv
<1>1. Init => ScreensInv
  BY ScreensInit
<1>2. ConsoleInv /\ ScreensInv /\ [Next]_vars => ScreensInv'
  <2>1. ASSUME ScreensInv, Leave
        PROVE  ScreensInv'
    BY <2>1, OneScreen DEF Leave, Between, ScreensInv, Screens
  <2>. QED  BY <2>1, ScreensMount, ScreensSteps, ScreensStutter DEF Next
<1>. QED  BY <1>1, <1>2, ConsoleInvariant, PTL DEF Spec

-----------------------------------------------------------------------------
\* What the invariants say of a page includes its types.
LEMMA PagesTyped ==
  ASSUME ConsoleInv, ScreensInv
  PROVE  TypeOK
<1>1. view.page = "nodes" => Fleet!TypeOK
  BY FleetTypeOK DEF ScreensInv
<1>2. view.page = "node" => Detail!TypeOK
  BY DetailTypeOK DEF ScreensInv
<1>3. view.page = "users" => Staff!TypeOK
  BY StaffTypeOK DEF ScreensInv, ConsoleInv, StaffInv
<1>4. view.page = "events" => Explorer!TypeOK
  BY ScreensAssumption DEF ScreensInv, ExplorerInv, Explorer!TypeOK
<1>5. view.page = "audit-log" => Audit!TypeOK
  BY ScreensAssumption DEF ScreensInv, AuditInv, Audit!TypeOK
<1>6. view.page = "alerts" => Alarm!TypeOK
  BY AlarmTypeOK DEF ScreensInv
<1>7. view.page = "potstore" => Store!TypeOK
  BY DEF ScreensInv, StoreInv, StoreTyped, Store!TypeOK
<1>8. view.page = "frame" => Around!TypeOK
  BY FrameTypeOK DEF ScreensInv
<1>9. view.page = "telegram-bots" => Notifiers!TypeOK
  BY DEF ScreensInv, SwitchInv, SwitchShape, SwitchModal, Notifiers!TypeOK
<1>10. view.page = "roles" => Rights!TypeOK
  BY RightsTypeOK DEF ScreensInv
<1>11. view.page = "attack-map" => Map!TypeOK
  BY HitsTypeOK DEF ScreensInv
<1>12. view.page = "system" => Diagnostics!TypeOK
  <2>1. ASSUME IsReport(view.data)
        PROVE  view.data.host \in Diagnostics!Measured /\ DOMAIN view.data.status \subseteq Diagnostics!Statuses
    <3>1. PICK db, analyzer, synced \in BOOLEAN, host \in Diagnostics!Measured,
               status \in Diagnostics!Breakdowns :
            view.data = Diagnostics!Report(Diagnostics!Checks(db, host, analyzer, synced), host, status)
      BY <2>1 DEF IsReport
    <3>2. PICK S \in SUBSET Diagnostics!Statuses : status \in [S -> Counts]
      BY DEF Diagnostics!Breakdowns
    <3>. QED  BY <3>1, <3>2 DEF Diagnostics!Report
  <2>. QED  BY <2>1 DEF ScreensInv, DiagnosticsInv, Diagnostics!TypeOK
<1>13. view.page = "node-deploy" => Deploying!TypeOK
  BY DeployTypeOK DEF ScreensInv
<1>14. view.page = "node-tabs" => Tabbed!TypeOK
  BY ScreensAssumption DEF ScreensInv, TabbedInv, Tabbed!TypeOK
<1>15. view.page = "node-metrics" => Metrics!TypeOK
  BY DEF ConsoleInv, MetricsInv, Metrics!TypeOK
<1>16. view.page = "dashboard" => Front!TypeOK
  <2>1. ASSUME NEW nodes, NEW pots
        PROVE  Front!Ids(Front!Built(nodes, pots)) \subseteq Front!Things
    BY DEF Front!Built, Front!Ids, Front!Things, Front!Known
  <2>2. Front!Ids(Front!NoGraph) \subseteq Front!Things
    BY DEF Front!NoGraph, Front!Ids
  <2>3. GraphInv => view.nodes \in Front!NodeStates /\ view.pots \in Front!PotStates
          /\ {view.selected, view.hover} \subseteq Front!Things \union {Front!NoThing}
    BY DEF GraphInv, GraphShape
  <2>4. GraphInv => Front!Ids(view.graph) \subseteq Front!Things
    BY <2>1, <2>2 DEF GraphInv, GraphOf
  <2>. QED  BY <2>3, <2>4 DEF ScreensInv, Front!TypeOK
<1>17. view.page = "analytics" => Analytics!TypeOK
  BY DEF ScreensInv, AnalyticsInv, Analytics!TypeOK
<1>. QED
  BY <1>1, <1>2, <1>3, <1>4, <1>5, <1>6, <1>7, <1>8, <1>9, <1>10, <1>11, <1>12, <1>13,
     <1>14, <1>15, <1>16, <1>17 DEF TypeOK

\* The state of the page that is open keeps its type, whatever is clicked and in
\* whatever order the answers come (App.tsx:28-44).
THEOREM ScreensKeepTheirTypes == Spec => []TypeOK
BY ConsoleInvariant, ScreensInvariant, PagesTyped, PTL

-----------------------------------------------------------------------------
\* What a screen shows is there, and what it concludes agrees with what it was
\* told: rows on the page that is shown, one marked entry, the palette's choice,
\* a map that hangs together and agrees with its numbers, the posture, the banner
\* and the gauges, "Live" and "Copied", the bots' switches and the analytics
\* (EventsPage.tsx, AuditLogPage.tsx, AppShell.tsx, CommandPalette.tsx,
\* AssetTopologyGraph.tsx, UsersPage.tsx, SystemCheckPage.tsx, AttackMapPage.tsx,
\* NodeDetailPage.tsx, TelegramBotsPage.tsx, AnalyticsPage.tsx).
THEOREM ScreensTellTheTruth == Spec => []ScreensAreTrue
<1>1. ScreensInv /\ TypeOK => ScreensAreTrue
  <2>. SUFFICES ASSUME ScreensInv, TypeOK PROVE ScreensAreTrue
    OBVIOUS
  <2>1. Explorer!EventsAreSeen
    BY ExplorerShows DEF ScreensInv, Explorer!EventsAreSeen, Explorer!Here
  <2>2. Audit!EntriesAreSeen
    BY AuditShows DEF ScreensInv, Audit!EntriesAreSeen, Audit!Here
  <2>3. Around!OneEntryIsMarked /\ Around!EnterOpensAMatch
    BY FrameShows DEF ScreensInv, Around!OneEntryIsMarked, Around!EnterOpensAMatch, Around!Here
  <2>4. Front!NothingHangsInTheAir /\ Front!HighlightHangsTogether /\ Front!MapAgreesWithNumbers
    BY NothingHangs, HighlightHangs, MapAgrees
    DEF ScreensInv, Front!NothingHangsInTheAir, Front!HighlightHangsTogether,
        Front!MapAgreesWithNumbers, Front!Here
  <2>5. Diagnostics!BannerIsTrue /\ Diagnostics!GaugesAgree
    BY DiagnosticsShows DEF ScreensInv, Diagnostics!BannerIsTrue, Diagnostics!GaugesAgree, Diagnostics!Here
  <2>6. Map!OneFeed /\ Map!LiveIsTrue
    BY SocketsShow DEF ScreensInv, Map!OneFeed, Map!LiveIsTrue, Map!Here
  <2>7. Tabbed!CopiedIsTrue
    BY DEF ScreensInv, TabbedInv, Tabbed!CopiedIsTrue, Tabbed!Here
  <2>8. Notifiers!SwitchStays
    BY SwitchShows DEF ScreensInv, Notifiers!SwitchStays, Notifiers!Here
  <2>9. Analytics!PeriodIsTrue
    BY AnalyticsShows DEF ScreensInv, Analytics!PeriodIsTrue, Analytics!Here
  <2>. QED
    BY <2>1, <2>2, <2>3, <2>4, <2>5, <2>6, <2>7, <2>8, <2>9, PostureTells DEF ScreensAreTrue
<1>. QED  BY <1>1, ScreensInvariant, ScreensKeepTheirTypes, PTL

\* A facet's number is that of the honeypots that show under it, the favourites
\* stored are those shown, and "deployed" is said of what was (PotStorePage.tsx).
THEOREM StoreTellsTheTruth == Spec => []StoreIsTrue
<1>1. ScreensInv => StoreIsTrue
  BY FacetCounts
  DEF ScreensInv, StoreInv, StoreTyped, Store!TypeOK, StoreIsTrue, Store!FavoritesAreKept, Store!SuccessIsTrue, Store!Here
<1>. QED  BY <1>1, ScreensInvariant, PTL
=============================================================================
