----------------------------- MODULE NodesPage -----------------------------
(***************************************************************************)
(* The node manager of the dashboard (NodesPage.tsx) and the part of the   *)
(* server it talks to: the list it polls, the selection and its filter,    *)
(* the confirmation dialogs, the requests they send, which answer in any   *)
(* order, and the banner that shows a token once.                          *)
(*                                                                         *)
(* All the state of a mounted page is the record view; view.page is its    *)
(* name.                                                                   *)
(***************************************************************************)
EXTENDS Naturals, FiniteSets, FiniteSetsExt

CONSTANTS Nodes,     \* identifiers the server may give
          Up,        \* those whose agents are connected
          NoNode,
          MaxJobs    \* bound: requests under way at once

VARIABLE view

Here == view.page = "nodes"

NoDialog == [kind |-> "none", ids |-> {}]

\* What the page may find when it is opened: a server with some nodes and what
\* the query cache still has of an earlier list.
Mounted ==
  {[page |-> "nodes", srv |-> s,
    listed |-> [n \in Nodes |-> IF n \in c THEN 1 ELSE 0],
    fetch |-> [at |-> "asked", ids |-> {}],
    filter |-> "all", selectMode |-> FALSE,
    selected |-> {}, dialog |-> NoDialog, banner |-> NoNode, jobs |-> {}]
     : s \in SUBSET Nodes, c \in {{}, Nodes}}

Listed == {n \in Nodes : view.listed[n] > 0}

Visible ==
  CASE view.filter = "all" -> Listed
    [] view.filter = "online" -> Listed \intersect Up
    [] view.filter = "offline" -> Listed \ Up

Change(next) == Here /\ view' = next

-----------------------------------------------------------------------------
\* The list.  invalidateQueries abandons the fetch under way for a new one.

Asked == [at |-> "asked", ids |-> {}]

PollStarts ==
  /\ Here /\ view.fetch.at = "none"
  /\ Change([view EXCEPT !.fetch = Asked])

PollIsRead ==
  /\ Here /\ view.fetch.at = "asked"
  /\ Change([view EXCEPT !.fetch = [at |-> "read", ids |-> view.srv]])

PollArrives ==
  /\ Here /\ view.fetch.at = "read"
  /\ Change([view EXCEPT !.fetch.at = "none", !.fetch.ids = {},
                         !.listed = [n \in Nodes |-> IF n \in view.fetch.ids
                                                     THEN 1 ELSE 0]])

-----------------------------------------------------------------------------
\* Looking and choosing.

SetFilter ==
  view.dialog = NoDialog /\ \E f \in {"all", "online", "offline"} : Change([view EXCEPT !.filter = f])

ToggleSelectMode ==
  /\ Listed # {} /\ view.dialog = NoDialog
  /\ Change([view EXCEPT !.selectMode = ~@, !.selected = {}])

ToggleSel(n) ==
  /\ view.selectMode /\ view.dialog = NoDialog /\ n \in Visible
  /\ Change([view EXCEPT !.selected = IF n \in @ THEN @ \ {n} ELSE @ \union {n}])

ToggleSelectAll ==
  /\ view.selectMode /\ view.dialog = NoDialog
  /\ Change([view EXCEPT !.selected =
       IF Visible # {} /\ Visible \subseteq @ THEN @ \ Visible ELSE @ \union Visible])

\* A variant that takes the whole selection, seen or not.
OpenBulk_All ==
  /\ view.selectMode /\ view.selected \intersect Visible # {}
  /\ view.dialog = NoDialog
  /\ Change([view EXCEPT !.dialog = [kind |-> "bulk", ids |-> view.selected]])

OpenBulk ==
  /\ view.selectMode /\ view.selected \intersect Visible # {}
  /\ view.dialog = NoDialog
  /\ Change([view EXCEPT !.dialog =
       [kind |-> "bulk", ids |-> view.selected \intersect Visible]])

Job(kind, ids) == [kind |-> kind, ids |-> ids, left |-> ids, ok |-> {}]

Begin(job) ==
  /\ Cardinality(view.jobs) < MaxJobs
  /\ Change([view EXCEPT !.jobs = @ \union {job}, !.dialog = NoDialog])

\* The menu of a node.  "delete" stands for uninstalling too, which deletes
\* the node as well; turning Log Analyzer on and off only asks for the list.
OnAct(n) ==
  /\ n \in Visible /\ ~view.selectMode
  /\ view.dialog = NoDialog
  /\ \/ Change([view EXCEPT !.fetch = Asked])
     \/ \E k \in {"delete", "regen"} :
          Change([view EXCEPT !.dialog = [kind |-> k, ids |-> {n}]])

ConfirmPending ==
  /\ view.dialog # NoDialog
  /\ Begin(Job(view.dialog.kind, view.dialog.ids))

CancelPending ==
  /\ view.dialog # NoDialog
  /\ Change([view EXCEPT !.dialog = NoDialog])

\* The server gives an identifier that nothing on the page refers to.
Fresh ==
  Nodes \ (view.srv \union Listed \union view.fetch.ids \union {view.banner}
           \union UNION {j.ids : j \in view.jobs})

\* Enter asks again while a first request is under way; the button does not.
Create ==
  /\ view.dialog = NoDialog
  /\ \E n \in Fresh : Begin(Job("create", {n}))

CloseBanner ==
  /\ view.banner # NoNode
  /\ Change([view EXCEPT !.banner = NoNode])

-----------------------------------------------------------------------------
\* Requests: the server handles the parts of one in any order, then the page
\* hears of all of them.

Serve(job, n) ==
  \E good \in BOOLEAN :
    /\ n \in job.left
    /\ good => (job.kind = "create" \/ n \in view.srv)
    /\ Change([view EXCEPT
         !.jobs = (@ \ {job}) \union
                    {[job EXCEPT !.left = @ \ {n}, !.ok = IF good THEN @ \union {n} ELSE @]},
         !.srv = CASE good /\ job.kind = "create" -> @ \union {n}
                   [] good /\ job.kind \in {"delete", "bulk"} -> @ \ {n}
                   [] OTHER -> @])

Ended(job) == job \in view.jobs /\ job.left = {}

CreateSettles(job) ==
  /\ Ended(job) /\ job.kind = "create"
  /\ IF job.ok = {} THEN Change([view EXCEPT !.jobs = @ \ {job}])
     ELSE \E n \in job.ok :
            Change([view EXCEPT !.jobs = @ \ {job},
                                !.banner = n,
                                !.listed[n] = IF @ = 2 THEN 2 ELSE @ + 1])

RegenSettles(job) ==
  /\ Ended(job) /\ job.kind = "regen"
  /\ IF job.ok = {} THEN Change([view EXCEPT !.jobs = @ \ {job}])
     ELSE \E n \in job.ok : Change([view EXCEPT !.jobs = @ \ {job}, !.banner = n])

OneSettles(job) ==
  /\ Ended(job) /\ job.kind = "delete"
  /\ Change([view EXCEPT !.jobs = @ \ {job},
                         !.fetch = IF job.ok = {} THEN @ ELSE Asked])

\* A variant that ends the selection mode and keeps the selection.
BulkSettles_KeepsSelection(job) ==
  /\ Ended(job) /\ job.kind = "bulk"
  /\ Change([view EXCEPT !.jobs = @ \ {job}, !.fetch = Asked, !.selectMode = FALSE])

BulkSettles(job) ==
  /\ Ended(job) /\ job.kind = "bulk"
  /\ Change([view EXCEPT !.jobs = @ \ {job}, !.fetch = Asked,
                         !.selected = {}, !.selectMode = FALSE])

\* Somebody else deletes a node.
Elsewhere(n) ==
  /\ n \in view.srv
  /\ Change([view EXCEPT !.srv = @ \ {n}])

-----------------------------------------------------------------------------
Data == PollStarts \/ PollIsRead \/ PollArrives

User ==
  \/ SetFilter \/ ToggleSelectMode \/ ToggleSelectAll \/ OpenBulk
  \/ ConfirmPending \/ CancelPending \/ Create \/ CloseBanner
  \/ \E n \in Nodes : ToggleSel(n)
  \/ \E n \in Nodes : OnAct(n)

Server ==
  \/ \E j \in view.jobs : \E n \in j.left : Serve(j, n)
  \/ \E j \in view.jobs : CreateSettles(j)
  \/ \E j \in view.jobs : RegenSettles(j)
  \/ \E j \in view.jobs : OneSettles(j)
  \/ \E j \in view.jobs : BulkSettles(j)
  \/ \E n \in Nodes : Elsewhere(n)

Step == Here /\ (Data \/ User \/ Server)

-----------------------------------------------------------------------------
TypeOK ==
  /\ view.srv \subseteq Nodes
  /\ view.listed \in [Nodes -> 0 .. 2]
  /\ view.fetch \in [at : {"none", "asked", "read"}, ids : SUBSET Nodes]
  /\ view.selected \subseteq Nodes
  /\ view.dialog.ids \subseteq Nodes

\* Only what the filter shows is deleted: the dialog of a bulk deletion opens
\* on selected nodes that are on the screen, whatever was selected before the
\* filter, the search or the list changed (NodesPage.tsx:694).
BulkIsSeen ==
  [][Here /\ view.dialog.kind # "bulk" /\ view'.page = "nodes"
       /\ view'.dialog.kind = "bulk" => view'.dialog.ids \subseteq Visible]_view

\* Outside the selection mode nothing is selected: neither leaving it nor the
\* answer of a bulk deletion, which ends it at any moment, leaves nodes to be
\* deleted with a later selection (NodesPage.tsx:636).
NothingSelectedUnseen == Here /\ ~view.selectMode => view.selected = {}
=============================================================================
