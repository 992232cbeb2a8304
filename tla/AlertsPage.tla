----------------------------- MODULE AlertsPage -----------------------------
(***************************************************************************)
(* The alerts of the dashboard (AlertsPage.tsx) with the bell of its frame *)
(* (Layout.tsx), which polls a count of its own, and the alerts the server *)
(* has (core/internal/api/handlers/alerts.go).                             *)
(***************************************************************************)
EXTENDS Naturals, FiniteSets

CONSTANTS Alerts

VARIABLE view

Here == view.page = "alerts"

State == {"none", "open", "acknowledged"}

Asked == [at |-> "asked", list |-> [a \in Alerts |-> "none"]]

Mounted ==
  {[page |-> "alerts", srv |-> s, list |-> [a \in Alerts |-> "none"],
    fetch |-> Asked, bell |-> 0, jobs |-> {}, told |-> {}]
     : s \in [Alerts -> State]}

Change(next) == Here /\ view' = next

Open(list) == {a \in Alerts : list[a] = "open"}

-----------------------------------------------------------------------------
PollStarts ==
  /\ Here /\ view.fetch.at = "none"
  /\ Change([view EXCEPT !.fetch = Asked])

PollIsRead ==
  /\ Here /\ view.fetch.at = "asked"
  /\ Change([view EXCEPT !.fetch = [at |-> "read", list |-> view.srv]])

PollArrives ==
  /\ Here /\ view.fetch.at = "read"
  /\ Change([view EXCEPT !.fetch = [Asked EXCEPT !.at = "none"],
                         !.list = view.fetch.list])

\* The count has its own query, which no mutation of the page asks for again.
BellPolls == Change([view EXCEPT !.bell = Cardinality(Open(view.srv))])

\* The buttons stay enabled: a request may be sent again before it is answered.
Acknowledge(a) ==
  /\ Here /\ view.list[a] = "open"
  /\ Change([view EXCEPT !.jobs = @ \union {[kind |-> "acknowledge", of |-> a, at |-> "sent"]}])

Delete(a) ==
  /\ Here /\ view.list[a] # "none"
  /\ Change([view EXCEPT !.jobs = @ \union {[kind |-> "delete", of |-> a, at |-> "sent"]}])

Serve(job) ==
  /\ job.at = "sent"
  /\ Change([view EXCEPT
       !.jobs = (@ \ {job}) \union {[job EXCEPT !.at = "served"]},
       !.srv[job.of] = IF job.kind = "delete" \/ @ = "none" THEN "none" ELSE "acknowledged"])

Refused(job) ==
  /\ job.at = "sent"
  /\ Change([view EXCEPT !.jobs = @ \ {job}])

\* A variant that leaves the fetch under way to finish.
Settle_KeepsFetch(job) ==
  /\ job.at = "served"
  /\ Change([view EXCEPT !.jobs = @ \ {job},
                         !.told = @ \union {[kind |-> job.kind, of |-> job.of]},
                         !.fetch = IF @.at = "none" THEN Asked ELSE @])

\* invalidateQueries abandons the fetch under way for a new one.
Settle(job) ==
  /\ job.at = "served"
  /\ Change([view EXCEPT !.jobs = @ \ {job},
                         !.told = @ \union {[kind |-> job.kind, of |-> job.of]},
                         !.fetch = Asked])

\* Alerts are raised by the server.
Raised(a) ==
  /\ Here
  /\ view.srv[a] = "none" /\ view.list[a] = "none"
  /\ \A t \in view.told \union view.jobs : t.of # a
  /\ Change([view EXCEPT !.srv[a] = "open"])

Step ==
  /\ Here
  /\ \/ PollStarts \/ PollIsRead \/ PollArrives \/ BellPolls
     \/ \E a \in Alerts : Acknowledge(a)
     \/ \E a \in Alerts : Delete(a)
     \/ \E a \in Alerts : Raised(a)
     \/ \E j \in view.jobs : Serve(j)
     \/ \E j \in view.jobs : Refused(j)
     \/ \E j \in view.jobs : Settle(j)

-----------------------------------------------------------------------------
TypeOK ==
  /\ {view.srv, view.list, view.fetch.list} \subseteq [Alerts -> State]
  /\ view.bell \in 0 .. Cardinality(Alerts)

\* What the server has confirmed is not taken back: no list that arrives after
\* the answer to an acknowledgement or a deletion shows the alert as it was
\* before, also when it was asked for earlier (AlertsPage.tsx:33,37).
ConfirmedStays ==
  [][Here /\ view'.page = "alerts" /\ view'.list # view.list =>
       \A t \in view.told :
         view'.list[t.of] \in IF t.kind = "delete" THEN {"none"}
                              ELSE {"none", "acknowledged"}]_view
=============================================================================
