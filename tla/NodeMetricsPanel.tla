-------------------------- MODULE NodeMetricsPanel --------------------------
(***************************************************************************)
(* The tab of a node's page that shows its metrics (NodeDetailPage.tsx,    *)
(* NodeMetricsPanel): one query for each period, and a refresh that has    *)
(* the agent report first.  The metrics are a number that grows with what  *)
(* the agent reports; the cache outlives the panel.                        *)
(***************************************************************************)
EXTENDS Naturals

CONSTANTS Hours,       \* the periods the metrics can be asked for
          MaxReports   \* bound: heartbeats with metrics

VARIABLE view

Here == view.page = "node-metrics"

NoFetch == [at |-> "none", value |-> 0]

\* A panel that was never asked, or was left: its refresh is forgotten.
NoRefresh == [at |-> "none", since |-> 0, hours |-> 0, same |-> TRUE]

FirstPeriod == CHOOSE h \in Hours : \A g \in Hours : h <= g

Mounted ==
  {[page |-> "node-metrics", open |-> FALSE, online |-> o,
    latest |-> 0, shown |-> [h \in Hours |-> 0], loaded |-> [h \in Hours |-> FALSE],
    hours |-> FirstPeriod, fetch |-> [h \in Hours |-> NoFetch], refresh |-> NoRefresh,
    stray |-> {}]
     : o \in BOOLEAN}

Change(next) == Here /\ view' = next

-----------------------------------------------------------------------------
\* The queries.

Ask(v, h) == [v EXCEPT !.fetch[h] = [at |-> "asked", value |-> 0]]

\* A query that is mounted anew is asked again, unless it is being asked.
AskUnlessAsked(v, h) == IF v.fetch[h].at = "none" THEN Ask(v, h) ELSE v

\* A panel that is left while it waits asks once more when its timer ends;
\* the user of the model does not open it again before.
LeaveTab ==
  /\ Here /\ view.open
  /\ LET waiting == view.refresh.at \in {"command", "wait"} IN
       Change([view EXCEPT !.open = FALSE, !.refresh = NoRefresh,
                 !.stray = IF waiting THEN {view.hours} ELSE @])

OpenTab ==
  /\ Here /\ ~view.open /\ view.stray = {}
  /\ Change(AskUnlessAsked([view EXCEPT !.open = TRUE, !.hours = FirstPeriod], FirstPeriod))

SetHours ==
  /\ Here /\ view.open
  /\ \E h \in Hours \ {view.hours} :
       Change(AskUnlessAsked([view EXCEPT !.hours = h], h))

\* The timer of "Every minute" joins a fetch that is under way.
AutoRefresh ==
  /\ Here /\ view.open /\ view.fetch[view.hours].at = "none"
  /\ Change(Ask(view, view.hours))

FetchIsRead(h) ==
  /\ Here /\ view.fetch[h].at = "asked"
  /\ Change([view EXCEPT !.fetch[h] = [at |-> "read", value |-> view.latest]])

\* The answer ends the refresh that waits for it.
FetchArrives(h) ==
  /\ Here /\ view.fetch[h].at = "read"
  /\ Change([view EXCEPT !.fetch[h] = NoFetch, !.shown[h] = view.fetch[h].value, !.loaded[h] = TRUE,
       !.refresh = IF @.at = "reading" /\ @.hours = h THEN NoRefresh ELSE @])

\* "Refresh": an agent that is connected is told to report first.
ManualRefresh ==
  /\ Here /\ view.open
  /\ view.fetch[view.hours].at = "none" /\ view.refresh.at = "none"
  /\ LET at(a) == [at |-> a, since |-> view.latest, hours |-> view.hours, same |-> TRUE] IN
       Change(IF view.online THEN [view EXCEPT !.refresh = at("command")]
              ELSE [Ask(view, view.hours) EXCEPT !.refresh = at("reading")])

\* The command was accepted: the page gives the agent a second and a half.
CommandSent ==
  /\ Here /\ view.refresh.at = "command"
  /\ Change([view EXCEPT !.refresh.at = "wait"])

\* Then, or if it was refused, the page asks: a fetch that was under way is
\* abandoned for this one, unless the period has nothing to show yet.
Reading(v) ==
  [v EXCEPT !.refresh.at = "reading", !.refresh.same = @ /\ v.refresh.hours = v.hours,
            !.refresh.hours = v.hours, !.refresh.since = v.latest]

\* A variant that always joins the fetch under way.
Reread_Joins ==
  /\ Here /\ view.refresh.at \in {"command", "wait"}
  /\ Change(Reading(AskUnlessAsked(view, view.hours)))

Reread ==
  /\ Here /\ view.refresh.at \in {"command", "wait"}
  /\ Change(Reading(IF view.loaded[view.hours] THEN Ask(view, view.hours)
                    ELSE AskUnlessAsked(view, view.hours)))

\* The timer of a panel that was left while it waited.
StrayRead ==
  /\ Here
  /\ \E h \in view.stray : Change([Ask(view, h) EXCEPT !.stray = @ \ {h}])

AgentReports ==
  /\ Here /\ view.online /\ view.latest < MaxReports
  /\ Change([view EXCEPT !.latest = @ + 1])

OnlineChanges == Here /\ Change([view EXCEPT !.online = ~@])

Step ==
  /\ Here
  /\ \/ OpenTab \/ LeaveTab \/ SetHours \/ AutoRefresh \/ ManualRefresh \/ CommandSent
     \/ Reread \/ StrayRead
     \/ \E h \in Hours : FetchIsRead(h) \/ FetchArrives(h)
     \/ AgentReports \/ OnlineChanges

TypeOK ==
  /\ view.hours \in Hours /\ view.stray \subseteq Hours
  /\ view.refresh.at \in {"none", "command", "wait", "reading"}

\* A refresh that shows "Refreshing" waits for something under way
\* (NodeDetailPage.tsx:1333).
RefreshEnds ==
  Here /\ view.refresh.at = "reading" => view.fetch[view.refresh.hours].at # "none"

\* What a refresh shows is at least as new as the moment the page stopped
\* waiting for the agent, if the period is the one it was clicked for: what the
\* agent has reported by then is shown, and an answer the server read earlier
\* does not count (NodeDetailPage.tsx:1344).
RefreshIsNew ==
  [][Here /\ view.refresh.at = "reading" /\ view.refresh.same /\ view'.page = view.page
       /\ view'.refresh.at = "none" /\ view'.open
       => view'.shown[view.refresh.hours] >= view.refresh.since]_view
=============================================================================
