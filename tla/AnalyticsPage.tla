--------------------------- MODULE AnalyticsPage ---------------------------
(***************************************************************************)
(* The analytics (AnalyticsPage.tsx) and the overview they show, which     *)
(* AnalyticsHandler.Overview (analytics.go) composes of one query after    *)
(* another while events go on being recorded.  A query that fails counts   *)
(* as one that found nothing.                                              *)
(*                                                                         *)
(* The queries after the one for the addresses are read at one moment, and *)
(* one overview is composed at a time: each goes into a place of its own.  *)
(* What a query found is the number of events there were when it was       *)
(* read: all of them, but that of the timeline, which alone is restricted  *)
(* to the period.  The events are of the last 30 days, and their addresses *)
(* fewer than the 20 that the query returns.                               *)
(***************************************************************************)
EXTENDS Integers, Sequences, FiniteSets, FiniteSetsExt, Functions

CONSTANTS Periods,   \* the periods, in hours, to choose from
          Recorded,  \* bound: the events that come in, in this order: ip, hour of the
                     \* day, and age, the hours since the event happened
          Fragile    \* bound: which of the queries "total", "ips" and "rest" may fail

VARIABLE view

Here == view.page = "analytics"

NoOverview == [about |-> 0, total |-> 0, ips |-> 0, rest |-> 0]

Idle == [at |-> "none", of |-> NoOverview]

Mounted ==
  {[page |-> "analytics", happened |-> 0, hours |-> h, asked |-> {h},
    cache |-> [p \in Periods |-> NoOverview], failed |-> {}, composing |-> Idle]
     : h \in Periods}

Change(next) == Here /\ view' = next

-----------------------------------------------------------------------------
\* SELECT x, COUNT( * ) ... GROUP BY x, with the x of each event.  The order of the
\* rows is left out.
Grouped(of) ==
  {[key |-> x, count |-> Cardinality({e \in DOMAIN of : of[e] = x})] : x \in Range(of)}

\* Events without an address are not counted here.
Attacks(report) == {e \in 1 .. report.ips : Recorded[e].ip > 0}
ByIP(report) == Grouped([e \in Attacks(report) |-> Recorded[e].ip])

\* DATE_SUB(NOW(), INTERVAL ? HOUR): the one query that is told the period.
InPeriod(report) == {e \in 1 .. report.rest : Recorded[e].age <= report.about}
Timeline(report) == Grouped([e \in InPeriod(report) |-> Recorded[e].age])

Heatmap(report) == Grouped([e \in 1 .. report.rest |-> Recorded[e].hour])

\* An event is recorded.
Happens ==
  /\ Here /\ view.happened < Len(Recorded)
  /\ Change([view EXCEPT !.happened = @ + 1])

Found(query) == {view.happened} \union (IF query \in Fragile THEN {0} ELSE {})

CountTotal ==
  /\ Here /\ view.composing.at = "none"
  /\ \E p \in view.asked, all \in Found("total") :
       Change([view EXCEPT !.asked = @ \ {p},
         !.composing = [at |-> "total", of |-> [about |-> p, total |-> all,
                                                ips |-> 0, rest |-> 0]]])

GroupByIP ==
  /\ Here /\ view.composing.at = "total"
  /\ \E ips \in Found("ips") :
       Change([view EXCEPT !.composing = [at |-> "ips", of |-> [@.of EXCEPT !.ips = ips]]])

\* A variant that counts the total last.
GroupTheRest_CountsLast ==
  /\ Here /\ view.composing.at = "ips"
  /\ \E rest \in Found("rest") :
       Change([view EXCEPT !.composing = [at |-> "rest", of |-> [@.of EXCEPT !.rest = rest,
                                                                  !.total = view.happened]]])

GroupTheRest ==
  /\ Here /\ view.composing.at = "ips"
  /\ \E rest \in Found("rest") :
       Change([view EXCEPT !.composing = [at |-> "rest", of |-> [@.of EXCEPT !.rest = rest]]])

-----------------------------------------------------------------------------
\* The page asks every thirty seconds, and at once for a period it was not
\* asked for before; what it knows of a period stays.
Poll ==
  /\ Here /\ view.composing.of.about # view.hours
  /\ Change([view EXCEPT !.asked = @ \union {view.hours}])

SetHours(h) ==
  /\ Here /\ h # view.hours
  /\ Change([view EXCEPT !.hours = h,
       !.asked = IF view.composing.of.about = h THEN @ ELSE @ \union {h}])

\* A variant whose answers go to the period chosen by now.
Arrives_Chosen ==
  /\ Here /\ view.composing.at = "rest"
  /\ Change([view EXCEPT !.cache[view.hours] = view.composing.of,
                         !.failed = @ \ {view.hours}, !.composing = Idle])

\* An answer goes to the period it was asked for.
Arrives ==
  /\ Here /\ view.composing.at = "rest"
  /\ LET p == view.composing.of.about IN
       Change([view EXCEPT !.cache[p] = view.composing.of,
                           !.failed = @ \ {p}, !.composing = Idle])

Fails ==
  /\ Here /\ view.composing.at # "none"
  /\ Change([view EXCEPT !.failed = @ \union {view.composing.of.about}, !.composing = Idle])

Data == view.cache[view.hours]

\* A request that failed, with nothing known before, shows zeros.
Screen ==
  IF Data # NoOverview THEN "overview"
  ELSE IF view.hours \in view.failed THEN "zeros" ELSE "loading"

\* The chart and the table draw what they are given.
Chart == Timeline(Data)
Attackers == ByIP(Data)

\* A variant that counts the hours from one.
HoursOfDay_FromOne == 1 .. 24

HoursOfDay == 0 .. 23

\* One column for every hour of the day.
Column(h) ==
  LET rows == {r \in Heatmap(Data) : r.key = h} IN
    IF rows = {} THEN 0 ELSE (CHOOSE r \in rows : TRUE).count

Step ==
  /\ Here
  /\ \/ Happens \/ CountTotal \/ GroupByIP \/ GroupTheRest \/ Poll \/ Arrives \/ Fails
     \/ \E h \in Periods : SetHours(h)

TypeOK ==
  /\ view.happened \in 0 .. Len(Recorded) /\ view.asked \subseteq Periods
  /\ view.hours \in Periods

-----------------------------------------------------------------------------
\* The chart under "Attack Timeline - Last {hours}h" draws the events of these
\* hours and no others, whatever periods were chosen while answers were under way
\* (AnalyticsPage.tsx:228, 339).  The number on the card with "Last {hours}h window"
\* (307-308) is another matter: README, "Where code and words part".
PeriodIsTrue ==
  Here /\ Screen = "overview" =>
    \A e \in 1 .. Data.rest :
      Recorded[e].age <= view.hours <=> \E row \in Chart : row.key = Recorded[e].age

\* The columns of the heatmap lose no event, whatever its hour, and the table of
\* attackers none that has an address.  Since the total is counted first, events that
\* come in between two queries never make the table tell of fewer than the total
\* above it does, unless its query failed (AnalyticsPage.tsx:154-158, analytics.go:27-30,
\* store/events.go:125).
NoEventIsLost ==
  Here /\ Screen = "overview" =>
    LET listed == MapThenSumSet(LAMBDA row : row.count, Attackers) IN
      /\ MapThenSumSet(Column, HoursOfDay) = Data.rest
      /\ listed = Cardinality(Attacks(Data))
      /\ Data.ips = 0 \/ listed >= Cardinality({e \in 1 .. Data.total : Recorded[e].ip > 0})
=============================================================================
