-------------------------- MODULE SystemCheckPage --------------------------
(***************************************************************************)
(* The diagnostics (SystemCheckPage.tsx) and the report it shows, which    *)
(* SystemHandler.Check (system.go) composes.  The two hold thresholds and  *)
(* verdicts of their own about the same measurements.                      *)
(***************************************************************************)
EXTENDS Integers, Sequences, FiniteSets, FiniteSetsExt, SequencesExt

CONSTANTS Percents,  \* bound: what a disk or the memory is used to
          Counts     \* bound: how many deployments have one status

VARIABLE view

Here == view.page = "system"

Unknown == -1

NoReport == [ok |-> FALSE, checks |-> {}, host |-> << >>, status |-> << >>]

Mounted ==
  {[page |-> "system", data |-> NoReport, loaded |-> FALSE, error |-> FALSE, fetching |-> TRUE]}

Change(next) == Here /\ view' = next

-----------------------------------------------------------------------------
\* The report.  A measurement the host does not give has no check.

\* A variant whose thresholds are those of the amber gauge.
Threshold_Amber(name, pct) ==
  IF pct = Unknown THEN {} ELSE {[name |-> name, ok |-> pct < 70, critical |-> FALSE]}

Threshold(name, pct) ==
  IF pct = Unknown THEN {} ELSE {[name |-> name, ok |-> pct < 90, critical |-> FALSE]}

Checks(db, host, analyzer, synced) ==
  {[name |-> "database", ok |-> db, critical |-> TRUE],
   [name |-> "node_gateway", ok |-> TRUE, critical |-> TRUE],
   [name |-> "log_analyzer", ok |-> analyzer, critical |-> FALSE],
   [name |-> "potstore", ok |-> synced, critical |-> FALSE]}
    \union Threshold("disk_space", host.disk) \union Threshold("memory", host.memory)

\* A variant that lets every check drive the banner.
OverallOK_Any(checks) == \A c \in checks : c.ok

OverallOK(checks) == \A c \in checks : c.critical => c.ok

Statuses == {"pending", "running", "failed"}

\* SELECT status, COUNT(*) ... GROUP BY status has no row for a status that no
\* deployment has; a failed query leaves the breakdown empty.
Breakdowns == UNION {[S -> Counts] : S \in SUBSET Statuses}

Measured == [disk : Percents \union {Unknown}, memory : Percents \union {Unknown}]

Report(checks, host, status) ==
  [ok |-> OverallOK(checks), checks |-> checks, host |-> host, status |-> status]

-----------------------------------------------------------------------------
\* What the page makes of it.

Card(c) == IF c.ok THEN "OK" ELSE IF c.critical THEN "FAIL" ELSE "WARN"

Advisories == {c \in view.data.checks : ~c.ok /\ ~c.critical}

GaugeColor(pct) ==
  IF pct = Unknown THEN "slate"
  ELSE IF pct >= 90 THEN "red" ELSE IF pct >= 70 THEN "amber" ELSE "green"

\* The number and the bar under it: without a measurement "-" and no bar.
Gauge(pct) ==
  [color |-> GaugeColor(pct), number |-> pct,
   bar |-> IF pct = Unknown THEN 0 ELSE IF pct < 100 THEN pct ELSE 100]

Banner == IF view.data.ok THEN "All Systems Operational" ELSE "Issues Detected"

Order == <<"running", "installing", "pending", "stopped", "removed", "failed">>

Rank(s) == SelectInSeq(Order, LAMBDA t : t = s)

Sorted == SetToSortSeq(DOMAIN view.data.status, LAMBDA s, t : Rank(s) < Rank(t))

\* Math.round(n / of * 100).
Rounded(n, of) == (200 * n + of) \div (2 * of)

Total == MapThenSumSet(LAMBDA s : view.data.status[s], DOMAIN view.data.status)

\* A variant that counts what is being installed as healthy.
HealthPct_Pending(status, total) ==
  Rounded((IF "running" \in DOMAIN status THEN status["running"] ELSE 0)
            + (IF "pending" \in DOMAIN status THEN status["pending"] ELSE 0), total)

HealthPct(status, total) ==
  IF total = 0 THEN 0
  ELSE Rounded(IF "running" \in DOMAIN status THEN status["running"] ELSE 0, total)

\* A request that failed hides the last report, until one succeeds.
Screen ==
  IF view.error THEN "failed"
  ELSE IF ~view.loaded THEN IF view.fetching THEN "loading" ELSE "failed"
  ELSE "report"

-----------------------------------------------------------------------------
\* The page asks every ten seconds, or when "Retry" or "Refresh" is clicked;
\* asking again forgets an error only if no report ever came.
Refetch ==
  /\ Here /\ ~view.fetching
  /\ Change([view EXCEPT !.fetching = TRUE, !.error = @ /\ view.loaded])

Arrives ==
  /\ Here /\ view.fetching
  /\ \E db, analyzer, synced \in BOOLEAN, host \in Measured, status \in Breakdowns :
       Change([view EXCEPT !.fetching = FALSE, !.error = FALSE, !.loaded = TRUE,
                 !.data = Report(Checks(db, host, analyzer, synced), host, status)])

Fails ==
  /\ Here /\ view.fetching
  /\ Change([view EXCEPT !.fetching = FALSE, !.error = TRUE])

Step == Here /\ (Refetch \/ Arrives \/ Fails)

TypeOK ==
  /\ {view.loaded, view.error, view.fetching} \subseteq BOOLEAN
  /\ view.loaded => view.data.host \in Measured /\ DOMAIN view.data.status \subseteq Statuses

-----------------------------------------------------------------------------
\* "All Systems Operational" stands over cards none of which says FAIL, and
\* "Issues Detected" over one that does; what it counts as advisories is all
\* that then is not OK (system.go:157, SystemCheckPage.tsx:152, 188, 233).
BannerIsTrue ==
  Here /\ Screen = "report" =>
    /\ Banner = "Issues Detected" <=> \E c \in view.data.checks : Card(c) = "FAIL"
    /\ Banner # "Issues Detected" => Advisories = {c \in view.data.checks : Card(c) # "OK"}

\* A gauge of the disk or of the memory is red if and only if the card about
\* the same thing is a warning: the page's threshold is the server's
\* (SystemCheckPage.tsx:56, 206-208, system.go:88, 95).
GaugesAgree ==
  Here /\ Screen = "report" =>
    LET warns(name) == \E c \in view.data.checks : c.name = name /\ Card(c) = "WARN" IN
      /\ Gauge(view.data.host.disk).color = "red" <=> warns("disk_space")
      /\ Gauge(view.data.host.memory).color = "red" <=> warns("memory")

\* The "% active" of the breakdown is the share its "running" row shows, and
\* the rounded shares are short of, or over, a hundred by less than half a
\* percent a row (SystemCheckPage.tsx:293, 350).
BreakdownAddsUp ==
  Here /\ Screen = "report" /\ Total > 0 =>
    LET share(s) == Rounded(view.data.status[s], Total)
        sum == MapThenSumSet(share, ToSet(Sorted))
        off == IF sum < 100 THEN 100 - sum ELSE sum - 100
    IN  /\ HealthPct(view.data.status, Total)
             = IF "running" \in ToSet(Sorted) THEN share("running") ELSE 0
        /\ 2 * off <= Len(Sorted)
=============================================================================
