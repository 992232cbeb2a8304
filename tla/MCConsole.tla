----------------------------- MODULE MCConsole -----------------------------
(* Instances of Console for TLC, with names for the pages' properties. *)
EXTENDS Console, TLC

CONSTANTS n1, n2, p1, p2, none, me, u1, u2, a1, a2, b1, b2, r1, r2

\* Two entries of the catalogue: one of the index, and one that says little.
MCCatalogue ==
  {[id |-> "cowrie", type |-> "ssh", language |-> "python", ports |-> {"ssh", "telnet"}],
   [id |-> "webtrap", type |-> "", language |-> "", ports |-> {"http"}]}

MCTerms ==
  [none |-> {}, no |-> {"/nodes"}, security |-> {"/audit-log", "/system", "/alerts"},
   t |-> {"/telegram-bots", "/topology", "/events", "/alerts"}]

\* A honeypot on each node, one with an analyser and one without; nodes that are
\* not listed although a honeypot of theirs is, nodes without honeypots, and one
\* that only the database calls online.
MCHome == (p1 :> n1) @@ (p2 :> n2)

MCFleets ==
  {[n \in Nodes |-> IF n = n1 THEN f[1] ELSE f[2]] :
     f \in {<<"none", "none">>, <<"online", "none">>, <<"none", "marked">>,
            <<"offline", "online">>, <<"marked", "online">>}}

MCLists ==
  {[p \in Pots |-> IF p = p1 THEN f[1] ELSE f[2]] :
     f \in {<<"none", "none">>, <<"running", "none">>, <<"running", "stopped">>,
            <<"none", "stopped">>}}

\* Two of an address and one without; the first and the last hour of the day; one that
\* comes in when it is older than the shorter period.
MCRecorded ==
  <<[ip |-> 1, hour |-> 0, age |-> 0], [ip |-> 0, hour |-> 3, age |-> 1],
    [ip |-> 1, hour |-> 23, age |-> 10]>>

-----------------------------------------------------------------------------
\* The page that is open keeps its types, what a screen shows is there, and what
\* it concludes agrees with what the page was told: a page of events or of audit entries has rows if any page has, the
\* navigation marks one entry, Enter in the palette opens one that is listed; the
\* map of the fleet draws and highlights nothing that hangs in the air, and agrees
\* with the numbers above it; the posture agrees with the hint, the banner and the
\* gauges with the checks, "Live" with the socket, "Copied" with the clipboard, a
\* bot's switch with the last answer about it, and the timeline with its period
\* (EventsPage, AuditLogPage, Frame, DashboardPage, UsersPage, SystemCheckPage,
\* AttackMapPage, NodeTabs, BotsPage, AnalyticsPage).
ScreensAreTrue ==
  /\ TypeOK
  /\ Explorer!EventsAreSeen /\ Audit!EntriesAreSeen
  /\ Around!OneEntryIsMarked /\ Around!EnterOpensAMatch
  /\ Front!NothingHangsInTheAir /\ Front!HighlightHangsTogether /\ Front!MapAgreesWithNumbers
  /\ Staff!PostureAgrees
  /\ Diagnostics!BannerIsTrue /\ Diagnostics!GaugesAgree
  /\ Map!OneFeed /\ Map!LiveIsTrue
  /\ Tabbed!CopiedIsTrue
  /\ Notifiers!SwitchStays
  /\ Analytics!PeriodIsTrue

\* The rows of page buttons tell where they lead and what they leave out, and
\* the shares of the breakdown, the columns of the heatmap and the table of
\* attackers add up (EventsPage, AuditLogPage, SystemCheckPage, AnalyticsPage).
RowsAddUp ==
  /\ Explorer!EventButtonsTell /\ Audit!AuditButtonsTell
  /\ Diagnostics!BreakdownAddsUp
  /\ Analytics!NoEventIsLost

\* Whatever shows that it waits has something to wait for, and only one thing:
\* rows of users, tests of bots, buttons of honeypots, the deployment dialog, the
\* refresh of the metrics and the layout of the map (UsersPage, BotsPage,
\* NodeDetailPage, NodeDeployPanel, NodeMetricsPanel, DashboardPage).
NothingWaitsInVain ==
  /\ Staff!NoRowStaysBusy
  /\ Notifiers!NoTestSpinsForever
  /\ Detail!OneRequestPerPot
  /\ Deploying!DialogIsAnswered
  /\ Metrics!RefreshEnds
  /\ Front!OneLayoutAtATime

\* No sequence of legal clicks, answers and refusals destroys or confuses what
\* must stay apart: what a later selection would delete, the user himself, the
\* last administrator of a careful one, a role somebody has, and the names of
\* deployments (NodesPage, UsersPage, RolesTab, NodeDeployPanel).
WhatMustStayStays ==
  /\ Fleet!NothingSelectedUnseen
  /\ Staff!NeverMyself /\ Staff!AdminStays
  /\ Rights!RoleInUseStays
  /\ Deploying!NamesAreUnique

\* A bulk deletion asks about what is on the screen (NodesPage).
BulkIsSeen == Fleet!BulkIsSeen

\* No answer takes back what the page already showed as done: an acknowledged
\* alert, an edited and cancelled bot, an event on the feed, a predicted name,
\* the metrics after a refresh (AlertsPage, BotsPage, AttackMapPage,
\* NodeDeployPanel, NodeMetricsPanel).
NothingGoesBack ==
  /\ Alarm!ConfirmedStays
  /\ Notifiers!CancelChangesNothing
  /\ Map!NoHitVanishes
  /\ Deploying!PredictionIsKept
  /\ Metrics!RefreshIsNew

\* The store's numbers, favourites and "deployed" are true (PotStorePage).
StoreIsTrue ==
  /\ Store!Here => Store!TypeOK
  /\ Store!FacetCountsAreTrue /\ Store!FavoritesAreKept /\ Store!SuccessIsTrue

\* Every event is shown on the attack map sometime (AttackMapPage).
EveryHitIsSeen == Map!EveryHitIsSeen
=============================================================================
