------------------------------ MODULE Console ------------------------------
(***************************************************************************)
(* The pages of the dashboard as App.tsx composes them: the router mounts  *)
(* one at a time and forgets its state when another is opened; what is in  *)
(* the browser's storage stays.  The frame around the pages shares nothing *)
(* with them and is one more "page" here.                                  *)
(***************************************************************************)
EXTENDS Integers, Sequences, FiniteSets

CONSTANTS Pages,    \* the pages that are opened
          Nodes, Up, NoNode, MaxJobs,
          Pots, NoPot, MaxActions,
          People, Me, NoUser, Users, Few, MaxRequests,
          MaxEvents, PageSize,
          MaxEntries, AuditPage,
          Alerts,
          Catalogue, Hosts, NoHost, MaxTicked, MaxDeploys,
          Terms, NodePath,
          Bots, NoBot, Options, MaxCalls,
          Custom, NoRole, Holders, Perms, MaxAtOnce,
          Hits, Unplaced, SeedCap, LiveCap, FeedCap, Sockets, MaxTokens,
          Percents, Counts,
          Kinds, MaxRows,
          Hours, MaxReports, MaxTimers,
          Home, Analyzed, Matching, MaxFrames, Fleets, PotLists,
          Periods, Recorded, Fragile

\* The user who is signed in is one of the users; the metrics can be asked for
\* some periods (NodeDetailPage.tsx:1320,1407); events have times, and the feed
\* shows no more than is kept of the pushed ones (AttackMapPage.tsx:121,140).
ASSUME ConsoleAssumption ==
  /\ Me \in People
  /\ Hours # {} /\ Hours \subseteq Nat
  /\ Unplaced \subseteq Hits /\ Hits \subseteq Nat \ {0}
  /\ {SeedCap, LiveCap, FeedCap} \subseteq Nat \ {0}
  /\ FeedCap <= LiveCap

VARIABLES view,     \* the state of the page that is mounted; view.page names it
          stored    \* the favourites of the store in localStorage

vars == <<view, stored>>

Between == [page |-> "none"]

Fleet == INSTANCE NodesPage
Detail == INSTANCE NodeDetailPage
Staff == INSTANCE UsersPage
Explorer == INSTANCE EventsPage
Audit == INSTANCE AuditLogPage
Alarm == INSTANCE AlertsPage
Store == INSTANCE PotStorePage
Around == INSTANCE Frame
Notifiers == INSTANCE BotsPage
Rights == INSTANCE RolesTab
Map == INSTANCE AttackMapPage
Diagnostics == INSTANCE SystemCheckPage
Deploying == INSTANCE NodeDeployPanel
Tabbed == INSTANCE NodeTabs
Metrics == INSTANCE NodeMetricsPanel
Front == INSTANCE DashboardPage
Analytics == INSTANCE AnalyticsPage

\* The lists are finite, lists and pages have room for something, deployments are
\* of nodes, polls bring lists, and what is measured and recorded are numbers.
ASSUME ScreensAssumption ==
  /\ IsFiniteSet(People) /\ IsFiniteSet(Nodes) /\ IsFiniteSet(Pots) /\ IsFiniteSet(Alerts)
  /\ {MaxEvents, PageSize, MaxEntries, AuditPage, MaxTimers, MaxRows} \subseteq Nat \ {0}
  /\ Percents \subseteq Nat
  /\ Home \in [Pots -> Nodes] /\ Fleets \subseteq Front!NodeStates /\ PotLists \subseteq Front!PotStates
  /\ Recorded \in Seq([ip : Nat, hour : 0 .. 23, age : Int])

\* The path of a node is none of the fixed ones, and of the routes only the one
\* to the list of nodes begins another, besides the dashboard's (App.tsx:28-44).
ASSUME RoutesAssumption ==
  /\ NodePath \notin Around!Fixed
  /\ \A path, to \in Around!Routes :
       Around!StartsWith(path, to) <=>
         to = "/" \/ to = path \/ (path = NodePath /\ to = "/nodes")

Init == view = Between /\ stored = {}

Leave == view # Between /\ view' = Between /\ UNCHANGED stored

Mount ==
  /\ view = Between
  /\ \/ view' \in Fleet!Mounted
     \/ view' \in Detail!Mounted
     \/ view' \in Staff!Mounted
     \/ view' \in Explorer!Mounted
     \/ view' \in Audit!Mounted
     \/ view' \in Alarm!Mounted
     \/ view' \in Store!Mounted
     \/ view' \in Around!Mounted
     \/ view' \in Notifiers!Mounted
     \/ view' \in Rights!Mounted
     \/ view' \in Map!Mounted
     \/ view' \in Diagnostics!Mounted
     \/ view' \in Deploying!Mounted
     \/ view' \in Tabbed!Mounted
     \/ view' \in Metrics!Mounted
     \/ view' \in Front!Mounted
     \/ view' \in Analytics!Mounted
  /\ view'.page \in Pages
  /\ UNCHANGED stored

Step ==
  \/ /\ \/ Fleet!Step
        \/ Detail!Step
        \/ Staff!Step
        \/ Explorer!Step
        \/ Audit!Step
        \/ Alarm!Step
        \/ Around!Step
        \/ Notifiers!Step
        \/ Rights!Step
        \/ Map!Step
        \/ Diagnostics!Step
        \/ Deploying!Step
        \/ Tabbed!Step
        \/ Metrics!Step
        \/ Front!Step
        \/ Analytics!Step
     /\ UNCHANGED stored
  \/ Store!Step

Next == Leave \/ Mount \/ Step

\* Lists are polled on a timer and the server answers; a user's actions can
\* abandon a fetch for a newer one, but do not outrun the network for ever.
Fairness ==
  /\ WF_view(Map!SeedStarts)
  /\ SF_view(Map!SeedIsRead)
  /\ SF_view(Map!SeedArrives)

Spec == Init /\ [][Next]_vars /\ Fairness

TypeOK ==
  /\ view.page = "nodes" => Fleet!TypeOK
  /\ view.page = "node" => Detail!TypeOK
  /\ view.page = "users" => Staff!TypeOK
  /\ view.page = "events" => Explorer!TypeOK
  /\ view.page = "audit-log" => Audit!TypeOK
  /\ view.page = "alerts" => Alarm!TypeOK
  /\ view.page = "potstore" => Store!TypeOK
  /\ view.page = "frame" => Around!TypeOK
  /\ view.page = "telegram-bots" => Notifiers!TypeOK
  /\ view.page = "roles" => Rights!TypeOK
  /\ view.page = "attack-map" => Map!TypeOK
  /\ view.page = "system" => Diagnostics!TypeOK
  /\ view.page = "node-deploy" => Deploying!TypeOK
  /\ view.page = "node-tabs" => Tabbed!TypeOK
  /\ view.page = "node-metrics" => Metrics!TypeOK
  /\ view.page = "dashboard" => Front!TypeOK
  /\ view.page = "analytics" => Analytics!TypeOK
=============================================================================
