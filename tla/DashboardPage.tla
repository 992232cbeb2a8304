--------------------------- MODULE DashboardPage ---------------------------
(***************************************************************************)
(* The front page (DashboardPage.tsx): nodes and deployments, polled apart *)
(* from each other, and the map drawn of them on the "Topology" tab        *)
(* (AssetTopologyGraph.tsx), whose layout runs for some animation frames.  *)
(*                                                                         *)
(* Nothing on the page depends on when a poll was asked: it is one step    *)
(* here, and because the server changes on its own, it may bring any list. *)
(***************************************************************************)
EXTENDS AssetGraph

CONSTANTS MaxFrames,  \* bound: the frames of a layout, 180 in the code
          Fleets,     \* bound: the lists of nodes a poll may bring
          PotLists    \* bound: the lists of deployments a poll may bring

VARIABLE view

Here == view.page = "dashboard"

Modes == {"all", "online", "withpots"}

\* Two layouts can be told apart: the one that is run and the one before it.
Layouts == {0, 1}

Fresh ==
  [page |-> "dashboard", nodes |-> [n \in Nodes |-> "none"], pots |-> [p \in Pots |-> "none"],
   tab |-> "live", graph |-> NoGraph, selected |-> NoThing, hover |-> NoThing,
   mode |-> "all", search |-> FALSE,
   layout |-> 0, due |-> {}, frames |-> [l \in Layouts |-> 0]]

Mounted == {Fresh}

Change(next) == Here /\ view' = next

-----------------------------------------------------------------------------
\* A variant that starts a layout and lets the one before it run on.
Relaid_Both(v) ==
  LET next == 1 - v.layout IN
    [v EXCEPT !.layout = next, !.frames[next] = 0,
              !.due = @ \union {next}]

\* The effect is run again: its clean-up stops the layout of the last time and
\* cancels the frame that was due.
Relaid(v) ==
  LET next == 1 - v.layout IN
    [v EXCEPT !.layout = next, !.frames[next] = 0,
              !.due = (@ \ {v.layout}) \union {next}]

\* The map is built anew from the lists, everything at its first place; the
\* layout is run again only if the number of things changed.
Rebuilt(v) ==
  LET graph == Built(v.nodes, v.pots)
      w == [v EXCEPT !.graph = graph]
  IN IF v.tab # "topology" THEN v
     ELSE IF Cardinality(graph.things) = Cardinality(v.graph.things) THEN w
     ELSE Relaid(w)

NodesArrive ==
  \E nodes \in Fleets : Change(Rebuilt([view EXCEPT !.nodes = nodes]))

DeploymentsArrive ==
  \E pots \in PotLists : Change(Rebuilt([view EXCEPT !.pots = pots]))

\* A tab that is left forgets what it had.
SetTab(tab) ==
  /\ Here /\ tab # view.tab
  /\ LET v == [Fresh EXCEPT !.nodes = view.nodes, !.pots = view.pots, !.tab = tab]
     IN Change(Rebuilt(v))

Tick ==
  /\ Here
  /\ \E l \in view.due :
       LET n == view.frames[l] + 1 IN
         Change([view EXCEPT !.frames[l] = n,
                             !.due = IF n < MaxFrames THEN @ ELSE @ \ {l}])

\* The canvas changes its size, or "Reset view".
Resize ==
  /\ Here /\ view.tab = "topology"
  /\ Change(Relaid([view EXCEPT !.graph = Built(view.nodes, view.pots)]))

Shown == Drawn(view.graph, view.mode, view.search)

\* Without nodes there is neither a canvas nor a toolbar.
Canvas == Here /\ view.tab = "topology" /\ ~(Ids(view.graph) \subseteq {User})

Active == IF view.selected # NoThing THEN view.selected ELSE view.hover

Select(t) ==
  /\ Canvas /\ t \in Shown
  /\ Change([view EXCEPT !.selected = IF @ = t THEN NoThing ELSE t])

Background ==
  /\ Canvas
  /\ Change([view EXCEPT !.selected = NoThing])

Enter(t) ==
  /\ Canvas /\ t \in Shown
  /\ Change([view EXCEPT !.hover = t])

\* A thing that vanishes under the mouse is never left.
LeaveThing ==
  /\ Canvas /\ view.hover \in Shown
  /\ Change([view EXCEPT !.hover = NoThing])

SetFilter(m) ==
  /\ Canvas
  /\ Change([view EXCEPT !.mode = m])

SetSearch ==
  /\ Canvas
  /\ Change([view EXCEPT !.search = ~@])

Step ==
  /\ Here
  /\ \/ NodesArrive \/ DeploymentsArrive \/ Tick \/ Resize \/ Background \/ LeaveThing \/ SetSearch
     \/ \E tab \in {"live", "topology"} : SetTab(tab)
     \/ \E t \in Things : Select(t)
     \/ \E t \in Things : Enter(t)
     \/ \E m \in Modes : SetFilter(m)

-----------------------------------------------------------------------------
\* The numbers above the tabs, and the panel of nodes on "Live".
Total == Cardinality(Known(view.nodes))
IsOnline(n) == view.nodes[n] \in {"marked", "online"}
Online == Cardinality({n \in Nodes : IsOnline(n)})
Honeypots == Cardinality({p \in Pots : view.pots[p] # "none"})
Chip(n) == Cardinality(PotsByNode(view.pots, n))

\* The corner of the map.
PanelOnline == Cardinality({t \in view.graph.things : Kind(t.id) = "node" /\ t.online})

TypeOK ==
  /\ view.nodes \in NodeStates /\ view.pots \in PotStates
  /\ Ids(view.graph) \subseteq Things
  /\ {view.selected, view.hover} \subseteq Things \union {NoThing}

-----------------------------------------------------------------------------
\* However the two polls interleave, the filter leaves nothing hanging in the
\* air: without a search, "All" and "With honeypots" draw a map every part of
\* which is tied to the user (AssetTopologyGraph.tsx:64-88, 290-308, 415).
NothingHangsInTheAir ==
  Here /\ view.mode # "online" /\ ~view.search =>
    Together(Shown, User, DrawnEdges(view.graph, view.mode, view.search))

\* What stands out stands out together: from the thing selected or under the
\* mouse, all that is not dimmed is reached along edges that are not dimmed
\* either (AssetTopologyGraph.tsx:279-287, 416).
HighlightHangsTogether ==
  Here /\ view.mode = "all" /\ ~view.search /\ Active \in Shown =>
    LET lit == ActiveSet(view.graph, Active) IN
      Together(lit, Active, {e \in view.graph.edges : {e[1], e[2]} \subseteq lit})

\* The map tells what the numbers of the page tell: as many nodes, as many of
\* them online but for those that only the database calls so, the same number
\* of honeypots at a node as on its chip, and all honeypots but those of a node
\* that is not listed (DashboardPage.tsx:38, 141-148, AssetTopologyGraph.tsx:55-60,
\* 312, 480).
MapAgreesWithNumbers ==
  Here /\ view.tab = "topology" =>
    LET count(kind) == Cardinality({t \in Ids(view.graph) : Kind(t) = kind}) IN
      /\ count("node") = Total
      /\ PanelOnline = Online - Cardinality({n \in Nodes : view.nodes[n] = "marked"})
      /\ \A n \in Known(view.nodes) :
           /\ Of(view.graph, NodeThing(n)).pots = Chip(n)
           /\ Chip(n) = Cardinality({t \in view.graph.things :
                           Kind(t.id) = "honeypot" /\ t.parent = NodeThing(n)})
      /\ count("honeypot") + Cardinality({p \in Pots : view.pots[p] # "none"
                                            /\ view.nodes[Home[p]] = "none"}) = Honeypots

\* One layout runs at a time, also if lists arrive and the window is resized
\* while one does, and none when the map is not open
\* (AssetTopologyGraph.tsx:161, 205-206).
OneLayoutAtATime ==
  Here => view.due \subseteq IF view.tab = "topology" THEN {view.layout} ELSE {}
=============================================================================
