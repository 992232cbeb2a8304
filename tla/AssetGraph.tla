----------------------------- MODULE AssetGraph -----------------------------
(***************************************************************************)
(* The map of user, nodes, LogAnalyzers and honeypots that the dashboard   *)
(* draws (AssetTopologyGraph.tsx): what is in it, what the filter leaves,  *)
(* what is highlighted.  Where things lie on the canvas is left out.       *)
(***************************************************************************)
EXTENDS Naturals, FiniteSets

CONSTANTS Nodes, Pots, NoNode,
          Home,      \* the node every honeypot is deployed on
          Analyzed,  \* the nodes whose events go to the LogAnalyzer
          Matching   \* the nodes and honeypots the search text finds

NoThing == <<"none", NoNode>>
User == <<"user", NoNode>>
NodeThing(n) == <<"node", n>>
Analyser(n) == <<"loganalyzer", n>>
Pot(p) == <<"honeypot", p>>

Things == {User} \union {NodeThing(n) : n \in Nodes} \union {Analyser(n) : n \in Nodes}
            \union {Pot(p) : p \in Pots}

\* "marked" is a node that the database calls online and the gateway does not.
NodeStates == [Nodes -> {"none", "offline", "marked", "online"}]
PotStates == [Pots -> {"none", "stopped", "running"}]

Known(nodes) == {n \in Nodes : nodes[n] # "none"}
PotsByNode(pots, n) == {p \in Pots : pots[p] # "none" /\ Home[p] = n}

HasAnalyser(pots, n) == n \in Analyzed /\ PotsByNode(pots, n) # {}

\* A variant that ties a honeypot to an analyser that may not be drawn.
Built_AnyAnalyser(nodes, pots) ==
  LET shown == {p \in Pots : pots[p] # "none" /\ Home[p] \in Known(nodes)}
      analysed == {n \in Known(nodes) : HasAnalyser(pots, n)}
  IN [things |->
        {[id |-> User, online |-> TRUE, parent |-> NoThing, pots |-> 0]}
          \union {[id |-> NodeThing(n), online |-> nodes[n] = "online", parent |-> NoThing,
                   pots |-> Cardinality(PotsByNode(pots, n))] : n \in Known(nodes)}
          \union {[id |-> Analyser(n), online |-> TRUE, parent |-> NodeThing(n), pots |-> 0]
                    : n \in analysed}
          \union {[id |-> Pot(p), online |-> pots[p] = "running",
                   parent |-> NodeThing(Home[p]), pots |-> 0] : p \in shown},
      edges |->
        {<<User, NodeThing(n)>> : n \in Known(nodes)}
          \union {<<NodeThing(n), Analyser(n)>> : n \in analysed}
          \union {<<Analyser(Home[p]), Pot(p)>> : p \in shown}]

\* The honeypots of a node hang on its analyser, if it has one, and on the node
\* itself otherwise; a deployment of a node that is not listed is left out.
Built(nodes, pots) ==
  LET shown == {p \in Pots : pots[p] # "none" /\ Home[p] \in Known(nodes)}
      analysed == {n \in Known(nodes) : HasAnalyser(pots, n)}
  IN [things |->
        {[id |-> User, online |-> TRUE, parent |-> NoThing, pots |-> 0]}
          \union {[id |-> NodeThing(n), online |-> nodes[n] = "online", parent |-> NoThing,
                   pots |-> Cardinality(PotsByNode(pots, n))] : n \in Known(nodes)}
          \union {[id |-> Analyser(n), online |-> TRUE, parent |-> NodeThing(n), pots |-> 0]
                    : n \in analysed}
          \union {[id |-> Pot(p), online |-> pots[p] = "running",
                   parent |-> NodeThing(Home[p]), pots |-> 0] : p \in shown},
      edges |->
        {<<User, NodeThing(n)>> : n \in Known(nodes)}
          \union {<<NodeThing(n), Analyser(n)>> : n \in analysed}
          \union {<<IF HasAnalyser(pots, Home[p]) THEN Analyser(Home[p])
                    ELSE NodeThing(Home[p]), Pot(p)>> : p \in shown}]

NoGraph == [things |-> {}, edges |-> {}]

Kind(id) == id[1]
Of(graph, id) == CHOOSE t \in graph.things : t.id = id
Ids(graph) == {t.id : t \in graph.things}

\* The search looks at names; the analyser's says nothing of its node.
Found(id) == id[2] \in Matching /\ Kind(id) # "loganalyzer"

PassesFilter(graph, mode, search, t) ==
  \/ t.id = User
  \/ /\ mode = "online" => t.online
     /\ mode = "withpots" =>
          IF Kind(t.id) = "node" THEN t.pots > 0
          ELSE t.parent \in Ids(graph) /\ Of(graph, t.parent).pots > 0
     /\ search => Found(t.id)

\* Nothing at all is drawn for a fleet without nodes.
Drawn(graph, mode, search) ==
  IF Ids(graph) \subseteq {User} THEN {}
  ELSE {t.id : t \in {u \in graph.things : PassesFilter(graph, mode, search, u)}}

DrawnEdges(graph, mode, search) ==
  {e \in graph.edges : {e[1], e[2]} \subseteq Drawn(graph, mode, search)}

\* What is selected, or else under the mouse, stands out with its neighbours
\* and what belongs to one of these; the rest is dimmed.
ActiveSet(graph, active) ==
  LET near == {active} \union {e[2] : e \in {f \in graph.edges : f[1] = active}}
                \union {e[1] : e \in {f \in graph.edges : f[2] = active}}
  IN near \union {t.id : t \in {u \in graph.things : u.parent \in near}}

-----------------------------------------------------------------------------
\* Everything of "ids" can be reached from "from" along "edges".
Together(ids, from, edges) ==
  LET step(S) == S \union {e[2] : e \in {f \in edges : f[1] \in S}}
                   \union {e[1] : e \in {f \in edges : f[2] \in S}}
  IN ids \subseteq step(step(step({from})))
=============================================================================
