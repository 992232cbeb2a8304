--------------------------- MODULE TopologyShapes ---------------------------
(***************************************************************************)
(* What the drawing editor computes (TopologyPage.tsx): dragging with its  *)
(* spring, align and distribute, the automatic layout, the side a wire     *)
(* leaves a card by, the import of the live system, and the advice with    *)
(* its score.                                                              *)
(*                                                                         *)
(* One drawing and the last step taken on it.  Nodes are numbered in the   *)
(* order of their labels.  The two axes are treated alike, so the steps    *)
(* that move cards are modelled on x.                                      *)
(***************************************************************************)
EXTENDS Integers, Sequences, FiniteSets

CONSTANTS Cards,    \* how many cards there are in a drawing that is tried
          Kinds,    \* kinds of node that are tried in it
          Xs,       \* places tried, multiples of 50 so that every share is whole
          MaxHosts, MaxPots,  \* bounds of the live system
          NoNode

ASSUME ShapesAssumption ==
  /\ {Cards, MaxHosts, MaxPots} \subseteq Nat
  /\ Xs \subseteq Int /\ \A a \in Xs : a % 50 = 0

VARIABLES kind, x, y, pinned,
          wires,   \* a set of [source, target, type]
          picked,  \* the multiple selection
          last     \* the step that made this drawing

vars == <<kind, x, y, pinned, wires, picked, last>>

Nodes == DOMAIN kind

NW == 100
NH == 110

Abs(n) == IF n < 0 THEN -n ELSE n
Least(S) == CHOOSE n \in S : \A m \in S : n <= m
Greatest(S) == CHOOSE n \in S : \A m \in S : m <= n

-----------------------------------------------------------------------------
\* Dragging: the card held follows the mouse; a selection moves with it as one,
\* or else the wires pull: 60% one hop away, 22% two hops away.

Ends(e) == {e.source, e.target}

\* A variant that sees a wire only from its source.
OneHop_Out(i) == {e.target : e \in {e \in wires : e.source = i}}

OneHop(i) == UNION {Ends(e) \ {i} : e \in {e \in wires : i \in Ends(e)}}

TwoHops(i) ==
  (UNION {Ends(e) : e \in {e \in wires : /\ Ends(e) \intersect OneHop(i) # {}
                                         /\ i \notin Ends(e)}})
    \ (OneHop(i) \union {i})

\* A variant that pulls pinned cards too.
Pulled_PinsGive(i, dx) ==
  [n \in Nodes |->
     IF n = i THEN x[n] + dx
     ELSE IF n \in OneHop(i) THEN x[n] + (dx * 3) \div 5
     ELSE IF n \in TwoHops(i) THEN x[n] + (dx * 11) \div 50
     ELSE x[n]]

Pulled(i, dx) ==
  [n \in Nodes |->
     IF n = i THEN x[n] + dx
     ELSE IF pinned[n] THEN x[n]
     ELSE IF n \in OneHop(i) THEN x[n] + (dx * 3) \div 5
     ELSE IF n \in TwoHops(i) THEN x[n] + (dx * 11) \div 50
     ELSE x[n]]

MovedTogether(i, dx) ==
  [n \in Nodes |->
     IF n = i \/ (n \in picked /\ ~pinned[n]) THEN x[n] + dx ELSE x[n]]

Drag(i, to) ==
  /\ ~pinned[i] /\ to # x[i]
  /\ x' = IF Cardinality(picked) > 1 /\ i \in picked
          THEN MovedTogether(i, to - x[i])
          ELSE Pulled(i, to - x[i])
  /\ last' = [step |-> "drag", held |-> i]
  /\ UNCHANGED <<kind, y, pinned, wires, picked>>

-----------------------------------------------------------------------------
\* Align and distribute work on the selection, pinned cards included.

Low == Least({x[n] : n \in picked})
High == Greatest({x[n] : n \in picked})

Align(mode) ==
  /\ Cardinality(picked) >= 2
  /\ x' = [n \in Nodes |->
             IF n \notin picked THEN x[n]
             ELSE CASE mode = "left" -> Low
                    [] mode = "right" -> (High + NW) - NW
                    [] mode = "hcenter" -> (Low + High + NW) \div 2 - NW \div 2]
  /\ last' = [step |-> "align", held |-> NoNode]
  /\ UNCHANGED <<kind, y, pinned, wires, picked>>

\* Place in the order from left to right; sort() is stable.
Before(m, n) == x[m] < x[n] \/ (x[m] = x[n] /\ m < n)
Rank(n) == Cardinality({m \in picked : Before(m, n)})

\* A share of the span, as Math.round makes it whole.
Rounded(a, d) == (2 * a + d) \div (2 * d)

\* A variant that divides the span by the number of cards.
Spaced_ByCount(n) == Low + Rounded(Rank(n) * (High - Low), Cardinality(picked))

Spaced(n) == Low + Rounded(Rank(n) * (High - Low), Cardinality(picked) - 1)

Distribute ==
  /\ Cardinality(picked) >= 3
  /\ x' = [n \in Nodes |-> IF n \in picked THEN Spaced(n) ELSE x[n]]
  /\ last' = [step |-> "distribute", held |-> NoNode]
  /\ UNCHANGED <<kind, y, pinned, wires, picked>>

-----------------------------------------------------------------------------
\* The automatic layout: a row for each layer that has nodes, cards side by
\* side in the order of their labels, every row centred on the same line.

LayerMap ==
  <<{"internet", "cloud"},
    {"firewall", "waf", "vpn"},
    {"router", "dmz", "proxy"},
    {"switch", "loadbalancer", "accesspoint"},
    {"server", "linux", "windows", "workstation", "database", "mysql"},
    {"loganalyzer", "siem", "ids", "sensor", "bastion", "sandbox"},
    {"honeypot"}>>

\* A kind the map does not know goes to the last layer.
LayerOf(k) ==
  IF \E l \in DOMAIN LayerMap : k \in LayerMap[l]
  THEN CHOOSE l \in DOMAIN LayerMap : k \in LayerMap[l]
  ELSE Len(LayerMap)

ColW == 156
LayerH == 150

Layer(kinds, l) == {n \in DOMAIN kinds : LayerOf(kinds[n]) = l}

Widest(kinds) == Greatest({Cardinality(Layer(kinds, l)) : l \in DOMAIN LayerMap} \union {1})

LaidX(kinds) ==
  [n \in DOMAIN kinds |->
     LET row == Layer(kinds, LayerOf(kinds[n]))
         startX == ((Widest(kinds) - Cardinality(row)) * ColW) \div 2
     IN startX + Cardinality({m \in row : m < n}) * ColW + (ColW - NW) \div 2]

\* A variant that counts rows from the cards laid so far and not from the layers.
LaidY_Collapsed(kinds) ==
  [n \in DOMAIN kinds |->
     48 + LayerH * Cardinality({LayerOf(kinds[m]) : m \in DOMAIN kinds}
                                 \ {LayerOf(kinds[m]) : m \in {m \in DOMAIN kinds : m <= n}})]

LaidY(kinds) ==
  [n \in DOMAIN kinds |->
     48 + LayerH * Cardinality({l \in {LayerOf(kinds[m]) : m \in DOMAIN kinds} :
                                  l < LayerOf(kinds[n])})]

AutoLayout ==
  /\ Nodes # {}
  /\ x' = LaidX(kind) /\ y' = LaidY(kind)
  /\ last' = [step |-> "layout", held |-> NoNode]
  /\ UNCHANGED <<kind, pinned, wires, picked>>
-----------------------------------------------------------------------------
\* The side of card i that a wire to card j leaves by.

\* A variant that measures from the middle of one card to the corner of the other.
Port_ToCorner(i, j) ==
  LET dx == x[j] - (x[i] + NW \div 2)  dy == y[j] - (y[i] + NH \div 2)
  IN IF Abs(dy) * NW >= Abs(dx) * NH THEN (IF dy > 0 THEN "bottom" ELSE "top")
     ELSE IF dx > 0 THEN "right" ELSE "left"

Port(i, j) ==
  LET dx == x[j] - x[i]  dy == y[j] - y[i]
  IN IF Abs(dy) * NW >= Abs(dx) * NH THEN (IF dy > 0 THEN "bottom" ELSE "top")
     ELSE IF dx > 0 THEN "right" ELSE "left"

-----------------------------------------------------------------------------
\* Advice: findings that count for the score, each with what it is about.

Internal == {"server", "linux", "windows", "workstation", "database", "mysql"}
Hosts == {"server", "linux", "windows", "workstation"}

OfKind(kinds, k) == {n \in DOMAIN kinds : kinds[n] = k}

\* A variant that follows wires in the direction they were drawn.
Nbrs_Directed(kinds, ws, i) == {e.target : e \in {e \in ws : e.source = i}}

Nbrs(kinds, ws, i) ==
  {n \in DOMAIN kinds : \E e \in ws : Ends(e) = {i, n} /\ n # i}

\* A variant that takes a card with a single wire for isolated.
Isolated_OneWire(kinds, ws) ==
  {n \in DOMAIN kinds : Cardinality({e \in ws : n \in Ends(e)}) <= 1}

Isolated(kinds, ws) == {n \in DOMAIN kinds : \A e \in ws : n \notin Ends(e)}

Beside(kinds, ws, n, ks) == \E m \in Nbrs(kinds, ws, n) : kinds[m] \in ks

InternetWires(kinds, ws, t) ==
  {e \in ws : /\ e.type = t
              /\ \E n \in Ends(e) : kinds[n] = "internet"
              /\ \E n \in Ends(e) : kinds[n] \in Internal}

If(condition, finding) == IF condition THEN {finding} ELSE {}

Critical(kinds, ws) ==
  If(OfKind(kinds, "firewall") = {}, <<"firewall", {}>>)
  \union {<<"exposed", {p[1], p[2]}>> : p \in
            {p \in OfKind(kinds, "internet") \X DOMAIN kinds :
               p[2] \in Nbrs(kinds, ws, p[1]) /\ kinds[p[2]] \in Hosts}}
  \union {<<"database", {n}>> : n \in
            {n \in OfKind(kinds, "database") \union OfKind(kinds, "mysql") :
               Beside(kinds, ws, n, {"internet"})}}
  \union {<<"allowed", Ends(e)>> : e \in InternetWires(kinds, ws, "allow")}

Warnings(kinds, ws) ==
  {<<"unsegmented", n>> : n \in {n \in OfKind(kinds, "honeypot") :
      ~Beside(kinds, ws, n, {"firewall", "router", "dmz"})}}
  \union {<<"unguarded", n>> : n \in {n \in OfKind(kinds, "dmz") :
      ~Beside(kinds, ws, n, {"firewall", "router"})}}
  \union {<<"isolated", n>> : n \in Isolated(kinds, ws)}

Good(kinds, ws) ==
  If(Cardinality(OfKind(kinds, "firewall")) >= 2, <<"redundant", {}>>)
  \union {<<"segmented", {n}>> : n \in {n \in OfKind(kinds, "honeypot") :
      Beside(kinds, ws, n, {"firewall", "router", "dmz"})}}
  \union {<<"guarded", {n}>> : n \in {n \in OfKind(kinds, "dmz") :
      Beside(kinds, ws, n, {"firewall", "router"})}}
  \union If(OfKind(kinds, "loganalyzer") # {}, <<"logging", {}>>)
  \union {<<"denied", Ends(e)>> : e \in InternetWires(kinds, ws, "deny")}
  \union If(OfKind(kinds, "honeypot") # {} /\ \E e \in ws : e.type = "monitor",
            <<"monitored", {}>>)
  \union If(/\ OfKind(kinds, "firewall") # {} /\ OfKind(kinds, "honeypot") # {}
            /\ OfKind(kinds, "dmz") # {} /\ Critical(kinds, ws) = {}, <<"solid", {}>>)

\* An empty canvas gets one remark and keeps the score it starts from.
ComputeScore(kinds, ws) ==
  IF kinds = <<>> THEN 80
  ELSE Greatest({0, Least({100, 80 - 25 * Cardinality(Critical(kinds, ws))
                                   - 10 * Cardinality(Warnings(kinds, ws))
                                   + 6 * Cardinality(Good(kinds, ws))})})

-----------------------------------------------------------------------------
\* Templates and the import: a drawing made at once.

Wire(a, b, t) == [source |-> a, target |-> b, type |-> t]

\* A variant of which the first template leaves its honeypot out of the zone.
Templates_LoosePot ==
  {[kinds |-> <<"internet", "firewall", "dmz", "honeypot", "switch", "linux", "database">>,
    links |-> {Wire(1, 2, "deny"), Wire(2, 3, "allow"), Wire(4, 5, "monitor"),
               Wire(2, 5, "link"), Wire(5, 6, "link"), Wire(6, 7, "trust")}]}

Templates ==
  {[kinds |-> <<"internet", "firewall", "dmz", "honeypot", "switch", "linux", "database">>,
    links |-> {Wire(1, 2, "deny"), Wire(2, 3, "allow"), Wire(3, 4, "monitor"),
               Wire(2, 5, "link"), Wire(5, 6, "link"), Wire(6, 7, "trust")}],
   [kinds |-> <<"internet", "firewall", "router", "firewall", "linux", "honeypot", "loganalyzer">>,
    links |-> {Wire(1, 2, "deny"), Wire(2, 3, "link"), Wire(3, 4, "link"), Wire(4, 5, "allow"),
               Wire(4, 6, "monitor"), Wire(6, 7, "monitor"), Wire(5, 7, "monitor")}],
   [kinds |-> <<"internet", "firewall", "server", "linux", "mysql">>,
    links |-> {Wire(1, 2, "deny"), Wire(2, 3, "allow"), Wire(3, 4, "trust"), Wire(4, 5, "trust")}],
   [kinds |-> <<"internet", "firewall", "dmz", "honeypot", "honeypot", "honeypot", "loganalyzer">>,
    links |-> {Wire(1, 2, "deny"), Wire(2, 3, "allow"), Wire(3, 4, "monitor"),
               Wire(3, 5, "monitor"), Wire(3, 6, "monitor"), Wire(4, 7, "monitor"),
               Wire(5, 7, "monitor"), Wire(6, 7, "monitor")}]}

Replace(kinds, ws, step) ==
  /\ kind' = kinds /\ wires' = ws
  /\ x' = LaidX(kinds) /\ y' = LaidY(kinds)
  /\ pinned' = [n \in DOMAIN kinds |-> FALSE] /\ picked' = {}
  /\ last' = [step |-> step, held |-> NoNode]

\* A drawing that is replaced leaves no trace in the new one, so the steps that
\* replace it are tried on the empty canvas only.
OnEmpty == Nodes = {}

LoadTemplate ==
  /\ OnEmpty
  /\ \E t \in Templates : Replace(t.kinds, t.links, "template")

\* The live system: hosts in the order of the list, each with its pots and
\* whether its log analyser is on; strays are deployments of no listed host.
Live == [host : UNION {[1 .. h -> [pots : 0 .. MaxPots, la : BOOLEAN, windows : BOOLEAN]] :
                         h \in 0 .. MaxHosts},
         strays : BOOLEAN]

Inet == 1
Fw == 2
Router == 3
Dmz == 4

\* A host, its analyser and its pots have a block of numbers of their own.
Block == MaxPots + 5
HostNode(i) == Block * i
LaNode(i) == Block * i + 1
PotNode(i, p) == Block * i + 1 + p

\* A variant that counts only deployments of hosts that are not listed.
HasDeps_Strays(live) == live.strays

HasDeps(live) == live.strays \/ \E i \in DOMAIN live.host : live.host[i].pots > 0
HasLa(live, i) == live.host[i].la /\ live.host[i].pots > 0

ImportedKinds(live) ==
  LET hosts == DOMAIN live.host
      machines == {HostNode(i) : i \in hosts}
      analysers == {LaNode(i) : i \in {i \in hosts : HasLa(live, i)}}
      pots == UNION {{PotNode(i, p) : p \in 1 .. live.host[i].pots} : i \in hosts}
      chain == {Inet, Fw, Router} \union (IF HasDeps(live) THEN {Dmz} ELSE {})
  IN [n \in chain \union machines \union analysers \union pots |->
        CASE n = Inet -> "internet" [] n = Fw -> "firewall"
          [] n = Router -> "router" [] n = Dmz -> "dmz"
          [] n \in machines -> IF live.host[n \div Block].windows THEN "windows" ELSE "linux"
          [] n \in analysers -> "loganalyzer"
          [] OTHER -> "honeypot"]

\* A variant that joins the zone to the router only when a listed host has pots.
ZoneWires_Listed(live) ==
  IF \E i \in DOMAIN live.host : live.host[i].pots > 0
  THEN {Wire(Router, Dmz, "link")} ELSE {}

ZoneWires(live) == IF HasDeps(live) THEN {Wire(Router, Dmz, "link")} ELSE {}

PotWires(live, i) ==
  UNION {IF HasLa(live, i) THEN {Wire(LaNode(i), PotNode(i, p), "link")}
         ELSE {Wire(Dmz, PotNode(i, p), "link"), Wire(HostNode(i), PotNode(i, p), "link")} :
           p \in 1 .. live.host[i].pots}

\* Of two wires between the same cards the one made first stays, and a wire is
\* made from the older card.
Unique(ws) ==
  {e \in ws : e.source < e.target \/ ~\E f \in ws : f.source = e.target /\ f.target = e.source}

ImportedWires(live) ==
  Unique({Wire(Inet, Fw, "link"), Wire(Fw, Router, "link")}
         \union ZoneWires(live)
         \union {Wire(Router, HostNode(i), "link") : i \in DOMAIN live.host}
         \union {Wire(HostNode(i), LaNode(i), "link") :
                   i \in {i \in DOMAIN live.host : HasLa(live, i)}}
         \union UNION {PotWires(live, i) : i \in DOMAIN live.host})

ImportLive ==
  /\ OnEmpty
  /\ \E live \in Live : Replace(ImportedKinds(live), ImportedWires(live), "import")

-----------------------------------------------------------------------------
Pairs == {p \in (1 .. Cards) \X (1 .. Cards) : p[1] < p[2]}

\* Servers in any places, wired and picked in any way.
Placed ==
  /\ kind = [n \in 1 .. Cards |-> "linux"]
  /\ x \in [1 .. Cards -> Xs] /\ y = [n \in 1 .. Cards |-> 0]
  /\ pinned \in [1 .. Cards -> BOOLEAN]
  /\ \E S \in SUBSET Pairs : wires = {Wire(p[1], p[2], "link") : p \in S}
  /\ picked \in SUBSET (1 .. Cards)

\* Cards of any kinds, joined by any types of wire.
Designed ==
  /\ kind \in [1 .. Cards -> Kinds]
  /\ x = [n \in 1 .. Cards |-> 0] /\ y = x
  /\ pinned = [n \in 1 .. Cards |-> FALSE] /\ picked = {}
  /\ \E S \in [Pairs -> {"none", "link", "back", "allow", "deny"}] :
       wires = {IF S[p] = "back" THEN Wire(p[2], p[1], "monitor") ELSE Wire(p[1], p[2], S[p]) :
                  p \in {p \in Pairs : S[p] # "none"}}

Blank ==
  /\ kind = <<>> /\ x = <<>> /\ y = <<>> /\ pinned = <<>>
  /\ wires = {} /\ picked = {}

Init ==
  /\ Placed \/ Designed \/ Blank
  /\ last = [step |-> "none", held |-> NoNode]

\* One step shows what an operation does.
Next ==
  /\ last.step = "none"
  /\ \/ \E i \in Nodes, to \in Xs : Drag(i, to)
     \/ \E mode \in {"left", "hcenter", "right"} : Align(mode)
     \/ Distribute \/ AutoLayout \/ LoadTemplate \/ ImportLive

Spec == Init /\ [][Next]_vars

-----------------------------------------------------------------------------
\* The types of the variables.
TypeOK ==
  /\ DOMAIN x = Nodes /\ DOMAIN y = Nodes /\ DOMAIN pinned = Nodes
  /\ \A n \in Nodes : x[n] \in Int /\ y[n] \in Int /\ pinned[n] \in BOOLEAN
  /\ picked \subseteq Nodes
  /\ \A e \in wires : Ends(e) \subseteq Nodes

\* "Prevent accidental moves": no drag moves a pinned card, by the hand, by a
\* group or by the pull of its wires.
PinnedStays ==
  last'.step = "drag" => \A n \in Nodes : pinned[n] => x'[n] = x[n]

\* A drag that pulls moves each loose card by its distance in wires from the
\* card held: the two hops of the code are the distances one and two.
Distance(i, n) ==
  IF n = i THEN 0
  ELSE IF \E e \in wires : Ends(e) = {i, n} THEN 1
  ELSE IF \E m \in Nodes : /\ \E e \in wires : Ends(e) = {i, m}
                           /\ \E e \in wires : Ends(e) = {m, n} THEN 2 ELSE 3

PullFadesWithDistance ==
  last'.step = "drag" /\ ~(Cardinality(picked) > 1 /\ last'.held \in picked) =>
    LET i == last'.held
        Share(n) == CASE Distance(i, n) = 0 -> 50 [] Distance(i, n) = 1 -> 30
                      [] Distance(i, n) = 2 -> 11 [] OTHER -> 0
    IN \A n \in Nodes : ~pinned[n] =>
         50 * (x'[n] - x[n]) = Share(n) * (x'[i] - x[i])

\* Distributing keeps the outer cards where they are, keeps the order of the
\* cards and leaves gaps that are an equal share of the span, up to rounding.
DistributedEvenly ==
  last'.step = "distribute" =>
    /\ Least({x'[n] : n \in picked}) = Low /\ Greatest({x'[n] : n \in picked}) = High
    /\ \A m, n \in picked : x[m] < x[n] => x'[m] <= x'[n]
    /\ \A m, n \in picked : Rank(n) = Rank(m) + 1 =>
         LET gaps == Cardinality(picked) - 1
         IN Abs(gaps * (x'[n] - x'[m]) - (High - Low)) < gaps

\* Every move of the mouse and of the toolbar does what the hand expects.
MovesAsExpected == [][PinnedStays /\ PullFadesWithDistance /\ DistributedEvenly]_vars

\* After a layout no two cards overlap, and a card of an earlier layer is above
\* every card of a later one.
LaidOut ==
  last.step \in {"layout", "template", "import"} =>
    \A m, n \in Nodes : m # n =>
      /\ Abs(x[m] - x[n]) >= NW \/ Abs(y[m] - y[n]) >= NH
      /\ LayerOf(kind[m]) < LayerOf(kind[n]) => y[m] + NH <= y[n]

Opposite == [top |-> "bottom", bottom |-> "top", left |-> "right", right |-> "left"]

\* A wire leaves one card by the side that faces the side it enters the other
\* by, wherever the cards are, unless they lie on each other.
PortsFaceEachOther ==
  \A e \in wires :
    <<x[e.source], y[e.source]>> # <<x[e.target], y[e.target]>> =>
      Port(e.source, e.target) = Opposite[Port(e.target, e.source)]

\* The advice does not depend on the direction a wire was drawn in.
Turned(ws) == {Wire(e.target, e.source, e.type) : e \in ws}

AdviceIgnoresDirection ==
  /\ Critical(kind, wires) = Critical(kind, Turned(wires))
  /\ Warnings(kind, wires) = Warnings(kind, Turned(wires))
  /\ Good(kind, wires) = Good(kind, Turned(wires))

\* Wiring an isolated card to a firewall raises the score, unless it is already
\* at an end of the scale.
WiringToFirewallHelps ==
  \A n \in Isolated(kind, wires), f \in OfKind(kind, "firewall") :
    n # f =>
      LET better == ComputeScore(kind, wires \union {Wire(f, n, "link")})
      IN \/ better > ComputeScore(kind, wires)
         \/ better = 100
         \/ better = 0

\* Every starter template is what its advice calls good: nothing critical,
\* nothing to warn of.
TemplatesAreSound ==
  last.step = "template" =>
    Critical(kind, wires) = {} /\ Warnings(kind, wires) = {}

ReachedFrom(S) == S \union UNION {Nbrs(kind, wires, n) : n \in S}

\* Whatever the live system is, the drawing imported from it is one network:
\* within five wires of the Internet card is everything.
ImportIsOneNetwork ==
  last.step = "import" =>
    ReachedFrom(ReachedFrom(ReachedFrom(ReachedFrom(ReachedFrom({Inet}))))) = Nodes

\* What is drawn and advised is right on every drawing: cards that were laid out
\* do not overlap, wires enter by the sides that face each other, the advice
\* follows the wires and the templates follow the advice.
DrawnRight ==
  /\ TypeOK /\ LaidOut /\ PortsFaceEachOther
  /\ AdviceIgnoresDirection /\ WiringToFirewallHelps /\ TemplatesAreSound
=============================================================================
