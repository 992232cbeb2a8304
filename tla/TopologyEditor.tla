--------------------------- MODULE TopologyEditor ---------------------------
(***************************************************************************)
(* The drawing editor of the dashboard (TopologyPage.tsx): nodes and wires *)
(* edited with the mouse, the keyboard, menus, templates, saved drafts and *)
(* an import that waits for the server, over one undo history.             *)
(*                                                                         *)
(* A drawing is its nodes, each with what the user can change about it in  *)
(* place (position, label, pin, address: one Note), and its wires.         *)
(* TopologyShapes has the geometry and the advice.                         *)
(***************************************************************************)
EXTENDS Naturals, Sequences, FiniteSets

CONSTANTS Ids,         \* identifiers uid() may return
          NoId,        \* null
          Notes,       \* values of what can be changed in place
          Default,     \* the value of a node just made
          EdgeTypes,   \* types of a wire
          NoDrawing,
          MaxHistory,  \* 50 in the source
          MaxEdits,    \* bound: changes, copies, saves and imports of one visit
          Drafts       \* what was saved before the visit

VARIABLES drawing,      \* nodes, edges: what the canvas shows
          selected,     \* the node whose panel is shown
          selectedIds,  \* the multiple selection
          connectMode, connectFirst,
          ctxMenu,      \* the node whose menu is open
          history, future,
          clipboard,
          savedList,
          captured,     \* the drawing as it was when the running import began
          careful,      \* whether this user ends a gesture before the next,
                        \* on this visit and on those before it
          edits         \* counts towards MaxEdits

vars == <<drawing, selected, selectedIds, connectMode, connectFirst, ctxMenu,
          history, future, clipboard, savedList, captured, careful, edits>>

Edge == [source : Ids \union {NoId}, target : Ids \union {NoId}, type : EdgeTypes]

Drawing ==
  [nodes : UNION {[S -> Notes] : S \in SUBSET Ids}, edges : SUBSET Edge]

NodesOf(d) == DOMAIN d.nodes

Empty == [nodes |-> [i \in {} |-> NoId], edges |-> {}]

ASSUME EditorAssumption ==
  /\ IsFiniteSet(Ids) /\ NoId \notin Ids
  /\ Default \in Notes
  /\ "link" \in EdgeTypes /\ IsFiniteSet(EdgeTypes)
  /\ MaxHistory \in Nat \ {0}
  /\ MaxEdits \in Nat
  /\ NoDrawing \notin Drawing
  /\ Drafts \subseteq SUBSET Drawing

-----------------------------------------------------------------------------
\* Drawings and what is done to them.

\* A variant that leaves the wires of a removed node.
Without_WiresStay(d, gone) ==
  [d EXCEPT !.nodes = [i \in NodesOf(d) \ gone |-> d.nodes[i]]]

Without(d, gone) ==
  [nodes |-> [i \in NodesOf(d) \ gone |-> d.nodes[i]],
   edges |-> {e \in d.edges : e.source \notin gone /\ e.target \notin gone}]

With(d, ids, note) ==
  [d EXCEPT !.nodes = [i \in NodesOf(d) \union ids |->
                         IF i \in ids THEN note ELSE d.nodes[i]]]

\* A variant that looks only for a wire drawn in the same direction.
Joined_OneWay(d, a, b) ==
  \E e \in d.edges : e.source = a /\ e.target = b

Joined(d, a, b) ==
  \E e \in d.edges : {e.source, e.target} = {a, b}

WellWired(d) == \A e \in d.edges : {e.source, e.target} \subseteq NodesOf(d)

Simple(d) ==
  \A e, f \in d.edges :
    /\ e.source # e.target
    /\ {e.source, e.target} = {f.source, f.target} => e = f

\* The nodes in ids with the wires among them.
Part(d, ids) ==
  [nodes |-> [i \in NodesOf(d) \intersect ids |-> d.nodes[i]],
   edges |-> {e \in d.edges : e.source \in ids /\ e.target \in ids}]

\* A copy of d under the identifiers copy gives to its nodes; a wire to a node
\* that d does not have gets none.
Renamed(d, copy) ==
  LET To(i) == IF i \in DOMAIN copy THEN copy[i] ELSE NoId
  IN [nodes |-> [j \in {copy[i] : i \in NodesOf(d)} |->
                   d.nodes[CHOOSE i \in NodesOf(d) : copy[i] = j]],
      edges |-> {[source |-> To(e.source), target |-> To(e.target), type |-> e.type]
                   : e \in d.edges}]

Union(d, e) ==
  [nodes |-> [i \in NodesOf(d) \union NodesOf(e) |->
                IF i \in NodesOf(e) THEN e.nodes[i] ELSE d.nodes[i]],
   edges |-> d.edges \union e.edges]

Kept == {history[k] : k \in DOMAIN history} \union {future[k] : k \in DOMAIN future}

Reachable ==
  {drawing, clipboard} \union Kept \union savedList \union ({captured} \ {NoDrawing})

\* uid() returns an identifier that nothing refers to.
Fresh ==
  Ids \ ((UNION {NodesOf(d) : d \in Reachable})
         \union (UNION {{e.source, e.target} : e \in UNION {d.edges : d \in Reachable}})
         \union selectedIds \union {selected, connectFirst, ctxMenu})

\* A drawing of new nodes, as templates and imports build them: one node, or
\* two and a wire.
Built ==
  {[nodes |-> [i \in {a, b} |-> Default],
    edges |-> IF a = b THEN {} ELSE {[source |-> a, target |-> b, type |-> "link"]}] :
      a \in Fresh, b \in Fresh}

-----------------------------------------------------------------------------
\* History.

Latest(s, n) == IF Len(s) <= n THEN s ELSE SubSeq(s, Len(s) - n + 1, Len(s))

\* A variant that cuts one drawing too late.
Push_OneMore(d) ==
  /\ history' = Append(Latest(history, MaxHistory), d)
  /\ future' = <<>>

Push(d) ==
  /\ history' = Append(Latest(history, MaxHistory - 1), d)
  /\ future' = <<>>

Counted == edits < MaxEdits /\ edits' = edits + 1

\* A change that undo can take back: the drawing shown is pushed first.
Record(d) ==
  /\ Counted
  /\ Push(drawing)
  /\ drawing' = d

\* A change of what is shown that undo does not know of.
Amend(d) ==
  /\ Counted
  /\ drawing' = d
  /\ UNCHANGED <<history, future>>

\* A careful user ends what is under way: the wire begun, the menu opened, the
\* import started.
AtRest ==
  careful => connectFirst = NoId /\ ctxMenu = NoId /\ captured = NoDrawing

Document == <<drawing, history, future>>
Selection == <<selected, selectedIds>>
Wiring == <<connectMode, connectFirst>>
Aside == <<clipboard, savedList, captured, careful>>

\* The click that reaches the page closes the menu; a key does not.
ByKeyOrClick == ctxMenu' \in {ctxMenu, NoId}

Init ==
  /\ drawing = Empty /\ history = <<>> /\ future = <<>> /\ edits = 0
  /\ selected = NoId /\ selectedIds = {}
  /\ connectMode = FALSE /\ connectFirst = NoId /\ ctxMenu = NoId
  /\ clipboard = Empty /\ savedList \in Drafts /\ captured = NoDrawing
  /\ careful \in BOOLEAN /\ (careful => \A d \in savedList : WellWired(d) /\ Simple(d))

Undo ==
  /\ AtRest /\ history # <<>>
  /\ drawing' = history[Len(history)]
  /\ history' = SubSeq(history, 1, Len(history) - 1)
  /\ future' = <<drawing>> \o future
  /\ ByKeyOrClick
  /\ UNCHANGED <<edits, Selection, Wiring, Aside>>

\* A variant that leaves the drawing it comes from out of the history.
Redo_Forgets ==
  /\ AtRest /\ future # <<>>
  /\ drawing' = Head(future)
  /\ future' = Tail(future)
  /\ ByKeyOrClick
  /\ UNCHANGED <<history, edits, Selection, Wiring, Aside>>

Redo ==
  /\ AtRest /\ future # <<>>
  /\ drawing' = Head(future)
  /\ future' = Tail(future)
  /\ history' = Append(history, drawing)
  /\ ByKeyOrClick
  /\ UNCHANGED <<edits, Selection, Wiring, Aside>>

-----------------------------------------------------------------------------
\* The selection and what works on it.

SelIds ==
  IF selectedIds # {} THEN selectedIds
  ELSE IF selected # NoId THEN {selected} ELSE {}

\* A variant that passes the list on.
Only_List(ids) == IF Cardinality(ids) = 1 THEN ids ELSE NoId

Only(ids) == IF Cardinality(ids) = 1 THEN CHOOSE i \in ids : TRUE ELSE NoId

DeleteSelection ==
  /\ AtRest /\ SelIds # {}
  /\ Record(Without(drawing, SelIds))
  /\ selected' = NoId /\ selectedIds' = {}
  /\ ByKeyOrClick
  /\ UNCHANGED <<Wiring, Aside>>

\* The button of the toolbar, of the panel and of the menu; the multiple
\* selection stays as it is.
DeleteSelected ==
  /\ careful => connectFirst = NoId /\ captured = NoDrawing
  /\ selected # NoId
  /\ Record(Without(drawing, {selected}))
  /\ selected' = NoId /\ ctxMenu' = NoId
  /\ UNCHANGED <<selectedIds, Wiring, Aside>>

SelectAll ==
  /\ AtRest
  /\ selectedIds' = NodesOf(drawing) /\ selected' = NoId
  /\ UNCHANGED <<Document, edits, Wiring, ctxMenu, Aside>>

CopySel ==
  /\ AtRest /\ SelIds # {}
  /\ Counted
  /\ clipboard' = Part(drawing, SelIds)
  /\ UNCHANGED <<Document, Selection, Wiring, ctxMenu, savedList, captured, careful>>

PasteSel ==
  /\ AtRest /\ NodesOf(clipboard) # {}
  /\ \E copy \in [NodesOf(clipboard) -> Fresh] :
       LET new == {copy[i] : i \in NodesOf(clipboard)}
       IN /\ Cardinality(new) = Cardinality(NodesOf(clipboard))
          /\ Record(Union(drawing, Renamed(clipboard, copy)))
          /\ selectedIds' = new /\ selected' = Only(new)
  /\ UNCHANGED <<Wiring, ctxMenu, Aside>>

Escape ==
  /\ selected' = NoId /\ selectedIds' = {}
  /\ connectFirst' = NoId /\ connectMode' = FALSE /\ ctxMenu' = NoId
  /\ UNCHANGED <<Document, edits, Aside>>

\* A press on the background: it closes an open menu and does nothing else, or
\* it clears the selection and, outside connect mode, may go on to draw a
\* rectangle around some nodes.
CanvasMouse ==
  \/ /\ ctxMenu # NoId /\ ctxMenu' = NoId
     /\ UNCHANGED <<Document, edits, Selection, Wiring, Aside>>
  \/ /\ ctxMenu = NoId
     /\ connectFirst' = NoId
     /\ \E hit \in SUBSET NodesOf(drawing) :
          /\ connectMode => hit = {}
          /\ selectedIds' = hit /\ selected' = Only(hit)
     /\ UNCHANGED <<Document, edits, connectMode, ctxMenu, Aside>>

\* The search box, and the press on a node outside connect mode.
PickNode(i) ==
  /\ AtRest /\ ~connectMode
  /\ selected' = i
  /\ \/ selectedIds' = IF i \in selectedIds THEN selectedIds ELSE {i}
     \/ selectedIds' = IF i \in selectedIds THEN selectedIds \ {i} ELSE selectedIds \union {i}
     \/ selectedIds' = {i}
  /\ ctxMenu' = NoId
  /\ UNCHANGED <<Document, edits, Wiring, Aside>>

\* The panel's close button and the advice drop the selected node.
Deselect ==
  /\ AtRest
  /\ selected' = NoId /\ ctxMenu' = NoId
  /\ UNCHANGED <<Document, edits, selectedIds, Wiring, Aside>>

-----------------------------------------------------------------------------
\* Wires.

SelectTool ==
  /\ connectMode' = FALSE /\ connectFirst' = NoId /\ ctxMenu' = NoId
  /\ UNCHANGED <<Document, edits, Selection, Aside>>

ConnectTool ==
  /\ AtRest
  /\ connectMode' = TRUE /\ selected' = NoId /\ ctxMenu' = NoId
  /\ UNCHANGED <<Document, edits, selectedIds, connectFirst, Aside>>

ConnectClick(i) ==
  /\ connectMode
  /\ careful => captured = NoDrawing
  /\ ctxMenu' = NoId
  /\ \/ /\ connectFirst = NoId
        /\ connectFirst' = i /\ UNCHANGED <<Document, edits>>
     \/ /\ connectFirst = i
        /\ UNCHANGED <<connectFirst, Document, edits>>
     \/ /\ connectFirst \notin {NoId, i}
        /\ connectFirst' = NoId
        /\ IF Joined(drawing, connectFirst, i) THEN UNCHANGED <<Document, edits>>
           ELSE Record([drawing EXCEPT !.edges =
                          @ \union {[source |-> connectFirst, target |-> i, type |-> "link"]}])
  /\ UNCHANGED <<Selection, connectMode, Aside>>

SetEdgeType(e, t) ==
  /\ AtRest
  /\ Record([drawing EXCEPT !.edges = (@ \ {e}) \union {[e EXCEPT !.type = t]}])
  /\ ctxMenu' = NoId
  /\ UNCHANGED <<Selection, Wiring, Aside>>

DeleteEdge(e) ==
  /\ AtRest
  /\ Record([drawing EXCEPT !.edges = @ \ {e}])
  /\ ctxMenu' = NoId
  /\ UNCHANGED <<Selection, Wiring, Aside>>

-----------------------------------------------------------------------------
\* Nodes.

AddNode ==
  /\ AtRest
  /\ \E i \in Fresh : Record(With(drawing, {i}, Default))
  /\ ctxMenu' = NoId
  /\ UNCHANGED <<Selection, Wiring, Aside>>

\* From the panel or from the menu of the node.
DuplicateNode(i) ==
  /\ careful => connectFirst = NoId /\ captured = NoDrawing
  /\ i \in {selected, ctxMenu}
  /\ \E j \in Fresh : Record(With(drawing, {j}, drawing.nodes[i]))
  /\ ctxMenu' = NoId
  /\ UNCHANGED <<Selection, Wiring, Aside>>

\* Dragging, renaming, pinning and the fields of the panel.
EditInPlace(i) ==
  /\ AtRest \/ i = ctxMenu
  /\ \E note \in Notes \ {drawing.nodes[i]} : Amend([drawing EXCEPT !.nodes[i] = note])
  /\ ctxMenu' = NoId
  /\ UNCHANGED <<Selection, Wiring, Aside>>

\* Align and distribute move the selection, auto layout moves everything.
Arrange(ids) ==
  /\ AtRest
  /\ \/ ids = SelIds \intersect NodesOf(drawing) /\ Cardinality(SelIds) > 1
     \/ ids = NodesOf(drawing) /\ ids # {}
  /\ \E note \in Notes : Record(With(drawing, ids, note))
  /\ ctxMenu' = NoId
  /\ UNCHANGED <<Selection, Wiring, Aside>>

\* A variant that does not select the node of the menu.
OpenMenu_MenuOnly(i) ==
  /\ AtRest
  /\ ctxMenu' = i
  /\ UNCHANGED <<Document, edits, Selection, Wiring, Aside>>

OpenMenu(i) ==
  /\ AtRest
  /\ selected' = i /\ ctxMenu' = i
  /\ UNCHANGED <<Document, edits, selectedIds, Wiring, Aside>>

ConnectFromHere ==
  /\ ctxMenu \in NodesOf(drawing)
  /\ connectMode' = TRUE /\ connectFirst' = ctxMenu /\ ctxMenu' = NoId
  /\ UNCHANGED <<Document, edits, Selection, Aside>>

-----------------------------------------------------------------------------
\* Whole drawings.

LoadTemplate ==
  /\ AtRest
  /\ \E d \in Built : Record(d)
  /\ selected' = NoId /\ selectedIds' = {} /\ ctxMenu' = NoId
  /\ UNCHANGED <<Wiring, Aside>>

\* A variant that clears without recording what was there.
ClearCanvas_Unrecorded ==
  /\ AtRest
  /\ Amend(Empty)
  /\ selected' = NoId /\ connectFirst' = NoId /\ ctxMenu' = NoId
  /\ UNCHANGED <<selectedIds, connectMode, Aside>>

ClearCanvas ==
  /\ AtRest
  /\ Record(Empty)
  /\ selected' = NoId /\ connectFirst' = NoId /\ ctxMenu' = NoId
  /\ UNCHANGED <<selectedIds, connectMode, Aside>>

SaveTopo ==
  /\ AtRest /\ Counted
  /\ savedList' = savedList \union {drawing}
  /\ ctxMenu' = NoId
  /\ UNCHANGED <<Document, Selection, Wiring, clipboard, captured, careful>>

\* A draft replaces the drawing, and nothing is pushed.
LoadTopo(d) ==
  /\ AtRest
  /\ Amend(d)
  /\ selected' = NoId /\ connectFirst' = NoId /\ ctxMenu' = NoId
  /\ UNCHANGED <<selectedIds, connectMode, Aside>>

DeleteSaved(d) ==
  /\ AtRest
  /\ savedList' = savedList \ {d}
  /\ ctxMenu' = NoId
  /\ UNCHANGED <<Document, edits, Selection, Wiring, clipboard, captured, careful>>

\* importLive keeps the drawing it was started on across its await.
ImportStart ==
  /\ AtRest /\ captured = NoDrawing
  /\ Counted
  /\ captured' = drawing
  /\ ctxMenu' = NoId
  /\ UNCHANGED <<Document, Selection, Wiring, clipboard, savedList, careful>>

ImportArrives ==
  /\ captured # NoDrawing
  /\ Counted
  /\ Push(captured)
  /\ drawing' \in Built
  /\ captured' = NoDrawing
  /\ UNCHANGED <<Selection, Wiring, ctxMenu, clipboard, savedList, careful>>

ImportFails ==
  /\ captured # NoDrawing
  /\ captured' = NoDrawing
  /\ UNCHANGED <<Document, edits, Selection, Wiring, ctxMenu, clipboard, savedList, careful>>

-----------------------------------------------------------------------------
Next ==
  \/ Undo \/ Redo
  \/ DeleteSelection \/ DeleteSelected \/ SelectAll \/ CopySel \/ PasteSel
  \/ Escape \/ CanvasMouse \/ Deselect
  \/ SelectTool \/ ConnectTool
  \/ \E i \in NodesOf(drawing) :
       PickNode(i) \/ ConnectClick(i) \/ DuplicateNode(i) \/ EditInPlace(i) \/ OpenMenu(i)
  \/ \E e \in drawing.edges : DeleteEdge(e) \/ \E t \in EdgeTypes : SetEdgeType(e, t)
  \/ \E ids \in SUBSET NodesOf(drawing) : Arrange(ids)
  \/ AddNode \/ ConnectFromHere \/ LoadTemplate \/ ClearCanvas
  \/ SaveTopo \/ \E d \in savedList : LoadTopo(d) \/ DeleteSaved(d)
  \/ ImportStart \/ ImportArrives \/ ImportFails

Spec == Init /\ [][Next]_vars

-----------------------------------------------------------------------------
\* The types of the variables.
TypeOK ==
  /\ drawing \in Drawing
  /\ selected \in Ids \union {NoId} /\ selectedIds \in SUBSET Ids
  /\ connectMode \in BOOLEAN /\ connectFirst \in Ids \union {NoId}
  /\ ctxMenu \in Ids \union {NoId}
  /\ history \in Seq(Drawing) /\ future \in Seq(Drawing)
  /\ clipboard \in Drawing /\ savedList \in SUBSET Drawing
  /\ captured \in Drawing \union {NoDrawing}
  /\ careful \in BOOLEAN /\ edits \in Nat

\* Redo does not cap the history, only a push does; even so the two stacks
\* together never hold more than MaxHistory drawings.
HistoryBounded == Len(history) + Len(future) <= MaxHistory

\* Every wire joins two nodes of its drawing, in every drawing that can be
\* shown, as long as the user ends a wire before deleting or replacing nodes:
\* onNodeMD connects connectFirst without looking whether it still exists.
WiresJoinNodes == careful => \A d \in Reachable : WellWired(d)

\* No drawing has a wire from a node to itself or two wires between two nodes,
\* whatever was pasted, undone or loaded in between.
WiresAreSimple == careful => \A d \in Reachable : Simple(d)

\* The menu's Delete removes the selected node and not the menu's: for a user
\* who leaves the keyboard alone while a menu is open they are the same.
MenuIsAboutSelected == careful /\ ctxMenu # NoId => selected = ctxMenu

\* All of the above: with it a step of any tool leads to a drawing, a history,
\* drafts and a menu that the next tool can work on.
Sound ==
  TypeOK /\ HistoryBounded /\ WiresJoinNodes /\ WiresAreSimple /\ MenuIsAboutSelected

\* A step that takes a node or a wire off the canvas leaves the drawing it
\* changed where undo or redo finds it, loading a draft excepted.
RemovedCanComeBack ==
  [][ careful /\ ~(NodesOf(drawing) \subseteq NodesOf(drawing')
                   /\ Cardinality(drawing.edges) <= Cardinality(drawing'.edges))
        => \/ drawing \in Kept'
           \/ drawing' \in savedList /\ history' = history ]_vars

\* Undo and redo move along one line of versions: the stacks are what lies
\* behind and ahead of the drawing shown.
Line == INSTANCE Timeline
  WITH Version <- Drawing, Depth <- MaxHistory,
       line <- history \o <<drawing>> \o future, pos <- Len(history) + 1

OneLine == Line!Spec
=============================================================================
