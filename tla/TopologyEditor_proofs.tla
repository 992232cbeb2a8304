----------------------- MODULE TopologyEditor_proofs -----------------------
(***************************************************************************)
(* What the drawing editor promises, for any identifiers, notes, drafts    *)
(* and length of the history: Sound, RemovedCanComeBack, and that the two  *)
(* stacks implement the line of versions of Timeline.                      *)
(***************************************************************************)
EXTENDS TopologyEditor, SequenceTheorems, FiniteSetTheorems, TLAPS

-----------------------------------------------------------------------------
(* Drawings.                                                               *)

\* Nodes with a note each and wires make a drawing.
LEMMA DrawingMade ==
  ASSUME NEW S \in SUBSET Ids, NEW f \in [S -> Notes], NEW E \in SUBSET Edge
  PROVE  [nodes |-> f, edges |-> E] \in Drawing
BY DEF Drawing

\* What a drawing consists of.
LEMMA DrawingParts ==
  ASSUME NEW d \in Drawing
  PROVE  /\ NodesOf(d) \in SUBSET Ids
         /\ d.nodes \in [NodesOf(d) -> Notes]
         /\ d.edges \in SUBSET Edge
         /\ d = [nodes |-> d.nodes, edges |-> d.edges]
<1>1. PICK S \in SUBSET Ids : d.nodes \in [S -> Notes]
  BY DEF Drawing
<1>2. NodesOf(d) = S
  BY <1>1 DEF NodesOf
<1>. QED  BY <1>1, <1>2 DEF Drawing

\* The nodes and wires that a drawing is made of are its nodes and wires.
LEMMA PartsOfMade ==
  ASSUME NEW S, NEW f(_), NEW E
  PROVE  /\ NodesOf([nodes |-> [i \in S |-> f(i)], edges |-> E]) = S
         /\ [nodes |-> [i \in S |-> f(i)], edges |-> E].edges = E
BY DEF NodesOf

\* A drawing in order: every wire joins two of its nodes, no two wires the same.
Orderly(d) == WellWired(d) /\ Simple(d)

\* The empty canvas is one.
LEMMA EmptyDrawing == Empty \in Drawing /\ Orderly(Empty) /\ NodesOf(Empty) = {}
<1>1. [i \in {} |-> NoId] \in [{} -> Notes]
  OBVIOUS
<1>. QED  BY <1>1, DrawingMade DEF Empty, Orderly, WellWired, Simple, NodesOf

\* Removing nodes takes their wires along.
LEMMA WithoutDrawing ==
  ASSUME NEW d \in Drawing, NEW gone
  PROVE  /\ Without(d, gone) \in Drawing
         /\ Orderly(d) => Orderly(Without(d, gone))
         /\ NodesOf(Without(d, gone)) = NodesOf(d) \ gone
<1>1. /\ NodesOf(Without(d, gone)) = NodesOf(d) \ gone
      /\ Without(d, gone).edges =
           {e \in d.edges : e.source \notin gone /\ e.target \notin gone}
  BY DEF Without, NodesOf
<1>2. Without(d, gone) \in Drawing
  <2>1. [i \in NodesOf(d) \ gone |-> d.nodes[i]] \in [NodesOf(d) \ gone -> Notes]
    BY DrawingParts
  <2>. QED  BY <2>1, DrawingParts, DrawingMade DEF Without
<1>3. Orderly(d) => Orderly(Without(d, gone))
  BY <1>1 DEF Orderly, WellWired, Simple
<1>. QED  BY <1>1, <1>2, <1>3

\* A part of a drawing has the wires among its nodes.
LEMMA PartDrawing ==
  ASSUME NEW d \in Drawing, NEW ids
  PROVE  /\ Part(d, ids) \in Drawing
         /\ Orderly(d) => Orderly(Part(d, ids))
<1>1. /\ NodesOf(Part(d, ids)) = NodesOf(d) \intersect ids
      /\ Part(d, ids).edges = {e \in d.edges : e.source \in ids /\ e.target \in ids}
  BY DEF Part, NodesOf
<1>2. Part(d, ids) \in Drawing
  <2>1. [i \in NodesOf(d) \intersect ids |-> d.nodes[i]]
          \in [NodesOf(d) \intersect ids -> Notes]
    BY DrawingParts
  <2>. QED  BY <2>1, DrawingParts, DrawingMade DEF Part
<1>3. Orderly(d) => Orderly(Part(d, ids))
  BY <1>1 DEF Orderly, WellWired, Simple
<1>. QED  BY <1>2, <1>3

\* Giving nodes a note, those of the drawing or new ones, leaves its wires.
LEMMA WithDrawing ==
  ASSUME NEW d \in Drawing, NEW ids \in SUBSET Ids, NEW note \in Notes
  PROVE  /\ With(d, ids, note) \in Drawing
         /\ Orderly(d) => Orderly(With(d, ids, note))
         /\ NodesOf(With(d, ids, note)) = NodesOf(d) \union ids
         /\ With(d, ids, note).edges = d.edges
<1>. DEFINE f == [i \in NodesOf(d) \union ids |-> IF i \in ids THEN note ELSE d.nodes[i]]
<1>1. With(d, ids, note) = [nodes |-> f, edges |-> d.edges]
  BY DrawingParts DEF With
<1>2. f \in [NodesOf(d) \union ids -> Notes]
  BY DrawingParts
<1>3. NodesOf(With(d, ids, note)) = NodesOf(d) \union ids /\ With(d, ids, note).edges = d.edges
  BY <1>1 DEF NodesOf
<1>4. With(d, ids, note) \in Drawing
  BY <1>1, <1>2, DrawingParts, DrawingMade
<1>. QED  BY <1>3, <1>4 DEF Orderly, WellWired, Simple

\* Editing a node in place.
LEMMA EditedDrawing ==
  ASSUME NEW d \in Drawing, NEW i \in NodesOf(d), NEW note \in Notes
  PROVE  /\ [d EXCEPT !.nodes[i] = note] \in Drawing
         /\ NodesOf([d EXCEPT !.nodes[i] = note]) = NodesOf(d)
         /\ [d EXCEPT !.nodes[i] = note].edges = d.edges
<1>1. [d EXCEPT !.nodes[i] = note] = [nodes |-> [d.nodes EXCEPT ![i] = note], edges |-> d.edges]
  BY DrawingParts
<1>2. [d.nodes EXCEPT ![i] = note] \in [NodesOf(d) -> Notes]
  BY DrawingParts
<1>. QED  BY <1>1, <1>2, DrawingParts, DrawingMade DEF NodesOf

\* Other wires.
LEMMA RewiredDrawing ==
  ASSUME NEW d \in Drawing, NEW E \in SUBSET Edge
  PROVE  /\ [d EXCEPT !.edges = E] \in Drawing
         /\ NodesOf([d EXCEPT !.edges = E]) = NodesOf(d)
         /\ [d EXCEPT !.edges = E].edges = E
<1>1. [d EXCEPT !.edges = E] = [nodes |-> d.nodes, edges |-> E]
  BY DrawingParts
<1>. QED  BY <1>1, DrawingParts, DrawingMade DEF NodesOf

\* A copy under new identifiers, no two nodes under the same, keeps the shape.
LEMMA RenamedDrawing ==
  ASSUME NEW d \in Drawing, NEW copy \in [NodesOf(d) -> Ids],
         \A i, j \in NodesOf(d) : copy[i] = copy[j] => i = j
  PROVE  /\ Renamed(d, copy) \in Drawing
         /\ Orderly(d) => Orderly(Renamed(d, copy))
         /\ NodesOf(Renamed(d, copy)) = {copy[i] : i \in NodesOf(d)}
<1>. DEFINE To(i) == IF i \in DOMAIN copy THEN copy[i] ELSE NoId
            new == {copy[i] : i \in NodesOf(d)}
            back(j) == CHOOSE i \in NodesOf(d) : copy[i] = j
            f == [j \in new |-> d.nodes[back(j)]]
            Moved(e) == [source |-> To(e.source), target |-> To(e.target), type |-> e.type]
            E == {Moved(e) : e \in d.edges}
<1>1. Renamed(d, copy) = [nodes |-> f, edges |-> E]
  BY DEF Renamed
<1>2. f \in [new -> Notes]
  <2>1. ASSUME NEW j \in new PROVE d.nodes[back(j)] \in Notes
    BY DrawingParts
  <2>. QED  BY <2>1
<1>3. \A e \in d.edges : To(e.source) \in Ids \union {NoId} /\ To(e.target) \in Ids \union {NoId}
  OBVIOUS
<1>4. E \in SUBSET Edge
  BY <1>3, DrawingParts DEF Edge
<1>5. NodesOf(Renamed(d, copy)) = new /\ Renamed(d, copy).edges = E
  BY <1>1 DEF NodesOf
<1>6. Renamed(d, copy) \in Drawing
  <2>1. new \in SUBSET Ids
    OBVIOUS
  <2>. HIDE DEF f, E, new
  <2>. QED  BY <1>1, <1>2, <1>4, <2>1, DrawingMade
<1>7. ASSUME Orderly(d) PROVE Orderly(Renamed(d, copy))
  <2>1. ASSUME NEW e \in d.edges
        PROVE  /\ e.source \in NodesOf(d) /\ e.target \in NodesOf(d)
               /\ To(e.source) = copy[e.source] /\ To(e.target) = copy[e.target]
    BY <1>7 DEF Orderly, WellWired
  <2>2. WellWired(Renamed(d, copy))
    BY <1>3, <1>5, <2>1 DEF WellWired
  <2>3. ASSUME NEW e \in d.edges, NEW g \in d.edges,
               {copy[e.source], copy[e.target]} = {copy[g.source], copy[g.target]}
        PROVE  e = g
    <3>1. {e.source, e.target} = {g.source, g.target}
      BY <2>1, <2>3
    <3>. QED  BY <3>1, <1>7 DEF Orderly, Simple
  <2>4. ASSUME NEW e \in d.edges PROVE copy[e.source] # copy[e.target]
    BY <2>1, <1>7 DEF Orderly, Simple
  <2>5. Simple(Renamed(d, copy))
    BY <1>3, <1>5, <2>1, <2>3, <2>4 DEF Simple
  <2>. QED  BY <2>2, <2>5 DEF Orderly
<1>. QED  BY <1>5, <1>6, <1>7

\* Two drawings without a common node, side by side.
LEMMA UnionDrawing ==
  ASSUME NEW d \in Drawing, NEW e \in Drawing
  PROVE  /\ Union(d, e) \in Drawing
         /\ Orderly(d) /\ Orderly(e) /\ NodesOf(d) \intersect NodesOf(e) = {}
              => Orderly(Union(d, e))
         /\ NodesOf(Union(d, e)) = NodesOf(d) \union NodesOf(e)
         /\ Union(d, e).edges = d.edges \union e.edges
<1>. DEFINE S == NodesOf(d) \union NodesOf(e)
            f == [i \in S |-> IF i \in NodesOf(e) THEN e.nodes[i] ELSE d.nodes[i]]
<1>1. Union(d, e) = [nodes |-> f, edges |-> d.edges \union e.edges]
  BY DEF Union
<1>2. f \in [S -> Notes]
  BY DrawingParts
<1>3. NodesOf(Union(d, e)) = S /\ Union(d, e).edges = d.edges \union e.edges
  BY <1>1 DEF NodesOf
<1>4. Union(d, e) \in Drawing
  BY <1>1, <1>2, DrawingParts, DrawingMade
<1>5. ASSUME Orderly(d), Orderly(e), NodesOf(d) \intersect NodesOf(e) = {}
      PROVE  Orderly(Union(d, e))
  BY <1>3, <1>5 DEF Orderly, WellWired, Simple
<1>. QED  BY <1>3, <1>4, <1>5

\* What templates and imports build.
LEMMA BuiltDrawing ==
  ASSUME NEW d \in Built PROVE d \in Drawing /\ Orderly(d)
<1>1. PICK a \in Fresh, b \in Fresh :
        d = [nodes |-> [i \in {a, b} |-> Default],
             edges |-> IF a = b THEN {} ELSE {[source |-> a, target |-> b, type |-> "link"]}]
  BY DEF Built
<1>2. a \in Ids /\ b \in Ids
  BY DEF Fresh
<1>3. d.edges \in SUBSET Edge
  BY <1>1, <1>2, EditorAssumption DEF Edge
<1>4. [i \in {a, b} |-> Default] \in [{a, b} -> Notes]
  BY EditorAssumption
<1>5. d \in Drawing
  BY <1>1, <1>2, <1>3, <1>4, DrawingMade
<1>6. NodesOf(d) = {a, b}
  BY <1>1 DEF NodesOf
<1>7. Orderly(d)
  BY <1>1, <1>6 DEF Orderly, WellWired, Simple
<1>. QED  BY <1>5, <1>7

\* A drawing has finitely many wires.
LEMMA WiresFinite ==
  ASSUME NEW d \in Drawing PROVE IsFiniteSet(d.edges) /\ Cardinality(d.edges) \in Nat
<1>. DEFINE End == Ids \union {NoId}
            Ends == (End \X End) \X EdgeTypes
            f == [x \in Ends |-> [source |-> x[1][1], target |-> x[1][2], type |-> x[2]]]
<1>1. IsFiniteSet(Ends)
  <2>1. IsFiniteSet(End)
    BY EditorAssumption, FS_Singleton, FS_Union
  <2>2. IsFiniteSet(End \X End)
    BY <2>1, FS_Product
  <2>. QED  BY <2>2, EditorAssumption, FS_Product
<1>2. f \in Surjection(Ends, Edge)
  <2>1. f \in [Ends -> Edge]
    BY DEF Edge
  <2>2. ASSUME NEW e \in Edge PROVE \E x \in Ends : f[x] = e
    <3>1. <<<<e.source, e.target>>, e.type>> \in Ends /\ f[<<<<e.source, e.target>>, e.type>>] = e
      BY DEF Edge
    <3>. QED  BY <3>1
  <2>. QED  BY <2>1, <2>2 DEF Surjection
<1>3. IsFiniteSet(Edge)
  BY <1>1, <1>2, FS_Surjection
<1>. QED  BY <1>3, DrawingParts, FS_Subset, FS_CardinalityType

\* The only element of a set of identifiers, if it has just one.
LEMMA OnlyOne ==
  ASSUME NEW ids \in SUBSET Ids PROVE Only(ids) \in Ids \union {NoId}
<1>1. CASE Cardinality(ids) = 1
  <2>1. IsFiniteSet(ids)
    BY EditorAssumption, FS_Subset
  <2>. QED  BY <1>1, <2>1, FS_Singleton DEF Only
<1>2. CASE Cardinality(ids) # 1
  BY <1>2 DEF Only
<1>. QED  BY <1>1, <1>2

-----------------------------------------------------------------------------
(* The two stacks.                                                         *)

\* The latest n elements of a sequence.
LEMMA LatestElements ==
  ASSUME NEW S, NEW s \in Seq(S), NEW n \in Nat
  PROVE  /\ Latest(s, n) \in Seq(S)
         /\ Len(Latest(s, n)) <= n /\ Len(Latest(s, n)) <= Len(s)
         /\ \A k \in 1 .. Len(Latest(s, n)) :
              \E m \in 1 .. Len(s) : Latest(s, n)[k] = s[m]
<1>1. CASE Len(s) <= n
  BY <1>1 DEF Latest
<1>2. CASE Len(s) > n
  <2>. DEFINE b == Len(s) - n + 1
  <2>1. /\ Len(s) \in Nat /\ b \in 1 .. Len(s) + 1 /\ ~(Len(s) <= n)
    BY <1>2
  <2>2. \A i \in b .. Len(s) : s[i] \in S
    BY <2>1
  <2>3. /\ SubSeq(s, b, Len(s)) \in Seq(S)
        /\ Len(SubSeq(s, b, Len(s))) = n
        /\ \A i \in 1 .. n : SubSeq(s, b, Len(s))[i] = s[b + i - 1]
    BY <2>1, <2>2, SubSeqProperties
  <2>4. Latest(s, n) = SubSeq(s, b, Len(s))
    BY <2>1 DEF Latest
  <2>5. \A i \in 1 .. n : b + i - 1 \in 1 .. Len(s)
    BY <2>1
  <2>. HIDE DEF b
  <2>. QED  BY <1>2, <2>1, <2>3, <2>4, <2>5
<1>. QED  BY <1>1, <1>2

\* The stacks of the editor, and what is on them.
Stacks == history \in Seq(Drawing) /\ future \in Seq(Drawing) /\ HistoryBounded

\* What is on a stack is a drawing.
LEMMA KeptDrawings == ASSUME Stacks PROVE Kept \subseteq Drawing
BY DEF Stacks, Kept

\* A push keeps the drawing pushed, and forgets others but makes none up.
LEMMA PushStep ==
  ASSUME Stacks, NEW d \in Drawing, Push(d)
  PROVE  Stacks' /\ d \in Kept' /\ Kept' \subseteq Kept \union {d}
<1>. DEFINE s == Latest(history, MaxHistory - 1)
<1>1. /\ s \in Seq(Drawing) /\ Len(s) <= MaxHistory - 1
      /\ \A k \in 1 .. Len(s) : \E m \in 1 .. Len(history) : s[k] = history[m]
  BY LatestElements, EditorAssumption DEF Stacks
<1>2. history' = Append(s, d) /\ future' = <<>>
  BY DEF Push
<1>. HIDE DEF s
<1>3. /\ history' \in Seq(Drawing) /\ Len(history') = Len(s) + 1
      /\ \A k \in 1 .. Len(s) : history'[k] = s[k]
      /\ history'[Len(s) + 1] = d
  BY <1>1, <1>2, AppendProperties
<1>4. Stacks'
  BY <1>1, <1>2, <1>3, EditorAssumption DEF Stacks, HistoryBounded
<1>5. DOMAIN history' = 1 .. Len(s) + 1 /\ DOMAIN future' = {}
  BY <1>2, <1>3
<1>6. d \in Kept'
  BY <1>1, <1>3, <1>5 DEF Kept
<1>7. \A k \in 1 .. Len(s) + 1 : history'[k] \in {history[m] : m \in DOMAIN history} \union {d}
  BY <1>1, <1>3 DEF Stacks
<1>. QED  BY <1>4, <1>5, <1>6, <1>7 DEF Kept

\* Undo shows a drawing it finds on the stacks and keeps the one it leaves.
LEMMA UndoStep ==
  ASSUME Stacks, drawing \in Drawing, Undo
  PROVE  /\ Stacks' /\ drawing' \in Kept /\ drawing \in Kept'
         /\ Kept' \subseteq Kept \union {drawing}
<1>. DEFINE n == Len(history)
<1>1. n \in Nat \ {0} /\ \A k \in 1 .. n : history[k] \in Drawing
  BY DEF Stacks, Undo
<1>2. /\ history' \in Seq(Drawing) /\ Len(history') = n - 1
      /\ \A k \in 1 .. n - 1 : history'[k] = history[k]
  <2>1. 1 \in Int /\ n - 1 \in Int /\ \A k \in 1 .. n - 1 : history[k] \in Drawing
    BY <1>1
  <2>2. history' = SubSeq(history, 1, n - 1)
    BY DEF Undo
  <2>. HIDE DEF n
  <2>3. /\ SubSeq(history, 1, n - 1) \in Seq(Drawing)
        /\ Len(SubSeq(history, 1, n - 1)) = IF 1 <= n - 1 THEN n - 1 - 1 + 1 ELSE 0
        /\ \A k \in 1 .. n - 1 - 1 + 1 : SubSeq(history, 1, n - 1)[k] = history[1 + k - 1]
    BY <2>1, SubSeqProperties
  <2>. QED  BY <1>1, <2>2, <2>3
<1>3. future' = <<drawing>> \o future
  BY DEF Undo
<1>4. /\ future' \in Seq(Drawing) /\ Len(future') = 1 + Len(future)
      /\ future'[1] = drawing
      /\ \A k \in 2 .. 1 + Len(future) : future'[k] = future[k - 1]
  <2>1. <<drawing>> \in Seq(Drawing) /\ Len(<<drawing>>) = 1
    OBVIOUS
  <2>. QED  BY <1>3, <2>1, ConcatProperties DEF Stacks
<1>5. Stacks'
  BY <1>1, <1>2, <1>4 DEF Stacks, HistoryBounded
<1>6. drawing' \in Kept
  BY <1>1 DEF Undo, Kept, Stacks
<1>7. drawing \in Kept'
  BY <1>4 DEF Kept, Stacks
<1>8. \A k \in DOMAIN history' : history'[k] \in Kept
  BY <1>1, <1>2 DEF Kept, Stacks
<1>9. \A k \in DOMAIN future' : future'[k] \in Kept \union {drawing}
  <2>1. SUFFICES ASSUME NEW k \in 2 .. 1 + Len(future) PROVE future[k - 1] \in Kept
    BY <1>4
  <2>. QED  BY <2>1 DEF Kept, Stacks
<1>. QED  BY <1>5, <1>6, <1>7, <1>8, <1>9 DEF Kept

\* So does redo.
LEMMA RedoStep ==
  ASSUME Stacks, drawing \in Drawing, Redo
  PROVE  /\ Stacks' /\ drawing' \in Kept /\ drawing \in Kept'
         /\ Kept' \subseteq Kept \union {drawing}
<1>. DEFINE n == Len(history)
<1>1. /\ history' \in Seq(Drawing) /\ Len(history') = n + 1
      /\ \A k \in 1 .. n : history'[k] = history[k]
      /\ history'[n + 1] = drawing
  BY AppendProperties DEF Redo, Stacks
<1>2. /\ future' \in Seq(Drawing) /\ Len(future') = Len(future) - 1
      /\ \A k \in 1 .. Len(future) - 1 : future'[k] = future[k + 1]
  BY HeadTailProperties DEF Redo, Stacks
<1>3. Stacks'
  BY <1>1, <1>2 DEF Stacks, HistoryBounded
<1>4. drawing' \in Kept
  <2>1. future # <<>> /\ Len(future) \in Nat \ {0} /\ drawing' = future[1]
    BY DEF Redo, Stacks
  <2>. QED  BY <2>1 DEF Kept, Stacks
<1>5. drawing \in Kept'
  BY <1>1 DEF Kept, Stacks
<1>6. \A k \in DOMAIN history' : history'[k] \in Kept \union {drawing}
  BY <1>1 DEF Kept, Stacks
<1>7. \A k \in DOMAIN future' : future'[k] \in Kept
  <2>1. SUFFICES ASSUME NEW k \in 1 .. Len(future) - 1 PROVE future[k + 1] \in Kept
    BY <1>2
  <2>. QED  BY <2>1 DEF Kept, Stacks
<1>. QED  BY <1>3, <1>4, <1>5, <1>6, <1>7 DEF Kept

-----------------------------------------------------------------------------
(* What a step does to the document.                                       *)

\* A change of one node in place.
InPlace ==
  \E i \in NodesOf(drawing), note \in Notes : drawing' = [drawing EXCEPT !.nodes[i] = note]

\* A step leaves the stacks alone, and then shows the same drawing, the same with
\* one node changed, or a draft; or it pushes the drawing shown or the one that an
\* import was started on; or it is an undo or a redo.
LEMMA StackStep ==
  ASSUME [Next]_vars
  PROVE  \/ /\ UNCHANGED <<history, future>>
            /\ drawing' = drawing \/ InPlace \/ drawing' \in savedList
         \/ Push(drawing)
         \/ captured # NoDrawing /\ Push(captured)
         \/ Undo
         \/ Redo
<1>1. CASE UNCHANGED vars
  BY <1>1 DEF vars
<1>2. CASE \/ DeleteSelection \/ DeleteSelected \/ PasteSel \/ AddNode \/ LoadTemplate \/ ClearCanvas
  BY <1>2 DEF DeleteSelection, DeleteSelected, PasteSel, AddNode, LoadTemplate, ClearCanvas, Record
<1>3. CASE SelectAll \/ CopySel \/ Escape \/ CanvasMouse \/ Deselect \/ SelectTool \/ ConnectTool
  BY <1>3 DEF SelectAll, CopySel, Escape, CanvasMouse, Deselect, SelectTool, ConnectTool, Document
<1>4. ASSUME NEW i \in NodesOf(drawing),
             PickNode(i) \/ ConnectClick(i) \/ DuplicateNode(i) \/ OpenMenu(i)
      PROVE  UNCHANGED Document \/ Push(drawing)
  BY <1>4 DEF PickNode, ConnectClick, DuplicateNode, OpenMenu, Record, Document
<1>5. ASSUME NEW i \in NodesOf(drawing), EditInPlace(i)
      PROVE  UNCHANGED <<history, future>> /\ InPlace
  BY <1>5 DEF EditInPlace, Amend, InPlace
<1>6. ASSUME NEW e \in drawing.edges, DeleteEdge(e) \/ \E t \in EdgeTypes : SetEdgeType(e, t)
      PROVE  Push(drawing)
  BY <1>6 DEF DeleteEdge, SetEdgeType, Record
<1>7. ASSUME NEW ids \in SUBSET NodesOf(drawing), Arrange(ids) PROVE Push(drawing)
  BY <1>7 DEF Arrange, Record
<1>8. CASE \/ ConnectFromHere \/ SaveTopo \/ ImportStart \/ ImportFails
           \/ \E d \in savedList : DeleteSaved(d)
  BY <1>8 DEF ConnectFromHere, SaveTopo, ImportStart, ImportFails, DeleteSaved, Document
<1>9. ASSUME NEW d \in savedList, LoadTopo(d)
      PROVE  UNCHANGED <<history, future>> /\ drawing' \in savedList
  BY <1>9 DEF LoadTopo, Amend
<1>10. CASE ImportArrives
  BY <1>10 DEF ImportArrives
<1>. QED
  BY <1>1, <1>2, <1>3, <1>4, <1>5, <1>6, <1>7, <1>8, <1>9, <1>10 DEF Next, Document

\* What the wire begun and the import started refer to is what is shown, for a
\* user who ends a gesture before the next.
WireBegun == careful => connectFirst \in NodesOf(drawing) \union {NoId}
ImportAlone ==
  careful /\ captured # NoDrawing =>
    connectFirst = NoId /\ ctxMenu = NoId /\ drawing = captured

\* The invariant that a step preserves.
EditorInv == Sound /\ WireBegun /\ ImportAlone

\* Under it the stacks are stacks, and what can be shown is in order.
LEMMA EditorInvFacts ==
  ASSUME EditorInv
  PROVE  /\ Stacks
         /\ \A d \in Reachable : d \in Drawing
         /\ careful => \A d \in Reachable : Orderly(d)
<1>1. Stacks
  BY DEF EditorInv, Sound, TypeOK, Stacks
<1>2. Reachable \subseteq Drawing
  BY <1>1, KeptDrawings DEF EditorInv, Sound, TypeOK, Reachable
<1>. QED  BY <1>1, <1>2 DEF EditorInv, Sound, WiresJoinNodes, WiresAreSimple, Orderly

\* The stacks after a step, and what comes onto them.
LEMMA StacksKept ==
  ASSUME EditorInv, [Next]_vars
  PROVE  Stacks' /\ Kept' \subseteq Reachable
<1>1. Stacks /\ drawing \in Drawing
  BY EditorInvFacts DEF EditorInv, Sound, TypeOK
<1>2. CASE UNCHANGED <<history, future>>
  BY <1>1, <1>2 DEF Stacks, HistoryBounded, Kept, Reachable
<1>3. CASE Push(drawing)
  BY <1>1, <1>3, PushStep DEF Reachable
<1>4. CASE captured # NoDrawing /\ Push(captured)
  <2>1. captured \in Drawing
    BY <1>4 DEF EditorInv, Sound, TypeOK
  <2>. QED  BY <1>1, <1>4, <2>1, PushStep DEF Reachable
<1>5. CASE Undo \/ Redo
  BY <1>1, <1>5, UndoStep, RedoStep DEF Reachable
<1>. QED  BY <1>2, <1>3, <1>4, <1>5, StackStep

\* What a step shows is a drawing; of a careful user, one in order.
Presentable(d) == d \in Drawing /\ (careful => Orderly(d))

\* What can be shown is presentable.
LEMMA ReachablePresentable ==
  ASSUME EditorInv, NEW d \in Reachable PROVE Presentable(d)
BY EditorInvFacts DEF Presentable

\* A wire between two nodes that nothing joins yet.
LEMMA ConnectedDrawing ==
  ASSUME NEW d \in Drawing, NEW a \in Ids, NEW b \in NodesOf(d), a # b, ~Joined(d, a, b)
  PROVE  LET w == [source |-> a, target |-> b, type |-> "link"]
             e == [d EXCEPT !.edges = @ \union {w}]
         IN  /\ e \in Drawing /\ NodesOf(e) = NodesOf(d) /\ e.edges = d.edges \union {w}
             /\ Orderly(d) /\ a \in NodesOf(d) => Orderly(e)
<1>. DEFINE w == [source |-> a, target |-> b, type |-> "link"]
            e == [d EXCEPT !.edges = d.edges \union {w}]
<1>1. d.edges \union {w} \in SUBSET Edge
  BY DrawingParts, EditorAssumption DEF Edge
<1>2. e \in Drawing /\ NodesOf(e) = NodesOf(d) /\ e.edges = d.edges \union {w}
  BY <1>1, RewiredDrawing
<1>3. ASSUME Orderly(d), a \in NodesOf(d) PROVE Orderly(e)
  <2>. HIDE DEF e
  <2>1. WellWired(e)
    BY <1>2, <1>3 DEF Orderly, WellWired
  <2>2. \A g \in d.edges : {g.source, g.target} # {a, b}
    BY DEF Joined
  <2>3. Simple(e)
    BY <1>2, <1>3, <2>2 DEF Orderly, Simple
  <2>. QED  BY <2>1, <2>3 DEF Orderly
<1>. QED  BY <1>2, <1>3

\* A wire of another type, or without one of the wires.
LEMMA RetypedDrawing ==
  ASSUME NEW d \in Drawing, NEW w \in d.edges, NEW t \in EdgeTypes
  PROVE  LET e == [d EXCEPT !.edges = (@ \ {w}) \union {[w EXCEPT !.type = t]}]
         IN  e \in Drawing /\ NodesOf(e) = NodesOf(d) /\ (Orderly(d) => Orderly(e))
<1>. DEFINE v == [w EXCEPT !.type = t]
            e == [d EXCEPT !.edges = (d.edges \ {w}) \union {v}]
<1>1. w \in Edge /\ v \in Edge /\ v.source = w.source /\ v.target = w.target
  BY DrawingParts DEF Edge
<1>. HIDE DEF v
<1>2. (d.edges \ {w}) \union {v} \in SUBSET Edge
  BY <1>1, DrawingParts
<1>3. e \in Drawing /\ NodesOf(e) = NodesOf(d) /\ e.edges = (d.edges \ {w}) \union {v}
  BY <1>2, RewiredDrawing
<1>4. ASSUME Orderly(d) PROVE Orderly(e)
  <2>. HIDE DEF e
  <2>1. WellWired(e)
    BY <1>1, <1>3, <1>4 DEF Orderly, WellWired
  <2>2. \A g \in d.edges \ {w} : {g.source, g.target} # {w.source, w.target}
    BY <1>4 DEF Orderly, Simple
  <2>3. Simple(e)
    BY <1>1, <1>3, <1>4, <2>2 DEF Orderly, Simple
  <2>. QED  BY <2>1, <2>3 DEF Orderly
<1>. QED  BY <1>3, <1>4 DEF v

\* Without one of the wires.
LEMMA CutDrawing ==
  ASSUME NEW d \in Drawing, NEW w
  PROVE  LET e == [d EXCEPT !.edges = @ \ {w}]
         IN  e \in Drawing /\ NodesOf(e) = NodesOf(d) /\ (Orderly(d) => Orderly(e))
<1>. DEFINE e == [d EXCEPT !.edges = d.edges \ {w}]
<1>1. d.edges \ {w} \in SUBSET Edge
  BY DrawingParts
<1>2. e \in Drawing /\ NodesOf(e) = NodesOf(d) /\ e.edges = d.edges \ {w}
  BY <1>1, RewiredDrawing
<1>. HIDE DEF e
<1>3. Orderly(d) => Orderly(e)
  BY <1>2 DEF Orderly, WellWired, Simple
<1>. QED  BY <1>2, <1>3 DEF e

\* A fresh identifier is not a node of anything that can be shown.
LEMMA FreshIsNew ==
  ASSUME NEW i \in Fresh
  PROVE  i \in Ids /\ \A d \in Reachable : i \notin NodesOf(d)
BY DEF Fresh

\* A paste sets a copy of the clipboard beside the drawing.
LEMMA PastePresentable ==
  ASSUME EditorInv, NEW copy \in [NodesOf(clipboard) -> Fresh],
         Cardinality({copy[i] : i \in NodesOf(clipboard)}) = Cardinality(NodesOf(clipboard))
  PROVE  Presentable(Union(drawing, Renamed(clipboard, copy)))
<1>. DEFINE S == NodesOf(clipboard)
            new == {copy[i] : i \in S}
<1>1. /\ drawing \in Reachable /\ clipboard \in Reachable
      /\ Presentable(drawing) /\ Presentable(clipboard)
  BY ReachablePresentable DEF Reachable
<1>2. S \in SUBSET Ids /\ IsFiniteSet(S)
  BY <1>1, DrawingParts, EditorAssumption, FS_Subset DEF Presentable
<1>3. copy \in [S -> Ids]
  BY FreshIsNew
<1>4. copy \in Surjection(S, new)
  BY DEF Surjection
<1>5. copy \in Injection(S, new)
  <2>. HIDE DEF S, new
  <2>1. Cardinality(S) = Cardinality(new)
    BY DEF S, new
  <2>. QED  BY <1>2, <1>4, <2>1, FS_SurjSameCardinalityImpliesInj
<1>6. \A i, j \in S : copy[i] = copy[j] => i = j
  BY <1>5 DEF Injection, IsInjective
<1>7. /\ Renamed(clipboard, copy) \in Drawing
      /\ Orderly(clipboard) => Orderly(Renamed(clipboard, copy))
      /\ NodesOf(Renamed(clipboard, copy)) = new
  BY <1>1, <1>3, <1>6, RenamedDrawing DEF Presentable
<1>8. NodesOf(drawing) \intersect new = {}
  BY <1>1, FreshIsNew
<1>. QED  BY <1>1, <1>7, <1>8, UnionDrawing DEF Presentable

\* Whatever the step, what it shows is presentable.
LEMMA DrawingStep ==
  ASSUME EditorInv, [Next]_vars PROVE Presentable(drawing')
<1>0. /\ drawing \in Drawing /\ Presentable(drawing)
      /\ NodesOf(drawing) \in SUBSET Ids /\ drawing \in Reachable
      /\ connectFirst \in Ids \union {NoId} /\ WireBegun
      /\ Stacks
  BY ReachablePresentable, DrawingParts, EditorInvFacts DEF Reachable, Presentable, EditorInv, Sound, TypeOK
<1>1. CASE UNCHANGED vars
  BY <1>0, <1>1 DEF vars
<1>2. CASE Undo \/ Redo
  <2>1. drawing' \in Reachable
    BY <1>0, <1>2, UndoStep, RedoStep DEF Reachable
  <2>. QED  BY <2>1, ReachablePresentable
<1>3. CASE DeleteSelection \/ DeleteSelected
  <2>1. \E gone : drawing' = Without(drawing, gone)
    BY <1>3 DEF DeleteSelection, DeleteSelected, Record
  <2>. QED  BY <1>0, <2>1, WithoutDrawing DEF Presentable
<1>4. CASE PasteSel
  <2>1. PICK copy \in [NodesOf(clipboard) -> Fresh] :
          /\ Cardinality({copy[i] : i \in NodesOf(clipboard)}) = Cardinality(NodesOf(clipboard))
          /\ drawing' = Union(drawing, Renamed(clipboard, copy))
    BY <1>4 DEF PasteSel, Record
  <2>. QED  BY <2>1, PastePresentable
<1>5. CASE \/ SelectAll \/ CopySel \/ Escape \/ CanvasMouse \/ Deselect \/ SelectTool
           \/ ConnectTool \/ ConnectFromHere \/ SaveTopo \/ ImportStart \/ ImportFails
           \/ \E d \in savedList : DeleteSaved(d)
  <2>1. drawing' = drawing
    BY <1>5 DEF SelectAll, CopySel, Escape, CanvasMouse, Deselect, SelectTool, ConnectTool,
                ConnectFromHere, SaveTopo, ImportStart, ImportFails, DeleteSaved, Document
  <2>. QED  BY <1>0, <2>1
<1>6. ASSUME NEW i \in NodesOf(drawing), PickNode(i) \/ OpenMenu(i) PROVE Presentable(drawing')
  BY <1>0, <1>6 DEF PickNode, OpenMenu, Document
<1>7. ASSUME NEW i \in NodesOf(drawing), ConnectClick(i) PROVE Presentable(drawing')
  <2>1. CASE drawing' = drawing
    BY <1>0, <2>1
  <2>2. CASE drawing' # drawing
    <3>1. /\ connectFirst \notin {NoId, i} /\ ~Joined(drawing, connectFirst, i)
          /\ drawing' = [drawing EXCEPT !.edges = @ \union
                            {[source |-> connectFirst, target |-> i, type |-> "link"]}]
      BY <1>7, <2>2 DEF ConnectClick, Record, Document
    <3>2. careful => connectFirst \in NodesOf(drawing)
      BY <1>0, <3>1 DEF WireBegun
    <3>. QED  BY <1>0, <3>1, <3>2, ConnectedDrawing DEF Presentable
  <2>. QED  BY <2>1, <2>2
<1>8. ASSUME NEW i \in NodesOf(drawing), DuplicateNode(i) PROVE Presentable(drawing')
  <2>1. PICK j \in Fresh : drawing' = With(drawing, {j}, drawing.nodes[i])
    BY <1>8 DEF DuplicateNode, Record
  <2>2. {j} \in SUBSET Ids /\ drawing.nodes[i] \in Notes
    BY <1>0, FreshIsNew, DrawingParts
  <2>. QED  BY <1>0, <2>1, <2>2, WithDrawing DEF Presentable
<1>9. ASSUME NEW i \in NodesOf(drawing), EditInPlace(i) PROVE Presentable(drawing')
  <2>1. PICK note \in Notes : drawing' = [drawing EXCEPT !.nodes[i] = note]
    BY <1>9 DEF EditInPlace, Amend
  <2>. QED  BY <1>0, <2>1, EditedDrawing DEF Presentable, Orderly, WellWired, Simple
<1>10. ASSUME NEW e \in drawing.edges, DeleteEdge(e) \/ \E t \in EdgeTypes : SetEdgeType(e, t)
       PROVE  Presentable(drawing')
  <2>1. CASE DeleteEdge(e)
    <3>1. drawing' = [drawing EXCEPT !.edges = @ \ {e}]
      BY <2>1 DEF DeleteEdge, Record
    <3>. QED  BY <1>0, <3>1, CutDrawing DEF Presentable
  <2>2. ASSUME NEW t \in EdgeTypes, SetEdgeType(e, t) PROVE Presentable(drawing')
    <3>1. drawing' = [drawing EXCEPT !.edges = (@ \ {e}) \union {[e EXCEPT !.type = t]}]
      BY <2>2 DEF SetEdgeType, Record
    <3>. QED  BY <1>0, <3>1, RetypedDrawing DEF Presentable
  <2>. QED  BY <1>10, <2>1, <2>2
<1>11. ASSUME NEW ids \in SUBSET NodesOf(drawing), Arrange(ids) PROVE Presentable(drawing')
  <2>1. PICK note \in Notes : drawing' = With(drawing, ids, note)
    BY <1>11 DEF Arrange, Record
  <2>2. ids \in SUBSET Ids
    BY <1>0
  <2>. QED  BY <1>0, <2>1, <2>2, WithDrawing DEF Presentable
<1>12. CASE AddNode
  <2>1. PICK j \in Fresh : drawing' = With(drawing, {j}, Default)
    BY <1>12 DEF AddNode, Record
  <2>2. {j} \in SUBSET Ids
    BY FreshIsNew
  <2>. QED  BY <1>0, <2>1, <2>2, WithDrawing, EditorAssumption DEF Presentable
<1>13. CASE LoadTemplate \/ ImportArrives
  <2>1. drawing' \in Built
    BY <1>13 DEF LoadTemplate, ImportArrives, Record
  <2>. QED  BY <2>1, BuiltDrawing DEF Presentable
<1>14. CASE ClearCanvas
  BY <1>14, EmptyDrawing DEF ClearCanvas, Record, Presentable
<1>15. ASSUME NEW d \in savedList, LoadTopo(d) PROVE Presentable(drawing')
  <2>1. d \in Reachable /\ drawing' = d
    BY <1>15 DEF LoadTopo, Amend, Reachable
  <2>. QED  BY <2>1, ReachablePresentable
<1>. QED
  BY <1>1, <1>2, <1>3, <1>4, <1>5, <1>6, <1>7, <1>8, <1>9, <1>10, <1>11, <1>12, <1>13, <1>14, <1>15
  DEF Next

\* What a step does to what lies beside the document.
LEMMA AsideStep ==
  ASSUME EditorInv, [Next]_vars
  PROVE  /\ careful' = careful
         /\ Presentable(clipboard')
         /\ savedList' \subseteq savedList \union {drawing}
         /\ captured' \in {captured, drawing, NoDrawing}
<1>0. Presentable(drawing) /\ Presentable(clipboard)
  BY ReachablePresentable DEF Reachable
<1>1. CASE UNCHANGED vars
  BY <1>0, <1>1 DEF vars
<1>2. CASE UNCHANGED Aside
  BY <1>0, <1>2 DEF Aside
<1>3. CASE CopySel
  BY <1>0, <1>3, PartDrawing DEF CopySel, Presentable
<1>4. CASE SaveTopo \/ ImportStart \/ ImportArrives \/ ImportFails
           \/ \E d \in savedList : DeleteSaved(d)
  BY <1>0, <1>4 DEF SaveTopo, ImportStart, ImportArrives, ImportFails, DeleteSaved
<1>5. CASE \/ Undo \/ Redo \/ DeleteSelection \/ DeleteSelected \/ SelectAll \/ PasteSel
           \/ Escape \/ CanvasMouse \/ Deselect \/ SelectTool \/ ConnectTool
           \/ AddNode \/ ConnectFromHere \/ LoadTemplate \/ ClearCanvas
           \/ \E d \in savedList : LoadTopo(d)
  <2>1. UNCHANGED Aside
    BY <1>5 DEF Undo, Redo, DeleteSelection, DeleteSelected, SelectAll, PasteSel, Escape,
                CanvasMouse, Deselect, SelectTool, ConnectTool, AddNode, ConnectFromHere,
                LoadTemplate, ClearCanvas, LoadTopo
  <2>. QED  BY <1>2, <2>1
<1>6. ASSUME NEW i \in NodesOf(drawing),
             PickNode(i) \/ ConnectClick(i) \/ DuplicateNode(i) \/ EditInPlace(i) \/ OpenMenu(i)
      PROVE  UNCHANGED Aside
  BY <1>6 DEF PickNode, ConnectClick, DuplicateNode, EditInPlace, OpenMenu
<1>7. ASSUME NEW e \in drawing.edges, DeleteEdge(e) \/ \E t \in EdgeTypes : SetEdgeType(e, t)
      PROVE  UNCHANGED Aside
  BY <1>7 DEF DeleteEdge, SetEdgeType
<1>8. ASSUME NEW ids \in SUBSET NodesOf(drawing), Arrange(ids) PROVE UNCHANGED Aside
  BY <1>8 DEF Arrange
<1>. QED  BY <1>1, <1>2, <1>3, <1>4, <1>5, <1>6, <1>7, <1>8 DEF Next

-----------------------------------------------------------------------------
(* The selection, the wire begun, the menu and the running import.         *)

\* What refers to the document refers to a node, or to nothing.
Referring ==
  /\ selected \in Ids \union {NoId} /\ selectedIds \in SUBSET Ids
  /\ connectMode \in BOOLEAN /\ connectFirst \in Ids \union {NoId}
  /\ ctxMenu \in Ids \union {NoId}
  /\ edits \in Nat
  /\ WireBegun /\ ImportAlone /\ MenuIsAboutSelected

\* A step of a user at rest that begins no wire and opens no menu.
LEMMA AtRestStep ==
  ASSUME EditorInv, AtRest, careful' = careful, captured' \in {captured, NoDrawing},
         UNCHANGED connectFirst \/ connectFirst' = NoId,
         UNCHANGED ctxMenu \/ ctxMenu' = NoId
  PROVE  WireBegun' /\ ImportAlone' /\ MenuIsAboutSelected'
BY DEF EditorInv, Sound, AtRest, WireBegun, ImportAlone, MenuIsAboutSelected

\* Every step leaves them so.
LEMMA ReferringStep ==
  ASSUME EditorInv, [Next]_vars PROVE Referring'
<1>0. /\ Referring /\ NodesOf(drawing) \in SUBSET Ids /\ NoId \notin Ids
      /\ captured \in Drawing \union {NoDrawing} /\ NoDrawing \notin Drawing /\ drawing \in Drawing
  BY DrawingParts, EditorAssumption DEF EditorInv, Sound, TypeOK, Referring
<1>. USE DEF Referring, Counted
<1>1. CASE UNCHANGED vars
  BY <1>0, <1>1 DEF vars, WireBegun, ImportAlone, MenuIsAboutSelected
<1>2. CASE Undo \/ Redo
  BY <1>0, <1>2, AtRestStep DEF Undo, Redo, ByKeyOrClick, Selection, Wiring, Aside
<1>3. CASE DeleteSelection
  BY <1>0, <1>3, AtRestStep DEF DeleteSelection, Record, ByKeyOrClick, Wiring, Aside
<1>4. CASE DeleteSelected
  BY <1>0, <1>4 DEF DeleteSelected, Record, Wiring, Aside, WireBegun, ImportAlone, MenuIsAboutSelected
<1>5. CASE SelectAll
  BY <1>0, <1>5 DEF SelectAll, Document, Wiring, Aside,
                    AtRest, WireBegun, ImportAlone, MenuIsAboutSelected
<1>6. CASE CopySel
  BY <1>0, <1>6, AtRestStep DEF CopySel, Document, Selection, Wiring
<1>7. CASE PasteSel
  <2>1. PICK copy \in [NodesOf(clipboard) -> Fresh] :
          /\ selectedIds' = {copy[i] : i \in NodesOf(clipboard)}
          /\ selected' = Only({copy[i] : i \in NodesOf(clipboard)})
          /\ edits < MaxEdits /\ edits' = edits + 1
    BY <1>7 DEF PasteSel, Record
  <2>2. {copy[i] : i \in NodesOf(clipboard)} \in SUBSET Ids
    BY FreshIsNew
  <2>3. AtRest /\ UNCHANGED <<Wiring, ctxMenu, Aside>>
    BY <1>7 DEF PasteSel
  <2>. QED  BY <1>0, <2>1, <2>2, <2>3, AtRestStep, OnlyOne DEF Wiring, Aside
<1>8. CASE Escape
  BY <1>0, <1>8 DEF Escape, Document, Aside, WireBegun, ImportAlone, MenuIsAboutSelected
<1>9. CASE CanvasMouse
  <2>1. CASE ctxMenu # NoId
    BY <1>0, <1>9, <2>1 DEF CanvasMouse, Document, Selection, Wiring, Aside,
                            WireBegun, ImportAlone, MenuIsAboutSelected
  <2>2. CASE ctxMenu = NoId
    <3>1. PICK hit \in SUBSET NodesOf(drawing) : selectedIds' = hit /\ selected' = Only(hit)
      BY <1>9, <2>2 DEF CanvasMouse
    <3>2. hit \in SUBSET Ids
      BY <1>0
    <3>3. Only(hit) \in Ids \union {NoId}
      BY <3>2, OnlyOne
    <3>. QED  BY <1>0, <1>9, <2>2, <3>1, <3>2, <3>3
              DEF CanvasMouse, Document, Aside, WireBegun, ImportAlone, MenuIsAboutSelected
  <2>. QED  BY <2>1, <2>2
<1>10. CASE Deselect \/ ConnectTool
  BY <1>0, <1>10, AtRestStep DEF Deselect, ConnectTool, Document, Wiring, Aside
<1>11. CASE SelectTool
  BY <1>0, <1>11 DEF SelectTool, Document, Selection, Aside, WireBegun, ImportAlone, MenuIsAboutSelected
<1>12. ASSUME NEW i \in NodesOf(drawing), PickNode(i) PROVE Referring'
  BY <1>0, <1>12, AtRestStep DEF PickNode, Document, Wiring, Aside
<1>13. ASSUME NEW i \in NodesOf(drawing), ConnectClick(i) PROVE Referring'
  BY <1>0, <1>13 DEF ConnectClick, Document, Selection, Aside, Record,
                     WireBegun, ImportAlone, MenuIsAboutSelected
<1>14. ASSUME NEW i \in NodesOf(drawing), DuplicateNode(i) PROVE Referring'
  BY <1>0, <1>14 DEF DuplicateNode, Record, Selection, Wiring, Aside,
                     WireBegun, ImportAlone, MenuIsAboutSelected
<1>15. ASSUME NEW i \in NodesOf(drawing), EditInPlace(i) PROVE Referring'
  <2>1. PICK note \in Notes : drawing' = [drawing EXCEPT !.nodes[i] = note]
    BY <1>15 DEF EditInPlace, Amend
  <2>2. NodesOf(drawing') = NodesOf(drawing)
    BY <1>0, <2>1, EditedDrawing
  <2>3. careful => captured = NoDrawing
    BY <1>0, <1>15 DEF EditInPlace, AtRest, ImportAlone
  <2>. QED  BY <1>0, <1>15, <2>2, <2>3 DEF EditInPlace, Amend, Selection, Wiring, Aside,
                     WireBegun, ImportAlone, MenuIsAboutSelected
<1>16. ASSUME NEW i \in NodesOf(drawing), OpenMenu(i) PROVE Referring'
  BY <1>0, <1>16 DEF OpenMenu, Document, Wiring, Aside,
                     AtRest, WireBegun, ImportAlone, MenuIsAboutSelected
<1>17. ASSUME NEW e \in drawing.edges, DeleteEdge(e) \/ \E t \in EdgeTypes : SetEdgeType(e, t)
       PROVE  Referring'
  BY <1>0, <1>17, AtRestStep DEF DeleteEdge, SetEdgeType, Record, Selection, Wiring, Aside
<1>18. ASSUME NEW ids \in SUBSET NodesOf(drawing), Arrange(ids) PROVE Referring'
  BY <1>0, <1>18, AtRestStep DEF Arrange, Record, Selection, Wiring, Aside
<1>19. CASE AddNode \/ LoadTemplate \/ ClearCanvas
  <2>1. CASE AddNode
    BY <1>0, <2>1, AtRestStep DEF AddNode, Record, Selection, Wiring, Aside
  <2>2. CASE LoadTemplate
    BY <1>0, <2>2, AtRestStep DEF LoadTemplate, Record, Wiring, Aside
  <2>3. CASE ClearCanvas
    BY <1>0, <2>3, AtRestStep DEF ClearCanvas, Record, Aside
  <2>. QED  BY <1>19, <2>1, <2>2, <2>3
<1>20. CASE ConnectFromHere
  BY <1>0, <1>20 DEF ConnectFromHere, Document, Selection, Aside,
                     WireBegun, ImportAlone, MenuIsAboutSelected
<1>21. CASE SaveTopo
  BY <1>0, <1>21, AtRestStep DEF SaveTopo, Document, Selection, Wiring
<1>22. ASSUME NEW d \in savedList, LoadTopo(d) \/ DeleteSaved(d) PROVE Referring'
  BY <1>0, <1>22, AtRestStep DEF LoadTopo, DeleteSaved, Amend, Document, Selection, Wiring, Aside
<1>23. CASE ImportStart
  BY <1>0, <1>23 DEF ImportStart, Document, Selection, Wiring,
                     AtRest, WireBegun, ImportAlone, MenuIsAboutSelected
<1>24. CASE ImportArrives
  BY <1>0, <1>24 DEF ImportArrives, Selection, Wiring, WireBegun, ImportAlone, MenuIsAboutSelected
<1>25. CASE ImportFails
  BY <1>0, <1>25 DEF ImportFails, Document, Selection, Wiring, WireBegun, ImportAlone, MenuIsAboutSelected
<1>. QED
  BY <1>1, <1>2, <1>3, <1>4, <1>5, <1>6, <1>7, <1>8, <1>9, <1>10, <1>11, <1>12, <1>13, <1>14,
     <1>15, <1>16, <1>17, <1>18, <1>19, <1>20, <1>21, <1>22, <1>23, <1>24, <1>25
  DEF Next

-----------------------------------------------------------------------------
(* The theorems.                                                           *)

\* The editor's invariant, for any identifiers, notes and drafts.
LEMMA EditorInvInvariant == Spec => []EditorInv
<1>1. Init => EditorInv
  <2>1. SUFFICES ASSUME Init PROVE EditorInv
    OBVIOUS
  <2>2. <<>> \in Seq(Drawing) /\ Len(<<>>) = 0 /\ DOMAIN history = {} /\ DOMAIN future = {}
    BY <2>1 DEF Init
  <2>3. savedList \in SUBSET Drawing
    BY <2>1, EditorAssumption DEF Init
  <2>4. TypeOK /\ HistoryBounded
    <3>1. TypeOK
      BY <2>1, <2>2, <2>3, EmptyDrawing DEF Init, TypeOK
    <3>2. HistoryBounded
      BY <2>1, <2>2, EditorAssumption DEF Init, HistoryBounded
    <3>. QED  BY <3>1, <3>2
  <2>5. Reachable = {Empty} \union savedList
    BY <2>1, <2>2 DEF Init, Reachable, Kept
  <2>6. WiresJoinNodes /\ WiresAreSimple
    BY <2>1, <2>5, EmptyDrawing DEF Init, WiresJoinNodes, WiresAreSimple, Orderly
  <2>. QED  BY <2>1, <2>4, <2>6 DEF Init, EditorInv, Sound, MenuIsAboutSelected, WireBegun, ImportAlone
<1>2. ASSUME EditorInv, [Next]_vars PROVE EditorInv'
  <2>1. /\ Stacks' /\ Kept' \subseteq Reachable
        /\ Presentable(drawing') /\ Presentable(clipboard') /\ careful' = careful
        /\ savedList' \subseteq savedList \union {drawing}
        /\ captured' \in {captured, drawing, NoDrawing}
        /\ Referring'
    BY <1>2, StacksKept, DrawingStep, AsideStep, ReferringStep
  <2>2. /\ drawing \in Drawing /\ savedList \in SUBSET Drawing
        /\ captured \in Drawing \union {NoDrawing} /\ careful \in BOOLEAN
    BY <1>2 DEF EditorInv, Sound, TypeOK
  <2>3. TypeOK' /\ HistoryBounded'
    BY <2>1, <2>2 DEF TypeOK, Stacks, Referring, Presentable
  <2>4. \A d \in Reachable' : Presentable(d)
    <3>1. \A d \in Reachable' : d \in Reachable \/ d = drawing' \/ d = clipboard'
      BY <2>1 DEF Reachable
    <3>. QED  BY <1>2, <2>1, <3>1, ReachablePresentable
  <2>5. WiresJoinNodes' /\ WiresAreSimple'
    BY <2>1, <2>4 DEF WiresJoinNodes, WiresAreSimple, Presentable, Orderly
  <2>. QED  BY <2>1, <2>3, <2>5 DEF EditorInv, Sound, Referring
<1>. QED  BY <1>1, <1>2, PTL DEF Spec

\* Whatever tools are used in whatever order, and whatever the import finds, a
\* user who ends a gesture before the next gets drawings whose wires join two
\* different nodes of theirs, once, and a menu about the selected node; and
\* any user a history within its bound (snapshot, undo, redo, onNodeMD,
\* deleteNode, importLive in TopologyPage.tsx).
THEOREM EditorIsSound == Spec => []Sound
<1>1. EditorInv => Sound
  BY DEF EditorInv
<1>. QED  BY <1>1, EditorInvInvariant, PTL

\* Whatever a careful user does, a drawing that loses a node or a wire can be
\* had back with undo or redo, unless a draft was loaded over it (snapshot and
\* its callers, loadTopo, importLive).
THEOREM RemovedComesBack == Spec => RemovedCanComeBack
<1>1. ASSUME EditorInv, [Next]_vars, careful,
             ~(NodesOf(drawing) \subseteq NodesOf(drawing')
               /\ Cardinality(drawing.edges) <= Cardinality(drawing'.edges))
      PROVE  drawing \in Kept' \/ (drawing' \in savedList /\ history' = history)
  <2>1. Stacks /\ drawing \in Drawing
    BY <1>1, EditorInvFacts DEF EditorInv, Sound, TypeOK
  <2>2. Cardinality(drawing.edges) <= Cardinality(drawing.edges)
    BY <2>1, WiresFinite
  <2>3. CASE UNCHANGED <<history, future>> /\ (drawing' = drawing \/ InPlace \/ drawing' \in savedList)
    <3>1. drawing' # drawing
      BY <1>1, <2>2
    <3>2. ~InPlace
      BY <1>1, <2>1, <2>2, EditedDrawing DEF InPlace
    <3>. QED  BY <2>3, <3>1, <3>2
  <2>4. CASE Push(drawing)
    BY <2>1, <2>4, PushStep
  <2>5. CASE captured # NoDrawing /\ Push(captured)
    <3>1. captured = drawing
      BY <1>1, <2>5 DEF EditorInv, ImportAlone
    <3>. QED  BY <2>1, <2>5, <3>1, PushStep
  <2>6. CASE Undo \/ Redo
    BY <2>1, <2>6, UndoStep, RedoStep
  <2>. QED  BY <1>1, <2>3, <2>4, <2>5, <2>6, StackStep
<1>2. EditorInv /\ [Next]_vars =>
        [careful /\ ~(NodesOf(drawing) \subseteq NodesOf(drawing')
                      /\ Cardinality(drawing.edges) <= Cardinality(drawing'.edges))
           => \/ drawing \in Kept'
              \/ drawing' \in savedList /\ history' = history]_vars
  BY <1>1
<1>. QED  BY <1>2, EditorInvInvariant, PTL DEF Spec, RemovedCanComeBack

-----------------------------------------------------------------------------
(* The two stacks are one line of versions.                                *)

\* What lies behind the drawing shown, the drawing, and what lies ahead.
LineOf(h, d, f) == h \o <<d>> \o f

\* Where the elements of a line come from.
IsLine(s, h, d, f) ==
  /\ s \in Seq(Drawing)
  /\ Len(h) \in Nat /\ Len(f) \in Nat
  /\ Len(s) = Len(h) + 1 + Len(f)
  /\ \A k \in 1 .. Len(h) + 1 + Len(f) :
       s[k] = IF k <= Len(h) THEN h[k]
              ELSE IF k = Len(h) + 1 THEN d ELSE f[k - Len(h) - 1]

\* The line is one.
LEMMA LineShape ==
  ASSUME NEW h \in Seq(Drawing), NEW d \in Drawing, NEW f \in Seq(Drawing)
  PROVE  IsLine(LineOf(h, d, f), h, d, f)
<1>1. <<d>> \in Seq(Drawing) /\ Len(<<d>>) = 1 /\ <<d>>[1] = d
  OBVIOUS
<1>2. /\ h \o <<d>> \in Seq(Drawing) /\ Len(h \o <<d>>) = Len(h) + 1
      /\ \A k \in 1 .. Len(h) + 1 : (h \o <<d>>)[k] = IF k <= Len(h) THEN h[k] ELSE d
  BY <1>1, ConcatProperties
<1>. DEFINE g == h \o <<d>>
<1>. HIDE DEF g
<1>3. /\ g \o f \in Seq(Drawing) /\ Len(g \o f) = Len(g) + Len(f)
      /\ \A k \in 1 .. Len(g) + Len(f) : (g \o f)[k] = IF k <= Len(g) THEN g[k] ELSE f[k - Len(g)]
  BY <1>2, ConcatProperties DEF g
<1>4. Len(h) \in Nat /\ Len(f) \in Nat
  OBVIOUS
<1>5. LineOf(h, d, f) = g \o f
  BY DEF LineOf, g
<1>6. /\ Len(g) = Len(h) + 1
      /\ \A k \in 1 .. Len(h) + 1 : g[k] = IF k <= Len(h) THEN h[k] ELSE d
  BY <1>2 DEF g
<1>. QED  BY <1>3, <1>4, <1>5, <1>6 DEF IsLine

\* A step that leaves the stacks alone replaces the version under the cursor.
LEMMA LineAmended ==
  ASSUME NEW h \in Seq(Drawing), NEW d \in Drawing, NEW e \in Drawing, NEW f \in Seq(Drawing)
  PROVE  LineOf(h, e, f) = [LineOf(h, d, f) EXCEPT ![Len(h) + 1] = e]
<1>. DEFINE s == LineOf(h, d, f)
            t == LineOf(h, e, f)
            u == [s EXCEPT ![Len(h) + 1] = e]
<1>1. IsLine(s, h, d, f) /\ IsLine(t, h, e, f)
  BY LineShape
<1>. HIDE DEF s, t
<1>2. s \in Seq(Drawing) /\ Len(h) + 1 \in 1 .. Len(s)
  BY <1>1 DEF IsLine
<1>3. /\ u \in Seq(Drawing) /\ Len(u) = Len(s)
      /\ \A j \in 1 .. Len(s) : u[j] = IF j = Len(h) + 1 THEN e ELSE s[j]
  BY <1>2, ExceptSeq
<1>. HIDE DEF u
<1>4. t \in Seq(Drawing) /\ Len(t) = Len(u) /\ Len(t) = Len(s)
  BY <1>1, <1>3 DEF IsLine
<1>5. ASSUME NEW j \in 1 .. Len(t) PROVE t[j] = u[j]
  <2>1. j \in 1 .. Len(h) + 1 + Len(f) /\ Len(h) \in Nat /\ Len(f) \in Nat
    BY <1>1 DEF IsLine
  <2>2. u[j] = IF j = Len(h) + 1 THEN e ELSE s[j]
    BY <1>3, <1>4
  <2>3. t[j] = IF j <= Len(h) THEN h[j] ELSE IF j = Len(h) + 1 THEN e ELSE f[j - Len(h) - 1]
    BY <1>1, <2>1 DEF IsLine
  <2>4. s[j] = IF j <= Len(h) THEN h[j] ELSE IF j = Len(h) + 1 THEN d ELSE f[j - Len(h) - 1]
    BY <1>1, <2>1 DEF IsLine
  <2>. QED  BY <2>1, <2>2, <2>3, <2>4
<1>6. t = u
  BY <1>3, <1>4, <1>5, SeqEqual
<1>. QED  BY <1>6 DEF s, t, u

\* What lies behind the cursor is the history.
LEMMA LineBehind ==
  ASSUME NEW h \in Seq(Drawing), NEW d \in Drawing, NEW f \in Seq(Drawing)
  PROVE  SubSeq(LineOf(h, d, f), 1, Len(h)) = h
<1>. DEFINE s == SubSeq(LineOf(h, d, f), 1, Len(h))
<1>0. IsLine(LineOf(h, d, f), h, d, f)
  BY LineShape
<1>1. Len(h) \in Nat /\ \A k \in 1 .. Len(h) : LineOf(h, d, f)[k] = h[k] /\ h[k] \in Drawing
  BY <1>0 DEF IsLine
<1>2. 1 \in Int /\ Len(h) \in Int /\ \A k \in 1 .. Len(h) : LineOf(h, d, f)[k] \in Drawing
  BY <1>1
<1>3. /\ s \in Seq(Drawing)
      /\ Len(s) = IF 1 <= Len(h) THEN Len(h) - 1 + 1 ELSE 0
      /\ \A k \in 1 .. Len(h) - 1 + 1 : s[k] = LineOf(h, d, f)[1 + k - 1]
  BY <1>2, SubSeqProperties
<1>. HIDE DEF s
<1>4. Len(s) = Len(h) /\ \A k \in 1 .. Len(s) : s[k] = h[k]
  BY <1>1, <1>3
<1>5. s = h
  BY <1>3, <1>4, SeqEqual
<1>. QED  BY <1>5 DEF s

\* Nothing lies ahead of the version at the end of the line.
LEMMA LineEnds ==
  ASSUME NEW h \in Seq(Drawing), NEW d \in Drawing
  PROVE  LineOf(h, d, <<>>) = Append(h, d)
<1>1. <<d>> \in Seq(Drawing) /\ h \o <<d>> \in Seq(Drawing)
  BY ConcatProperties
<1>2. (h \o <<d>>) \o <<>> = h \o <<d>>
  BY <1>1, ConcatEmptySeq
<1>. QED  BY <1>2, AppendIsConcat DEF LineOf

\* Undo moves the cursor back and leaves the line.
LEMMA LineUndone ==
  ASSUME Stacks, drawing \in Drawing, Undo
  PROVE  /\ LineOf(history, drawing, future)' = LineOf(history, drawing, future)
         /\ Len(history') = Len(history) - 1 /\ Len(history) >= 1
<1>. DEFINE n == Len(history)
            s == LineOf(history, drawing, future)
            t == LineOf(history', drawing', future')
<1>1. n \in Nat /\ n >= 1 /\ \A k \in 1 .. n : history[k] \in Drawing
  BY DEF Stacks, Undo
<1>2. /\ history' \in Seq(Drawing) /\ Len(history') = n - 1
      /\ \A k \in 1 .. n - 1 : history'[k] = history[k]
  <2>1. 1 \in Int /\ n - 1 \in Int /\ \A k \in 1 .. n - 1 : history[k] \in Drawing
    BY <1>1
  <2>2. history' = SubSeq(history, 1, n - 1)
    BY DEF Undo
  <2>. HIDE DEF n
  <2>3. /\ SubSeq(history, 1, n - 1) \in Seq(Drawing)
        /\ Len(SubSeq(history, 1, n - 1)) = IF 1 <= n - 1 THEN n - 1 - 1 + 1 ELSE 0
        /\ \A k \in 1 .. n - 1 - 1 + 1 : SubSeq(history, 1, n - 1)[k] = history[1 + k - 1]
    BY <2>1, SubSeqProperties
  <2>. QED  BY <1>1, <2>2, <2>3
<1>3. future' = <<drawing>> \o future /\ drawing' = history[n] /\ drawing' \in Drawing
  BY <1>1 DEF Undo
<1>4. /\ future' \in Seq(Drawing) /\ Len(future') = 1 + Len(future)
      /\ \A k \in 1 .. 1 + Len(future) : future'[k] = IF k = 1 THEN drawing ELSE future[k - 1]
  <2>1. <<drawing>> \in Seq(Drawing) /\ Len(<<drawing>>) = 1 /\ <<drawing>>[1] = drawing
    OBVIOUS
  <2>. QED  BY <1>3, <2>1, ConcatProperties DEF Stacks
<1>5. IsLine(s, history, drawing, future) /\ IsLine(t, history', drawing', future')
  BY <1>2, <1>3, <1>4, LineShape DEF Stacks
<1>. HIDE DEF s, t
<1>6. s \in Seq(Drawing) /\ t \in Seq(Drawing) /\ Len(t) = Len(s)
  BY <1>2, <1>4, <1>5 DEF IsLine
<1>7. ASSUME NEW k \in 1 .. Len(t) PROVE t[k] = s[k]
  <2>1. k \in 1 .. n + 1 + Len(future) /\ n \in Nat /\ Len(future) \in Nat
    BY <1>5, <1>6 DEF IsLine
  <2>2. s[k] = IF k <= n THEN history[k] ELSE IF k = n + 1 THEN drawing ELSE future[k - n - 1]
    BY <1>5, <2>1 DEF IsLine
  <2>. HIDE DEF n
  <2>3. Len(history') + 1 + Len(future') = n + 1 + Len(future) /\ Len(history') = n - 1
    BY <1>2, <1>4, <2>1
  <2>4. t[k] = IF k <= n - 1 THEN history'[k] ELSE IF k = n THEN drawing' ELSE future'[k - n]
    <3>1. t[k] = IF k <= Len(history') THEN history'[k]
                 ELSE IF k = Len(history') + 1 THEN drawing' ELSE future'[k - Len(history') - 1]
      BY <1>5, <2>1, <2>3 DEF IsLine
    <3>2. Len(history') + 1 = n /\ k - Len(history') - 1 = k - n
      BY <2>1, <2>3
    <3>. QED  BY <2>1, <2>3, <3>1, <3>2
  <2>5. CASE k <= n - 1
    BY <1>2, <2>1, <2>2, <2>4, <2>5
  <2>6. CASE k = n
    BY <1>3, <2>1, <2>2, <2>4, <2>6
  <2>7. CASE k > n
    <3>1. k - n \in 1 .. 1 + Len(future) /\ (k - n = 1 <=> k = n + 1)
      BY <2>1, <2>7
    <3>2. future'[k - n] = IF k - n = 1 THEN drawing ELSE future[k - n - 1]
      BY <1>4, <3>1
    <3>. QED  BY <2>1, <2>2, <2>4, <2>7, <3>1, <3>2
  <2>. QED  BY <2>1, <2>5, <2>6, <2>7
<1>8. t = s
  BY <1>6, <1>7, SeqEqual
<1>. QED  BY <1>1, <1>2, <1>8 DEF s, t, LineOf

\* Redo moves it on.
LEMMA LineRedone ==
  ASSUME Stacks, drawing \in Drawing, Redo
  PROVE  /\ LineOf(history, drawing, future)' = LineOf(history, drawing, future)
         /\ Len(history') = Len(history) + 1 /\ Len(future) >= 1
<1>. DEFINE n == Len(history)
            s == LineOf(history, drawing, future)
            t == LineOf(history', drawing', future')
<1>1. /\ history' \in Seq(Drawing) /\ Len(history') = n + 1
      /\ \A k \in 1 .. n : history'[k] = history[k]
      /\ history'[n + 1] = drawing
  BY AppendProperties DEF Redo, Stacks
<1>2. /\ future' \in Seq(Drawing) /\ Len(future') = Len(future) - 1
      /\ \A k \in 1 .. Len(future) - 1 : future'[k] = future[k + 1]
  BY HeadTailProperties DEF Redo, Stacks
<1>3. n \in Nat /\ Len(future) \in Nat /\ Len(future) >= 1 /\ drawing' = future[1] /\ drawing' \in Drawing
  BY DEF Redo, Stacks
<1>4. IsLine(s, history, drawing, future) /\ IsLine(t, history', drawing', future')
  BY <1>1, <1>2, <1>3, LineShape DEF Stacks
<1>. HIDE DEF s, t
<1>5. s \in Seq(Drawing) /\ t \in Seq(Drawing) /\ Len(t) = Len(s)
  BY <1>1, <1>2, <1>4 DEF IsLine
<1>6. ASSUME NEW k \in 1 .. Len(t) PROVE t[k] = s[k]
  <2>1. k \in 1 .. n + 1 + Len(future) /\ n \in Nat /\ Len(future) \in Nat
    BY <1>4, <1>5 DEF IsLine
  <2>2. s[k] = IF k <= n THEN history[k] ELSE IF k = n + 1 THEN drawing ELSE future[k - n - 1]
    BY <1>4, <2>1 DEF IsLine
  <2>. HIDE DEF n
  <2>3. Len(history') + 1 + Len(future') = n + 1 + Len(future) /\ Len(history') = n + 1
    BY <1>1, <1>2, <2>1
  <2>4. t[k] = IF k <= n + 1 THEN history'[k] ELSE IF k = n + 2 THEN drawing' ELSE future'[k - n - 2]
    <3>1. t[k] = IF k <= Len(history') THEN history'[k]
                 ELSE IF k = Len(history') + 1 THEN drawing' ELSE future'[k - Len(history') - 1]
      BY <1>4, <2>1, <2>3 DEF IsLine
    <3>2. Len(history') + 1 = n + 2 /\ k - Len(history') - 1 = k - n - 2
      BY <2>1, <2>3
    <3>. QED  BY <2>1, <2>3, <3>1, <3>2
  <2>5. CASE k <= n + 1
    BY <1>1, <2>1, <2>2, <2>4, <2>5
  <2>6. CASE k = n + 2
    <3>1. k - n - 1 = 1 /\ ~(k <= n + 1)
      BY <2>1, <2>6
    <3>2. t[k] = drawing'
      BY <2>4, <2>6, <3>1
    <3>3. s[k] = future[1]
      BY <2>1, <2>2, <2>6, <3>1
    <3>. QED  BY <1>3, <3>2, <3>3
  <2>7. CASE k > n + 2
    <3>1. k - n - 2 \in 1 .. Len(future) - 1 /\ k - n - 2 + 1 = k - n - 1
      BY <2>1, <2>7
    <3>2. future'[k - n - 2] = future[k - n - 1]
      BY <1>2, <3>1
    <3>. QED  BY <2>1, <2>2, <2>4, <2>7, <3>2
  <2>. QED  BY <2>1, <2>5, <2>6, <2>7
<1>7. t = s
  BY <1>5, <1>6, SeqEqual
<1>. QED  BY <1>1, <1>3, <1>7 DEF s, t, LineOf

\* A push, of the drawing shown or of the one kept across an import, records a
\* version.
LEMMA LineRecorded ==
  ASSUME Stacks, drawing \in Drawing, NEW kept \in Drawing, Push(kept), drawing' \in Drawing
  PROVE  /\ LineOf(history, drawing, future)'
              = Append(Append(Latest(SubSeq(LineOf(history, drawing, future), 1, Len(history)),
                                     MaxHistory - 1), kept), drawing')
         /\ Len(LineOf(history, drawing, future)') = Len(history') + 1 /\ Len(history') >= 1
         /\ LineOf(history, drawing, future)'[Len(history') + 1] = drawing'
         /\ LineOf(history, drawing, future)'[Len(history')] = kept
<1>. DEFINE s == Latest(history, MaxHistory - 1)
<1>1. SubSeq(LineOf(history, drawing, future), 1, Len(history)) = history
  BY LineBehind DEF Stacks
<1>2. history' = Append(s, kept) /\ future' = <<>>
  BY DEF Push
<1>3. s \in Seq(Drawing)
  BY LatestElements, EditorAssumption DEF Stacks
<1>. HIDE DEF s
<1>4. /\ history' \in Seq(Drawing) /\ Len(history') = Len(s) + 1 /\ history'[Len(s) + 1] = kept
      /\ Len(s) \in Nat
  BY <1>2, <1>3, AppendProperties
<1>5. LineOf(history', drawing', future') = Append(history', drawing')
  BY <1>2, <1>4, LineEnds
<1>6. /\ Len(Append(history', drawing')) = Len(history') + 1
      /\ \A k \in 1 .. Len(history') : Append(history', drawing')[k] = history'[k]
      /\ Append(history', drawing')[Len(history') + 1] = drawing'
  BY <1>4, AppendProperties
<1>7. LineOf(history, drawing, future)' = LineOf(history', drawing', future')
  BY DEF LineOf
<1>8. /\ Len(history') >= 1 /\ Append(history', drawing')[Len(history')] = kept
      /\ LineOf(history, drawing, future)' = Append(Append(s, kept), drawing')
  BY <1>2, <1>4, <1>5, <1>6, <1>7
<1>. QED  BY <1>1, <1>5, <1>6, <1>7, <1>8 DEF s

\* Undo and redo move along one line of versions, which an edit cuts, extends
\* and bounds as the abstract specification says (snapshot, undo, redo).
THEOREM EditorKeepsOneLine == Spec => OneLine
<1>. DEFINE s == LineOf(history, drawing, future)
<1>0. /\ (history \o <<drawing>> \o future) = s
      /\ (history \o <<drawing>> \o future)' = s'
  BY DEF LineOf
<1>1. Init => Line!Init
  <2>1. SUFFICES ASSUME Init PROVE Line!Init
    OBVIOUS
  <2>2. history = <<>> /\ future = <<>> /\ history \in Seq(Drawing) /\ future \in Seq(Drawing)
        /\ drawing \in Drawing /\ Len(history) = 0 /\ Len(future) = 0
    BY <2>1, EmptyDrawing DEF Init
  <2>3. IsLine(s, history, drawing, future)
    BY <2>2, LineShape
  <2>. QED  BY <1>0, <2>2, <2>3 DEF IsLine, Line!Init
<1>2. ASSUME EditorInv, EditorInv', [Next]_vars PROVE [Line!Next]_(Line!tvars)
  <2>1. Stacks /\ Stacks' /\ drawing \in Drawing /\ drawing' \in Drawing
    BY <1>2, EditorInvFacts, StacksKept DEF EditorInv, Sound, TypeOK
  <2>2. IsLine(s, history, drawing, future) /\ IsLine(s', history', drawing', future')
    <3>1. s' = LineOf(history', drawing', future')
      BY DEF LineOf
    <3>. HIDE DEF s
    <3>2. IsLine(LineOf(history', drawing', future'), history', drawing', future')
      BY <2>1, LineShape DEF Stacks
    <3>3. IsLine(s, history, drawing, future)
      BY <2>1, LineShape DEF Stacks, s
    <3>. QED  BY <3>1, <3>2, <3>3
  <2>0. s' \in Seq(Drawing) /\ Len(history) \in Nat /\ Len(future) \in Nat
        /\ Len(s) = Len(history) + 1 + Len(future)
    BY <2>2 DEF IsLine
  <2>3. CASE UNCHANGED <<history, future>>
    <3>1. s' = [s EXCEPT ![Len(history) + 1] = drawing']
      <4>1. s' = LineOf(history, drawing', future)
        BY <2>3 DEF LineOf
      <4>. QED  BY <2>1, <4>1, LineAmended DEF Stacks
    <3>. HIDE DEF s
    <3>2. s'[Len(history) + 1] = drawing' /\ Len(history) + 1 \in 1 .. Len(s')
      BY <2>2, <2>3 DEF IsLine
    <3>. QED  BY <1>0, <2>0, <2>3, <3>1, <3>2 DEF Line!Next, Line!Amend
  <2>4. ASSUME NEW kept \in Drawing, Push(kept) PROVE Line!Next
    <3>1. /\ s' = Append(Append(Latest(SubSeq(s, 1, Len(history)), MaxHistory - 1), kept), drawing')
          /\ Len(s') = Len(history') + 1 /\ Len(history') >= 1
          /\ s'[Len(history') + 1] = drawing' /\ s'[Len(history')] = kept
      BY <2>1, <2>4, LineRecorded
    <3>2. Len(history') \in Nat
      BY <2>1 DEF Stacks
    <3>. HIDE DEF s
    <3>3. \A t, n : Line!Latest(t, n) = Latest(t, n)
      BY DEF Line!Latest, Latest
    <3>4. /\ Len(s') > 1 /\ Len(s') - 1 = Len(history')
          /\ Len(history) + 1 - 1 = Len(history)
      BY <2>2, <3>1, <3>2
    <3>5. Line!Record(kept, drawing')
      <4>1. SubSeq(s, 1, Len(history) + 1 - 1) = SubSeq(s, 1, Len(history))
        BY <3>4
      <4>2. s' = Append(Append(Line!Latest(SubSeq(s, 1, Len(history) + 1 - 1), MaxHistory - 1),
                               kept), drawing')
        BY <3>1, <3>3, <4>1
      <4>3. (Len(history) + 1)' = Len(s')
        BY <3>1
      <4>. DEFINE t == history \o <<drawing>> \o future
      <4>4. t = s /\ t' = s'
        BY <1>0
      <4>5. /\ t' = Append(Append(Line!Latest(SubSeq(t, 1, (Len(history) + 1) - 1), MaxHistory - 1),
                                  kept), drawing')
            /\ (Len(history) + 1)' = Len(t')
        <5>. HIDE DEF t
        <5>. QED  BY <4>2, <4>3, <4>4
      <4>. QED  BY <4>5 DEF Line!Record
    <3>6. s'[Len(s') - 1] = kept /\ s'[Len(s')] = drawing'
      BY <3>1, <3>4
    <3>. QED  BY <1>0, <2>0, <3>4, <3>5, <3>6 DEF Line!Next
  <2>5. CASE Undo
    <3>1. s' = s /\ Len(history') = Len(history) - 1 /\ Len(history) >= 1
      BY <2>1, <2>5, LineUndone
    <3>. HIDE DEF s
    <3>2. /\ (Len(history) + 1)' \in 1 .. Len(s)
          /\ (Len(history) + 1)' \in {(Len(history) + 1) - 1, Len(history) + 1 + 1}
      BY <2>0, <3>1
    <3>3. Line!Move
      BY ONLY <1>0, <3>1, <3>2, Zenon DEF Line!Move
    <3>. QED  BY <1>0, <2>0, <3>3 DEF Line!Next
  <2>6. CASE Redo
    <3>1. s' = s /\ Len(history') = Len(history) + 1 /\ Len(future) >= 1
      BY <2>1, <2>6, LineRedone
    <3>. HIDE DEF s
    <3>2. (Len(history) + 1)' \in 1 .. Len(s) /\ (Len(history) + 1)' = Len(history) + 1 + 1
      BY <2>0, <3>1
    <3>. QED  BY <1>0, <2>0, <3>1, <3>2 DEF Line!Next, Line!Move
  <2>7. captured # NoDrawing => captured \in Drawing
    BY <1>2 DEF EditorInv, Sound, TypeOK
  <2>. QED  BY <1>2, <2>1, <2>3, <2>4, <2>5, <2>6, <2>7, StackStep
<1>. QED  BY <1>1, <1>2, EditorInvInvariant, PTL DEF Spec, OneLine, Line!Spec
=============================================================================
