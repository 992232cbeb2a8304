--------------------------- MODULE MCTopologyEditor ---------------------------
(* Instances of TopologyEditor for TLC. *)
EXTENDS TopologyEditor, TLC

\* Nothing was saved before, or one draft of two nodes and a wire.
Pair(a, b) ==
  [nodes |-> [i \in {a, b} |-> Default],
   edges |-> {[source |-> a, target |-> b, type |-> "link"]}]

SavedBefore ==
  {{}} \union {{Pair(ab[1], ab[2])} : ab \in {ab \in Ids \X Ids : ab[1] # ab[2]}}

\* Only sets of identifiers are ever taken, so they are interchangeable.
Interchangeable == Permutations(Ids)
===============================================================================
