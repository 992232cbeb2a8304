--------------------------- MODULE MCTopologyShapes ---------------------------
(* Instances of TopologyShapes for TLC. *)
EXTENDS TopologyShapes
===============================================================================
