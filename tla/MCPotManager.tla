----------------------------- MODULE MCPotManager -----------------------------
(* Instances of PotManager for TLC. *)
EXTENDS PotManager, TLC

\* Goroutines and process slots are interchangeable; used without temporal
\* properties.
Interchangeable == Permutations(Workers) \union Permutations(Procs)
=============================================================================
