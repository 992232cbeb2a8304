----------------------------- MODULE MCNodeLink -----------------------------
(* NodeLink with the small sets of the MCNodeLink_*.cfg files. *)
EXTENDS NodeLink
=============================================================================
