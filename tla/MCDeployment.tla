---------------------------- MODULE MCDeployment ----------------------------
(* Deployment with small sets: see the MCDeployment_*.cfg files. *)
EXTENDS Deployment
=============================================================================
