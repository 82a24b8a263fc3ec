---------------------------- MODULE MCDeployment ----------------------------
(* Deployment, three revisions that are wanted and four to repair them. *)
EXTENDS Deployment
=============================================================================
