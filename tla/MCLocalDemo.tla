----------------------------- MODULE MCLocalDemo -----------------------------
(* LocalDemo for one user. *)
EXTENDS LocalDemo
=============================================================================
