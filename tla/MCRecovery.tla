----------------------------- MODULE MCRecovery -----------------------------
(* Recovery with one attribute, so that an element can change. *)
EXTENDS Recovery

MCElements == [Attributes -> Values]
=============================================================================
