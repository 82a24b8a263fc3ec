----------------------------- MODULE MCPipeline -----------------------------
(* Pipeline with one attribute, so that an element can change. *)
EXTENDS Pipeline

MCElements == [Attributes -> Values]
=============================================================================
