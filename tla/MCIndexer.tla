----------------------------- MODULE MCIndexer ------------------------------
(* Indexer with replicas and elements as model values. *)
EXTENDS Indexer
=============================================================================
