----------------------------- MODULE MCTopology -----------------------------
(* Topology with one resource of every kind and two edge definitions. *)
EXTENDS Topology

MCSchema == <<"db", "variables", "version", "vertices", "identity", "edges">>

MCKind == [r \in Resources |->
            CASE r = "db" -> "database"
              [] r = "version" -> "document"
              [] r = "identity" -> "index"
              [] OTHER -> "collection"]

MCDefinitions == <<"calls", "hosts">>
=============================================================================
