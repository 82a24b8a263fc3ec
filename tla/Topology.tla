------------------------------ MODULE Topology ------------------------------
(***************************************************************************)
(* The topology initializer: processes that run initialize() against one   *)
(* ArangoDB, the initializer Job and every indexer replica at its start.   *)
(* Each checks what the generated schema asks for, one thing after the     *)
(* other, and creates what is missing.  Every request is a step of its     *)
(* own, so that two processes may find the same thing missing.             *)
(*                                                                         *)
(* The contents of the provider's document are never compared, and the     *)
(* orphan vertex collections are given when the graph is created and not   *)
(* looked at again; neither is part of the state.                          *)
(***************************************************************************)
EXTENDS Integers, Sequences

CONSTANTS
    Initializers,
    Replicas,     \* the indexers among them, which a Deployment restarts
    BackoffLimit, \* how often a Job is retried
    Schema,        \* databases, collections, indexes, documents, in order
    Kind,         \* resource -> "database", "collection", "index", "document"
    Definitions,  \* the edge definitions of the graph, in order
    Null,
    AllowDatabaseCreation,
    MaxCrashes    \* bound on crashes and restarts of a process

Resources == {Schema[k] : k \in DOMAIN Schema}

EdgeDefinitions == {Definitions[k] : k \in DOMAIN Definitions}

(* Two entries of the schema never name the same thing. *)
ASSUME SchemaAssumption ==
    /\ Schema \in Seq(Resources)
    /\ Definitions \in Seq(EdgeDefinitions)
    /\ \A j, k \in DOMAIN Definitions : Definitions[j] = Definitions[k] => j = k
    /\ Kind \in [Resources -> {"database", "collection", "index", "document"}]
    /\ AllowDatabaseCreation \in BOOLEAN
    /\ Replicas \subseteq Initializers
    /\ BackoffLimit \in Nat
    /\ MaxCrashes \in Nat

(* "alien": it exists, with another type, field list or endpoints. *)
Statuses == {"absent", "matching", "alien"}

Graphs == [definitions : [EdgeDefinitions -> Statuses], unexpected : BOOLEAN]

Outcomes == {"created", "updated", "unchanged", "failed", "crashed"}

ASSUME NullAssumption == Null \notin Graphs /\ Null \notin Outcomes

VARIABLES
    db,        \* resource -> status
    graph,     \* the named graph, or Null
    position,  \* process -> place in Schema, then the graph, then Definitions
    missing,   \* process -> the check at this position found nothing
    existing,  \* process -> the graph as it was read
    changed,   \* process -> whether it has created something
    result,    \* process -> Null while running, or how initialize() ended
    retries,   \* process -> how often its Job has been retried
    crashes,
    \* History, for the properties:
    noop       \* process -> the topology was complete when it began

process == <<position, missing, existing, changed, result, retries, noop>>

vars == <<db, graph, process, crashes>>

GraphStep == Len(Schema) + 1

LastStep == GraphStep + Len(Definitions)

CompleteGraph == [definitions |-> [d \in EdgeDefinitions |-> "matching"],
                  unexpected  |-> FALSE]

Complete == (\A r \in Resources : db[r] = "matching") /\ graph = CompleteGraph

Ready(i) == result[i] \in {"created", "updated", "unchanged"}

-----------------------------------------------------------------------------

Running(i) == result[i] = Null /\ UNCHANGED <<retries, crashes, noop>>

(* initialize() returns or raises. *)
End(i, outcome) ==
    /\ result' = [result EXCEPT ![i] = outcome]
    /\ missing' = [missing EXCEPT ![i] = FALSE]
    /\ UNCHANGED <<position, existing, changed>>

Advance(i) ==
    /\ position' = [position EXCEPT ![i] = @ + 1]
    /\ missing' = [missing EXCEPT ![i] = FALSE]
    /\ UNCHANGED <<existing, result>>

FoundMissing(i) ==
    /\ missing' = [missing EXCEPT ![i] = TRUE]
    /\ UNCHANGED <<position, existing, changed, result>>

(* Mutant: whatever exists is taken for what is wanted. *)
AcceptsAnything(status) == status # "absent"

(* Mutant: whatever exists is refused. *)
AcceptsNothing(status) == FALSE

Accepts(status) == status = "matching"

MayCreate(r) == Kind[r] = "database" => AllowDatabaseCreation

(* has_database, has_collection and its type, get, indexes *)
Inspect(i) ==
    /\ Running(i)
    /\ ~missing[i]
    /\ position[i] < GraphStep
    /\ LET r == Schema[position[i]]
       IN  IF Accepts(db[r])
           THEN Advance(i) /\ UNCHANGED changed
           ELSE IF db[r] = "absent" /\ MayCreate(r)
                THEN FoundMissing(i)
                ELSE End(i, "failed")
    /\ UNCHANGED <<db, graph>>

(***************************************************************************)
(* create_database, create_collection and insert raise if another process  *)
(* was faster; add_persistent_index returns the index that is there.       *)
(***************************************************************************)
Create(i) ==
    /\ Running(i)
    /\ missing[i]
    /\ position[i] < GraphStep
    /\ LET r == Schema[position[i]]
       IN  IF db[r] = "absent" \/ Kind[r] = "index"
           THEN /\ db' = [db EXCEPT ![r] = IF @ = "absent" THEN "matching" ELSE @]
                /\ changed' =
                    [changed EXCEPT ![i] = @ \/ Kind[r] # "database"]
                /\ Advance(i)
           ELSE End(i, "failed") /\ UNCHANGED db
    /\ UNCHANGED graph

(* has_graph and edge_definitions; nobody removes a graph in between. *)
InspectGraph(i) ==
    /\ Running(i)
    /\ ~missing[i]
    /\ position[i] = GraphStep
    /\ IF graph = Null
       THEN FoundMissing(i)
       ELSE IF graph.unexpected
            THEN End(i, "failed")
            ELSE /\ existing' = [existing EXCEPT ![i] = graph]
                 /\ position' = [position EXCEPT ![i] = @ + 1]
                 /\ UNCHANGED <<missing, changed, result>>
    /\ UNCHANGED <<db, graph>>

CreateGraph(i) ==
    /\ Running(i)
    /\ missing[i]
    /\ position[i] = GraphStep
    /\ IF graph = Null
       THEN graph' = CompleteGraph /\ End(i, "created")
       ELSE UNCHANGED graph /\ End(i, "failed")
    /\ UNCHANGED db

(* Mutant: the definitions that were read are not looked at. *)
AlwaysLacks(i, d) == TRUE

Lacks(i, d) == existing[i].definitions[d] = "absent"

(* One round of the loop over the desired definitions. *)
EnsureDefinition(i) ==
    /\ Running(i)
    /\ GraphStep < position[i]
    /\ position[i] <= LastStep
    /\ LET d == Definitions[position[i] - GraphStep]
       IN  IF Lacks(i, d)
           THEN IF graph.definitions[d] = "absent"
                THEN /\ graph' = [graph EXCEPT !.definitions[d] = "matching"]
                     /\ changed' = [changed EXCEPT ![i] = TRUE]
                     /\ Advance(i)
                ELSE UNCHANGED graph /\ End(i, "failed")
           ELSE /\ UNCHANGED graph
                /\ IF existing[i].definitions[d] = "matching"
                   THEN Advance(i) /\ UNCHANGED changed
                   ELSE End(i, "failed")
    /\ UNCHANGED db

Finish(i) ==
    /\ Running(i)
    /\ position[i] > LastStep
    /\ End(i, IF changed[i] THEN "updated" ELSE "unchanged")
    /\ UNCHANGED <<db, graph>>

(***************************************************************************)
(* Kubernetes starts the process again: an indexer always, the pod of the  *)
(* initializer Job as often as its backoffLimit allows.                    *)
(***************************************************************************)
Restart(i) ==
    /\ result[i] \in {"failed", "crashed"}
    /\ i \notin Replicas => retries[i] < BackoffLimit
    /\ retries' = [retries EXCEPT ![i] = IF i \in Replicas THEN @ ELSE @ + 1]
    /\ position' = [position EXCEPT ![i] = 1]
    /\ missing' = [missing EXCEPT ![i] = FALSE]
    /\ existing' = [existing EXCEPT ![i] = Null]
    /\ changed' = [changed EXCEPT ![i] = FALSE]
    /\ result' = [result EXCEPT ![i] = Null]
    /\ noop' = [noop EXCEPT ![i] = Complete]
    /\ UNCHANGED <<db, graph, crashes>>

(* A process ends: killed, database unreachable, or an indexer replaced. *)
Crash(i) ==
    /\ result[i] \notin {"failed", "crashed"}
    /\ Ready(i) => i \in Replicas
    /\ crashes < MaxCrashes
    /\ crashes' = crashes + 1
    /\ End(i, "crashed")
    /\ UNCHANGED <<db, graph, retries, noop>>

-----------------------------------------------------------------------------

(* Whatever is in a resource needs the database and its collection. *)
Coherent ==
    /\ \A k \in DOMAIN Schema :
        /\ Kind[Schema[k]] \in {"database", "document"} => db[Schema[k]] # "alien"
        /\ \A j \in DOMAIN Schema :
            (j < k /\ db[Schema[j]] = "absent")
                => /\ Kind[Schema[j]] = "database" => db[Schema[k]] = "absent"
                   /\ Kind[Schema[k]] \in {"index", "document"} /\ j = k - 1
                        => db[Schema[k]] = "absent"
    /\ graph # Null => \A r \in Resources :
                            Kind[r] \in {"database", "collection"}
                                => db[r] # "absent"

(* Any database an earlier version or another program has left behind. *)
Init ==
    /\ db \in [Resources -> Statuses]
    /\ graph \in Graphs \cup {Null}
    /\ Coherent
    /\ position = [i \in Initializers |-> 1]
    /\ missing = [i \in Initializers |-> FALSE]
    /\ existing = [i \in Initializers |-> Null]
    /\ changed = [i \in Initializers |-> FALSE]
    /\ result = [i \in Initializers |-> Null]
    /\ retries = [i \in Initializers |-> 0]
    /\ crashes = 0
    /\ noop = [i \in Initializers |-> Complete]

Work(i) == \/ Inspect(i)
           \/ Create(i)
           \/ InspectGraph(i)
           \/ CreateGraph(i)
           \/ EnsureDefinition(i)
           \/ Finish(i)
           \/ Restart(i)

Next == \E i \in Initializers : Work(i) \/ Crash(i)

(* A process keeps working, and Kubernetes restarts one that has ended. *)
Fairness == \A i \in Initializers : WF_vars(Work(i))

Spec == Init /\ [][Next]_vars /\ Fairness

-----------------------------------------------------------------------------
(* Properties *)

TypeOK ==
    /\ db \in [Resources -> Statuses]
    /\ graph \in Graphs \cup {Null}
    /\ position \in [Initializers -> 1 .. (LastStep + 1)]
    /\ missing \in [Initializers -> BOOLEAN]
    /\ existing \in [Initializers -> Graphs \cup {Null}]
    /\ changed \in [Initializers -> BOOLEAN]
    /\ result \in [Initializers -> Outcomes \cup {Null}]
    /\ retries \in [Initializers -> 0 .. BackoffLimit]
    /\ crashes \in 0 .. MaxCrashes
    /\ noop \in [Initializers -> BOOLEAN]
    /\ \A i \in Initializers :
        /\ missing[i] => result[i] = Null /\ position[i] <= GraphStep
        /\ position[i] > GraphStep => existing[i] # Null

(***************************************************************************)
(* initialize() returns only when everything the schema asks for exists    *)
(* and matches, whoever created it and whatever was there before: an       *)
(* indexer never writes into a topology that is incomplete or alien.       *)
(***************************************************************************)
ReadyMeansComplete == \A i \in Initializers : Ready(i) => Complete

(***************************************************************************)
(* "The initializer is additive and idempotent": on a complete topology it *)
(* changes nothing, does not fail and says so.                             *)
(***************************************************************************)
NoopOnComplete ==
    \A i \in Initializers :
        noop[i] => result[i] \in {Null, "unchanged", "crashed"} /\ ~changed[i]

(* Nothing is in the way of the topology. *)
Possible ==
    /\ AllowDatabaseCreation \/ \A r \in Resources :
                                    Kind[r] = "database" => db[r] # "absent"
    /\ \A r \in Resources : db[r] # "alien"
    /\ graph # Null =>
        /\ ~graph.unexpected
        /\ \A d \in EdgeDefinitions : graph.definitions[d] # "alien"

(***************************************************************************)
(* A process that loses a race fails, but a failure leaves less to race    *)
(* for: unless something alien is in the way, every indexer is ready in    *)
(* the end, even if the initializer Job has used up its retries.           *)
(***************************************************************************)
EventuallyReady ==
    Possible ~> (\A i \in Replicas : Ready(i))
=============================================================================
