--------------------------- MODULE RegistryRelease ---------------------------
(***************************************************************************)
(* A registry on its way into the running system.  Maintainers extend the  *)
(* registry, regenerate the files, are interrupted or merge badly, and CI  *)
(* lets a tree pass whose files --check accepts.  An operator upgrades the *)
(* components to that release, the consumers before the producers, while   *)
(* the Collector, the Flink job, the indexer and clients of the graph keep *)
(* working with the files they were built from.                            *)
(*                                                                         *)
(* Extensions only grow.  A file is kept as the extension it was rendered  *)
(* from, an attribute value as its name.  What two data points say of one  *)
(* element is not merged; the later one replaces it.                       *)
(***************************************************************************)
EXTENDS SemanticCodegen, Naturals, FiniteSets

CONSTANTS
    Extensions,       \* the extensions the maintainers may write, by name
    Registry,         \* extension -> its definitions
    Base,             \* the one the system starts with
    DataPoints,       \* what instrumented programs may send
    MaxChanges,       \* bounds on changes of the extension, on interrupted
    MaxInterruptions, \* or botched regenerations, and on data points
    MaxPublished

Accepted == {x \in Extensions : Generates(Registry[x])}

Generation == [x \in Accepted |-> Files(Registry[x])]

ASSUME BaseAssumption == Base \in Accepted

(***************************************************************************)
(* The generator reserves neither source_id nor target_id.  An attribute   *)
(* with such an alias would make every vertex that has it look like half   *)
(* an edge to the client.                                                  *)
(***************************************************************************)
ASSUME AliasAssumption ==
    \A x \in Accepted : \A ref \in GraphDimensions(Merged(Registry[x])) :
        SafeName(ref) \notin {"source_id", "target_id"}

(* Nor does it compare the class names of entities. *)
ASSUME ClassAssumption ==
    \A x \in Accepted : \A m, n \in SemanticModels(Merged(Registry[x])) :
        m.class = n.class => m.type = n.type

Components == {"indexer", "client", "job", "collector"}

Trees == [PathSet -> Accepted \cup {Null}]

BaseTree == [path \in PathSet |-> Base]

VARIABLES
    extension,     \* the extension in the working tree
    files,         \* path -> what it was rendered from; Null: missing or cut off
    stray,         \* a module of an earlier generator lies in generated/
    writing,       \* Null, or the run of the generator that writes files
    release,       \* the files of the last tree that CI let pass
    deployed,      \* component -> the release it was built from
    definitions,   \* edge collection -> its definition in the graph
    topic,         \* the elements whose last event is an upsert
    store,         \* the documents in the graph database
    changes, interruptions, published

tree == <<extension, files, stray, writing>>

runtime == <<deployed, definitions, topic, store, published>>

vars == <<tree, release, runtime, changes, interruptions>>

-----------------------------------------------------------------------------
(* The working tree *)

Includes(x, y) ==
    /\ y.attributes \subseteq x.attributes
    /\ y.entities \subseteq x.entities
    /\ y.relationships \subseteq x.relationships

(* A maintainer adds definitions. *)
Extend(x) ==
    /\ changes < MaxChanges
    /\ changes' = changes + 1
    /\ x # extension
    /\ Includes(Registry[x], Registry[extension])
    /\ extension' = x
    /\ UNCHANGED <<files, stray, writing, release, runtime, interruptions>>

(* generate_files() returns and write_files() removes stale modules. *)
Generate ==
    /\ writing = Null
    /\ extension \in Accepted
    /\ writing' = [from |-> extension, next |-> 1]
    /\ stray' = FALSE
    /\ UNCHANGED <<extension, files, release, runtime, changes, interruptions>>

WriteFile ==
    /\ writing # Null
    /\ files' = [files EXCEPT ![Paths[writing.next]] = writing.from]
    /\ writing' = IF writing.next = Len(Paths)
                    THEN Null
                    ELSE [from |-> writing.from, next |-> writing.next + 1]
    /\ UNCHANGED <<extension, stray, release, runtime, changes, interruptions>>

(* The generator ends between two files or within one. *)
Interrupt ==
    /\ writing # Null
    /\ interruptions < MaxInterruptions
    /\ interruptions' = interruptions + 1
    /\ writing' = Null
    /\ \/ UNCHANGED files
       \/ files' = [files EXCEPT ![Paths[writing.next]] = Null]
    /\ UNCHANGED <<extension, stray, release, runtime, changes>>

(* A merge takes one file, or an old module, from the branch of the release. *)
BadMerge(path) ==
    /\ writing = Null
    /\ interruptions < MaxInterruptions
    /\ interruptions' = interruptions + 1
    /\ \/ files' = [files EXCEPT ![path] = release[path]] /\ UNCHANGED stray
       \/ stray' = TRUE /\ UNCHANGED files
    /\ UNCHANGED <<extension, writing, release, runtime, changes>>

UpToDate(path) ==
    /\ files[path] # Null
    /\ Generation[files[path]][path] = Generation[extension][path]

(* Mutant: outside of generated/ files have only to be there. *)
CheckPython ==
    /\ extension \in Accepted
    /\ ~stray
    /\ \A path \in PathSet : files[path] # Null
    /\ \A path \in {"package_init", "models", "entities", "edges"} :
        UpToDate(path)

(* `python -m tools.semconv_codegen --check' returns 0. *)
CheckFiles ==
    /\ extension \in Accepted
    /\ ~stray
    /\ \A path \in PathSet : UpToDate(path)

(* CI lets a commit pass. *)
Commit ==
    /\ writing = Null
    /\ release # files
    /\ CheckFiles
    /\ release' = files
    /\ UNCHANGED <<tree, runtime, changes, interruptions>>

-----------------------------------------------------------------------------
(* The deployment *)

Content(built, path) == Generation[built[path]][path]

Schema(built) == Content(built, "arangodb_schema")

Desired(schema) ==
    [c \in {schema.edges[name].collection : name \in DOMAIN schema.edges} |->
        LET d == CHOOSE e \in {schema.edges[name] : name \in DOMAIN schema.edges} :
                    e.collection = c
        IN  [from |-> d.from, to |-> d.to]]

VertexCollections(schema) ==
    {schema.vertices[name].collection : name \in DOMAIN schema.vertices}

(* ensure_topology() does not raise on what earlier releases have left. *)
Installs(schema) ==
    LET desired == Desired(schema)
    IN  /\ VertexCollections(schema) \cap DOMAIN desired = {}
        /\ \A c \in DOMAIN definitions :
            c \in DOMAIN desired /\ definitions[c] = desired[c]

(* Mutant: the producers are upgraded with their consumers. *)
MayUpgradeAtOnce(component) ==
    CASE component = "indexer" -> Installs(Schema(release))
      [] OTHER -> TRUE

(* Mutant: only the indexer is waited for. *)
MayUpgradeBeforeClients(component) ==
    CASE component = "indexer" -> Installs(Schema(release))
      [] component = "client" -> TRUE
      [] component = "job" -> deployed["indexer"] = release
      [] component = "collector" -> deployed["job"] = release

(***************************************************************************)
(* "Consumers must be deployed before producers"; the indexer chart is     *)
(* upgraded only if its initializer hook succeeds.                         *)
(***************************************************************************)
MayUpgrade(component) ==
    CASE component = "indexer" -> Installs(Schema(release))
      [] component = "client" -> TRUE
      [] component = "job" -> deployed["indexer"] = release /\ deployed["client"] = release
      [] component = "collector" -> deployed["job"] = release

Upgrade(component) ==
    /\ deployed[component] # release
    /\ MayUpgrade(component)
    /\ deployed' = [deployed EXCEPT ![component] = release]
    /\ definitions' = IF component = "indexer" THEN Desired(Schema(release))
                                               ELSE definitions
    /\ UNCHANGED <<tree, release, topic, store, changes, interruptions, published>>

-----------------------------------------------------------------------------
(* The job *)

Java == Content(deployed["job"], "java_registry")

(* What the Collector's metrics keep of the attributes of a span. *)
Carried(attributes, lane) ==
    IF lane = "service_graph"
        THEN (attributes \cap Content(deployed["collector"], "collector_dimensions"))
                \cup {"service.name"}
        ELSE attributes \cap
                (Content(deployed["collector"], "collector_discovery").dimensions
                    \cup SpanMetricsBuiltinDimensions)

Supports(lane, type) ==
    \E rel \in Java.relationships : lane \in rel.evidence /\ type \in {rel.source, rel.target}

Node(type, attributes, side) ==
    LET model == Java.entities[type]
    IN  [kind       |-> "node",
         type       |-> type,
         id         |-> <<type, model.identity, side>>,
         source     |-> Null,
         target     |-> Null,
         attributes |-> attributes \cap DOMAIN model.fields]

Nodes(attributes, side, lane) ==
    {Node(type, attributes, side) :
        type \in {t \in DOMAIN Java.entities :
                    Java.entities[t].identity \subseteq attributes /\ Supports(lane, t)}}

Edge(source, type, target) ==
    [kind       |-> "edge",
     type       |-> type,
     id         |-> <<"edge", source.id, type, target.id>>,
     source     |-> source.type,
     target     |-> target.type,
     attributes |-> {}]

Edges(sources, targets, lane, scope, connectionType) ==
    {Edge(y[1], y[2].type, y[3]) :
        y \in {z \in sources \X Java.relationships \X targets :
                /\ lane \in z[2].evidence
                /\ z[2].scope = scope
                /\ z[2].connectionType = connectionType
                /\ z[1].type = z[2].source
                /\ z[3].type = z[2].target
                /\ z[1].id # z[3].id}}

MaterializeObservation(nodes, lane) ==
    nodes \cup Edges(nodes, nodes, lane, "observation", Null)

Elements(point) ==
    LET clients == Nodes(Carried(point.client, point.lane), "client", point.lane)
        servers == Nodes(Carried(point.server, point.lane), "server", point.lane)
    IN  MaterializeObservation(clients, point.lane)
        \cup MaterializeObservation(servers, point.lane)
        \cup Edges(clients, servers, point.lane, "interaction", point.connection)

Publish(point) ==
    /\ published < MaxPublished
    /\ published' = published + 1
    /\ \E new \in {Elements(point)} :
        topic' = {e \in topic : \A f \in new : f.id # e.id} \cup new
    /\ UNCHANGED <<tree, release, deployed, definitions, store, changes, interruptions>>

(* The programs fall silent, and every element is deleted. *)
Silence ==
    /\ topic # {}
    /\ topic' = {}
    /\ UNCHANGED <<tree, release, deployed, definitions, store, changes,
                   interruptions, published>>

-----------------------------------------------------------------------------
(* The indexer and its readers *)

IndexerSchema == Schema(deployed["indexer"])

(* event_to_document() returns. *)
Convertible(e) ==
    IF e.kind = "node"
        THEN e.type \in DOMAIN IndexerSchema.vertices
        ELSE /\ e.type \in DOMAIN IndexerSchema.edges
             /\ {e.source, e.target} \subseteq DOMAIN IndexerSchema.vertices

Document(e) ==
    [element    |-> e,
     properties |-> {IndexerSchema.aliases[ref] :
                        ref \in DOMAIN IndexerSchema.aliases \cap e.attributes}
                    \cup (IF e.kind = "edge" THEN {"source_id", "target_id"} ELSE {})]

Indexed == {d.element : d \in store}

Fresh == topic \ Indexed

Gone == {d \in store : d.element \notin topic}

(* A node is deleted from the collection of its type. *)
Deletable(e) == e.kind = "node" => e.type \in DOMAIN IndexerSchema.vertices

(* Mutant: deletes are left to the next poll. *)
ProjectWithoutDeletes ==
    /\ Fresh # {} \/ Gone # {}
    /\ \A e \in Fresh : Convertible(e)
    /\ store' = store \cup {Document(e) : e \in Fresh}
    /\ UNCHANGED <<tree, release, deployed, definitions, topic, changes,
                   interruptions, published>>

(* project_poll() reads everything; one event it refuses refuses all. *)
Project ==
    /\ Fresh # {} \/ Gone # {}
    /\ \A e \in Fresh : Convertible(e)
    /\ \A d \in Gone : Deletable(d.element)
    /\ store' = (store \ Gone) \cup {Document(e) : e \in Fresh}
    /\ UNCHANGED <<tree, release, deployed, definitions, topic, changes,
                   interruptions, published>>

ClientFile(path) == Content(deployed["client"], path)

(* semantic_entity_from_data() and semantic_edge_from_data() return. *)
EntityReadable(e) ==
    /\ e.type \in DOMAIN ClientFile("entities")
    /\ LET model == ClientFile("models")[ClientFile("entities")[e.type]]
       IN  model.identity \subseteq e.attributes

EdgeReadable(e) == <<e.source, e.type, e.target>> \in DOMAIN ClientFile("edges")

(* _semantic_element_from_map(): an edge is what has both endpoints. *)
Readable(d) ==
    /\ "source_id" \in d.properties <=> "target_id" \in d.properties
    /\ IF "source_id" \in d.properties THEN EdgeReadable(d.element)
                                       ELSE EntityReadable(d.element)

-----------------------------------------------------------------------------

Init ==
    /\ extension = Base
    /\ files = BaseTree
    /\ stray = FALSE
    /\ writing = Null
    /\ release = BaseTree
    /\ deployed = [component \in Components |-> BaseTree]
    /\ definitions = Desired(Schema(BaseTree))
    /\ topic = {}
    /\ store = {}
    /\ changes = 0
    /\ interruptions = 0
    /\ published = 0

Next ==
    \/ \E x \in Extensions : Extend(x)
    \/ Generate
    \/ WriteFile
    \/ Interrupt
    \/ \E path \in PathSet : BadMerge(path)
    \/ Commit
    \/ \E component \in Components : Upgrade(component)
    \/ \E point \in DataPoints : Publish(point)
    \/ Silence
    \/ Project

Spec == Init /\ [][Next]_vars /\ WF_vars(Project)

-----------------------------------------------------------------------------
(* Properties *)

TypeOK ==
    /\ extension \in Extensions
    /\ files \in Trees
    /\ stray \in BOOLEAN
    /\ writing = Null \/ writing \in [from : Accepted, next : DOMAIN Paths]
    /\ release \in [PathSet -> Accepted]
    /\ deployed \in [Components -> [PathSet -> Accepted]]
    /\ \A e \in topic \cup Indexed :
        e.kind = "edge" => {e.source, e.target} \subseteq DOMAIN Java.entities

ObservedBy(java, type, signal) ==
    \E rel \in java.relationships :
        signal \in rel.evidence /\ type \in {rel.source, rel.target}

RelationshipAgrees(contents, rel) ==
    LET schema == contents["arangodb_schema"]
    IN  /\ <<rel.source, rel.type, rel.target>> \in DOMAIN contents["edges"]
        /\ {rel.source, rel.target} \subseteq DOMAIN schema.vertices
        /\ rel.type \in DOMAIN schema.edges
        /\ schema.vertices[rel.source].collection \in schema.edges[rel.type].from
        /\ schema.vertices[rel.target].collection \in schema.edges[rel.type].to

EntityAgrees(contents, type) ==
    LET java     == contents["java_registry"]
        identity == java.entities[type].identity
        types    == contents["entities"]
    IN  /\ type \in DOMAIN types
        /\ types[type] \in DOMAIN contents["models"]
        /\ contents["models"][types[type]].identity = identity
        /\ ObservedBy(java, type, "service_graph") =>
            identity \ TemplateSuffixed \subseteq contents["collector_dimensions"]
        /\ ObservedBy(java, type, "span_metrics") =>
            identity \ TemplateSuffixed
                \subseteq contents["collector_discovery"].dimensions
                            \cup SpanMetricsBuiltinDimensions

Agrees(contents) ==
    /\ contents["gremlin_schema"] = contents["arangodb_schema"]
    /\ \A rel \in contents["java_registry"].relationships :
        RelationshipAgrees(contents, rel)
    /\ \A type \in DOMAIN contents["java_registry"].entities :
        EntityAgrees(contents, type)

(***************************************************************************)
(* "The generated semantic registry keeps entity identity, relationship    *)
(* topology, Collector dimensions, Java extraction, Python models, and     *)
(* Arango collections aligned" (docs/index.md), in whatever state writing, *)
(* interruptions and merges have left the tree that CI lets pass: for all  *)
(* that the job may emit there is a class and a place, what identifies an  *)
(* entity gets through the Collector, and both charts have one schema.     *)
(***************************************************************************)
ReleaseAgrees == Agrees([path \in PathSet |-> Content(release, path)])

(***************************************************************************)
(* While the components run different releases, each upgraded when it may  *)
(* be, the job never emits an event that the indexer refuses.  One such    *)
(* event would stop the indexer for good, together with all that follows.  *)
(***************************************************************************)
EveryEventIndexable ==
    /\ \A e \in Fresh : Convertible(e)
    /\ \A d \in Gone : Deletable(d.element)

(***************************************************************************)
(* Whatever releases the documents of the graph were written under, the    *)
(* client reconstructs all of them: a single one that it cannot read makes *)
(* every query that returns it fail as a whole.                            *)
(***************************************************************************)
EveryDocumentReadable == \A d \in store : Readable(d)

(***************************************************************************)
(* A release that CI let pass can be installed: "run the additive          *)
(* initializer so the generated collections, edge definitions, and         *)
(* identifying indexes are available" (docs/getting-started/               *)
(* custom-entity.md).                                                      *)
(***************************************************************************)
ReleaseInstalls == Installs(Schema(release))

(***************************************************************************)
(* The graph catches up with the topic through all the upgrades: no        *)
(* release leaves the indexer with events it can never convert.            *)
(***************************************************************************)
EverythingIndexed == <>[](Indexed = topic)
=============================================================================
