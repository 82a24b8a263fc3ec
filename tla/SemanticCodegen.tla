--------------------------- MODULE SemanticCodegen ---------------------------
(***************************************************************************)
(* The semantic convention code generator: what it refuses, and what each  *)
(* of the files it writes for a registry says.                             *)
(*                                                                         *)
(* A registry is a record of three sets of definitions.  An entity's       *)
(* `attributes' maps the attributes it refers to to their roles; the order *)
(* of references, briefs and stabilities are left out.  "string[]" and     *)
(* "template[string]" stand for all array and template types, and the      *)
(* members of an enum for the sorts of their values.  A file is the        *)
(* structured value its text renders.                                      *)
(***************************************************************************)
EXTENDS Sequences

CONSTANTS
    Upstream,          \* the registry of the pinned OpenTelemetry model
    ClassName(_),      \* python_class_name()
    EdgeClassName(_),  \* <<source, name, target>> -> the class of the edge
    SafeName(_),       \* _safe_arangodb_name(), or Null if it raises
    ReservedProperties,
    TemplateSuffixed,  \* attributes named *.label, *.annotation, *.selector
    Null

Scalars == {"boolean", "double", "int", "string"}

AttributeTypes == Scalars \cup {"any", "enum", "string[]", "template[string]"}

Signals == {"trace", "service_graph", "span_metrics"}

GraphEvidenceSignals == {"service_graph", "span_metrics"}

SpanMetricsBuiltinDimensions ==
    {"collector.instance.id", "service.name", "span.kind", "span.name", "status.code"}

IntrinsicSpanFields == {"span.kind", "span.name"}

-----------------------------------------------------------------------------
(* Registries *)

Merged(x) ==
    [attributes    |-> Upstream.attributes \cup x.attributes,
     entities      |-> Upstream.entities \cup x.entities,
     relationships |-> Upstream.relationships \cup x.relationships]

AttributeIds(r) == {a.id : a \in r.attributes}

EntityNames(r) == {e.name : e \in r.entities}

(* attributes_by_id, entities_by_name *)
Attribute(r, id) == CHOOSE a \in r.attributes : a.id = id

Entity(r, name) == CHOOSE e \in r.entities : e.name = name

IdentifyingRefs(e) == {ref \in DOMAIN e.attributes : e.attributes[ref] = "identifying"}

SupportsIdentity(a) ==
    IF a.type = "enum" THEN "float" \notin a.members
                       ELSE a.type \in {"string", "int", "boolean"}

Triple(rel) == <<rel.source, rel.name, rel.target>>

NoDuplicates(x) ==
    /\ \A a, b \in x.attributes : a.id = b.id => a = b
    /\ \A e, f \in x.entities : e.id = f.id \/ e.name = f.name => e = f
    /\ \A p, q \in x.relationships : p.id = q.id \/ Triple(p) = Triple(q) => p = q

ValidEntity(x, e) ==
    /\ e.name \notin EntityNames(Upstream)
    /\ \A ref \in DOMAIN e.attributes :
        /\ ref \in AttributeIds(Merged(x))
        /\ ref \in IdentifyingRefs(e) => SupportsIdentity(Attribute(Merged(x), ref))

ValidRelationship(x, rel) ==
    LET evidence == rel.signals \cap GraphEvidenceSignals
    IN  /\ {rel.source, rel.target} \subseteq EntityNames(Merged(x))
        /\ rel.signals \subseteq Signals
        /\ evidence # {} <=> rel.scope # Null
        /\ rel.scope = "interaction" => evidence = {"service_graph"}
        /\ rel.scope = "interaction" <=> rel.connection # Null
        /\ rel.connection # "blank"

(* validate_extension_model() does not raise. *)
ValidExtension(x) ==
    /\ NoDuplicates(x)
    /\ AttributeIds(x) \cap AttributeIds(Upstream) = {}
    /\ \A e \in x.entities : ValidEntity(x, e)
    /\ \A rel \in x.relationships : ValidRelationship(x, rel)

(***************************************************************************)
(* Only extensions are validated.  The pinned model defines every name     *)
(* once, has no relationship of its own, no reference to an attribute that *)
(* it does not define, and no identity that is an array, a template or     *)
(* untyped.                                                                *)
(***************************************************************************)
ASSUME UpstreamAssumption ==
    /\ \A a, b \in Upstream.attributes : a.id = b.id => a = b
    /\ \A e, f \in Upstream.entities : e.name = f.name => e = f
    /\ Upstream.relationships = {}
    /\ \A e \in Upstream.entities :
        /\ DOMAIN e.attributes \subseteq AttributeIds(Upstream)
        /\ \A ref \in IdentifyingRefs(e) : SupportsIdentity(Attribute(Upstream, ref))

-----------------------------------------------------------------------------
(* Semantic models *)

FieldKinds == AttributeTypes \ {"any"}

(* _field_kind() and _enum_values() return. *)
Typed(a) ==
    /\ a.type \in FieldKinds
    /\ a.type = "enum" => \E sort \in a.members : a.members = {sort}

SemanticField(r, e, ref) ==
    [kind     |-> Attribute(r, ref).type,
     required |-> ref \in IdentifyingRefs(e),
     enum     |-> Attribute(r, ref).members]

SemanticModel(r, e) ==
    [type     |-> e.name,
     class    |-> ClassName(e.name),
     identity |-> IdentifyingRefs(e),
     fields   |-> [ref \in DOMAIN e.attributes |-> SemanticField(r, e, ref)]]

ModelledEntities(r) == {e \in r.entities : IdentifyingRefs(e) # {}}

SemanticModels(r) == {SemanticModel(r, e) : e \in ModelledEntities(r)}

(* build_semantic_models() returns. *)
Buildable(r) ==
    \A e \in ModelledEntities(r) : \A ref \in DOMAIN e.attributes :
        ref \in AttributeIds(r) /\ Typed(Attribute(r, ref))

(***************************************************************************)
(* The schema's $defs and the module of field classes: which of two models *)
(* of one class name is the last one is left open.                         *)
(***************************************************************************)
FieldClasses(r) ==
    [class \in {m.class : m \in SemanticModels(r)} |->
        CHOOSE m \in SemanticModels(r) : m.class = class]

(* entities.py: ENTITY_MODELS *)
EntityModels(r) ==
    [type \in {m.type : m \in SemanticModels(r)} |-> ClassName(type)]

-----------------------------------------------------------------------------
(* Relationships and dimensions *)

GraphRelationships(r) ==
    {rel \in r.relationships : rel.signals \cap GraphEvidenceSignals # {}}

EntityNamesForSignal(r, signal) ==
    UNION {{rel.source, rel.target} :
            rel \in {q \in r.relationships : signal \in q.signals}}

GraphEntityNames(r) ==
    UNION {EntityNamesForSignal(r, signal) : signal \in GraphEvidenceSignals}

IsScalar(a) == a.type \in Scalars \cup {"enum"}

IncludeDimension(r, ref) ==
    /\ ref \notin TemplateSuffixed
    /\ ref \in AttributeIds(r) => IsScalar(Attribute(r, ref))

ScalarEntityAttributes(r, names) ==
    UNION {{ref \in DOMAIN e.attributes : IncludeDimension(r, ref)} :
            e \in {f \in r.entities : f.name \in names}}

ServiceGraphDimensions(r) ==
    ScalarEntityAttributes(r, EntityNamesForSignal(r, "service_graph"))

GraphDimensions(r) == ScalarEntityAttributes(r, GraphEntityNames(r))

RootSpanDimensions(r) ==
    ScalarEntityAttributes(r, EntityNamesForSignal(r, "span_metrics"))
        \ SpanMetricsBuiltinDimensions

RootSpanRouting(r) ==
    UNION {{ref \in IdentifyingRefs(e) : IncludeDimension(r, ref)} :
            e \in {f \in r.entities : f.name \in EntityNamesForSignal(r, "span_metrics")}}
    \cup {"service.name", "service.namespace", "span.kind"}

RootSpanModeled(r) ==
    ScalarEntityAttributes(r, EntityNamesForSignal(r, "span_metrics"))
        \ IntrinsicSpanFields

(* edges.py: EDGE_MODELS, for every relationship *)
EdgeModels(r) ==
    [triple \in {Triple(rel) : rel \in r.relationships} |-> EdgeClassName(triple)]

(* _validate_relationship_class_names() *)
UniqueEdgeClasses(r) ==
    \A p, q \in r.relationships :
        EdgeClassName(Triple(p)) = EdgeClassName(Triple(q)) => p.id = q.id

(* java_registry.py *)
JavaRegistry(r) ==
    [entities |->
        [type \in {m.type : m \in SemanticModels(r)} |->
            LET m == SemanticModel(r, Entity(r, type))
            IN  [identity |-> m.identity, fields |-> m.fields]],
     relationships |->
        {[type |-> rel.name, source |-> rel.source, target |-> rel.target,
          evidence |-> rel.signals \cap GraphEvidenceSignals,
          scope |-> rel.scope, connectionType |-> rel.connection] :
            rel \in GraphRelationships(r)}]

-----------------------------------------------------------------------------
(* The topology of the graph database *)

(* _unique_sanitized_names() returns. *)
UniqueSafeNames(values) ==
    /\ \A v \in values : SafeName(v) # Null
    /\ \A u, v \in values : SafeName(u) = SafeName(v) => u = v

GraphRelationshipNames(r) == {rel.name : rel \in GraphRelationships(r)}

(* _render_arangodb_schema() returns. *)
Storable(r) ==
    /\ UniqueSafeNames(GraphEntityNames(r))
    /\ UniqueSafeNames(GraphRelationshipNames(r))
    /\ UniqueSafeNames(GraphDimensions(r))
    /\ \A ref \in GraphDimensions(r) : SafeName(ref) \notin ReservedProperties

Vertex(r, name) ==
    [collection  |-> SafeName(name),
     identifying |-> IdentifyingRefs(Entity(r, name)) \cap GraphDimensions(r)]

EdgeDefinition(r, name) ==
    LET matching == {rel \in GraphRelationships(r) : rel.name = name}
    IN  [collection |-> SafeName(name),
         from       |-> {SafeName(rel.source) : rel \in matching},
         to         |-> {SafeName(rel.target) : rel \in matching}]

ArangodbSchema(r) ==
    [vertices |-> [name \in GraphEntityNames(r) |-> Vertex(r, name)],
     edges    |-> [name \in GraphRelationshipNames(r) |-> EdgeDefinition(r, name)],
     aliases  |-> [ref \in GraphDimensions(r) |-> SafeName(ref)]]

-----------------------------------------------------------------------------
(* generate_files() *)

(* The files in the order they are written in. *)
Paths ==
    <<"package_init", "models", "entities", "edges", "package_lock",
      "semantic_schema", "relationship_metadata", "collector_dimensions",
      "collector_discovery", "arangodb_schema", "java_registry", "gremlin_schema">>

PathSet == {Paths[k] : k \in DOMAIN Paths}

Generates(x) ==
    /\ ValidExtension(x)
    /\ Buildable(Merged(x))
    /\ UniqueEdgeClasses(Merged(x))
    /\ Storable(Merged(x))

(* generate_files() for an extension that is not refused *)
Files(x) ==
    LET r == Merged(x)
    IN  [package_init          |-> {m.class : m \in SemanticModels(r)}
                                    \cup {EdgeClassName(Triple(rel)) : rel \in r.relationships},
         models                |-> FieldClasses(r),
         entities              |-> EntityModels(r),
         edges                 |-> EdgeModels(r),
         package_lock          |-> Upstream,
         semantic_schema       |-> FieldClasses(r),
         relationship_metadata |-> GraphRelationships(r),
         collector_dimensions  |-> ServiceGraphDimensions(r),
         collector_discovery   |-> [dimensions |-> RootSpanDimensions(r),
                                    routing    |-> RootSpanRouting(r),
                                    modeled    |-> RootSpanModeled(r)],
         arangodb_schema       |-> ArangodbSchema(r),
         java_registry         |-> JavaRegistry(r),
         gremlin_schema        |-> ArangodbSchema(r)]
=============================================================================
