------------------------- MODULE RegistryReleaseProofs -------------------------
(***************************************************************************)
(* What TLC checks for a small registry holds for every registry, every    *)
(* set of extensions and every stream of data points.                      *)
(*                                                                         *)
(* The argument has two halves.  A registry that the generator accepts     *)
(* gives files that agree (GeneratedFilesAgree) and that keep, when the    *)
(* registry grows, what they said before (GeneratedFilesGrow).  And        *)
(* whatever is released or deployed is file by file what one registry      *)
(* generates, the job never being ahead of the indexer and the clients.    *)
(***************************************************************************)
EXTENDS RegistryRelease, TLAPS

(* What one registry's files say, and that a tree has exactly these. *)
Contents(built) == [path \in PathSet |-> Content(built, path)]

GeneratedBy(built, x) == \A path \in PathSet : Content(built, path) = Generation[x][path]

JavaOf(built) == Content(built, "java_registry")

(* A function that keeps all that another one maps. *)
Keeps(new, old) ==
    /\ DOMAIN old \subseteq DOMAIN new
    /\ \A k \in DOMAIN old : new[k] = old[k]

(* Only what an edge connects may grow. *)
KeepsTopology(new, old) ==
    /\ Keeps(new.vertices, old.vertices)
    /\ Keeps(new.aliases, old.aliases)
    /\ \A name \in DOMAIN old.edges :
        /\ name \in DOMAIN new.edges
        /\ new.edges[name].collection = old.edges[name].collection
        /\ old.edges[name].from \subseteq new.edges[name].from
        /\ old.edges[name].to \subseteq new.edges[name].to

(* The twelve files of a registry keep what those of another say. *)
KeepsFiles(new, old) ==
    /\ old["package_init"] \subseteq new["package_init"]
    /\ \A path \in {"models", "semantic_schema", "entities", "edges"} :
        Keeps(new[path], old[path])
    /\ new["package_lock"] = old["package_lock"]
    /\ old["relationship_metadata"] \subseteq new["relationship_metadata"]
    /\ old["collector_dimensions"] \subseteq new["collector_dimensions"]
    /\ \A set \in {"dimensions", "routing", "modeled"} :
        old["collector_discovery"][set] \subseteq new["collector_discovery"][set]
    /\ \A path \in {"arangodb_schema", "gremlin_schema"} :
        KeepsTopology(new[path], old[path])
    /\ old["java_registry"].relationships \subseteq new["java_registry"].relationships
    /\ Keeps(new["java_registry"].entities, old["java_registry"].entities)

(* The job of one tree finds all that the job of another one finds. *)
Covers(built, old) ==
    /\ JavaOf(old).relationships \subseteq JavaOf(built).relationships
    /\ \A type \in DOMAIN JavaOf(old).entities :
        /\ type \in DOMAIN JavaOf(built).entities
        /\ JavaOf(built).entities[type].identity = JavaOf(old).entities[type].identity

NoEndpointAlias(schema) ==
    \A ref \in DOMAIN schema.aliases : schema.aliases[ref] \notin {"source_id", "target_id"}

(* What a job built from a tree may emit. *)
Emittable(built, e) ==
    \/ /\ e.kind = "node"
       /\ e.type \in DOMAIN JavaOf(built).entities
       /\ \E rel \in JavaOf(built).relationships : e.type \in {rel.source, rel.target}
       /\ JavaOf(built).entities[e.type].identity \subseteq e.attributes
    \/ /\ e.kind = "edge"
       /\ \E rel \in JavaOf(built).relationships :
            rel.type = e.type /\ rel.source = e.source /\ rel.target = e.target
       /\ {e.source, e.target} \subseteq DOMAIN JavaOf(built).entities

-----------------------------------------------------------------------------
(* The generator *)

LEMMA FilesSay ==
    ASSUME NEW x \in Accepted
    PROVE  LET r == Merged(Registry[x])
               g == Generation[x]
           IN  /\ g["models"] = FieldClasses(r)
               /\ g["entities"] = EntityModels(r)
               /\ g["edges"] = EdgeModels(r)
               /\ g["collector_dimensions"] = ServiceGraphDimensions(r)
               /\ g["collector_discovery"].dimensions = RootSpanDimensions(r)
               /\ g["arangodb_schema"] = ArangodbSchema(r)
               /\ g["gremlin_schema"] = ArangodbSchema(r)
               /\ g["java_registry"] = JavaRegistry(r)
BY DEF Generation, Files

(* Definitions of an accepted extension and of the pinned model never clash. *)
LEMMA NamesAreUnique ==
    ASSUME NEW x \in Accepted
    PROVE  /\ \A a, b \in Merged(Registry[x]).attributes : a.id = b.id => a = b
           /\ \A e, f \in Merged(Registry[x]).entities : e.name = f.name => e = f
<1>1. ValidExtension(Registry[x])
  BY DEF Accepted, Generates
<1>2. \A a, b \in Merged(Registry[x]).attributes : a.id = b.id => a = b
  BY <1>1, UpstreamAssumption DEF Merged, ValidExtension, NoDuplicates, AttributeIds
<1>3. \A e, f \in Merged(Registry[x]).entities : e.name = f.name => e = f
  BY <1>1, UpstreamAssumption
  DEF Merged, ValidExtension, NoDuplicates, ValidEntity, EntityNames
<1> QED
  BY <1>2, <1>3

(* What identifies an entity is a scalar attribute of the merged registry. *)
LEMMA IdentityIsScalar ==
    ASSUME NEW x \in Accepted,
           NEW e \in Merged(Registry[x]).entities,
           NEW ref \in IdentifyingRefs(e)
    PROVE  IsScalar(Attribute(Merged(Registry[x]), ref))
<1> DEFINE r == Merged(Registry[x])
<1>1. \A a, b \in r.attributes : a.id = b.id => a = b
  BY NamesAreUnique
<1>2. ref \in AttributeIds(r) /\ SupportsIdentity(Attribute(r, ref))
  <2>1. CASE e \in Upstream.entities
    <3>1. ref \in AttributeIds(Upstream) /\ SupportsIdentity(Attribute(Upstream, ref))
      BY <2>1, UpstreamAssumption DEF IdentifyingRefs
    <3>2. PICK a \in Upstream.attributes : a.id = ref
      BY <3>1 DEF AttributeIds
    <3>3. a \in r.attributes
      BY <3>2 DEF Merged
    <3>4. Attribute(Upstream, ref) = a /\ Attribute(r, ref) = a
      BY <1>1, <3>2, <3>3, UpstreamAssumption DEF Attribute
    <3> QED
      BY <3>1, <3>2, <3>3, <3>4 DEF AttributeIds
  <2>2. CASE e \in Registry[x].entities
    BY <2>2 DEF Accepted, Generates, ValidExtension, ValidEntity, IdentifyingRefs
  <2> QED
    BY <2>1, <2>2 DEF Merged
<1> QED
  BY <1>2 DEF SupportsIdentity, IsScalar, Scalars

LEMMA EntityIs ==
    ASSUME NEW x \in Accepted,
           NEW e \in Merged(Registry[x]).entities
    PROVE  Entity(Merged(Registry[x]), e.name) = e
BY NamesAreUnique DEF Entity

LEMMA JavaEntities ==
    ASSUME NEW x \in Accepted,
           NEW type \in DOMAIN JavaRegistry(Merged(Registry[x])).entities
    PROVE  \E e \in Merged(Registry[x]).entities :
            /\ e.name = type
            /\ IdentifyingRefs(e) # {}
            /\ JavaRegistry(Merged(Registry[x])).entities[type].identity = IdentifyingRefs(e)
            /\ DOMAIN JavaRegistry(Merged(Registry[x])).entities[type].fields =
                    DOMAIN e.attributes
<1> DEFINE r == Merged(Registry[x])
<1>1. PICK e \in ModelledEntities(r) : e.name = type
  BY DEF JavaRegistry, SemanticModels, SemanticModel
<1>2. e \in r.entities /\ IdentifyingRefs(e) # {}
  BY DEF ModelledEntities
<1>3. Entity(r, type) = e
  BY <1>1, <1>2, EntityIs
<1> QED
  BY <1>1, <1>2, <1>3 DEF JavaRegistry, SemanticModel

LEMMA JavaRelationships ==
    ASSUME NEW r
    PROVE  \A j \in JavaRegistry(r).relationships :
            \E rel \in GraphRelationships(r) :
                /\ rel.name = j.type /\ rel.source = j.source /\ rel.target = j.target
                /\ j.evidence = rel.signals \cap GraphEvidenceSignals
BY DEF JavaRegistry

LEMMA SchemaHasRelationship ==
    ASSUME NEW r, NEW rel \in GraphRelationships(r)
    PROVE  /\ {rel.source, rel.target} \subseteq GraphEntityNames(r)
           /\ rel.name \in GraphRelationshipNames(r)
           /\ SafeName(rel.source) \in EdgeDefinition(r, rel.name).from
           /\ SafeName(rel.target) \in EdgeDefinition(r, rel.name).to
<1>1. PICK signal \in GraphEvidenceSignals : signal \in rel.signals
  BY DEF GraphRelationships
<1>2. {rel.source, rel.target} \subseteq EntityNamesForSignal(r, signal)
  BY <1>1 DEF EntityNamesForSignal, GraphRelationships
<1>3. {rel.source, rel.target} \subseteq GraphEntityNames(r)
  BY <1>2 DEF GraphEntityNames
<1>4. rel.name \in GraphRelationshipNames(r)
  BY DEF GraphRelationshipNames
<1>5. /\ SafeName(rel.source) \in EdgeDefinition(r, rel.name).from
      /\ SafeName(rel.target) \in EdgeDefinition(r, rel.name).to
  BY DEF EdgeDefinition
<1> QED
  BY <1>3, <1>4, <1>5

LEMMA IdentityIsADimension ==
    ASSUME NEW x \in Accepted,
           NEW e \in Merged(Registry[x]).entities,
           NEW names,
           e.name \in names
    PROVE  IdentifyingRefs(e) \ TemplateSuffixed
            \subseteq ScalarEntityAttributes(Merged(Registry[x]), names)
<1> DEFINE r == Merged(Registry[x])
<1> SUFFICES ASSUME NEW ref \in IdentifyingRefs(e) \ TemplateSuffixed
             PROVE  ref \in ScalarEntityAttributes(r, names)
  OBVIOUS
<1>1. IncludeDimension(r, ref)
  BY IdentityIsScalar DEF IncludeDimension
<1>2. ref \in DOMAIN e.attributes
  BY DEF IdentifyingRefs
<1>3. {q \in DOMAIN e.attributes : IncludeDimension(r, q)} \in
        {{q \in DOMAIN f.attributes : IncludeDimension(r, q)} :
            f \in {f \in r.entities : f.name \in names}}
  OBVIOUS
<1> QED
  BY <1>1, <1>2, <1>3 DEF ScalarEntityAttributes

LEMMA ObservedNames ==
    ASSUME NEW r, NEW type, NEW signal \in GraphEvidenceSignals,
           ObservedBy(JavaRegistry(r), type, signal)
    PROVE  type \in EntityNamesForSignal(r, signal)
<1>1. PICK j \in JavaRegistry(r).relationships :
        signal \in j.evidence /\ type \in {j.source, j.target}
  BY DEF ObservedBy
<1>2. PICK rel \in GraphRelationships(r) :
        /\ rel.source = j.source /\ rel.target = j.target
        /\ j.evidence = rel.signals \cap GraphEvidenceSignals
  BY JavaRelationships
<1> QED
  BY <1>1, <1>2 DEF GraphRelationships, EntityNamesForSignal

(* The class that entities.py names for a type is the model of that type. *)
LEMMA ClassOfType ==
    ASSUME NEW x \in Accepted,
           NEW e \in Merged(Registry[x]).entities,
           IdentifyingRefs(e) # {}
    PROVE  LET r == Merged(Registry[x])
           IN  /\ e.name \in DOMAIN EntityModels(r)
               /\ EntityModels(r)[e.name] \in DOMAIN FieldClasses(r)
               /\ FieldClasses(r)[EntityModels(r)[e.name]].identity = IdentifyingRefs(e)
<1> DEFINE r == Merged(Registry[x])
           model == SemanticModel(r, e)
           chosen == FieldClasses(r)[ClassName(e.name)]
<1>1. model \in SemanticModels(r) /\ model.type = e.name /\ model.class = ClassName(e.name)
  BY DEF SemanticModels, ModelledEntities, SemanticModel
<1>2. e.name \in DOMAIN EntityModels(r) /\ EntityModels(r)[e.name] = ClassName(e.name)
  BY <1>1 DEF EntityModels
<1>3. ClassName(e.name) \in DOMAIN FieldClasses(r)
  BY <1>1 DEF FieldClasses
<1>4. chosen \in SemanticModels(r) /\ chosen.class = ClassName(e.name)
  BY <1>1, <1>3 DEF FieldClasses
<1>5. PICK f \in ModelledEntities(r) : chosen = SemanticModel(r, f)
  BY <1>4 DEF SemanticModels
<1>6. chosen.type = e.name
  BY <1>1, <1>4, ClassAssumption
<1>7. f \in r.entities /\ f.name = e.name
  BY <1>5, <1>6 DEF SemanticModel, ModelledEntities
<1>8. f = e
  BY <1>7, NamesAreUnique
<1>9. chosen.identity = IdentifyingRefs(e)
  BY <1>5, <1>8 DEF SemanticModel
<1> QED
  BY <1>2, <1>3, <1>9

(***************************************************************************)
(* The generator's files agree with each other, for every registry that it *)
(* accepts.                                                                *)
(***************************************************************************)
THEOREM GeneratedFilesAgree ==
    ASSUME NEW x \in Accepted
    PROVE  Agrees(Generation[x])
<1> DEFINE r == Merged(Registry[x])
           g == Generation[x]
<1>1. g["gremlin_schema"] = g["arangodb_schema"]
  BY FilesSay
<1>2. ASSUME NEW j \in g["java_registry"].relationships
      PROVE  RelationshipAgrees(g, j)
  <2>1. j \in JavaRegistry(r).relationships
    BY FilesSay
  <2>2. PICK rel \in GraphRelationships(r) :
            rel.name = j.type /\ rel.source = j.source /\ rel.target = j.target
    BY <2>1, JavaRelationships
  <2>3. <<j.source, j.type, j.target>> \in DOMAIN EdgeModels(r)
    BY <2>2 DEF EdgeModels, GraphRelationships, Triple
  <2>4. /\ {rel.source, rel.target} \subseteq GraphEntityNames(r)
        /\ rel.name \in GraphRelationshipNames(r)
        /\ SafeName(rel.source) \in EdgeDefinition(r, rel.name).from
        /\ SafeName(rel.target) \in EdgeDefinition(r, rel.name).to
    BY SchemaHasRelationship
  <2>5. /\ DOMAIN ArangodbSchema(r).vertices = GraphEntityNames(r)
        /\ DOMAIN ArangodbSchema(r).edges = GraphRelationshipNames(r)
        /\ ArangodbSchema(r).edges[rel.name] = EdgeDefinition(r, rel.name)
        /\ ArangodbSchema(r).vertices[rel.source].collection = SafeName(rel.source)
        /\ ArangodbSchema(r).vertices[rel.target].collection = SafeName(rel.target)
    BY <2>4 DEF ArangodbSchema, Vertex
  <2> QED
    BY <2>2, <2>3, <2>4, <2>5, FilesSay DEF RelationshipAgrees
<1>3. ASSUME NEW type \in DOMAIN g["java_registry"].entities
      PROVE  EntityAgrees(g, type)
  <2>0. type \in DOMAIN JavaRegistry(r).entities
    BY FilesSay
  <2>1. PICK e \in r.entities :
            /\ e.name = type
            /\ IdentifyingRefs(e) # {}
            /\ JavaRegistry(r).entities[type].identity = IdentifyingRefs(e)
    BY <2>0, JavaEntities
  <2>2. /\ type \in DOMAIN EntityModels(r)
        /\ EntityModels(r)[type] \in DOMAIN FieldClasses(r)
        /\ FieldClasses(r)[EntityModels(r)[type]].identity = IdentifyingRefs(e)
    BY <2>1, ClassOfType
  <2>3. ASSUME ObservedBy(JavaRegistry(r), type, "service_graph")
        PROVE  IdentifyingRefs(e) \ TemplateSuffixed \subseteq ServiceGraphDimensions(r)
    <3>1. e.name \in EntityNamesForSignal(r, "service_graph")
      BY <2>1, <2>3, ObservedNames DEF GraphEvidenceSignals
    <3> QED
      BY <3>1, IdentityIsADimension DEF ServiceGraphDimensions
  <2>4. ASSUME ObservedBy(JavaRegistry(r), type, "span_metrics")
        PROVE  IdentifyingRefs(e) \ TemplateSuffixed
                \subseteq RootSpanDimensions(r) \cup SpanMetricsBuiltinDimensions
    <3>1. e.name \in EntityNamesForSignal(r, "span_metrics")
      BY <2>1, <2>4, ObservedNames DEF GraphEvidenceSignals
    <3>2. IdentifyingRefs(e) \ TemplateSuffixed
            \subseteq ScalarEntityAttributes(r, EntityNamesForSignal(r, "span_metrics"))
      BY <3>1, IdentityIsADimension
    <3> QED
      BY <3>2 DEF RootSpanDimensions
  <2> QED
    BY <2>1, <2>2, <2>3, <2>4, FilesSay DEF EntityAgrees
<1> QED
  BY <1>1, <1>2, <1>3 DEF Agrees

(* No vertex has a property that is named like half an edge. *)
LEMMA NoVertexLooksLikeAnEdge ==
    ASSUME NEW x \in Accepted
    PROVE  NoEndpointAlias(Generation[x]["arangodb_schema"])
<1>1. Generation[x]["arangodb_schema"] = ArangodbSchema(Merged(Registry[x]))
  BY FilesSay
<1>2. \A ref \in GraphDimensions(Merged(Registry[x])) :
        SafeName(ref) \notin {"source_id", "target_id"}
  BY AliasAssumption
<1> QED
  BY <1>1, <1>2 DEF NoEndpointAlias, ArangodbSchema

(* What an entity refers to is defined, and stays as it is in a larger registry. *)
LEMMA AttributesStay ==
    ASSUME NEW x \in Accepted, NEW y \in Accepted, Includes(Registry[x], Registry[y]),
           NEW e \in Merged(Registry[y]).entities, NEW ref \in DOMAIN e.attributes
    PROVE  /\ ref \in AttributeIds(Merged(Registry[y]))
           /\ ref \in AttributeIds(Merged(Registry[x]))
           /\ Attribute(Merged(Registry[x]), ref) = Attribute(Merged(Registry[y]), ref)
<1> DEFINE r == Merged(Registry[x])
           q == Merged(Registry[y])
<1>1. q.attributes \subseteq r.attributes
  BY DEF Merged, Includes
<1>2. ref \in AttributeIds(q)
  <2>1. CASE e \in Upstream.entities
    BY <2>1, UpstreamAssumption DEF Merged, AttributeIds
  <2>2. CASE e \in Registry[y].entities
    BY <2>2 DEF Accepted, Generates, ValidExtension, ValidEntity
  <2> QED
    BY <2>1, <2>2 DEF Merged
<1>3. PICK a \in q.attributes : a.id = ref
  BY <1>2 DEF AttributeIds
<1>4. a \in r.attributes
  BY <1>1, <1>3
<1>5. Attribute(q, ref) = a
  BY <1>3, NamesAreUnique DEF Attribute
<1>6. Attribute(r, ref) = a
  BY <1>3, <1>4, NamesAreUnique DEF Attribute
<1> QED
  BY <1>2, <1>3, <1>4, <1>5, <1>6 DEF AttributeIds

LEMMA ModelsStay ==
    ASSUME NEW x \in Accepted, NEW y \in Accepted, Includes(Registry[x], Registry[y])
    PROVE  /\ \A e \in Merged(Registry[y]).entities :
                SemanticModel(Merged(Registry[x]), e) = SemanticModel(Merged(Registry[y]), e)
           /\ SemanticModels(Merged(Registry[y])) \subseteq SemanticModels(Merged(Registry[x]))
<1> DEFINE r == Merged(Registry[x])
           q == Merged(Registry[y])
<1>1. ASSUME NEW e \in q.entities
      PROVE  SemanticModel(r, e) = SemanticModel(q, e)
  <2>1. \A ref \in DOMAIN e.attributes : SemanticField(r, e, ref) = SemanticField(q, e, ref)
    BY AttributesStay DEF SemanticField
  <2>2. [ref \in DOMAIN e.attributes |-> SemanticField(r, e, ref)] =
        [ref \in DOMAIN e.attributes |-> SemanticField(q, e, ref)]
    BY <2>1
  <2> QED
    BY <2>2 DEF SemanticModel
<1>2. ModelledEntities(q) \subseteq ModelledEntities(r)
  BY DEF ModelledEntities, Merged, Includes
<1>3. \A e \in ModelledEntities(q) : e \in q.entities
  BY DEF ModelledEntities
<1> QED
  BY <1>1, <1>2, <1>3 DEF SemanticModels

(* The models of one type, and with it those of one class, are one. *)
LEMMA ModelOfClass ==
    ASSUME NEW x \in Accepted,
           NEW m \in SemanticModels(Merged(Registry[x])),
           NEW n \in SemanticModels(Merged(Registry[x])),
           m.class = n.class
    PROVE  m = n
<1> DEFINE r == Merged(Registry[x])
<1>1. PICK e \in ModelledEntities(r) : m = SemanticModel(r, e)
  BY DEF SemanticModels
<1>2. PICK f \in ModelledEntities(r) : n = SemanticModel(r, f)
  BY DEF SemanticModels
<1>3. m.type = n.type
  BY ClassAssumption
<1>4. e.name = f.name
  BY <1>1, <1>2, <1>3 DEF SemanticModel
<1>5. e = f
  BY <1>4, NamesAreUnique DEF ModelledEntities
<1> QED
  BY <1>1, <1>2, <1>5

LEMMA FieldClassesStay ==
    ASSUME NEW x \in Accepted, NEW y \in Accepted, Includes(Registry[x], Registry[y])
    PROVE  Keeps(FieldClasses(Merged(Registry[x])), FieldClasses(Merged(Registry[y])))
<1> DEFINE r == Merged(Registry[x])
           q == Merged(Registry[y])
<1>1. SemanticModels(q) \subseteq SemanticModels(r)
  BY ModelsStay
<1>2. ASSUME NEW class \in DOMAIN FieldClasses(q)
      PROVE  /\ class \in DOMAIN FieldClasses(r)
             /\ FieldClasses(r)[class] = FieldClasses(q)[class]
  <2>1. \E m \in SemanticModels(q) : m.class = class
    BY DEF FieldClasses
  <2>2. /\ FieldClasses(q)[class] \in SemanticModels(q)
        /\ FieldClasses(q)[class].class = class
    BY <2>1 DEF FieldClasses
  <2>3. class \in DOMAIN FieldClasses(r)
    BY <1>1, <2>1 DEF FieldClasses
  <2>4. /\ FieldClasses(r)[class] \in SemanticModels(r)
        /\ FieldClasses(r)[class].class = class
    BY <1>1, <2>1 DEF FieldClasses
  <2> QED
    BY <1>1, <2>2, <2>3, <2>4, ModelOfClass
<1> QED
  BY <1>2 DEF Keeps

LEMMA JavaEntitiesStay ==
    ASSUME NEW x \in Accepted, NEW y \in Accepted, Includes(Registry[x], Registry[y])
    PROVE  Keeps(JavaRegistry(Merged(Registry[x])).entities,
                 JavaRegistry(Merged(Registry[y])).entities)
<1> DEFINE r == Merged(Registry[x])
           q == Merged(Registry[y])
<1>1. SemanticModels(q) \subseteq SemanticModels(r)
  BY ModelsStay
<1>2. ASSUME NEW type \in DOMAIN JavaRegistry(q).entities
      PROVE  /\ type \in DOMAIN JavaRegistry(r).entities
             /\ JavaRegistry(r).entities[type] = JavaRegistry(q).entities[type]
  <2>1. type \in DOMAIN JavaRegistry(r).entities
    BY <1>1 DEF JavaRegistry
  <2>2. PICK e \in q.entities : e.name = type
    BY JavaEntities
  <2>3. e \in r.entities
    BY <2>2 DEF Merged, Includes
  <2>4. Entity(q, type) = e /\ Entity(r, type) = e
    BY <2>2, <2>3, EntityIs
  <2>5. SemanticModel(r, e) = SemanticModel(q, e)
    BY ModelsStay
  <2> QED
    BY <2>1, <2>4, <2>5 DEF JavaRegistry
<1> QED
  BY <1>2 DEF Keeps

(* The Collector keeps every dimension that it kept. *)
LEMMA DimensionsStay ==
    ASSUME NEW x \in Accepted, NEW y \in Accepted, Includes(Registry[x], Registry[y]),
           NEW M, NEW N, N \subseteq M
    PROVE  /\ ScalarEntityAttributes(Merged(Registry[y]), N)
                \subseteq ScalarEntityAttributes(Merged(Registry[x]), M)
           /\ \A e \in Merged(Registry[y]).entities : \A ref \in DOMAIN e.attributes :
                IncludeDimension(Merged(Registry[y]), ref)
                    => IncludeDimension(Merged(Registry[x]), ref)
<1> DEFINE r == Merged(Registry[x])
           q == Merged(Registry[y])
           Of(s, e) == {ref \in DOMAIN e.attributes : IncludeDimension(s, ref)}
<1>1. ASSUME NEW e \in q.entities, NEW ref \in DOMAIN e.attributes, IncludeDimension(q, ref)
      PROVE  IncludeDimension(r, ref)
  BY <1>1, AttributesStay DEF IncludeDimension
<1>2. ASSUME NEW ref \in ScalarEntityAttributes(q, N)
      PROVE  ref \in ScalarEntityAttributes(r, M)
  <2>1. PICK e \in {f \in q.entities : f.name \in N} : ref \in Of(q, e)
    BY DEF ScalarEntityAttributes
  <2>2. e \in {f \in r.entities : f.name \in M}
    BY <2>1 DEF Merged, Includes
  <2>3. ref \in Of(r, e)
    BY <1>1, <2>1
  <2> QED
    BY <2>2, <2>3 DEF ScalarEntityAttributes
<1> QED
  BY <1>1, <1>2

LEMMA NamesStay ==
    ASSUME NEW r, NEW q, q.relationships \subseteq r.relationships
    PROVE  /\ GraphRelationships(q) \subseteq GraphRelationships(r)
           /\ \A signal : EntityNamesForSignal(q, signal) \subseteq EntityNamesForSignal(r, signal)
           /\ GraphEntityNames(q) \subseteq GraphEntityNames(r)
           /\ GraphRelationshipNames(q) \subseteq GraphRelationshipNames(r)
<1>1. GraphRelationships(q) \subseteq GraphRelationships(r)
  BY DEF GraphRelationships
<1>2. \A signal : EntityNamesForSignal(q, signal) \subseteq EntityNamesForSignal(r, signal)
  BY DEF EntityNamesForSignal
<1>3. GraphEntityNames(q) \subseteq GraphEntityNames(r)
  BY <1>2 DEF GraphEntityNames
<1>4. GraphRelationshipNames(q) \subseteq GraphRelationshipNames(r)
  BY <1>1 DEF GraphRelationshipNames
<1> QED
  BY <1>1, <1>2, <1>3, <1>4

LEMMA DiscoveryStays ==
    ASSUME NEW x \in Accepted, NEW y \in Accepted, Includes(Registry[x], Registry[y])
    PROVE  LET r == Merged(Registry[x])
               q == Merged(Registry[y])
           IN  /\ ServiceGraphDimensions(q) \subseteq ServiceGraphDimensions(r)
               /\ GraphDimensions(q) \subseteq GraphDimensions(r)
               /\ RootSpanDimensions(q) \subseteq RootSpanDimensions(r)
               /\ RootSpanRouting(q) \subseteq RootSpanRouting(r)
               /\ RootSpanModeled(q) \subseteq RootSpanModeled(r)
<1> DEFINE r == Merged(Registry[x])
           q == Merged(Registry[y])
           Measured(s) == EntityNamesForSignal(s, "span_metrics")
           Routing(s, e) == {ref \in IdentifyingRefs(e) : IncludeDimension(s, ref)}
<1>1. q.relationships \subseteq r.relationships
  BY DEF Merged, Includes
<1>2. ServiceGraphDimensions(q) \subseteq ServiceGraphDimensions(r)
  BY <1>1, NamesStay, DimensionsStay DEF ServiceGraphDimensions
<1>3. GraphDimensions(q) \subseteq GraphDimensions(r)
  BY <1>1, NamesStay, DimensionsStay DEF GraphDimensions
<1>4. Measured(q) \subseteq Measured(r)
  BY <1>1, NamesStay
<1>5. ScalarEntityAttributes(q, Measured(q)) \subseteq ScalarEntityAttributes(r, Measured(r))
  BY <1>4, DimensionsStay
<1>6. ASSUME NEW e \in {f \in q.entities : f.name \in Measured(q)}
      PROVE  /\ e \in {f \in r.entities : f.name \in Measured(r)}
             /\ Routing(q, e) \subseteq Routing(r, e)
  BY <1>4, <1>6, DimensionsStay DEF Merged, Includes, IdentifyingRefs
<1>7. RootSpanRouting(q) \subseteq RootSpanRouting(r)
  BY <1>6 DEF RootSpanRouting
<1> QED
  BY <1>2, <1>3, <1>5, <1>7 DEF RootSpanDimensions, RootSpanModeled

(* An observed entity's vertex is identified by all that the Collector lets through. *)
LEMMA VertexIs ==
    ASSUME NEW x \in Accepted, NEW name \in GraphEntityNames(Merged(Registry[x]))
    PROVE  \E e \in Merged(Registry[x]).entities :
            /\ e.name = name
            /\ Vertex(Merged(Registry[x]), name) =
                [collection |-> SafeName(name), identifying |-> IdentifyingRefs(e) \ TemplateSuffixed]
<1> DEFINE r == Merged(Registry[x])
<1>1. PICK signal \in GraphEvidenceSignals : name \in EntityNamesForSignal(r, signal)
  BY DEF GraphEntityNames
<1>2. PICK rel \in r.relationships : name \in {rel.source, rel.target}
  BY <1>1 DEF EntityNamesForSignal
<1>3. rel \in Registry[x].relationships
  BY <1>2, UpstreamAssumption DEF Merged
<1>4. name \in EntityNames(r)
  BY <1>2, <1>3 DEF Accepted, Generates, ValidExtension, ValidRelationship
<1>5. PICK e \in r.entities : e.name = name
  BY <1>4 DEF EntityNames
<1>6. Entity(r, name) = e
  BY <1>5, EntityIs
<1>7. IdentifyingRefs(e) \ TemplateSuffixed \subseteq GraphDimensions(r)
  BY <1>5, IdentityIsADimension DEF GraphDimensions
<1>8. GraphDimensions(r) \cap TemplateSuffixed = {}
  BY DEF GraphDimensions, ScalarEntityAttributes, IncludeDimension
<1>9. IdentifyingRefs(e) \cap GraphDimensions(r) = IdentifyingRefs(e) \ TemplateSuffixed
  BY <1>7, <1>8
<1> QED
  BY <1>5, <1>6, <1>9 DEF Vertex

LEMMA TopologyStays ==
    ASSUME NEW x \in Accepted, NEW y \in Accepted, Includes(Registry[x], Registry[y])
    PROVE  KeepsTopology(ArangodbSchema(Merged(Registry[x])), ArangodbSchema(Merged(Registry[y])))
<1> DEFINE r == Merged(Registry[x])
           q == Merged(Registry[y])
<1>0. q.entities \subseteq r.entities /\ q.relationships \subseteq r.relationships
  BY DEF Merged, Includes
<1>1. /\ GraphEntityNames(q) \subseteq GraphEntityNames(r)
      /\ GraphRelationshipNames(q) \subseteq GraphRelationshipNames(r)
      /\ GraphRelationships(q) \subseteq GraphRelationships(r)
  BY <1>0, NamesStay
<1>2. ASSUME NEW name \in GraphEntityNames(q)
      PROVE  Vertex(r, name) = Vertex(q, name)
  <2>1. PICK e \in q.entities :
            /\ e.name = name
            /\ Vertex(q, name) = [collection |-> SafeName(name),
                                  identifying |-> IdentifyingRefs(e) \ TemplateSuffixed]
    BY VertexIs
  <2>2. PICK f \in r.entities :
            /\ f.name = name
            /\ Vertex(r, name) = [collection |-> SafeName(name),
                                  identifying |-> IdentifyingRefs(f) \ TemplateSuffixed]
    BY <1>1, VertexIs
  <2>3. e = f
    BY <1>0, <2>1, <2>2, NamesAreUnique
  <2> QED
    BY <2>1, <2>2, <2>3
<1>3. ASSUME NEW name
      PROVE  /\ EdgeDefinition(r, name).collection = EdgeDefinition(q, name).collection
             /\ EdgeDefinition(q, name).from \subseteq EdgeDefinition(r, name).from
             /\ EdgeDefinition(q, name).to \subseteq EdgeDefinition(r, name).to
  BY <1>1 DEF EdgeDefinition
<1>4. GraphDimensions(q) \subseteq GraphDimensions(r)
  BY DiscoveryStays
<1>5. Keeps(ArangodbSchema(r).vertices, ArangodbSchema(q).vertices)
  BY <1>1, <1>2 DEF Keeps, ArangodbSchema
<1>6. Keeps(ArangodbSchema(r).aliases, ArangodbSchema(q).aliases)
  BY <1>4 DEF Keeps, ArangodbSchema
<1>7. \A name \in DOMAIN ArangodbSchema(q).edges :
        /\ name \in DOMAIN ArangodbSchema(r).edges
        /\ ArangodbSchema(r).edges[name] = EdgeDefinition(r, name)
        /\ ArangodbSchema(q).edges[name] = EdgeDefinition(q, name)
  BY <1>1 DEF ArangodbSchema
<1> QED
  BY <1>3, <1>5, <1>6, <1>7 DEF KeepsTopology

(***************************************************************************)
(* A registry that grows generates files that keep what they said: every   *)
(* class and the model of its fields, every relationship and dimension,    *)
(* the identity and the fields by which the job recognizes an entity, and  *)
(* of the graph database every collection, property and alias and the      *)
(* collections that an edge may connect.                                   *)
(***************************************************************************)
THEOREM GeneratedFilesGrow ==
    ASSUME NEW x \in Accepted, NEW y \in Accepted, Includes(Registry[x], Registry[y])
    PROVE  KeepsFiles(Generation[x], Generation[y])
<1> DEFINE r == Merged(Registry[x])
           q == Merged(Registry[y])
           new == Generation[x]
           old == Generation[y]
<1>1. q.entities \subseteq r.entities /\ q.relationships \subseteq r.relationships
  BY DEF Merged, Includes
<1>2. SemanticModels(q) \subseteq SemanticModels(r)
  BY ModelsStay
<1>3. old["package_init"] \subseteq new["package_init"]
  BY <1>1, <1>2 DEF Generation, Files
<1>4. Keeps(new["models"], old["models"]) /\ Keeps(new["semantic_schema"], old["semantic_schema"])
  BY FieldClassesStay DEF Generation, Files
<1>5. Keeps(EntityModels(r), EntityModels(q))
  BY <1>2 DEF Keeps, EntityModels
<1>6. Keeps(EdgeModels(r), EdgeModels(q))
  BY <1>1 DEF Keeps, EdgeModels
<1>7. Keeps(new["entities"], old["entities"]) /\ Keeps(new["edges"], old["edges"])
  BY <1>5, <1>6, FilesSay
<1>8. new["package_lock"] = old["package_lock"]
  BY DEF Generation, Files
<1>9. old["relationship_metadata"] \subseteq new["relationship_metadata"]
  BY <1>1, NamesStay DEF Generation, Files
<1>10. /\ old["collector_dimensions"] \subseteq new["collector_dimensions"]
       /\ old["collector_discovery"].dimensions \subseteq new["collector_discovery"].dimensions
       /\ old["collector_discovery"].routing \subseteq new["collector_discovery"].routing
       /\ old["collector_discovery"].modeled \subseteq new["collector_discovery"].modeled
  BY DiscoveryStays DEF Generation, Files
<1>11. /\ KeepsTopology(new["arangodb_schema"], old["arangodb_schema"])
       /\ KeepsTopology(new["gremlin_schema"], old["gremlin_schema"])
  BY TopologyStays, FilesSay
<1>12. old["java_registry"].relationships \subseteq new["java_registry"].relationships
  <2>1. JavaRegistry(q).relationships \subseteq JavaRegistry(r).relationships
    BY <1>1 DEF JavaRegistry, GraphRelationships
  <2> QED
    BY <2>1, FilesSay
<1>13. Keeps(new["java_registry"].entities, old["java_registry"].entities)
  BY JavaEntitiesStay, FilesSay
<1> QED
  BY <1>3, <1>4, <1>7, <1>8, <1>9, <1>10, <1>11, <1>12, <1>13 DEF KeepsFiles

-----------------------------------------------------------------------------
(* Trees, releases and what has been built from them *)

Generated(built) == \E x \in Accepted : GeneratedBy(built, x)

LEMMA GeneratedAgrees ==
    ASSUME NEW built, Generated(built)
    PROVE  Agrees(Contents(built)) /\ NoEndpointAlias(Schema(built))
<1>1. PICK x \in Accepted : GeneratedBy(built, x)
  BY DEF Generated
<1>2. PathSet = {"package_init", "models", "entities", "edges", "package_lock",
                 "semantic_schema", "relationship_metadata", "collector_dimensions",
                 "collector_discovery", "arangodb_schema", "java_registry", "gremlin_schema"}
  BY DEF PathSet, Paths
<1>3. Contents(built) = Generation[x]
  <2>1. Contents(built) = [path \in PathSet |-> Generation[x][path]]
    BY <1>1 DEF Contents, GeneratedBy
  <2>2. DOMAIN Generation[x] = PathSet
    BY <1>2 DEF Generation, Files
  <2>3. Generation[x] = [path \in DOMAIN Generation[x] |-> Generation[x][path]]
    BY DEF Generation, Files
  <2> QED
    BY <2>1, <2>2, <2>3
<1>4. Schema(built) = Generation[x]["arangodb_schema"]
  BY <1>1 DEF Schema, GeneratedBy, PathSet, Paths
<1> QED
  BY <1>3, <1>4, GeneratedFilesAgree, NoVertexLooksLikeAnEdge

LEMMA GrownCovers ==
    ASSUME NEW built, NEW old, NEW x \in Accepted, NEW y \in Accepted,
           GeneratedBy(built, x), GeneratedBy(old, y),
           Includes(Registry[x], Registry[y])
    PROVE  Covers(built, old)
<1>1. "java_registry" \in PathSet
  BY DEF PathSet, Paths
<1>2. /\ JavaOf(built) = Generation[x]["java_registry"]
      /\ JavaOf(old) = Generation[y]["java_registry"]
  BY <1>1 DEF JavaOf, GeneratedBy
<1> QED
  BY <1>2, GeneratedFilesGrow DEF Covers, KeepsFiles, Keeps

LEMMA CoversIsReflexive ==
    ASSUME NEW built
    PROVE  Covers(built, built)
BY DEF Covers

LEMMA CoversIsTransitive ==
    ASSUME NEW s, NEW t, NEW u, Covers(s, t), Covers(t, u)
    PROVE  Covers(s, u)
BY DEF Covers

LEMMA CoveringEmits ==
    ASSUME NEW built, NEW old, Covers(built, old), NEW e, Emittable(old, e)
    PROVE  Emittable(built, e)
BY DEF Covers, Emittable

(* Every part of one release speaks of what another part may emit. *)
LEMMA ContentsOf ==
    ASSUME NEW built
    PROVE  /\ Contents(built)["java_registry"] = JavaOf(built)
           /\ Contents(built)["arangodb_schema"] = Schema(built)
           /\ Contents(built)["edges"] = Content(built, "edges")
           /\ Contents(built)["entities"] = Content(built, "entities")
           /\ Contents(built)["models"] = Content(built, "models")
BY DEF Contents, JavaOf, Schema, PathSet, Paths

LEMMA EmittableHasAPlace ==
    ASSUME NEW built, Generated(built), NEW e, Emittable(built, e)
    PROVE  /\ e.kind = "node" => e.type \in DOMAIN Schema(built).vertices
           /\ e.kind # "node" =>
                /\ e.type \in DOMAIN Schema(built).edges
                /\ {e.source, e.target} \subseteq DOMAIN Schema(built).vertices
<1>1. \A rel \in JavaOf(built).relationships :
        /\ {rel.source, rel.target} \subseteq DOMAIN Schema(built).vertices
        /\ rel.type \in DOMAIN Schema(built).edges
  BY GeneratedAgrees, ContentsOf DEF Agrees, RelationshipAgrees
<1> QED
  BY <1>1 DEF Emittable

LEMMA EmittableHasAClass ==
    ASSUME NEW built, Generated(built), NEW e, Emittable(built, e)
    PROVE  /\ e.kind = "edge" => <<e.source, e.type, e.target>> \in DOMAIN Content(built, "edges")
           /\ e.kind = "node" =>
                /\ e.type \in DOMAIN Content(built, "entities")
                /\ Content(built, "models")[Content(built, "entities")[e.type]].identity
                        \subseteq e.attributes
<1>1. \A rel \in JavaOf(built).relationships :
        <<rel.source, rel.type, rel.target>> \in DOMAIN Content(built, "edges")
  BY GeneratedAgrees, ContentsOf DEF Agrees, RelationshipAgrees
<1>2. \A type \in DOMAIN JavaOf(built).entities :
        /\ type \in DOMAIN Content(built, "entities")
        /\ Content(built, "models")[Content(built, "entities")[type]].identity =
                JavaOf(built).entities[type].identity
  BY GeneratedAgrees, ContentsOf DEF Agrees, EntityAgrees
<1>3. CASE e.kind = "edge"
  <2>1. PICK rel \in JavaOf(built).relationships :
            rel.type = e.type /\ rel.source = e.source /\ rel.target = e.target
    BY <1>3 DEF Emittable
  <2>2. <<rel.source, rel.type, rel.target>> = <<e.source, e.type, e.target>>
    BY <2>1
  <2> QED
    BY <1>1, <1>3, <2>2
<1>4. CASE e.kind = "node"
  BY <1>2, <1>4 DEF Emittable
<1> QED
  BY <1>3, <1>4

LEMMA IdentityIsStored ==
    ASSUME NEW built, Generated(built), NEW type \in DOMAIN JavaOf(built).entities
    PROVE  JavaOf(built).entities[type].identity \subseteq DOMAIN JavaOf(built).entities[type].fields
<1>1. PICK x \in Accepted : GeneratedBy(built, x)
  BY DEF Generated
<1>2. JavaOf(built) = JavaRegistry(Merged(Registry[x]))
  BY <1>1, FilesSay DEF GeneratedBy, JavaOf, PathSet, Paths
<1>3. PICK e \in Merged(Registry[x]).entities :
        /\ JavaOf(built).entities[type].identity = IdentifyingRefs(e)
        /\ DOMAIN JavaOf(built).entities[type].fields = DOMAIN e.attributes
  BY <1>2, JavaEntities
<1> QED
  BY <1>3 DEF IdentifyingRefs

(* Whatever the job extracts from a data point is Emittable. *)
LEMMA ElementsAreEmittable ==
    ASSUME Generated(deployed["job"]), NEW point, NEW e \in Elements(point)
    PROVE  Emittable(deployed["job"], e)
<1> DEFINE job == deployed["job"]
           IsNode(n) == /\ n.kind = "node"
                        /\ n.type \in DOMAIN JavaOf(job).entities
                        /\ Emittable(job, n)
<1>1. Java = JavaOf(job)
  BY DEF Java, JavaOf
<1>2. ASSUME NEW attributes, NEW side, NEW lane, NEW n \in Nodes(attributes, side, lane)
      PROVE  IsNode(n)
  <2>1. PICK type \in DOMAIN Java.entities :
            /\ Java.entities[type].identity \subseteq attributes
            /\ Supports(lane, type)
            /\ n = Node(type, attributes, side)
    BY DEF Nodes
  <2>2. Java.entities[type].identity \subseteq n.attributes
    BY <1>1, <2>1, IdentityIsStored DEF Node
  <2>3. n.kind = "node" /\ n.type = type
    BY <2>1 DEF Node
  <2>4. \E rel \in Java.relationships : type \in {rel.source, rel.target}
    BY <2>1 DEF Supports
  <2> QED
    BY <1>1, <2>1, <2>2, <2>3, <2>4 DEF Emittable
<1>3. ASSUME NEW sources, NEW targets, NEW lane, NEW scope, NEW connection,
             \A n \in sources \cup targets : IsNode(n),
             NEW f \in Edges(sources, targets, lane, scope, connection)
      PROVE  Emittable(job, f)
  <2>1. PICK y \in sources \X Java.relationships \X targets :
            /\ f = Edge(y[1], y[2].type, y[3])
            /\ y[1].type = y[2].source
            /\ y[3].type = y[2].target
    BY DEF Edges
  <2>2. y[1] \in sources /\ y[2] \in Java.relationships /\ y[3] \in targets
    OBVIOUS
  <2>3. /\ f.kind = "edge" /\ f.type = y[2].type
        /\ f.source = y[1].type /\ f.target = y[3].type
    BY <2>1 DEF Edge
  <2> QED
    BY <1>1, <1>3, <2>1, <2>2, <2>3 DEF Emittable
<1>4. ASSUME NEW nodes, NEW lane, \A n \in nodes : IsNode(n),
             NEW f \in MaterializeObservation(nodes, lane)
      PROVE  Emittable(job, f)
  BY <1>3, <1>4 DEF MaterializeObservation
<1> DEFINE clients == Nodes(Carried(point.client, point.lane), "client", point.lane)
           servers == Nodes(Carried(point.server, point.lane), "server", point.lane)
<1>5. \A n \in clients \cup servers : IsNode(n)
  BY <1>2
<1>6. \/ e \in MaterializeObservation(clients, point.lane)
      \/ e \in MaterializeObservation(servers, point.lane)
      \/ e \in Edges(clients, servers, point.lane, "interaction", point.connection)
  BY DEF Elements
<1> HIDE DEF clients, servers, IsNode
<1>7. CASE e \in MaterializeObservation(clients, point.lane)
  BY <1>4, <1>5, <1>7
<1>8. CASE e \in MaterializeObservation(servers, point.lane)
  BY <1>4, <1>5, <1>8
<1>9. CASE e \in Edges(clients, servers, point.lane, "interaction", point.connection)
  BY <1>3, <1>5, <1>9
<1> QED
  BY <1>6, <1>7, <1>8, <1>9

-----------------------------------------------------------------------------
(* The inductive invariant *)

SourceInv ==
    /\ extension \in Extensions
    /\ files \in Trees
    /\ stray \in BOOLEAN
    /\ writing = Null \/ writing \in [from : Accepted, next : DOMAIN Paths]
    /\ release \in [PathSet -> Accepted]
    /\ deployed \in [Components -> [PathSet -> Accepted]]

(* What CI let pass is what one registry generates, still part of the extension. *)
IsReleasedFrom(built, x) ==
    \E y \in Accepted : GeneratedBy(built, y) /\ Includes(Registry[x], Registry[y])

(* The job is never ahead of the indexer or of the clients. *)
Staggered(components, built) ==
    /\ \A c \in Components : Generated(components[c]) /\ Covers(built, components[c])
    /\ Covers(components["indexer"], components["job"])
    /\ Covers(components["client"], components["job"])

LooksLikeItsKind(d) ==
    /\ "source_id" \in d.properties <=> d.element.kind = "edge"
    /\ "target_id" \in d.properties <=> d.element.kind = "edge"

ElementsOf(events, documents) == events \cup {d.element : d \in documents}

GraphInv(events, documents, job) ==
    /\ \A e \in ElementsOf(events, documents) : Emittable(job, e)
    /\ \A d \in documents : LooksLikeItsKind(d)

IInv ==
    /\ SourceInv
    /\ IsReleasedFrom(release, extension)
    /\ Staggered(deployed, release)
    /\ GraphInv(topic, store, deployed["job"])

LEMMA ReleasedIsGenerated ==
    ASSUME NEW built, NEW x, IsReleasedFrom(built, x)
    PROVE  Generated(built)
BY DEF IsReleasedFrom, Generated

LEMMA IncludesIsTransitive ==
    ASSUME NEW x, NEW y, NEW z, Includes(x, y), Includes(y, z)
    PROVE  Includes(x, z)
BY DEF Includes

(* A tree that passes --check is what the extension's registry generates. *)
LEMMA CheckedIsGenerated ==
    ASSUME SourceInv, CheckFiles
    PROVE  /\ extension \in Accepted
           /\ files \in [PathSet -> Accepted]
           /\ GeneratedBy(files, extension)
<1>1. extension \in Accepted
  BY DEF CheckFiles
<1>2. \A path \in PathSet : files[path] \in Accepted
  BY DEF CheckFiles, UpToDate, SourceInv, Trees
<1>3. files \in [PathSet -> Accepted]
  BY <1>2 DEF SourceInv, Trees
<1>4. \A path \in PathSet : Content(files, path) = Generation[extension][path]
  BY DEF CheckFiles, UpToDate, Content
<1> QED
  BY <1>1, <1>3, <1>4 DEF GeneratedBy

LEMMA DocumentsLookLikeTheirKind ==
    ASSUME Generated(deployed["indexer"]),
           NEW built, NEW e, Emittable(built, e)
    PROVE  LooksLikeItsKind(Document(e)) /\ Document(e).element = e
<1>1. NoEndpointAlias(IndexerSchema)
  BY GeneratedAgrees DEF IndexerSchema
<1>2. e.kind = "edge" \/ e.kind = "node"
  BY DEF Emittable
<1> QED
  BY <1>1, <1>2 DEF LooksLikeItsKind, Document, NoEndpointAlias

LEMMA InitImpliesIInv == Init => IInv
<1> SUFFICES ASSUME Init PROVE IInv
  OBVIOUS
<1> USE BaseAssumption
<1>1. Base \in Extensions
  BY DEF Accepted
<1>2. BaseTree \in [PathSet -> Accepted]
  BY DEF BaseTree
<1>3. GeneratedBy(BaseTree, Base)
  BY DEF GeneratedBy, Content, BaseTree
<1>4. Generated(BaseTree) /\ IsReleasedFrom(BaseTree, Base)
  BY <1>3 DEF Generated, IsReleasedFrom, Includes
<1>5. SourceInv
  BY <1>1, <1>2 DEF Init, SourceInv, Trees
<1>6. Staggered(deployed, release)
  BY <1>4, CoversIsReflexive DEF Init, Staggered, Components
<1>7. GraphInv(topic, store, deployed["job"])
  BY DEF Init, GraphInv, ElementsOf
<1> QED
  BY <1>4, <1>5, <1>6, <1>7 DEF IInv, Init

LEMMA SourceStep == IInv /\ [Next]_vars => SourceInv'
<1> SUFFICES ASSUME IInv, [Next]_vars PROVE SourceInv'
  OBVIOUS
<1> USE DEF IInv, SourceInv
<1>1. CASE \E x \in Extensions : Extend(x)
  BY <1>1 DEF Extend, runtime
<1>2. CASE Generate
  <2>1. 1 \in DOMAIN Paths
    BY DEF Paths
  <2> QED
    BY <1>2, <2>1 DEF Generate, runtime
<1>3. CASE WriteFile
  <2>1. writing \in [from : Accepted, next : DOMAIN Paths]
    BY <1>3 DEF WriteFile
  <2>2. files' \in Trees
    BY <1>3, <2>1 DEF WriteFile, Trees
  <2>3. writing' = Null \/ writing' \in [from : Accepted, next : DOMAIN Paths]
    <3>1. DOMAIN Paths = 1 .. 12 /\ Len(Paths) = 12
      BY DEF Paths
    <3> QED
      BY <1>3, <2>1, <3>1 DEF WriteFile
  <2> QED
    BY <1>3, <2>2, <2>3 DEF WriteFile, runtime
<1>4. CASE Interrupt
  BY <1>4 DEF Interrupt, Trees, runtime
<1>5. CASE \E path \in PathSet : BadMerge(path)
  BY <1>5 DEF BadMerge, Trees, runtime
<1>6. CASE Commit
  BY <1>6, CheckedIsGenerated DEF Commit, tree, runtime
<1>7. CASE \E component \in Components : Upgrade(component)
  BY <1>7 DEF Upgrade, tree
<1>8. CASE \E point \in DataPoints : Publish(point)
  BY <1>8 DEF Publish, tree
<1>9. CASE Silence \/ Project \/ UNCHANGED vars
  BY <1>9 DEF Silence, Project, vars, tree, runtime
<1> QED
  BY <1>1, <1>2, <1>3, <1>4, <1>5, <1>6, <1>7, <1>8, <1>9 DEF Next

LEMMA ReleaseStep == IInv /\ [Next]_vars => IsReleasedFrom(release, extension)'
<1> SUFFICES ASSUME IInv, [Next]_vars PROVE IsReleasedFrom(release', extension')
  BY DEF IsReleasedFrom, GeneratedBy
<1>1. CASE \E x \in Extensions : Extend(x)
  <2>1. PICK x \in Extensions : Extend(x)
    BY <1>1
  <2>2. /\ Includes(Registry[x], Registry[extension])
        /\ extension' = x /\ release' = release
    BY <2>1 DEF Extend
  <2>3. PICK y \in Accepted :
            GeneratedBy(release, y) /\ Includes(Registry[extension], Registry[y])
    BY DEF IInv, IsReleasedFrom
  <2>4. Includes(Registry[x], Registry[y])
    BY <2>2, <2>3, IncludesIsTransitive
  <2> QED
    BY <2>2, <2>3, <2>4 DEF IsReleasedFrom
<1>2. CASE Commit
  <2>1. extension' = extension /\ release' = files
    BY <1>2 DEF Commit, tree
  <2>2. extension \in Accepted /\ GeneratedBy(files, extension)
    BY <1>2, CheckedIsGenerated DEF Commit, IInv
  <2> QED
    BY <2>1, <2>2 DEF IsReleasedFrom, Includes
<1>3. CASE UNCHANGED <<extension, release>>
  BY <1>3 DEF IInv
<1> QED
  BY <1>1, <1>2, <1>3 DEF Next, vars, tree, runtime, Generate, WriteFile, Interrupt,
     BadMerge, Upgrade, Publish, Silence, Project

LEMMA StaggeredStep == IInv /\ [Next]_vars => Staggered(deployed, release)'
<1> SUFFICES ASSUME IInv, [Next]_vars PROVE Staggered(deployed', release')
  BY DEF Staggered, Generated, GeneratedBy, Covers
<1>0. Staggered(deployed, release)
  BY DEF IInv
<1>1. CASE Commit
  <2>1. deployed' = deployed /\ release' = files
    BY <1>1 DEF Commit, runtime
  <2>2. extension \in Accepted /\ GeneratedBy(files, extension)
    BY <1>1, CheckedIsGenerated DEF Commit, IInv
  <2>3. PICK y \in Accepted :
            GeneratedBy(release, y) /\ Includes(Registry[extension], Registry[y])
    BY DEF IInv, IsReleasedFrom
  <2>4. Covers(files, release)
    BY <2>2, <2>3, GrownCovers
  <2>5. \A c \in Components : Covers(files, deployed[c])
    BY <1>0, <2>4, CoversIsTransitive DEF Staggered
  <2> QED
    BY <1>0, <2>1, <2>5 DEF Staggered
<1>2. ASSUME NEW component \in Components, Upgrade(component)
      PROVE  Staggered(deployed', release')
  <2>1. /\ deployed' = [deployed EXCEPT ![component] = release]
        /\ release' = release
        /\ MayUpgrade(component)
        /\ DOMAIN deployed = Components
    BY <1>2 DEF Upgrade, IInv, SourceInv
  <2>2. Generated(release) /\ Covers(release, release)
    BY ReleasedIsGenerated, CoversIsReflexive DEF IInv
  <2>3. \A c \in Components : Generated(deployed'[c]) /\ Covers(release', deployed'[c])
    BY <1>0, <2>1, <2>2 DEF Staggered
  <2>4. /\ Covers(deployed'["indexer"], deployed'["job"])
        /\ Covers(deployed'["client"], deployed'["job"])
    <3>1. CASE component = "job"
      BY <2>1, <2>2, <3>1 DEF MayUpgrade, Components
    <3>2. CASE component # "job"
      BY <1>0, <2>1, <3>2 DEF Staggered, Components
    <3> QED
      BY <3>1, <3>2
  <2> QED
    BY <2>3, <2>4 DEF Staggered
<1>3. CASE UNCHANGED <<deployed, release>>
  BY <1>0, <1>3
<1> QED
  BY <1>1, <1>2, <1>3 DEF Next, vars, tree, runtime, Extend, Generate, WriteFile,
     Interrupt, BadMerge, Publish, Silence, Project

LEMMA GraphStep == IInv /\ [Next]_vars => GraphInv(topic, store, deployed["job"])'
<1> SUFFICES ASSUME IInv, [Next]_vars PROVE GraphInv(topic', store', deployed'["job"])
  BY DEF GraphInv, ElementsOf, Emittable, JavaOf, Content
<1> DEFINE job == deployed["job"]
<1>0. /\ GraphInv(topic, store, job)
      /\ Staggered(deployed, release)
      /\ Generated(release) /\ Generated(job) /\ Generated(deployed["indexer"])
  BY ReleasedIsGenerated DEF IInv, Staggered, Components
<1>1. ASSUME NEW component \in Components, Upgrade(component)
      PROVE  GraphInv(topic', store', deployed'["job"])
  <2>1. /\ deployed' = [deployed EXCEPT ![component] = release]
        /\ topic' = topic /\ store' = store
        /\ DOMAIN deployed = Components
    BY <1>1 DEF Upgrade, IInv, SourceInv
  <2>2. deployed'["job"] \in {job, release}
    BY <2>1 DEF Components
  <2>3. Covers(deployed'["job"], job)
    BY <1>0, <2>2, CoversIsReflexive DEF Staggered, Components
  <2>4. \A e : Emittable(job, e) => Emittable(deployed'["job"], e)
    BY <2>3, CoveringEmits
  <2> HIDE DEF job
  <2> QED
    BY <1>0, <2>1, <2>4 DEF GraphInv
<1>2. ASSUME NEW point \in DataPoints, Publish(point)
      PROVE  GraphInv(topic', store', deployed'["job"])
  <2>1. /\ \A e \in topic' : e \in topic \/ e \in Elements(point)
        /\ store' = store /\ deployed' = deployed
    BY <1>2 DEF Publish
  <2>2. \A e \in Elements(point) : Emittable(job, e)
    BY <1>0, ElementsAreEmittable
  <2> HIDE DEF job
  <2>3. \A e \in ElementsOf(topic', store') : Emittable(job, e)
    BY <1>0, <2>1, <2>2 DEF GraphInv, ElementsOf
  <2> QED
    BY <1>0, <2>1, <2>3 DEF GraphInv, job
<1>3. CASE Silence
  BY <1>0, <1>3 DEF Silence, GraphInv, ElementsOf
<1>4. CASE Project
  <2>1. /\ \A d \in store' : d \in store \/ \E e \in Fresh : d = Document(e)
        /\ topic' = topic /\ deployed' = deployed
    BY <1>4 DEF Project
  <2>2. \A e \in Fresh : e \in topic /\ Emittable(job, e)
    BY <1>0 DEF Fresh, GraphInv, ElementsOf
  <2>3. \A e \in Fresh : LooksLikeItsKind(Document(e)) /\ Document(e).element = e
    BY <1>0, <2>2, DocumentsLookLikeTheirKind
  <2> HIDE DEF job
  <2>4. \A d \in store' : LooksLikeItsKind(d) /\ Emittable(job, d.element)
    BY <1>0, <2>1, <2>2, <2>3 DEF GraphInv, ElementsOf
  <2>5. \A e \in ElementsOf(topic', store') : Emittable(job, e)
    BY <1>0, <2>1, <2>4 DEF GraphInv, ElementsOf
  <2> QED
    BY <2>1, <2>4, <2>5 DEF GraphInv, job
<1>5. CASE UNCHANGED <<topic, store, deployed>>
  BY <1>0, <1>5
<1> QED
  BY <1>1, <1>2, <1>3, <1>4, <1>5 DEF Next, vars, tree, runtime, Extend, Generate,
     WriteFile, Interrupt, BadMerge, Commit

LEMMA Inductive == Spec => []IInv
<1>1. IInv /\ [Next]_vars => IInv'
  BY SourceStep, ReleaseStep, StaggeredStep, GraphStep DEF IInv
<1> QED
  BY InitImpliesIInv, <1>1, PTL DEF Spec

-----------------------------------------------------------------------------

(* The trees and components are well-typed, and so is what is in the graph. *)
THEOREM RegistryTypeCorrect == Spec => []TypeOK
<1>1. IInv => TypeOK
  <2> SUFFICES ASSUME IInv PROVE TypeOK
    OBVIOUS
  <2>1. \A e \in topic \cup Indexed : Emittable(deployed["job"], e)
    BY DEF IInv, GraphInv, ElementsOf, Indexed
  <2>2. \A e \in topic \cup Indexed :
            e.kind = "edge" => {e.source, e.target} \subseteq DOMAIN Java.entities
    BY <2>1 DEF Emittable, Java, JavaOf
  <2> QED
    BY <2>2 DEF TypeOK, IInv, SourceInv
<1> QED
  BY <1>1, Inductive, PTL

(***************************************************************************)
(* Every release that CI lets pass agrees with itself, for every registry  *)
(* and however its files were written, cut off and merged.                 *)
(***************************************************************************)
THEOREM EveryReleaseAgrees == Spec => []ReleaseAgrees
<1>1. IInv => ReleaseAgrees
  BY ReleasedIsGenerated, GeneratedAgrees DEF IInv, ReleaseAgrees, Contents
<1> QED
  BY <1>1, Inductive, PTL

(***************************************************************************)
(* Upgrades in which the job waits for the indexer never make it emit what *)
(* the indexer refuses, for every registry and every data point.           *)
(***************************************************************************)
THEOREM EventsStayIndexable == Spec => []EveryEventIndexable
<1>1. IInv => EveryEventIndexable
  <2> SUFFICES ASSUME IInv PROVE EveryEventIndexable
    OBVIOUS
  <2>1. Generated(deployed["indexer"]) /\ Covers(deployed["indexer"], deployed["job"])
    BY DEF IInv, Staggered, Components
  <2>2. \A e \in topic \cup Indexed : Emittable(deployed["job"], e)
    BY DEF IInv, GraphInv, ElementsOf, Indexed
  <2>3. \A e \in topic \cup Indexed : Emittable(deployed["indexer"], e)
    BY <2>1, <2>2, CoveringEmits
  <2>4. \A e \in topic \cup Indexed : Convertible(e) /\ Deletable(e)
    BY <2>1, <2>3, EmittableHasAPlace DEF Convertible, Deletable, IndexerSchema
  <2> QED
    BY <2>4 DEF EveryEventIndexable, Fresh, Gone, Indexed
<1> QED
  BY <1>1, Inductive, PTL

(***************************************************************************)
(* The client reads every document of the graph, under whatever releases   *)
(* it was observed and indexed.                                            *)
(***************************************************************************)
THEOREM DocumentsStayReadable == Spec => []EveryDocumentReadable
<1>1. IInv => EveryDocumentReadable
  <2> SUFFICES ASSUME IInv, NEW d \in store PROVE Readable(d)
    BY DEF EveryDocumentReadable
  <2>1. Generated(deployed["client"]) /\ Covers(deployed["client"], deployed["job"])
    BY DEF IInv, Staggered, Components
  <2>2. Emittable(deployed["job"], d.element) /\ LooksLikeItsKind(d)
    BY DEF IInv, GraphInv, ElementsOf
  <2>3. Emittable(deployed["client"], d.element)
    BY <2>1, <2>2, CoveringEmits
  <2>4. d.element.kind = "edge" \/ d.element.kind = "node"
    BY <2>3 DEF Emittable
  <2> QED
    BY <2>1, <2>2, <2>3, <2>4, EmittableHasAClass
    DEF Readable, LooksLikeItsKind, EdgeReadable, EntityReadable, ClientFile
<1> QED
  BY <1>1, Inductive, PTL
=============================================================================
