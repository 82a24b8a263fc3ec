----------------------------- MODULE Extraction -----------------------------
(***************************************************************************)
(* MetricParser and SemanticRegistry: OTLP data points become              *)
(* contributions to the nodes and edges that the generated registry knows. *)
(*                                                                         *)
(* An attribute key is <<side, name>>, the side being the prefix that      *)
(* observation() strips, "client" or "server", or "".  A value is          *)
(* [sort, n]: a string, boolean, integer or finite double, or one that is  *)
(* not finite; n tells the values of a sort apart, is the amount of a      *)
(* number and 0 for the empty string.  Hashes and quoted ids stand for the *)
(* tuples they are computed from, which they determine but for one case:   *)
(* JSON writes a double that is not finite like the string of its name.    *)
(***************************************************************************)
EXTENDS Integers, FiniteSets

CONSTANTS
    Names,          \* attribute names
    ServiceName,    \* "service.name"
    EntityTypes,    \* models of the registry
    Identity,       \* type -> its identity fields
    Fields,         \* type -> field -> [kind, required, enum]; a map field
                    \* stands here with every key below its prefix
    Relationships,  \* [type, source, target, evidence, scope, connectionType]
    Unset,          \* the connection type "unset"
    Null,
    JsonBefore(_, _),  \* the order of the JSON texts of two values
    Requests,       \* payloads that may arrive
    MaxCalls        \* bound on the calls of flatMap

Sorts == {"string", "boolean", "integer", "double", "nonfinite"}

Kinds == {"string", "integer", "number", "boolean", "enum", "array"}

EvidenceSources == {"service_graph", "span_metrics"}

ASSUME RegistryAssumption ==
    /\ \A ty \in EntityTypes :
        /\ Identity[ty] \subseteq DOMAIN Fields[ty]
        /\ DOMAIN Fields[ty] \subseteq Names
        /\ \A n \in DOMAIN Fields[ty] : Fields[ty][n].kind \in Kinds
    /\ \A r \in Relationships :
        /\ {r.source, r.target} \subseteq EntityTypes
        /\ r.evidence \subseteq EvidenceSources
        /\ r.scope \in {"observation", "interaction"}
        /\ r.scope = "observation" => r.connectionType = Null
    /\ "edge" \notin EntityTypes
    /\ ServiceName \in Names

Keys == {"", "client", "server"} \X Names

ASSUME RequestsAssumption ==
    /\ \A request \in Requests : \A m \in request : \A p \in m.points :
        /\ DOMAIN p.attributes \subseteq Keys
        /\ p.positive \in BOOLEAN
        /\ p.observedAt \in Int
    /\ MaxCalls \in Nat

VARIABLES
    evidence,  \* what every data point so far has given
    calls

vars == <<evidence, calls>>

-----------------------------------------------------------------------------
(* SemanticRegistry *)

Numeric(v) == v.sort \in {"boolean", "integer", "double"}

NumericEquivalent(u, v) == Numeric(u) /\ Numeric(v) /\ u.n = v.n

Equivalents(field, v) ==
    {r \in field.enum : r = v \/ NumericEquivalent(r, v)}

(* validate(): the value as it is stored, or Null if it throws. *)
Validate(field, v) ==
    CASE field.kind = "enum" ->
            IF Equivalents(field, v) = {}
                THEN Null
                ELSE CHOOSE r \in Equivalents(field, v) : TRUE
      [] field.kind = "number" ->
            IF v.sort \in {"integer", "double"}
                THEN [sort |-> "double", n |-> v.n]
                ELSE Null
      [] field.kind = "string" ->
            IF v.sort = "string" /\ (field.required => v.n # 0) THEN v ELSE Null
      [] OTHER ->  \* an array is never a scalar
            IF v.sort = field.kind THEN v ELSE Null

(* The attribute values that may arrive. *)
Values ==
    UNION {UNION {UNION {{p.attributes[k] : k \in DOMAIN p.attributes} :
                            p \in m.points} : m \in request} : request \in Requests}

(* Values that one field stores have different JSON texts, which are totally
   ordered: none of them is a double that is not finite. *)
ASSUME JsonAssumption ==
    \A ty \in EntityTypes : \A n \in DOMAIN Fields[ty] :
        LET stored == {Validate(Fields[ty][n], v) : v \in Values} \ {Null}
        IN  \A u, v \in stored : u # v => (JsonBefore(u, v) <=> ~JsonBefore(v, u))

(* quotedId() throws for a floating-point or empty part. *)
Quotable(v) == v.sort # "double" /\ ~(v.sort = "string" /\ v.n = 0)

NodeId(ty, attributes) == <<ty, [n \in Identity[ty] |-> attributes[n]]>>

Node(ty, attributes) ==
    [kind |-> "node", id |-> NodeId(ty, attributes), type |-> ty,
     source |-> Null, target |-> Null, attributes |-> attributes]

NoAttributes == [n \in {} |-> Null]

Edge(source, ty, target) ==
    [kind |-> "edge", id |-> <<"edge", source.id, ty, target.id>>, type |-> ty,
     source |-> source.id, target |-> target.id, attributes |-> NoAttributes]

(* The fields of a model that an observation has, validated. *)
Selected(ty, attributes) ==
    [n \in DOMAIN attributes \cap DOMAIN Fields[ty] |->
        Validate(Fields[ty][n], attributes[n])]

(* Mutant: what validate() refuses is stored. *)
ExtractableUnchecked(ty, attributes) ==
    /\ Identity[ty] \subseteq DOMAIN attributes
    /\ LET selected == Selected(ty, attributes)
       IN  \A n \in Identity[ty] : selected[n] # Null /\ Quotable(selected[n])

(* extract() returns the entity: it is complete and nothing throws. *)
Extractable(ty, attributes) ==
    /\ Identity[ty] \subseteq DOMAIN attributes
    /\ LET selected == Selected(ty, attributes)
       IN  /\ \A n \in DOMAIN selected : selected[n] # Null
           /\ \A n \in Identity[ty] : Quotable(selected[n])

(* Mutant: the first model that throws ends the loop, as extract() does. *)
ExtractAllOrNothing(attributes) ==
    IF \E ty \in EntityTypes : /\ Identity[ty] \subseteq DOMAIN attributes
                               /\ ~Extractable(ty, attributes)
        THEN {}
        ELSE {Node(ty, Selected(ty, attributes)) :
                ty \in {x \in EntityTypes : Extractable(x, attributes)}}

ExtractValid(attributes) ==
    {Node(ty, Selected(ty, attributes)) :
        ty \in {x \in EntityTypes : Extractable(x, attributes)}}

SupportsEntity(evidenceSource, ty) ==
    \E r \in Relationships : evidenceSource \in r.evidence /\ ty \in {r.source, r.target}

SupportsConnectionType(evidenceSource, connectionType) ==
    \E r \in Relationships : /\ evidenceSource \in r.evidence
                             /\ r.scope = "interaction"
                             /\ r.connectionType = connectionType

Edges(sources, targets, evidenceSource, scope, connectionType) ==
    {Edge(x[1], x[2].type, x[3]) : x \in
        {y \in sources \X Relationships \X targets :
            /\ evidenceSource \in y[2].evidence
            /\ y[2].scope = scope
            /\ y[2].connectionType = connectionType
            /\ y[1].type = y[2].source
            /\ y[3].type = y[2].target
            /\ y[1].id # y[3].id}}

-----------------------------------------------------------------------------
(* MetricParser *)

(* Element.withAttributes *)
WithAttributes(e, attributes) ==
    [kind |-> e.kind, id |-> e.id, type |-> e.type,
     source |-> e.source, target |-> e.target, attributes |-> attributes]

(* Mutant: what was added last wins. *)
MergedKeepingNew(old, new) ==
    WithAttributes(new,
        [n \in DOMAIN old.attributes \cup DOMAIN new.attributes |->
            IF n \in DOMAIN new.attributes
                THEN new.attributes[n] ELSE old.attributes[n]])

(* Two observations of the same element in one data point. *)
Merged(old, new) ==
    WithAttributes(new,
        [n \in DOMAIN old.attributes \cup DOMAIN new.attributes |->
            IF n \notin DOMAIN new.attributes THEN old.attributes[n]
            ELSE IF n \notin DOMAIN old.attributes THEN new.attributes[n]
            ELSE IF JsonBefore(old.attributes[n], new.attributes[n])
                THEN old.attributes[n] ELSE new.attributes[n]])

Ids(elements) == {e.id : e \in elements}

(* Mutant: an id that is there already is taken for a conflict. *)
AddAllDistinct(old, new) ==
    {e \in old : e.id \notin Ids(new)} \cup {e \in new : e.id \notin Ids(old)}

(***************************************************************************)
(* add() for each of the elements `new'.  It refuses an id with another    *)
(* kind, type or endpoint, and there is none: ids are made of them.        *)
(***************************************************************************)
AddAll(old, new) ==
    {e \in old : e.id \notin Ids(new)}
    \cup {e \in new : e.id \notin Ids(old)}
    \cup {Merged(p[1], p[2]) : p \in {q \in old \X new : q[1].id = q[2].id}}

ExtractEntities(attributes, evidenceSource) ==
    {e \in ExtractValid(attributes) : SupportsEntity(evidenceSource, e.type)}

MaterializeObservation(entities, evidenceSource) ==
    AddAll(entities, Edges(entities, entities, evidenceSource, "observation", Null))

(* The attributes of one side without their prefix, and its name. *)
Stripped(attributes, side, name) ==
    LET names == {k[2] : k \in {x \in DOMAIN attributes : x[1] = side}}
    IN  [n \in names \cup {ServiceName} |->
            IF n \in names THEN attributes[<<side, n>>] ELSE name]

Observation(attributes, side, name) ==
    ExtractEntities(Stripped(attributes, side, name), "service_graph")

Own(attributes, key) ==
    IF <<"", key>> \in DOMAIN attributes THEN attributes[<<"", key>>] ELSE Null

IsName(v) == v # Null /\ v.sort = "string" /\ v.n # 0

ConnectionType(v) ==
    IF v = Null \/ v = [sort |-> "string", n |-> 0] THEN Unset ELSE v

(* Mutant: dimensions are not part of a contributor's identity. *)
ContributorWithoutDimensions(attributes) ==
    <<"servicegraph", Own(attributes, "client"), Own(attributes, "server"),
      ConnectionType(Own(attributes, "connection_type"))>>

Dimensions(attributes) ==
    [k \in DOMAIN attributes \ ({""} \X {"client", "server", "connection_type"})
        |-> attributes[k]]

Contributor(attributes) ==
    <<"servicegraph", Own(attributes, "client"), Own(attributes, "server"),
      ConnectionType(Own(attributes, "connection_type")), Dimensions(attributes)>>

(* The elements of a service graph data point. *)
Interaction(attributes) ==
    LET clients == Observation(attributes, "client", Own(attributes, "client"))
        servers == Observation(attributes, "server", Own(attributes, "server"))
        connectionType == ConnectionType(Own(attributes, "connection_type"))
    IN  AddAll(AddAll(MaterializeObservation(clients, "service_graph"),
                      MaterializeObservation(servers, "service_graph")),
               Edges(clients, servers, "service_graph", "interaction", connectionType))

Contributions(contributor, elements, observedAt) ==
    {[contributorId |-> contributor, observedAt |-> observedAt, element |-> e] :
        e \in elements}

Rejected(reason) == [contributions |-> {}, rejection |-> reason]

Servicegraph(attributes, observedAt) ==
    LET given == Own(attributes, "connection_type")
    IN  IF \/ ~IsName(Own(attributes, "client"))
           \/ ~IsName(Own(attributes, "server"))
           \/ given # Null /\ given.sort # "string"
        THEN Rejected("invalid_servicegraph_datapoint")
        ELSE [contributions |-> Contributions(Contributor(attributes),
                                              Interaction(attributes), observedAt),
              rejection |->
                IF SupportsConnectionType("service_graph", ConnectionType(given))
                    THEN Null ELSE "unsupported_servicegraph_connection_type"]

Unprefixed(attributes) ==
    [n \in {k[2] : k \in {x \in DOMAIN attributes : x[1] = ""}} |->
        attributes[<<"", n>>]]

Discovery(attributes, observedAt) ==
    LET elements == MaterializeObservation(
                        ExtractEntities(Unprefixed(attributes), "span_metrics"),
                        "span_metrics")
    IN  [contributions |->
            UNION {Contributions(<<"spanmetrics", e.id, e.attributes>>, {e}, observedAt) :
                    e \in elements},
         rejection |-> Null]

(* One data point of a supported metric. *)
ParsePoint(metric, point) ==
    IF ~point.positive \/ point.observedAt <= 0
        THEN Rejected("invalid_servicegraph_datapoint")
        ELSE IF metric = "discovery"
            THEN Discovery(point.attributes, point.observedAt)
            ELSE Servicegraph(point.attributes, point.observedAt)

(* Only delta sums of the two supported metrics are looked at. *)
Parsed(metric) ==
    IF metric.name \in {"request_total", "discovery"} /\ metric.sum /\ metric.delta
        THEN {[metric |-> metric.name, point |-> p,
               result |-> ParsePoint(metric.name, p)] : p \in metric.points}
        ELSE {}

(***************************************************************************)
(* A request is a set of metrics; what is not Protobuf has none.  Metrics  *)
(* that are rejected as a whole, the counters and the log leave no trace.  *)
(***************************************************************************)
FlatMap(request) ==
    /\ calls < MaxCalls
    /\ calls' = calls + 1
    /\ evidence' = evidence \cup UNION {Parsed(m) : m \in request}

-----------------------------------------------------------------------------

Init ==
    /\ evidence = {}
    /\ calls = 0

Next == \E request \in Requests : FlatMap(request)

Spec == Init /\ [][Next]_vars

-----------------------------------------------------------------------------
(* Properties *)

Elements(x) == {c.element : c \in x.result.contributions}

Nodes(x) == {e \in Elements(x) : e.kind = "node"}

(***************************************************************************)
(* Contributions are positive evidence for well-formed elements: a node is *)
(* identified by its own attributes, none of them is invalid, and an enum  *)
(* has its registered form however it was written.                         *)
(***************************************************************************)
TypeOK ==
    /\ calls \in 0 .. MaxCalls
    /\ \A x \in evidence :
        /\ x.result.contributions # {} => x.point.positive /\ x.point.observedAt > 0
        /\ \A e \in Elements(x) :
            /\ e.kind = "node" =>
                /\ e.type \in EntityTypes
                /\ e.id = NodeId(e.type, e.attributes)
                /\ \A n \in DOMAIN e.attributes :
                    LET field == Fields[e.type][n]
                    IN  field.kind = "enum" => e.attributes[n] \in field.enum
            /\ \A n \in DOMAIN e.attributes : e.attributes[n] # Null

(***************************************************************************)
(* No data point contributes to an edge without contributing to both of    *)
(* its endpoints, so an edge is never newer than its nodes.                *)
(***************************************************************************)
EndpointsEmitted ==
    \A x \in evidence : \A e \in Elements(x) :
        e.kind = "edge" => {e.source, e.target} \subseteq Ids(Nodes(x))

(***************************************************************************)
(* A contributor says the same of an element whenever it speaks: data      *)
(* points that differ in what an element shows come from different         *)
(* contributors, and one never overwrites the other's evidence downstream. *)
(***************************************************************************)
ContributorDeterminesElement ==
    \A x, y \in evidence :
        \A c \in x.result.contributions, d \in y.result.contributions :
            ( /\ c.contributorId = d.contributorId
              /\ c.element.id = d.element.id )
            => c.element = d.element

(* What an attribute map says about the fields of one type alone. *)
Alone(ty, attributes) ==
    [n \in DOMAIN attributes \cap DOMAIN Fields[ty] |-> attributes[n]]

(* The observations that a data point consists of. *)
Observed(x) ==
    IF x.metric = "discovery"
        THEN {Unprefixed(x.point.attributes)}
        ELSE {Stripped(x.point.attributes, side, Own(x.point.attributes, side)) :
                side \in {"client", "server"}}

(***************************************************************************)
(* One malformed model does not hide its peers: whatever entity the fields *)
(* of its type alone would give is contributed, unless the data point is   *)
(* refused as a whole or its source does not support the type.             *)
(***************************************************************************)
PeersSurvive ==
    \A x \in evidence :
        x.result.rejection # "invalid_servicegraph_datapoint" =>
            \A attributes \in Observed(x), ty \in EntityTypes :
                ( /\ Extractable(ty, Alone(ty, attributes))
                  /\ SupportsEntity(IF x.metric = "discovery"
                                        THEN "span_metrics" ELSE "service_graph", ty) )
                => NodeId(ty, Selected(ty, attributes)) \in Ids(Nodes(x))

(* The same data point as the other side would have reported it. *)
Mirrored(attributes) ==
    LET other == [side \in {"client", "server", ""} |->
                    CASE side = "client" -> "server"
                      [] side = "server" -> "client"
                      [] OTHER -> ""]
        image(k) == IF k[1] = "" /\ k[2] \in {"client", "server"}
                        THEN <<"", other[k[2]]>>
                        ELSE <<other[k[1]], k[2]>>
    IN  [k \in {image(j) : j \in DOMAIN attributes} |-> attributes[image(k)]]

(***************************************************************************)
(* A node that both sides observed is merged in the same way whichever of  *)
(* them is the client: evidence does not flicker with the direction of a   *)
(* call.                                                                   *)
(***************************************************************************)
SidesCommute ==
    \A x \in evidence :
        x.metric = "request_total" /\ x.result.contributions # {} =>
            Nodes(x) = {e \in Interaction(Mirrored(x.point.attributes)) : e.kind = "node"}
=============================================================================
