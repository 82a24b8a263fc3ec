-------------------------- MODULE ExtractionProofs --------------------------
(***************************************************************************)
(* What extraction guarantees for every registry and every request: edges  *)
(* come with their endpoints, and a contributor never contradicts itself.  *)
(***************************************************************************)
EXTENDS Extraction, TLAPS

(* Nodes and edges as their constructors build them. *)
WellFormed(e) ==
    \/ /\ e.kind = "node"
       /\ e.type \in EntityTypes
       /\ \E part : e.id = <<e.type, part>>
       /\ e.source = Null /\ e.target = Null
    \/ /\ e.kind = "edge"
       /\ e.id = <<"edge", e.source, e.type, e.target>>
       /\ e.attributes = NoAttributes

Record(e) ==
    e = [kind |-> e.kind, id |-> e.id, type |-> e.type,
         source |-> e.source, target |-> e.target, attributes |-> e.attributes]

AllWellFormed(S) == \A e \in S : WellFormed(e) /\ Record(e)

(* No two elements of S have the same id. *)
Unique(S) == \A e, f \in S : e.id = f.id => e = f

(* Every edge of S has its endpoints among the nodes of S. *)
Closed(S) ==
    \A e \in S : e.kind = "edge" =>
        \A end \in {e.source, e.target} :
            \E f \in S : f.kind = "node" /\ f.id = end

-----------------------------------------------------------------------------
(* Ids *)

(* An id names the kind, the type and the endpoints. *)
LEMMA IdDetermines ==
    ASSUME NEW e, NEW f, WellFormed(e), WellFormed(f), e.id = f.id
    PROVE  e.kind = f.kind /\ e.type = f.type /\ e.source = f.source /\ e.target = f.target
<1> USE RegistryAssumption DEF WellFormed
<1>1. CASE e.kind = "node" /\ f.kind = "node"
    BY <1>1
<1>2. CASE e.kind = "edge" /\ f.kind = "edge"
    BY <1>2
<1>3. e.kind = "edge" => e.id[1] = "edge"
    OBVIOUS
<1>4. f.kind = "edge" => f.id[1] = "edge"
    OBVIOUS
<1>5. e.kind = "node" => e.id[1] \in EntityTypes
    OBVIOUS
<1>6. f.kind = "node" => f.id[1] \in EntityTypes
    OBVIOUS
<1>7. QED
    BY <1>1, <1>2, <1>3, <1>4, <1>5, <1>6

LEMMA NodesWellFormed ==
    ASSUME NEW attributes, NEW evidenceSource
    PROVE  LET S == ExtractEntities(attributes, evidenceSource)
           IN  AllWellFormed(S) /\ Unique(S) /\ \A e \in S : e.kind = "node"
<1> DEFINE S == ExtractEntities(attributes, evidenceSource)
<1>1. \A e \in S : \E ty \in EntityTypes : e = Node(ty, Selected(ty, attributes))
    BY DEF ExtractEntities, ExtractValid
<1>2. ASSUME NEW e \in S
      PROVE  WellFormed(e) /\ Record(e) /\ e.kind = "node"
    BY <1>1 DEF WellFormed, Record, Node, NodeId
<1>3. ASSUME NEW e \in S, NEW f \in S, e.id = f.id
      PROVE  e = f
    <2>1. PICK t \in EntityTypes : e = Node(t, Selected(t, attributes))
        BY <1>1
    <2>2. PICK u \in EntityTypes : f = Node(u, Selected(u, attributes))
        BY <1>1
    <2>3. e.id[1] = t /\ f.id[1] = u
        BY <2>1, <2>2 DEF Node, NodeId
    <2>4. QED
        BY <1>3, <2>1, <2>2, <2>3
<1>4. QED
    BY <1>2, <1>3 DEF AllWellFormed, Unique

LEMMA EdgesWellFormed ==
    ASSUME NEW A, NEW B, NEW evidenceSource, NEW scope, NEW connectionType
    PROVE  LET S == Edges(A, B, evidenceSource, scope, connectionType)
           IN  /\ AllWellFormed(S) /\ Unique(S)
               /\ \A e \in S : /\ e.kind = "edge"
                               /\ \E a \in A : e.source = a.id
                               /\ \E b \in B : e.target = b.id
<1> DEFINE S == Edges(A, B, evidenceSource, scope, connectionType)
<1>1. ASSUME NEW e \in S
      PROVE  \E x \in A \X Relationships \X B : e = Edge(x[1], x[2].type, x[3])
    BY DEF Edges
<1>2. ASSUME NEW e \in S
      PROVE  /\ WellFormed(e) /\ Record(e) /\ e.kind = "edge"
             /\ \E a \in A : e.source = a.id
             /\ \E b \in B : e.target = b.id
    <2>1. PICK x \in A \X Relationships \X B : e = Edge(x[1], x[2].type, x[3])
        BY <1>1
    <2>2. x[1] \in A /\ x[3] \in B
        OBVIOUS
    <2>3. QED
        BY <2>1, <2>2 DEF Edge, WellFormed, Record
<1>3. ASSUME NEW e \in S, NEW f \in S, e.id = f.id
      PROVE  e = f
    BY <1>2, <1>3, IdDetermines DEF Record, WellFormed
<1>4. QED
    BY <1>2, <1>3 DEF AllWellFormed, Unique

-----------------------------------------------------------------------------
(* Adding elements *)

LEMMA AddAllKeeps ==
    ASSUME NEW A, NEW B,
           AllWellFormed(A), AllWellFormed(B), Unique(A), Unique(B)
    PROVE  LET S == AddAll(A, B)
           IN  /\ AllWellFormed(S)
               /\ Unique(S)
               /\ \A e \in A \cup B :
                    \E f \in S : /\ f.id = e.id /\ f.kind = e.kind
               /\ \A f \in S : \E e \in A \cup B :
                    /\ f.id = e.id /\ f.kind = e.kind
                    /\ f.source = e.source /\ f.target = e.target
<1> DEFINE S == AddAll(A, B)
<1>1. ASSUME NEW f \in S
      PROVE  \/ f \in A /\ f.id \notin Ids(B)
             \/ f \in B /\ f.id \notin Ids(A)
             \/ \E a \in A, b \in B : a.id = b.id /\ f = Merged(a, b)
    BY DEF AddAll
<1>2. ASSUME NEW a \in A, NEW b \in B, a.id = b.id
      PROVE  /\ Merged(a, b) \in S
             /\ Merged(a, b).id = a.id /\ Merged(a, b).id = b.id
             /\ Merged(a, b).kind = a.kind /\ Merged(a, b).kind = b.kind
             /\ Merged(a, b).source = b.source /\ Merged(a, b).target = b.target
             /\ WellFormed(Merged(a, b)) /\ Record(Merged(a, b))
    <2>1. WellFormed(a) /\ WellFormed(b)
        BY DEF AllWellFormed
    <2>2. a.kind = b.kind
        BY <1>2, <2>1, IdDetermines
    <2>3. Merged(a, b) \in S
        <3>1. <<a, b>> \in {q \in A \X B : q[1].id = q[2].id}
            BY <1>2
        <3>2. QED
            BY <3>1 DEF AddAll
    <2>4. b.kind = "edge" => Merged(a, b).attributes = NoAttributes
        BY <2>1, <2>2 DEF WellFormed, Merged, WithAttributes, NoAttributes
    <2>5. WellFormed(Merged(a, b))
        BY <2>1, <2>4 DEF WellFormed, Merged, WithAttributes
    <2>6. QED
        BY <1>2, <2>2, <2>3, <2>5 DEF Merged, WithAttributes, Record
<1>3. AllWellFormed(S)
    BY <1>1, <1>2 DEF AllWellFormed
<1>4. Unique(S)
    <2> SUFFICES ASSUME NEW e \in S, NEW f \in S, e.id = f.id
                 PROVE  e = f
        BY DEF Unique
    <2>1. CASE e \in A /\ e.id \notin Ids(B)
        BY <1>1, <1>2, <2>1 DEF Unique, Ids
    <2>2. CASE e \in B /\ e.id \notin Ids(A)
        BY <1>1, <1>2, <2>2 DEF Unique, Ids
    <2>3. CASE \E a \in A, b \in B : a.id = b.id /\ e = Merged(a, b)
        <3>1. PICK a \in A, b \in B : a.id = b.id /\ e = Merged(a, b)
            BY <2>3
        <3>2. e.id \in Ids(A) /\ e.id \in Ids(B)
            BY <1>2, <3>1 DEF Ids
        <3>3. PICK c \in A, d \in B : c.id = d.id /\ f = Merged(c, d)
            BY <1>1, <3>2
        <3>4. a = c /\ b = d
            BY <1>2, <3>1, <3>3 DEF Unique
        <3>5. QED
            BY <3>1, <3>3, <3>4
    <2>4. QED
        BY <1>1, <2>1, <2>2, <2>3
<1>5. ASSUME NEW e \in A \cup B
      PROVE  \E f \in S : f.id = e.id /\ f.kind = e.kind
    <2>1. CASE e \in A /\ e.id \notin Ids(B)
        BY <2>1 DEF AddAll
    <2>2. CASE e \in B /\ e.id \notin Ids(A)
        BY <2>2 DEF AddAll
    <2>3. CASE e \in A /\ e.id \in Ids(B)
        BY <1>2, <2>3 DEF Ids
    <2>4. CASE e \in B /\ e.id \in Ids(A)
        BY <1>2, <2>4 DEF Ids
    <2>5. QED
        BY <2>1, <2>2, <2>3, <2>4
<1>6. ASSUME NEW f \in S
      PROVE  \E e \in A \cup B : /\ f.id = e.id /\ f.kind = e.kind
                                 /\ f.source = e.source /\ f.target = e.target
    BY <1>1, <1>2
<1>7. QED
    BY <1>3, <1>4, <1>5, <1>6

-----------------------------------------------------------------------------
(* The elements of a data point *)

Good(S) == AllWellFormed(S) /\ Unique(S) /\ Closed(S)

(* Elements whose edges end in nodes of either set. *)
LEMMA AddAllCloses ==
    ASSUME NEW A, NEW B,
           AllWellFormed(A), AllWellFormed(B), Unique(A), Unique(B),
           \A e \in A \cup B : e.kind = "edge" =>
               \A end \in {e.source, e.target} :
                   \E f \in A \cup B : f.kind = "node" /\ f.id = end
    PROVE  Good(AddAll(A, B))
<1> DEFINE S == AddAll(A, B)
<1>1. /\ AllWellFormed(S) /\ Unique(S)
      /\ \A e \in A \cup B : \E f \in S : f.id = e.id /\ f.kind = e.kind
      /\ \A f \in S : \E e \in A \cup B :
            f.id = e.id /\ f.kind = e.kind /\ f.source = e.source /\ f.target = e.target
    BY AddAllKeeps
<1> HIDE DEF S
<1>2. Closed(S)
    <2> SUFFICES ASSUME NEW f \in S, f.kind = "edge", NEW end \in {f.source, f.target}
                 PROVE  \E g \in S : g.kind = "node" /\ g.id = end
        BY DEF Closed
    <2>1. PICK e \in A \cup B : /\ f.kind = e.kind
                                /\ f.source = e.source /\ f.target = e.target
        BY <1>1
    <2>2. PICK g \in A \cup B : g.kind = "node" /\ g.id = end
        BY <2>1
    <2>3. QED
        BY <1>1, <2>2
<1>3. QED
    BY <1>1, <1>2 DEF Good, S

LEMMA ObservationGood ==
    ASSUME NEW attributes, NEW evidenceSource
    PROVE  LET E == ExtractEntities(attributes, evidenceSource)
               S == MaterializeObservation(E, evidenceSource)
           IN  /\ Good(S)
               /\ \A e \in E : \E f \in S : f.kind = "node" /\ f.id = e.id
<1> DEFINE E == ExtractEntities(attributes, evidenceSource)
           D == Edges(E, E, evidenceSource, "observation", Null)
<1>1. AllWellFormed(E) /\ Unique(E) /\ \A e \in E : e.kind = "node"
    BY NodesWellFormed
<1>2. /\ AllWellFormed(D) /\ Unique(D)
      /\ \A e \in D : /\ e.kind = "edge"
                      /\ \E a \in E : e.source = a.id
                      /\ \E b \in E : e.target = b.id
    BY EdgesWellFormed
<1>3. MaterializeObservation(E, evidenceSource) = AddAll(E, D)
    BY DEF MaterializeObservation
<1> HIDE DEF E, D
<1>4. Good(AddAll(E, D))
    <2>1. \A e \in E \cup D : e.kind = "edge" =>
               \A end \in {e.source, e.target} :
                   \E f \in E \cup D : f.kind = "node" /\ f.id = end
        BY <1>1, <1>2
    <2>2. QED
        BY <1>1, <1>2, <2>1, AddAllCloses
<1>5. \A e \in E : \E f \in AddAll(E, D) : f.kind = "node" /\ f.id = e.id
    BY <1>1, <1>2, AddAllKeeps
<1>6. QED
    BY <1>3, <1>4, <1>5 DEF E

LEMMA InteractionGood ==
    ASSUME NEW attributes
    PROVE  Good(Interaction(attributes))
<1> DEFINE clients == Observation(attributes, "client", Own(attributes, "client"))
           servers == Observation(attributes, "server", Own(attributes, "server"))
           C == MaterializeObservation(clients, "service_graph")
           S == MaterializeObservation(servers, "service_graph")
           D == Edges(clients, servers, "service_graph", "interaction",
                      ConnectionType(Own(attributes, "connection_type")))
<1>1. Good(C) /\ \A e \in clients : \E f \in C : f.kind = "node" /\ f.id = e.id
    BY ObservationGood DEF Observation
<1>2. Good(S) /\ \A e \in servers : \E f \in S : f.kind = "node" /\ f.id = e.id
    BY ObservationGood DEF Observation
<1>3. /\ AllWellFormed(D) /\ Unique(D)
      /\ \A e \in D : /\ \E a \in clients : e.source = a.id
                      /\ \E b \in servers : e.target = b.id
    BY EdgesWellFormed
<1>4. Interaction(attributes) = AddAll(AddAll(C, S), D)
    BY DEF Interaction
<1> HIDE DEF clients, servers, C, S, D
<1>5. Good(AddAll(C, S))
    <2>1. \A e \in C \cup S : e.kind = "edge" =>
               \A end \in {e.source, e.target} :
                   \E f \in C \cup S : f.kind = "node" /\ f.id = end
        BY <1>1, <1>2 DEF Good, Closed
    <2>2. QED
        BY <1>1, <1>2, <2>1, AddAllCloses DEF Good
<1>6. \A e \in C \cup S : \E f \in AddAll(C, S) : f.id = e.id /\ f.kind = e.kind
    BY <1>1, <1>2, AddAllKeeps DEF Good
<1>7. Good(AddAll(AddAll(C, S), D))
    <2> DEFINE CS == AddAll(C, S)
    <2>1. \A e \in clients \cup servers : \E f \in CS : f.kind = "node" /\ f.id = e.id
        BY <1>1, <1>2, <1>6
    <2>2. Good(CS)
        BY <1>5
    <2> HIDE DEF CS
    <2>3. \A e \in CS \cup D : e.kind = "edge" =>
               \A end \in {e.source, e.target} :
                   \E f \in CS \cup D : f.kind = "node" /\ f.id = end
        BY <1>3, <2>1, <2>2 DEF Good, Closed
    <2>4. Good(AddAll(CS, D))
        BY <1>3, <2>2, <2>3, AddAllCloses DEF Good
    <2>5. QED
        BY <2>4 DEF CS
<1>8. QED
    BY <1>4, <1>7

-----------------------------------------------------------------------------
(* The nodes of a data point: those of its observations, merged *)

NodesOf(S) == {e \in S : e.kind = "node"}

LEMMA AddAllMember ==
    ASSUME NEW A, NEW B, NEW f
    PROVE  f \in AddAll(A, B) <=>
               \/ f \in A /\ f.id \notin Ids(B)
               \/ f \in B /\ f.id \notin Ids(A)
               \/ \E a \in A, b \in B : a.id = b.id /\ f = Merged(a, b)
<1> DEFINE pairs == {q \in A \X B : q[1].id = q[2].id}
<1>1. ASSUME NEW a \in A, NEW b \in B, a.id = b.id
      PROVE  Merged(a, b) \in {Merged(p[1], p[2]) : p \in pairs}
    <2>1. <<a, b>> \in pairs
        BY <1>1
    <2>2. QED
        BY <2>1
<1>2. ASSUME f \in {Merged(p[1], p[2]) : p \in pairs}
      PROVE  \E a \in A, b \in B : a.id = b.id /\ f = Merged(a, b)
    BY <1>2
<1>3. QED
    BY <1>1, <1>2 DEF AddAll

(* Merging tells nodes from edges, since ids do. *)
LEMMA AddAllNodes ==
    ASSUME NEW A, NEW B, AllWellFormed(A), AllWellFormed(B)
    PROVE  NodesOf(AddAll(A, B)) = AddAll(NodesOf(A), NodesOf(B))
<1> DEFINE M == NodesOf(A)
           N == NodesOf(B)
<1>1. ASSUME NEW a \in A, NEW b \in B, a.id = b.id
      PROVE  a.kind = b.kind
    BY <1>1, IdDetermines DEF AllWellFormed
<1>2. ASSUME NEW f
      PROVE  f \in NodesOf(AddAll(A, B)) <=>
                 \/ f \in M /\ f.id \notin Ids(B)
                 \/ f \in N /\ f.id \notin Ids(A)
                 \/ \E a \in A, b \in B : a.id = b.id /\ f = Merged(a, b) /\ b.kind = "node"
    <2>1. \A a, b : Merged(a, b).kind = b.kind
        BY DEF Merged, WithAttributes
    <2>2. QED
        BY <2>1, AddAllMember DEF NodesOf
<1>3. ASSUME NEW f
      PROVE  f \in AddAll(M, N) <=>
                 \/ f \in M /\ f.id \notin Ids(N)
                 \/ f \in N /\ f.id \notin Ids(M)
                 \/ \E a \in M, b \in N : a.id = b.id /\ f = Merged(a, b)
    BY AddAllMember
<1>4. ASSUME NEW f \in M
      PROVE  f.id \in Ids(B) <=> f.id \in Ids(N)
    BY <1>1 DEF NodesOf, Ids
<1>5. ASSUME NEW f \in N
      PROVE  f.id \in Ids(A) <=> f.id \in Ids(M)
    BY <1>1 DEF NodesOf, Ids
<1>6. ASSUME NEW f
      PROVE  (\E a \in A, b \in B : a.id = b.id /\ f = Merged(a, b) /\ b.kind = "node")
                <=> (\E a \in M, b \in N : a.id = b.id /\ f = Merged(a, b))
    BY <1>1 DEF NodesOf
<1>7. ASSUME NEW f
      PROVE  f \in NodesOf(AddAll(A, B)) <=> f \in AddAll(M, N)
    <2> HIDE DEF M, N
    <2>1. QED
        BY <1>2, <1>3, <1>4, <1>5, <1>6
<1>8. QED
    BY <1>7

(* Edges are added to nodes without changing them. *)
LEMMA AddingEdges ==
    ASSUME NEW A, NEW D, AllWellFormed(A), AllWellFormed(D), \A e \in D : e.kind = "edge"
    PROVE  NodesOf(AddAll(A, D)) = NodesOf(A)
<1>1. NodesOf(D) = {}
    BY DEF NodesOf
<1>2. AddAll(NodesOf(A), {}) = NodesOf(A)
    BY DEF AddAll, Ids
<1>3. QED
    BY <1>1, <1>2, AddAllNodes

LEMMA ObservationNodes ==
    ASSUME NEW attributes, NEW evidenceSource
    PROVE  LET E == ExtractEntities(attributes, evidenceSource)
           IN  NodesOf(MaterializeObservation(E, evidenceSource)) = E
<1> DEFINE E == ExtractEntities(attributes, evidenceSource)
           D == Edges(E, E, evidenceSource, "observation", Null)
<1>1. AllWellFormed(E) /\ \A e \in E : e.kind = "node"
    BY NodesWellFormed
<1>2. AllWellFormed(D) /\ \A e \in D : e.kind = "edge"
    BY EdgesWellFormed
<1>3. MaterializeObservation(E, evidenceSource) = AddAll(E, D)
    BY DEF MaterializeObservation
<1> HIDE DEF E, D
<1>4. NodesOf(AddAll(E, D)) = NodesOf(E)
    BY <1>1, <1>2, AddingEdges
<1>5. NodesOf(E) = E
    BY <1>1 DEF NodesOf
<1>6. QED
    BY <1>3, <1>4, <1>5 DEF E

Side(attributes, side) == Observation(attributes, side, Own(attributes, side))

LEMMA InteractionNodes ==
    ASSUME NEW attributes
    PROVE  NodesOf(Interaction(attributes))
             = AddAll(Side(attributes, "client"), Side(attributes, "server"))
<1> DEFINE clients == Side(attributes, "client")
           servers == Side(attributes, "server")
           C == MaterializeObservation(clients, "service_graph")
           S == MaterializeObservation(servers, "service_graph")
           D == Edges(clients, servers, "service_graph", "interaction",
                      ConnectionType(Own(attributes, "connection_type")))
<1>1. Good(C) /\ NodesOf(C) = clients
    BY ObservationGood, ObservationNodes DEF Side, Observation
<1>2. Good(S) /\ NodesOf(S) = servers
    BY ObservationGood, ObservationNodes DEF Side, Observation
<1>3. AllWellFormed(D) /\ \A e \in D : e.kind = "edge"
    BY EdgesWellFormed
<1>4. Interaction(attributes) = AddAll(AddAll(C, S), D)
    BY DEF Interaction, Side
<1> HIDE DEF clients, servers, C, S, D
<1>5. AllWellFormed(AddAll(C, S))
    BY <1>1, <1>2, AddAllKeeps DEF Good
<1>6. NodesOf(Interaction(attributes)) = NodesOf(AddAll(C, S))
    BY <1>3, <1>4, <1>5, AddingEdges
<1>7. NodesOf(AddAll(C, S)) = AddAll(clients, servers)
    BY <1>1, <1>2, AddAllNodes DEF Good
<1>8. QED
    BY <1>6, <1>7 DEF clients, servers

-----------------------------------------------------------------------------
(* What nodes say *)

(* A node whose attributes are valid and identify it. *)
Proper(e) ==
    /\ e.type \in EntityTypes
    /\ Identity[e.type] \subseteq DOMAIN e.attributes
    /\ e.id = NodeId(e.type, e.attributes)
    /\ \A n \in DOMAIN e.attributes :
        /\ e.attributes[n] # Null
        /\ Fields[e.type][n].kind = "enum" => e.attributes[n] \in Fields[e.type][n].enum

(* An enum is stored as one of its registered values. *)
LEMMA EnumIsRegistered ==
    ASSUME NEW field, NEW v, field.kind = "enum", Validate(field, v) # Null
    PROVE  Validate(field, v) \in field.enum
<1>1. Equivalents(field, v) \subseteq field.enum
    BY DEF Equivalents
<1>2. /\ Equivalents(field, v) # {}
      /\ Validate(field, v) = CHOOSE r \in Equivalents(field, v) : TRUE
    BY DEF Validate
<1>3. QED
    BY <1>1, <1>2

LEMMA ExtractedProper ==
    ASSUME NEW attributes, NEW evidenceSource,
           NEW e \in ExtractEntities(attributes, evidenceSource)
    PROVE  /\ Proper(e)
           /\ \A n \in DOMAIN e.attributes :
                /\ n \in DOMAIN attributes \cap DOMAIN Fields[e.type]
                /\ e.attributes[n] = Validate(Fields[e.type][n], attributes[n])
<1>1. PICK ty \in EntityTypes : /\ Extractable(ty, attributes)
                                /\ e = Node(ty, Selected(ty, attributes))
    BY DEF ExtractEntities, ExtractValid
<1>2. /\ e.type = ty /\ e.attributes = Selected(ty, attributes)
      /\ e.id = NodeId(e.type, e.attributes)
    BY <1>1 DEF Node
<1>3. /\ Identity[ty] \subseteq DOMAIN e.attributes
      /\ \A n \in DOMAIN e.attributes : e.attributes[n] # Null
    BY <1>1, <1>2, RegistryAssumption DEF Extractable, Selected
<1>4. \A n \in DOMAIN e.attributes :
        /\ n \in DOMAIN attributes \cap DOMAIN Fields[ty]
        /\ e.attributes[n] = Validate(Fields[ty][n], attributes[n])
    BY <1>2 DEF Selected
<1>5. QED
    BY <1>2, <1>3, <1>4, EnumIsRegistered DEF Proper

(* Two nodes of one id merge to a node that is as proper. *)
LEMMA MergedProper ==
    ASSUME NEW a, NEW b, Proper(a), Proper(b), a.type = b.type, a.id = b.id
    PROVE  Proper(Merged(a, b))
<1> DEFINE m == Merged(a, b)
<1>1. /\ m.type = b.type /\ m.id = b.id
      /\ DOMAIN m.attributes = DOMAIN a.attributes \cup DOMAIN b.attributes
    BY DEF Merged, WithAttributes
<1>2. \A n \in DOMAIN m.attributes :
        \/ n \in DOMAIN a.attributes /\ m.attributes[n] = a.attributes[n]
        \/ n \in DOMAIN b.attributes /\ m.attributes[n] = b.attributes[n]
    BY DEF Merged, WithAttributes
<1>3. /\ b.id = NodeId(b.type, b.attributes)
      /\ a.id = NodeId(b.type, a.attributes)
    BY DEF Proper
<1>4. \A n \in Identity[b.type] : a.attributes[n] = b.attributes[n]
    <2>1. [n \in Identity[b.type] |-> a.attributes[n]] = [n \in Identity[b.type] |-> b.attributes[n]]
        BY <1>3 DEF NodeId
    <2>2. QED
        BY <2>1
<1>5. \A n \in Identity[b.type] : m.attributes[n] = b.attributes[n]
    BY <1>1, <1>2, <1>4 DEF Proper
<1> HIDE DEF m
<1>6. m.id = NodeId(m.type, m.attributes)
    BY <1>1, <1>3, <1>5 DEF NodeId
<1>7. QED
    BY <1>1, <1>2, <1>6 DEF Proper, m

LEMMA AddAllProper ==
    ASSUME NEW A, NEW B, AllWellFormed(A), AllWellFormed(B),
           \A e \in A \cup B : Proper(e), NEW f \in AddAll(A, B)
    PROVE  Proper(f)
<1>1. CASE f \in A \cup B
    BY <1>1
<1>2. ASSUME NEW a \in A, NEW b \in B, a.id = b.id, f = Merged(a, b)
      PROVE  Proper(f)
    BY <1>2, IdDetermines, MergedProper DEF AllWellFormed
<1>3. QED
    BY <1>1, <1>2, AddAllMember

(* Merging is symmetric if equal ids come with comparable attributes. *)
LEMMA MergedCommutes ==
    ASSUME NEW a, NEW b, WellFormed(a), WellFormed(b), a.id = b.id,
           \A n \in DOMAIN a.attributes \cap DOMAIN b.attributes :
               a.attributes[n] # b.attributes[n] =>
                   (JsonBefore(a.attributes[n], b.attributes[n])
                        <=> ~JsonBefore(b.attributes[n], a.attributes[n]))
    PROVE  Merged(a, b) = Merged(b, a)
<1> DEFINE names == DOMAIN a.attributes \cup DOMAIN b.attributes
<1>1. /\ a.kind = b.kind /\ a.type = b.type
      /\ a.source = b.source /\ a.target = b.target
    BY IdDetermines
<1>2. Merged(a, b).attributes = Merged(b, a).attributes
    <2>1. DOMAIN b.attributes \cup DOMAIN a.attributes = names
        OBVIOUS
    <2>2. QED
        BY <2>1 DEF Merged, WithAttributes
<1>3. \A c, d : Merged(c, d) = [kind |-> d.kind, id |-> d.id, type |-> d.type,
                                source |-> d.source, target |-> d.target,
                                attributes |-> Merged(c, d).attributes]
    BY DEF Merged, WithAttributes
<1>4. QED
    BY <1>1, <1>2, <1>3

-----------------------------------------------------------------------------
(* The contributions of a data point *)

Discovered(attributes) ==
    MaterializeObservation(ExtractEntities(Unprefixed(attributes), "span_metrics"),
                           "span_metrics")

(* What a data point gives: nothing, an interaction or discovered elements. *)
LEMMA PointContributions ==
    ASSUME NEW metric, NEW point
    PROVE  LET S == ParsePoint(metric, point).contributions
           IN  \/ /\ S = {}
                  /\ ParsePoint(metric, point).rejection = "invalid_servicegraph_datapoint"
               \/ /\ metric # "discovery"
                  /\ IsName(Own(point.attributes, "client"))
                  /\ IsName(Own(point.attributes, "server"))
                  /\ {c.element : c \in S} = Interaction(point.attributes)
                  /\ \A c \in S : c.contributorId = Contributor(point.attributes)
               \/ /\ metric = "discovery"
                  /\ {c.element : c \in S} = Discovered(point.attributes)
                  /\ \A c \in S : c.contributorId = <<"spanmetrics", c.element.id,
                                                      c.element.attributes>>
<1> DEFINE S == ParsePoint(metric, point).contributions
           a == point.attributes
<1>1. \/ /\ S = {}
         /\ ParsePoint(metric, point).rejection = "invalid_servicegraph_datapoint"
      \/ /\ metric # "discovery"
         /\ IsName(Own(a, "client")) /\ IsName(Own(a, "server"))
         /\ S = Contributions(Contributor(a), Interaction(a), point.observedAt)
      \/ metric = "discovery" /\ S = Discovery(a, point.observedAt).contributions
    BY DEF ParsePoint, Rejected, Servicegraph
<1>2. CASE /\ metric # "discovery"
           /\ IsName(Own(a, "client")) /\ IsName(Own(a, "server"))
           /\ S = Contributions(Contributor(a), Interaction(a), point.observedAt)
    <2>1. S = {[contributorId |-> Contributor(a), observedAt |-> point.observedAt,
                element |-> e] : e \in Interaction(a)}
        BY <1>2 DEF Contributions
    <2> HIDE DEF S
    <2>2. \A c \in S : c.element \in Interaction(a) /\ c.contributorId = Contributor(a)
        BY <2>1
    <2>3. ASSUME NEW e \in Interaction(a)
          PROVE  \E c \in S : c.element = e
        <3>1. [contributorId |-> Contributor(a), observedAt |-> point.observedAt,
               element |-> e] \in S
            BY <2>1
        <3>2. QED
            BY <3>1
    <2>4. {c.element : c \in S} = Interaction(a)
        BY <2>2, <2>3
    <2>5. QED
        BY <1>2, <2>2, <2>4 DEF S
<1>3. CASE metric = "discovery" /\ S = Discovery(a, point.observedAt).contributions
    <2>1. S = UNION {Contributions(<<"spanmetrics", e.id, e.attributes>>, {e}, point.observedAt) :
                        e \in Discovered(a)}
        BY <1>3 DEF Discovery, Discovered
    <2> HIDE DEF S
    <2>2. ASSUME NEW c \in S
          PROVE  /\ c.element \in Discovered(a)
                 /\ c.contributorId = <<"spanmetrics", c.element.id, c.element.attributes>>
        BY <2>1 DEF Contributions
    <2>3. ASSUME NEW e \in Discovered(a)
          PROVE  \E c \in S : c.element = e
        <3>1. [contributorId |-> <<"spanmetrics", e.id, e.attributes>>,
               observedAt |-> point.observedAt, element |-> e] \in S
            BY <2>1 DEF Contributions
        <3>2. QED
            BY <3>1
    <2>4. {c.element : c \in S} = Discovered(a)
        BY <2>2, <2>3
    <2>5. QED
        BY <1>3, <2>2, <2>4 DEF S
<1>4. QED
    BY <1>1, <1>2, <1>3

LEMMA ContributionOrigin ==
    ASSUME NEW metric, NEW point, NEW c \in ParsePoint(metric, point).contributions
    PROVE  \/ /\ c.element \in Interaction(point.attributes)
              /\ c.contributorId = Contributor(point.attributes)
           \/ c.contributorId = <<"spanmetrics", c.element.id, c.element.attributes>>
<1> DEFINE S == ParsePoint(metric, point).contributions
<1>1. c.element \in {d.element : d \in S}
    OBVIOUS
<1>2. \/ S = {}
      \/ /\ {d.element : d \in S} = Interaction(point.attributes)
         /\ \A d \in S : d.contributorId = Contributor(point.attributes)
      \/ \A d \in S : d.contributorId = <<"spanmetrics", d.element.id, d.element.attributes>>
    BY PointContributions
<1> HIDE DEF S
<1>3. c \in S
    BY DEF S
<1>4. QED
    BY <1>1, <1>2, <1>3

(* Hence its elements are well-formed, unique and closed. *)
LEMMA PointGood ==
    ASSUME NEW metric, NEW point
    PROVE  Good({c.element : c \in ParsePoint(metric, point).contributions})
<1> DEFINE S == ParsePoint(metric, point).contributions
           E == {c.element : c \in S}
<1>1. \/ E = {}
      \/ E = Interaction(point.attributes)
      \/ E = Discovered(point.attributes)
    <2>1. S = {} => E = {}
        OBVIOUS
    <2>2. QED
        BY <2>1, PointContributions
<1> HIDE DEF E
<1>2. Good({})
    BY DEF Good, AllWellFormed, Unique, Closed
<1>3. Good(Discovered(point.attributes))
    BY ObservationGood DEF Discovered
<1>4. Good(E)
    BY <1>1, <1>2, <1>3, InteractionGood
<1>5. QED
    BY <1>4 DEF E

LEMMA KeyIsPair ==
    ASSUME NEW k \in Keys
    PROVE  k = <<k[1], k[2]>>
<1> DEFINE sides == {"", "client", "server"}
<1>1. k \in sides \X Names
    BY DEF Keys
<1> HIDE DEF sides
<1>2. QED
    BY <1>1

(***************************************************************************)
(* The hash of a service graph data point covers everything its elements   *)
(* are made of.                                                            *)
(***************************************************************************)
LEMMA ContributorFixesInteraction ==
    ASSUME NEW a, NEW b, DOMAIN a \subseteq Keys, DOMAIN b \subseteq Keys,
           Contributor(a) = Contributor(b)
    PROVE  Interaction(a) = Interaction(b)
<1>1. /\ Own(a, "client") = Own(b, "client")
      /\ Own(a, "server") = Own(b, "server")
      /\ ConnectionType(Own(a, "connection_type")) = ConnectionType(Own(b, "connection_type"))
      /\ Dimensions(a) = Dimensions(b)
    BY DEF Contributor
<1>2. ASSUME NEW side \in {"client", "server"}, NEW name
      PROVE  Stripped(a, side, name) = Stripped(b, side, name)
    <2> DEFINE Of(f) == {k \in DOMAIN f : k[1] = side}
    <2>1. ASSUME NEW k, k[1] = side
          PROVE  /\ k \in DOMAIN a <=> k \in DOMAIN Dimensions(a)
                 /\ k \in DOMAIN a => Dimensions(a)[k] = a[k]
                 /\ k \in DOMAIN b <=> k \in DOMAIN Dimensions(b)
                 /\ k \in DOMAIN b => Dimensions(b)[k] = b[k]
        BY <2>1 DEF Dimensions
    <2>2. Of(a) = Of(b)
        BY <1>1, <2>1
    <2>3. \A k \in Of(a) : a[k] = b[k]
        BY <1>1, <2>1, <2>2
    <2>4. ASSUME NEW k \in Of(a)
          PROVE  <<side, k[2]>> \in Of(a)
        <3>1. k \in {"", "client", "server"} \X Names /\ k[1] = side
            BY DEF Keys
        <3>2. k = <<k[1], k[2]>>
            BY <3>1, KeyIsPair DEF Keys
        <3>3. k = <<side, k[2]>>
            BY <3>1, <3>2
        <3>4. k \in Of(a)
            OBVIOUS
        <3> HIDE DEF Of
        <3>5. QED
            BY <3>3, <3>4
    <2> HIDE DEF Of
    <2>5. Stripped(a, side, name) =
            [n \in {k[2] : k \in Of(a)} \cup {ServiceName} |->
                IF n \in {k[2] : k \in Of(a)} THEN a[<<side, n>>] ELSE name]
        BY DEF Stripped, Of
    <2>6. Stripped(b, side, name) =
            [n \in {k[2] : k \in Of(b)} \cup {ServiceName} |->
                IF n \in {k[2] : k \in Of(b)} THEN b[<<side, n>>] ELSE name]
        BY DEF Stripped, Of
    <2>7. QED
        BY <2>2, <2>3, <2>4, <2>5, <2>6
<1>3. /\ Observation(a, "client", Own(a, "client")) = Observation(b, "client", Own(b, "client"))
      /\ Observation(a, "server", Own(a, "server")) = Observation(b, "server", Own(b, "server"))
    BY <1>1, <1>2 DEF Observation
<1>4. QED
    BY <1>1, <1>3 DEF Interaction

-----------------------------------------------------------------------------
(* The specification *)

(* Evidence is what the parser makes of data points that may arrive. *)
Arrived(x) ==
    /\ x.result = ParsePoint(x.metric, x.point)
    /\ x.metric \in {"request_total", "discovery"}
    /\ x.point.positive \in BOOLEAN
    /\ x.point.observedAt \in Int
    /\ DOMAIN x.point.attributes \subseteq Keys
    /\ \A k \in DOMAIN x.point.attributes : x.point.attributes[k] \in Values

IInv ==
    /\ calls \in 0 .. MaxCalls
    /\ \A x \in evidence : Arrived(x)

LEMMA EvidenceIsParsed == Spec => []IInv
<1>1. Init => IInv
    BY RequestsAssumption DEF Init, IInv
<1>2. IInv /\ [Next]_vars => IInv'
    <2> SUFFICES ASSUME IInv, [Next]_vars
                 PROVE  IInv'
        OBVIOUS
    <2>1. CASE UNCHANGED vars
        BY <2>1 DEF IInv, vars
    <2>2. ASSUME NEW request \in Requests, FlatMap(request)
          PROVE  IInv'
        <3>1. calls' \in 0 .. MaxCalls
            BY <2>2, RequestsAssumption DEF FlatMap, IInv
        <3>2. ASSUME NEW x \in evidence'
              PROVE  Arrived(x)
            <4>1. CASE x \in evidence
                BY <4>1 DEF IInv
            <4>2. ASSUME NEW m \in request, x \in Parsed(m)
                  PROVE  Arrived(x)
                <5>1. PICK p \in m.points :
                        /\ m.name \in {"request_total", "discovery"}
                        /\ x = [metric |-> m.name, point |-> p,
                                result |-> ParsePoint(m.name, p)]
                    BY <4>2 DEF Parsed
                <5>2. \A k \in DOMAIN p.attributes : p.attributes[k] \in Values
                    BY DEF Values
                <5>3. QED
                    BY <5>1, <5>2, RequestsAssumption DEF Arrived
            <4>3. QED
                BY <2>2, <4>1, <4>2 DEF FlatMap
        <3>3. QED
            BY <3>1, <3>2 DEF IInv
    <2>3. QED
        BY <2>1, <2>2 DEF Next
<1>3. QED
    BY <1>1, <1>2, PTL DEF Spec

(***************************************************************************)
(* An edge is never contributed without its endpoints, whatever registry   *)
(* and data points there are.                                              *)
(***************************************************************************)
THEOREM EndpointsAreEmitted == Spec => []EndpointsEmitted
<1>1. IInv => EndpointsEmitted
    <2> SUFFICES ASSUME IInv, NEW x \in evidence, NEW e \in Elements(x), e.kind = "edge",
                        NEW end \in {e.source, e.target}
                 PROVE  end \in Ids(Nodes(x))
        BY DEF EndpointsEmitted
    <2>1. Closed(Elements(x))
        BY PointGood DEF IInv, Arrived, Elements, Good
    <2>2. PICK f \in Elements(x) : f.kind = "node" /\ f.id = end
        BY <2>1 DEF Closed
    <2>3. QED
        BY <2>2 DEF Ids, Nodes
<1>2. QED
    BY <1>1, EvidenceIsParsed, PTL

(***************************************************************************)
(* A contributor never says two things of the same element: the lifecycle  *)
(* may replace its snapshot without losing evidence.                       *)
(***************************************************************************)
THEOREM ContributorsAreConsistent == Spec => []ContributorDeterminesElement
<1>1. IInv => ContributorDeterminesElement
    <2> SUFFICES ASSUME IInv, NEW x \in evidence, NEW y \in evidence,
                        NEW c \in x.result.contributions, NEW d \in y.result.contributions,
                        c.contributorId = d.contributorId, c.element.id = d.element.id
                 PROVE  c.element = d.element
        BY DEF ContributorDeterminesElement
    <2> DEFINE a == x.point.attributes
               b == y.point.attributes
    <2>1. /\ x.result = ParsePoint(x.metric, x.point) /\ DOMAIN a \subseteq Keys
          /\ y.result = ParsePoint(y.metric, y.point) /\ DOMAIN b \subseteq Keys
        BY DEF IInv, Arrived
    <2>2. \/ c.element \in Interaction(a) /\ c.contributorId = Contributor(a)
          \/ c.contributorId = <<"spanmetrics", c.element.id, c.element.attributes>>
        BY <2>1, ContributionOrigin
    <2>3. \/ d.element \in Interaction(b) /\ d.contributorId = Contributor(b)
          \/ d.contributorId = <<"spanmetrics", d.element.id, d.element.attributes>>
        BY <2>1, ContributionOrigin
    <2>4. /\ WellFormed(c.element) /\ Record(c.element)
          /\ WellFormed(d.element) /\ Record(d.element)
        BY <2>1, PointGood DEF Good, AllWellFormed
    <2>5. CASE /\ c.element \in Interaction(a) /\ c.contributorId = Contributor(a)
               /\ d.element \in Interaction(b) /\ d.contributorId = Contributor(b)
        <3>1. Interaction(a) = Interaction(b)
            BY <2>1, <2>5, ContributorFixesInteraction
        <3>2. Unique(Interaction(a))
            BY InteractionGood DEF Good
        <3>3. QED
            BY <2>5, <3>1, <3>2 DEF Unique
    <2>6. CASE /\ c.contributorId = <<"spanmetrics", c.element.id, c.element.attributes>>
               /\ d.contributorId = <<"spanmetrics", d.element.id, d.element.attributes>>
        <3>1. \A i, j, k, l : <<"spanmetrics", i, j>> = <<"spanmetrics", k, l>> => j = l
            OBVIOUS
        <3>2. <<"spanmetrics", c.element.id, c.element.attributes>>
                = <<"spanmetrics", d.element.id, d.element.attributes>>
            BY <2>6, Zenon
        <3>3. c.element.attributes = d.element.attributes
            BY <3>1, <3>2
        <3>4. QED
            BY <2>4, <3>3, IdDetermines DEF Record
    <2>7. \A f : Contributor(f)[1] = "servicegraph"
        BY DEF Contributor
    <2>8. \A id, attributes : <<"spanmetrics", id, attributes>>[1] = "spanmetrics"
        OBVIOUS
    <2>9. QED
        BY <2>2, <2>3, <2>5, <2>6, <2>7, <2>8
<1>2. QED
    BY <1>1, EvidenceIsParsed, PTL
LEMMA ElementsOfPoint ==
    ASSUME NEW x, Arrived(x)
    PROVE  \/ /\ Elements(x) = {} /\ x.result.contributions = {}
              /\ x.result.rejection = "invalid_servicegraph_datapoint"
           \/ /\ x.metric # "discovery"
              /\ IsName(Own(x.point.attributes, "client"))
              /\ IsName(Own(x.point.attributes, "server"))
              /\ Elements(x) = Interaction(x.point.attributes)
           \/ /\ x.metric = "discovery"
              /\ Elements(x) = Discovered(x.point.attributes)
<1>1. PICK metric, point : metric = x.metric /\ point = x.point
    OBVIOUS
<1> DEFINE S == ParsePoint(metric, point).contributions
           a == point.attributes
<1>2. /\ x.result.contributions = S
      /\ x.result.rejection = ParsePoint(metric, point).rejection
    BY <1>1 DEF Arrived
<1>3. Elements(x) = {c.element : c \in S} /\ (S = {} => Elements(x) = {})
    BY <1>2 DEF Elements
<1>4. \/ S = {} /\ ParsePoint(metric, point).rejection = "invalid_servicegraph_datapoint"
      \/ /\ metric # "discovery"
         /\ IsName(Own(a, "client")) /\ IsName(Own(a, "server"))
         /\ {c.element : c \in S} = Interaction(a)
      \/ /\ metric = "discovery"
         /\ {c.element : c \in S} = Discovered(a)
    BY PointContributions
<1> HIDE DEF S
<1>5. QED
    BY <1>1, <1>2, <1>3, <1>4

(***************************************************************************)
(* Contributions are positive evidence for nodes that their own valid      *)
(* attributes identify, with every enum in its registered form.            *)
(***************************************************************************)
THEOREM ContributionsAreWellFormed == Spec => []TypeOK
<1>1. ASSUME NEW x, Arrived(x), x.result.contributions # {}
      PROVE  x.point.positive /\ x.point.observedAt > 0
    BY <1>1 DEF Arrived, ParsePoint, Rejected
<1>2. ASSUME NEW x, Arrived(x), NEW e \in Elements(x)
      PROVE  IF e.kind = "node" THEN Proper(e) ELSE e.attributes = NoAttributes
    <2> DEFINE a == x.point.attributes
    <2>1. \/ Elements(x) = {}
          \/ Elements(x) = Interaction(a)
          \/ Elements(x) = Discovered(a)
        BY <1>2, ElementsOfPoint
    <2>2. WellFormed(e)
        BY <1>2, PointGood DEF Arrived, Elements, Good, AllWellFormed
    <2>3. ASSUME Elements(x) = Interaction(a), e.kind = "node"
          PROVE  Proper(e)
        <3> DEFINE C == Side(a, "client")
                   S == Side(a, "server")
        <3>1. e \in AddAll(C, S)
            BY <2>3, InteractionNodes DEF NodesOf
        <3>2. AllWellFormed(C) /\ AllWellFormed(S)
            BY NodesWellFormed DEF Side, Observation
        <3>3. \A f \in C \cup S : Proper(f)
            BY ExtractedProper DEF Side, Observation
        <3> HIDE DEF C, S
        <3>4. QED
            BY <3>1, <3>2, <3>3, AddAllProper
    <2>4. ASSUME Elements(x) = Discovered(a), e.kind = "node"
          PROVE  Proper(e)
        BY <2>4, ObservationNodes, ExtractedProper DEF Discovered, NodesOf
    <2>5. QED
        BY <2>1, <2>2, <2>3, <2>4 DEF WellFormed
<1>3. IInv => TypeOK
    BY <1>1, <1>2 DEF IInv, TypeOK, Proper, NoAttributes
<1>4. QED
    BY <1>3, EvidenceIsParsed, PTL

(***************************************************************************)
(* A model that throws, or that lacks its identity, takes nothing away     *)
(* from the other models of the observation.                               *)
(***************************************************************************)
LEMMA AloneDecides ==
    ASSUME NEW ty \in EntityTypes, NEW attributes, NEW evidenceSource,
           Extractable(ty, Alone(ty, attributes)), SupportsEntity(evidenceSource, ty)
    PROVE  Node(ty, Selected(ty, attributes)) \in ExtractEntities(attributes, evidenceSource)
<1>1. Selected(ty, Alone(ty, attributes)) = Selected(ty, attributes)
    BY DEF Selected, Alone
<1>2. Extractable(ty, attributes)
    BY <1>1 DEF Extractable, Alone
<1>3. QED
    BY <1>2 DEF ExtractEntities, ExtractValid, Node

THEOREM MalformedModelsHideNone == Spec => []PeersSurvive
<1>1. IInv => PeersSurvive
    <2> SUFFICES ASSUME IInv, NEW x \in evidence,
                        x.result.rejection # "invalid_servicegraph_datapoint",
                        NEW attributes \in Observed(x), NEW ty \in EntityTypes,
                        Extractable(ty, Alone(ty, attributes)),
                        SupportsEntity(IF x.metric = "discovery"
                                        THEN "span_metrics" ELSE "service_graph", ty)
                 PROVE  NodeId(ty, Selected(ty, attributes)) \in Ids(Nodes(x))
        BY DEF PeersSurvive
    <2> DEFINE a == x.point.attributes
               id == NodeId(ty, Selected(ty, attributes))
    <2>1. Arrived(x)
        BY DEF IInv
    <2>2. Nodes(x) = NodesOf(Elements(x))
        BY DEF Nodes, NodesOf
    <2>3. CASE x.metric = "discovery"
        <3>1. Elements(x) = Discovered(a)
            BY <2>1, <2>3, ElementsOfPoint
        <3>2. attributes = Unprefixed(a)
            BY <2>3 DEF Observed
        <3>3. Nodes(x) = ExtractEntities(attributes, "span_metrics")
            BY <2>2, <3>1, <3>2, ObservationNodes DEF Discovered
        <3>4. SupportsEntity("span_metrics", ty)
            BY <2>3
        <3>5. Node(ty, Selected(ty, attributes)) \in Nodes(x)
            BY <3>3, <3>4, AloneDecides
        <3>6. Node(ty, Selected(ty, attributes)).id = id
            BY DEF Node
        <3>7. QED
            BY <3>5, <3>6 DEF Ids
    <2>4. CASE x.metric # "discovery"
        <3> DEFINE C == Side(a, "client")
                   S == Side(a, "server")
                   E == ExtractEntities(attributes, "service_graph")
        <3>1. Elements(x) = Interaction(a)
            BY <2>1, <2>4, ElementsOfPoint
        <3>2. Nodes(x) = AddAll(C, S)
            BY <2>2, <3>1, InteractionNodes
        <3>3. E = C \/ E = S
            BY <2>4 DEF Observed, Side, Observation
        <3>4. \E e \in E : e.id = id
            <4>1. SupportsEntity("service_graph", ty)
                BY <2>4
            <4>2. Node(ty, Selected(ty, attributes)) \in E
                BY <4>1, AloneDecides
            <4>3. Node(ty, Selected(ty, attributes)).id = id
                BY DEF Node
            <4>4. QED
                BY <4>2, <4>3
        <3>5. AllWellFormed(C) /\ AllWellFormed(S) /\ Unique(C) /\ Unique(S)
            BY NodesWellFormed DEF Side, Observation
        <3> HIDE DEF C, S, E, id
        <3>6. \E f \in AddAll(C, S) : f.id = id
            BY <3>3, <3>4, <3>5, AddAllKeeps
        <3>7. QED
            BY <3>2, <3>6 DEF Ids, id
    <2>5. QED
        BY <2>3, <2>4
<1>2. QED
    BY <1>1, EvidenceIsParsed, PTL

-----------------------------------------------------------------------------
(* Mirrored data points *)

(* The key that the other side would have used. *)
Opposite(side) ==
    CASE side = "client" -> "server"
      [] side = "server" -> "client"
      [] OTHER -> ""

Image(k) ==
    IF k[1] = "" /\ k[2] \in {"client", "server"}
        THEN <<"", Opposite(k[2])>>
        ELSE <<Opposite(k[1]), k[2]>>

LEMMA ImageIsInvolution ==
    ASSUME NEW k \in Keys
    PROVE  Image(Image(k)) = k
<1>1. k = <<k[1], k[2]>> /\ k[1] \in {"", "client", "server"}
    BY KeyIsPair DEF Keys
<1>2. QED
    BY <1>1 DEF Image, Opposite

LEMMA MirroredIs ==
    ASSUME NEW a, DOMAIN a \subseteq Keys
    PROVE  /\ \A j : j \in DOMAIN Mirrored(a) <=> \E k \in DOMAIN a : j = Image(k)
           /\ \A k \in DOMAIN a : Mirrored(a)[Image(k)] = a[k]
<1> DEFINE other == [side \in {"client", "server", ""} |->
                        CASE side = "client" -> "server"
                          [] side = "server" -> "client"
                          [] OTHER -> ""]
           image(k) == IF k[1] = "" /\ k[2] \in {"client", "server"}
                           THEN <<"", other[k[2]]>>
                           ELSE <<other[k[1]], k[2]>>
<1>1. \A k \in DOMAIN a : Image(k) = image(k) /\ Image(Image(k)) = image(Image(k))
    <2> SUFFICES ASSUME NEW k \in DOMAIN a
                 PROVE  Image(k) = image(k) /\ Image(Image(k)) = image(Image(k))
        OBVIOUS
    <2>1. k = <<k[1], k[2]>> /\ k[1] \in {"", "client", "server"}
        BY KeyIsPair DEF Keys
    <2>2. QED
        BY <2>1 DEF Image, Opposite
<1>2. Mirrored(a) = [k \in {image(j) : j \in DOMAIN a} |-> a[image(k)]]
    BY DEF Mirrored
<1> HIDE DEF image
<1>3. {image(j) : j \in DOMAIN a} = {Image(k) : k \in DOMAIN a}
    BY <1>1
<1>4. ASSUME NEW k \in DOMAIN a
      PROVE  Mirrored(a)[Image(k)] = a[k]
    <2>1. image(Image(k)) = k
        BY <1>1, ImageIsInvolution
    <2>2. QED
        BY <1>2, <1>3, <2>1
<1>5. QED
    BY <1>2, <1>3, <1>4

(* A side of the mirrored data point is the other side. *)
LEMMA MirroredSide ==
    ASSUME NEW a, DOMAIN a \subseteq Keys, NEW side \in {"client", "server"}
    PROVE  Side(Mirrored(a), side) = Side(a, Opposite(side))
<1> DEFINE m == Mirrored(a)
           far == Opposite(side)
           Of(f, s) == {k \in DOMAIN f : k[1] = s}
<1>1. far \in {"client", "server"} /\ Opposite(far) = side
    BY DEF Opposite
<1>2. ASSUME NEW k \in DOMAIN a
      PROVE  /\ Image(k) \in DOMAIN m /\ m[Image(k)] = a[k]
             /\ k = <<k[1], k[2]>> /\ k[1] \in {"", "client", "server"}
    BY MirroredIs, KeyIsPair DEF Keys
<1>3. ASSUME NEW n
      PROVE  /\ <<side, n>> \in DOMAIN m <=> <<far, n>> \in DOMAIN a
             /\ <<far, n>> \in DOMAIN a => m[<<side, n>>] = a[<<far, n>>]
    <2>1. Image(<<far, n>>) = <<side, n>>
        BY <1>1 DEF Image
    <2>2. ASSUME <<side, n>> \in DOMAIN m
          PROVE  <<far, n>> \in DOMAIN a
        <3>1. PICK k \in DOMAIN a : Image(k) = <<side, n>>
            BY <2>2, MirroredIs
        <3>2. k = Image(<<side, n>>)
            BY <3>1, ImageIsInvolution
        <3>3. QED
            BY <3>2 DEF Image
    <2>3. QED
        BY <1>2, <2>1, <2>2
<1>4. Own(m, side) = Own(a, far)
    <2>1. Image(<<"", far>>) = <<"", side>>
        BY <1>1 DEF Image
    <2>2. ASSUME <<"", side>> \in DOMAIN m
          PROVE  <<"", far>> \in DOMAIN a
        <3>1. PICK k \in DOMAIN a : Image(k) = <<"", side>>
            BY <2>2, MirroredIs
        <3>2. k = Image(<<"", side>>)
            BY <3>1, ImageIsInvolution
        <3>3. QED
            BY <3>2 DEF Image
    <2>3. QED
        BY <1>2, <2>1, <2>2 DEF Own
<1>5. Stripped(m, side, Own(m, side)) = Stripped(a, far, Own(a, far))
    <2>1. ASSUME NEW f, NEW s, \A k \in DOMAIN f : k = <<k[1], k[2]>>, NEW n
          PROVE  n \in {k[2] : k \in Of(f, s)} <=> <<s, n>> \in DOMAIN f
        <3>1. ASSUME <<s, n>> \in DOMAIN f
              PROVE  n \in {k[2] : k \in Of(f, s)}
            <4>1. <<s, n>> \in Of(f, s) /\ <<s, n>>[2] = n
                BY <3>1
            <4>2. QED
                BY <4>1
        <3>2. ASSUME NEW k \in Of(f, s), n = k[2]
              PROVE  <<s, n>> \in DOMAIN f
            <4>1. k \in DOMAIN f /\ k[1] = s
                OBVIOUS
            <4>2. QED
                BY <2>1, <3>2, <4>1
        <3>3. QED
            BY <3>1, <3>2
    <2>2. \A k \in DOMAIN m : k = <<k[1], k[2]>>
        <3>1. \A j : Image(j) = <<Image(j)[1], Image(j)[2]>>
            BY DEF Image
        <3>2. QED
            BY <3>1, MirroredIs
    <2>3. \A k \in DOMAIN a : k = <<k[1], k[2]>>
        BY <1>2
    <2>4. {k[2] : k \in Of(m, side)} = {k[2] : k \in Of(a, far)}
        <3>1. \A n : n \in {k[2] : k \in Of(m, side)} <=> <<side, n>> \in DOMAIN m
            BY <2>1, <2>2
        <3>2. \A n : n \in {k[2] : k \in Of(a, far)} <=> <<far, n>> \in DOMAIN a
            BY <2>1, <2>3
        <3> HIDE DEF Of, m, far
        <3>3. QED
            BY <1>3, <3>1, <3>2
    <2>5. \A n \in {k[2] : k \in Of(a, far)} : m[<<side, n>>] = a[<<far, n>>]
        BY <1>3, <2>1, <2>3
    <2>6. /\ Stripped(m, side, Own(m, side)) =
                [n \in {k[2] : k \in Of(m, side)} \cup {ServiceName} |->
                    IF n \in {k[2] : k \in Of(m, side)} THEN m[<<side, n>>] ELSE Own(m, side)]
          /\ Stripped(a, far, Own(a, far)) =
                [n \in {k[2] : k \in Of(a, far)} \cup {ServiceName} |->
                    IF n \in {k[2] : k \in Of(a, far)} THEN a[<<far, n>>] ELSE Own(a, far)]
        BY DEF Stripped
    <2> HIDE DEF Of, m, far
    <2>7. QED
        BY <1>4, <2>4, <2>5, <2>6
<1>6. QED
    BY <1>5 DEF Side, Observation

(* Which attributes there are, and which connection, does not change. *)
LEMMA MirroredNodes ==
    ASSUME NEW a, DOMAIN a \subseteq Keys
    PROVE  NodesOf(Interaction(Mirrored(a)))
             = AddAll(Side(a, "server"), Side(a, "client"))
<1>1. Side(Mirrored(a), "client") = Side(a, "server")
    BY MirroredSide DEF Opposite
<1>2. Side(Mirrored(a), "server") = Side(a, "client")
    BY MirroredSide DEF Opposite
<1>3. QED
    BY <1>1, <1>2, InteractionNodes

(* The values of a side with a name are values that arrived. *)
LEMMA SideStores ==
    ASSUME NEW a, DOMAIN a \subseteq Keys, NEW V, \A k \in DOMAIN a : a[k] \in V,
           NEW side \in {"client", "server"}, IsName(Own(a, side)),
           NEW e \in Side(a, side)
    PROVE  \A n \in DOMAIN e.attributes :
               /\ n \in DOMAIN Fields[e.type]
               /\ e.attributes[n] # Null
               /\ \E v \in V : e.attributes[n] = Validate(Fields[e.type][n], v)
<1> DEFINE names == {k[2] : k \in {x \in DOMAIN a : x[1] = side}}
           b == Stripped(a, side, Own(a, side))
<1>1. e \in ExtractEntities(b, "service_graph")
    BY DEF Side, Observation
<1>2. Own(a, side) \in V
    BY DEF Own, IsName
<1>3. ASSUME NEW n \in names
      PROVE  <<side, n>> \in DOMAIN a
    <2>1. PICK k \in DOMAIN a : k[1] = side /\ n = k[2]
        OBVIOUS
    <2>2. k = <<k[1], k[2]>>
        BY KeyIsPair
    <2>3. QED
        BY <2>1, <2>2
<1>4. \A n \in DOMAIN b : b[n] \in V
    <2>1. b = [n \in names \cup {ServiceName} |->
                 IF n \in names THEN a[<<side, n>>] ELSE Own(a, side)]
        BY DEF Stripped
    <2> HIDE DEF names, b
    <2>2. QED
        BY <1>2, <1>3, <2>1
<1> HIDE DEF b
<1>5. QED
    BY <1>1, <1>4, ExtractedProper DEF Proper

(***************************************************************************)
(* Which side of a call reports what does not show in the nodes.           *)
(***************************************************************************)
THEOREM SidesAreSymmetric == Spec => []SidesCommute
<1>1. IInv => SidesCommute
    <2> SUFFICES ASSUME IInv, NEW x \in evidence, x.metric = "request_total",
                        x.result.contributions # {}
                 PROVE  Nodes(x) = NodesOf(Interaction(Mirrored(x.point.attributes)))
        BY DEF SidesCommute, NodesOf
    <2> DEFINE a == x.point.attributes
               C == Side(a, "client")
               S == Side(a, "server")
    <2>1. /\ IsName(Own(a, "client")) /\ IsName(Own(a, "server"))
          /\ Elements(x) = Interaction(a)
        BY ElementsOfPoint DEF IInv
    <2>2. DOMAIN a \subseteq Keys /\ \A k \in DOMAIN a : a[k] \in Values
        BY DEF IInv, Arrived
    <2>3. Nodes(x) = AddAll(C, S)
        BY <2>1, InteractionNodes DEF Nodes, NodesOf
    <2>4. NodesOf(Interaction(Mirrored(a))) = AddAll(S, C)
        BY <2>2, MirroredNodes
    <2>5. AllWellFormed(C) /\ AllWellFormed(S) /\ \A e \in C \cup S : Proper(e)
        BY NodesWellFormed, ExtractedProper DEF Side, Observation
    <2>6. \A e \in C \cup S : \A n \in DOMAIN e.attributes :
            /\ n \in DOMAIN Fields[e.type]
            /\ e.attributes[n] # Null
            /\ \E v \in Values : e.attributes[n] = Validate(Fields[e.type][n], v)
        BY <2>1, <2>2, SideStores
    <2>7. ASSUME NEW e \in C, NEW f \in S, e.id = f.id
          PROVE  Merged(e, f) = Merged(f, e)
        <3>1. WellFormed(e) /\ WellFormed(f) /\ e.type = f.type
            BY <2>5, <2>7, IdDetermines DEF AllWellFormed
        <3>2. ASSUME NEW n \in DOMAIN e.attributes \cap DOMAIN f.attributes,
                     e.attributes[n] # f.attributes[n]
              PROVE  JsonBefore(e.attributes[n], f.attributes[n])
                        <=> ~JsonBefore(f.attributes[n], e.attributes[n])
            <4> DEFINE stored == {Validate(Fields[e.type][n], v) : v \in Values} \ {Null}
            <4>1. e.type \in EntityTypes /\ n \in DOMAIN Fields[e.type]
                BY <2>5, <2>6 DEF Proper
            <4>2. e.attributes[n] \in stored /\ f.attributes[n] \in stored
                BY <2>6, <3>1
            <4>3. \A u, v \in stored : u # v => (JsonBefore(u, v) <=> ~JsonBefore(v, u))
                BY <4>1, JsonAssumption
            <4> HIDE DEF stored
            <4>4. QED
                BY <3>2, <4>2, <4>3
        <3>3. QED
            BY <2>7, <3>1, <3>2, MergedCommutes
    <2> HIDE DEF C, S
    <2>8. ASSUME NEW e
          PROVE  e \in AddAll(C, S) <=> e \in AddAll(S, C)
        <3>1. (\E c \in C, d \in S : c.id = d.id /\ e = Merged(c, d))
                <=> (\E d \in S, c \in C : d.id = c.id /\ e = Merged(d, c))
            BY <2>7
        <3>2. e \in AddAll(C, S) <=>
                 \/ e \in C /\ e.id \notin Ids(S)
                 \/ e \in S /\ e.id \notin Ids(C)
                 \/ \E c \in C, d \in S : c.id = d.id /\ e = Merged(c, d)
            BY AddAllMember
        <3>3. e \in AddAll(S, C) <=>
                 \/ e \in S /\ e.id \notin Ids(C)
                 \/ e \in C /\ e.id \notin Ids(S)
                 \/ \E d \in S, c \in C : d.id = c.id /\ e = Merged(d, c)
            BY AddAllMember
        <3>4. QED
            BY <3>1, <3>2, <3>3
    <2>9. AddAll(C, S) = AddAll(S, C)
        BY <2>8
    <2>10. QED
        BY <2>3, <2>4, <2>9
<1>2. QED
    BY <1>1, EvidenceIsParsed, PTL
=============================================================================
