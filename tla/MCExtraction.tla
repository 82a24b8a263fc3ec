---------------------------- MODULE MCExtraction ----------------------------
(***************************************************************************)
(* Four entity types in the manner of the generated registry: one with an  *)
(* optional enum, one with an optional field that both sides may describe  *)
(* differently, one that only discovery may create and whose identity has  *)
(* a numeric enum, and one that a number identifies.                       *)
(***************************************************************************)
EXTENDS Extraction

Text(k) == [sort |-> "string", n |-> k]

Number(k) == [sort |-> "integer", n |-> k]

Field(kind, required, enum) == [kind |-> kind, required |-> required, enum |-> enum]

MCNames == {"service.name", "service.criticality", "k8s.pod.uid", "k8s.pod.name",
            "span.kind", "process.pid", "client", "server", "connection_type"}

MCEntityTypes == {"service", "k8s.pod", "transaction", "process"}

MCIdentity == [ty \in MCEntityTypes |->
    CASE ty = "service" -> {"service.name"}
      [] ty = "k8s.pod" -> {"k8s.pod.uid"}
      [] ty = "transaction" -> {"service.name", "span.kind"}
      [] ty = "process" -> {"process.pid"}]

MCFields == [ty \in MCEntityTypes |->
    CASE ty = "service" ->
            [n \in {"service.name", "service.criticality"} |->
                IF n = "service.name" THEN Field("string", TRUE, {})
                                      ELSE Field("enum", FALSE, {Text(7)})]
      [] ty = "k8s.pod" ->
            [n \in {"k8s.pod.uid", "k8s.pod.name"} |->
                Field("string", n = "k8s.pod.uid", {})]
      [] ty = "transaction" ->
            [n \in {"service.name", "span.kind"} |->
                IF n = "service.name" THEN Field("string", TRUE, {})
                                      ELSE Field("enum", TRUE, {Number(1), Number(2)})]
      [] ty = "process" ->
            [n \in {"process.pid"} |-> Field("integer", TRUE, {})]]

Relation(source, type, target, sources, scope, connectionType) ==
    [source |-> source, type |-> type, target |-> target, evidence |-> sources,
     scope |-> scope, connectionType |-> connectionType]

MCUnset == Text(9)

MCRelationships ==
    {Relation("k8s.pod", "runs", "service", EvidenceSources, "observation", Null),
     Relation("service", "executes", "transaction", {"span_metrics"}, "observation", Null),
     Relation("k8s.pod", "runs", "process", {"span_metrics"}, "observation", Null),
     Relation("service", "calls", "service", {"service_graph"}, "interaction", MCUnset),
     Relation("service", "queries", "service", {"service_graph"}, "interaction", Text(8))}

MCJsonBefore(u, v) == u.n <= v.n

(* The attributes of one side: <<side, name>> -> value. *)
Side(side, pod, name, criticality) ==
    [k \in {<<side, "k8s.pod.uid">> : p \in {pod} \ {Null}}
            \cup {<<side, "k8s.pod.name">> : p \in {name} \ {Null}}
            \cup {<<side, "service.criticality">> : p \in {criticality} \ {Null}}
        |-> CASE k[2] = "k8s.pod.uid" -> pod
              [] k[2] = "k8s.pod.name" -> name
              [] OTHER -> criticality]

Given(key, value) == [k \in {<<"", key>> : v \in {value} \ {Null}} |-> value]

Joined(f, g) == [k \in DOMAIN f \cup DOMAIN g |->
                    IF k \in DOMAIN f THEN f[k] ELSE g[k]]

Point(attributes) == [positive |-> TRUE, observedAt |-> 1, attributes |-> attributes]

(* Calls between two services, or of one to itself, on one or two pods. *)
CallPoints ==
    {Point(Joined(Joined(Given("client", Text(1)),
                         Joined(Given("server", server), Given("connection_type", type))),
                  Joined(client, other))) :
        server \in {Text(1), Text(2)},
        type \in {Null, Text(0), Text(8), Text(3)},
        client \in {Side("client", Null, Null, Null), Side("client", Text(4), Text(5), Null),
                    Side("client", Text(4), Null, Number(1)),
                    Side("client", Text(4), Number(6), Null)},
        other \in {Side("server", Null, Null, Null), Side("server", Text(4), Text(6), Null),
                   Side("server", Text(4), Null, Null)}}

(* Attributes and values that the parser has to refuse. *)
BadCallPoints ==
    {Point(Joined(Given("client", client),
                  Joined(Given("server", Text(2)), Given("connection_type", type)))) :
        client \in {Null, Text(0), Number(1)}, type \in {Null, Number(1)}}
    \cup {[positive |-> FALSE, observedAt |-> 1, attributes |-> Given("client", Text(1))],
          [positive |-> TRUE, observedAt |-> 0, attributes |-> Given("client", Text(1))]}

DiscoveryPoints ==
    {Point(Joined(Given("service.name", service),
                  Joined(Given("span.kind", kind),
                         Joined(Given("k8s.pod.uid", Text(4)), Given("process.pid", pid))))) :
        service \in {Null, Text(0), Text(1)},
        kind \in {Null, Text(3), Number(1), [sort |-> "double", n |-> 1], [sort |-> "boolean", n |-> 1]},
        pid \in {Null, Number(3), Text(3)}}

Metric(name, points) == [name |-> name, sum |-> TRUE, delta |-> TRUE, points |-> points]

MCRequests ==
    {{Metric("request_total", {p})} : p \in CallPoints \cup BadCallPoints}
    \cup {{Metric("discovery", {p})} : p \in DiscoveryPoints \cup BadCallPoints}
    \cup {{}}
    \cup {{[name |-> name, sum |-> sum, delta |-> delta, points |-> {p}] :
            p \in {Point(Given("client", Text(1)))}} :
            name \in {"other", "request_total"}, sum \in BOOLEAN, delta \in {FALSE}}
=============================================================================
