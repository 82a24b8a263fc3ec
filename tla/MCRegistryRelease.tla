-------------------------- MODULE MCRegistryRelease --------------------------
(***************************************************************************)
(* A registry in small: hosts run services, services call each other or    *)
(* publish messages, of which the data points tell the latter.             *)
(* What maintainers may add are an entity of their own with relationships  *)
(* of new names, two of them never observed (traces alone are evidence for *)
(* one, an endpoint of the other has no identity), an interaction, a       *)
(* relationship that reuses a name, an entity named like a relationship,   *)
(* and definitions that are refused.                                       *)
(***************************************************************************)
EXTENDS RegistryRelease

Attr(id, type) == [id |-> id, type |-> type, members |-> {}]

EnumAttr(id, members) == [id |-> id, type |-> "enum", members |-> members]

Ent(name, identifying, descriptive) ==
    [id |-> "entity." \o name, name |-> name,
     attributes |-> [ref \in identifying \cup descriptive |->
                        IF ref \in identifying THEN "identifying" ELSE "descriptive"]]

Rel(source, name, target, signals, scope, connection) ==
    [id |-> source \o "_" \o name \o "_" \o target, name |-> name,
     source |-> source, target |-> target, signals |-> signals,
     scope |-> scope, connection |-> connection]

Observed(source, name, target, signals) ==
    Rel(source, name, target, signals, "observation", Null)

Group(attributes, entities, relationships) ==
    [attributes |-> attributes, entities |-> entities, relationships |-> relationships]

MCUpstream ==
    Group({Attr("service.name", "string"), Attr("service.namespace", "string"),
           Attr("host.id", "string"), Attr("host.label", "template[string]"),
           Attr("process.pid", "int"), EnumAttr("host.type", {"str"})},
          {Ent("service", {"service.name"}, {"service.namespace"}),
           Ent("host", {"host.id"}, {"host.label", "host.type"}),
           Ent("process", {"process.pid"}, {}),
           Ent("browser", {}, {"service.name"})},
          {})

BaseExtension ==
    Group({}, {},
          {Observed("host", "runs", "service", {"trace", "service_graph", "span_metrics"}),
           Rel("service", "calls", "service", {"service_graph"}, "interaction", "unset"),
           Rel("service", "publishes", "service", {"service_graph"},
               "interaction", "messaging")})

CustomEntity ==
    Group({Attr("app.name", "string")},
          {Ent("app", {"app.name"}, {"host.type"})},
          {Observed("service", "implements", "app", {"service_graph", "span_metrics"}),
           Rel("host", "serves", "process", {"trace"}, Null, Null),
           Observed("service", "shows", "browser", {"service_graph"})})

Interaction ==
    Group({}, {}, {Rel("service", "notifies", "service", {"service_graph"},
                       "interaction", "messaging")})

ReusedName == Group({}, {}, {Observed("host", "runs", "process", {"span_metrics"})})

NamedAlike ==
    Group({}, {Ent("calls", {"host.id"}, {})},
          {Observed("host", "logs", "calls", {"service_graph"})})

UnknownEndpoint == Group({}, {}, {Observed("service", "uses", "queue", {"service_graph"})})

Redefinition == Group({}, {Ent("service", {"host.id"}, {})}, {})

ReservedAlias ==
    Group({Attr("element.id", "string")},
          {Ent("part", {"element.id"}, {})},
          {Observed("host", "has", "part", {"span_metrics"})})

FloatingIdentity ==
    Group({EnumAttr("load", {"float"})}, {Ent("level", {"load"}, {})}, {})

Additions ==
    {<<"interaction", Interaction>>, <<"reused name", ReusedName>>,
     <<"named alike", NamedAlike>>,
     <<"unknown endpoint", UnknownEndpoint>>, <<"redefinition", Redefinition>>,
     <<"reserved alias", ReservedAlias>>, <<"floating identity", FloatingIdentity>>}

Union(x, y) == Group(x.attributes \cup y.attributes, x.entities \cup y.entities,
                     x.relationships \cup y.relationships)

MCExtensions == {"base", "interaction and custom entity"} \cup {a[1] : a \in Additions}

MCRegistry ==
    [x \in MCExtensions |->
        IF x = "base" THEN BaseExtension
        ELSE IF x = "interaction and custom entity"
            THEN Union(BaseExtension, Union(Interaction, CustomEntity))
            ELSE Union(BaseExtension, (CHOOSE a \in Additions : a[1] = x)[2])]

MCClassName(name) == name

MCEdgeClassName(triple) == triple[1] \o triple[2] \o triple[3]

MCSafeName(name) ==
    CASE name = "service.name" -> "service_name"
      [] name = "service.namespace" -> "service_namespace"
      [] name = "host.id" -> "host_id"
      [] name = "host.type" -> "host_type"
      [] name = "process.pid" -> "process_pid"
      [] name = "app.name" -> "app_name"
      [] name = "element.id" -> "element_id"
      [] OTHER -> name

MCReserved == {"element_id", "semantic_type", "attributes"}

Everything == {"service.name", "service.namespace", "host.id", "host.type",
               "process.pid", "app.name", "element.id"}

MCDataPoints ==
    {[lane |-> "service_graph", client |-> Everything,
      server |-> {"service.name", "host.id"}, connection |-> "messaging"],
     [lane |-> "span_metrics", client |-> Everything, server |-> {},
      connection |-> Null]}
=============================================================================
