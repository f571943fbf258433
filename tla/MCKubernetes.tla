---------------------------- MODULE MCKubernetes ----------------------------
(***************************************************************************)
(* Instances of Kubernetes: a Service that moves while Pods start, a Pod   *)
(* that is deleted, and meshes that come and go.                           *)
(***************************************************************************)
EXTENDS Kubernetes

MCAlphabet == <<"admin.b.svc:81", "db.b.svc:80", "web.a.svc:80">>
MCServiceTags == [t \in {"admin.b.svc:81", "db.b.svc:80", "web.a.svc:80", "legacy:80"} |->
    CASE t = "admin.b.svc:81" -> [host |-> <<"admin", "b", "svc">>, port |-> 81]
      [] t = "db.b.svc:80"    -> [host |-> <<"db", "b", "svc">>, port |-> 80]
      [] t = "web.a.svc:80"   -> [host |-> <<"web", "a", "svc">>, port |-> 80]
      [] t = "legacy:80"      -> [host |-> <<"legacy">>, port |-> 80]]
MCNumerals == [t \in {"15001", "5670"} |-> IF t = "15001" THEN 15001 ELSE 5670]
MCCaManagers == {"builtin", "provided"}

Nothing == [k \in {} |-> NotFound]
NoText == [k \in {} |-> ""]

Port(number, protocol, name) ==
    [port |-> number, protocol |-> protocol, target |-> [name |-> name, number |-> 8080]]
Svc(name, ns, ip, ports) ==
    [uid |-> 1, name |-> name, namespace |-> ns, selector |-> [app |-> ns], clusterIP |-> ip, ports |-> ports,
     protocols |-> [p \in {80} |-> "http"]]
Pod(name, ns, uid, annotations) ==
    [uid |-> uid, name |-> name, namespace |-> ns, labels |-> [app |-> ns], annotations |-> annotations,
     ports |-> <<[name |-> "http", protocol |-> "", port |-> 8080]>>, ip |-> "", token |-> TRUE,
     sidecar |-> <<>>, init |-> <<>>]

NoBackends == [default |-> "", backends |-> <<>>]
Mesh(name, enabled, type) ==
    [uid |-> 1, name |-> name, prometheus |-> <<0, "">>, logging |-> NoBackends, tracing |-> NoBackends,
     mtls |-> [enabled |-> enabled,
               backends |-> IF enabled = "" THEN <<>> ELSE <<[name |-> enabled, type |-> type, valid |-> TRUE]>>]]

Set(kind, key, obj) == [kind |-> kind, key |-> key, obj |-> obj, ip |-> ""]
Erase(kind, key) == Set(kind, key, NotFound)
Address(key, ip) == [kind |-> "Pod", key |-> key, obj |-> NotFound, ip |-> ip]

WithInit == [initContainer |-> TRUE, redirectPort |-> 15001]
WithCNI == [initContainer |-> FALSE, redirectPort |-> 15001]

Injected(pod, ip) ==
    [InjectKuma(pod, "default" :> DefaultMesh(Mesh("default", "", "")), WithInit).pod EXCEPT !.ip = ip]

Web == Svc("web", "a", "10.0.0.1", <<Port(80, "", "http"), Port(81, "UDP", "http")>>)
Db(ip) == Svc("db", "b", ip, <<Port(80, "TCP", "")>>)
Admin == Svc("admin", "b", "10.0.0.3", <<Port(81, "TCP", "http"), Port(82, "TCP", "other")>>)

\* While a gateway starts the Service of a Pod is deleted, made again without
\* an address and with a new one, and given a protocol that does not exist.
Moves ==
    [objects |-> [Pod |-> ("web.a" :> NotFound) @@ ("db.b" :> Injected(Pod("db", "b", 1, NoText), "1.1.1.2")),
                  Service |-> ("web.a" :> Web) @@ ("db.b" :> Db("10.0.0.2")),
                  Dataplane |-> ("web.a" :> NotFound) @@ ("db.b" :> NotFound),
                  Mesh |-> "default" :> DefaultMesh(Mesh("default", "", "")), Namespace |-> Nothing],
     changes |-> <<Set("Pod", "web.a", Pod("web", "a", 1, Gateway :> "enabled")), Address("web.a", "1.1.1.1"),
                   Erase("Service", "db.b"), Set("Service", "db.b", Db("")), Set("Service", "db.b", Db("10.0.0.9")),
                   Set("Service", "db.b", [Db("10.0.0.8") EXCEPT !.protocols = [p \in {80} |-> "htpp"]])>>,
     cfg |-> WithInit, template |-> Mesh("default", "", ""), maxFailures |-> 0]

\* A Pod of two Services is deleted while calls fail.
Shrinks ==
    [objects |-> [Pod |-> ("web.a" :> Injected(Pod("web", "a", 1, NoText), "1.1.1.1"))
                          @@ ("db.b" :> Injected(Pod("db", "b", 1, NoText), "1.1.1.2")),
                  Service |-> ("web.a" :> Web) @@ ("db.b" :> Db("10.0.0.2")) @@ ("admin.b" :> Admin),
                  Dataplane |-> ("web.a" :> NotFound) @@ ("db.b" :> NotFound),
                  Mesh |-> "default" :> DefaultMesh(Mesh("default", "", "")), Namespace |-> Nothing],
     changes |-> <<Erase("Pod", "db.b")>>,
     cfg |-> WithInit, template |-> Mesh("default", "", ""), maxFailures |-> 1]

Legacy == [mesh |-> "blue", owner |-> 0, networking |->
    [address |-> "9.9.9.9", redirectPort |-> 0, gateway |-> <<>>, outbound |-> <<>>,
     inbound |-> <<[interface |-> <<>>, address |-> "", servicePort |-> 0, port |-> 80,
                    tags |-> [service |-> "legacy:80"]]>>]]

\* The default mesh is created while a Pod waits for it; a mesh with a
\* Dataplane of a user comes and goes.
Meshes ==
    [objects |-> [Pod |-> ("web.a" :> NotFound), Service |-> ("web.a" :> Web),
                  Dataplane |-> ("web.a" :> NotFound) @@ ("legacy" :> NotFound),
                  Mesh |-> ("default" :> NotFound) @@ ("blue" :> NotFound),
                  Namespace |-> (System :> [uid |-> 1, injection |-> ""]) @@ ("a" :> [uid |-> 1, injection |-> "enabled"])],
     changes |-> <<Set("Pod", "web.a", Pod("web", "a", 1, NoText)), Address("web.a", "1.1.1.1"),
                   Set("Mesh", "blue", Mesh("blue", "ca", "vault")), Set("Mesh", "blue", Mesh("blue", "ca", "builtin")),
                   Set("Mesh", "blue", Mesh("blue", "other", "provided")),
                   Set("Dataplane", "legacy", [Legacy EXCEPT !.networking.inbound = <<>>]),
                   Set("Dataplane", "legacy", Legacy), Erase("Mesh", "blue"),
                   Set("Mesh", "blue", Mesh("blue", "ca", "builtin")), Erase("Mesh", "blue")>>,
     cfg |-> WithCNI, template |-> Mesh("default", "ca", "builtin"), maxFailures |-> 0]

MCSetups == {Moves, Shrinks, Meshes}
=============================================================================
