---------------------------- MODULE MCProxyStart ----------------------------
(***************************************************************************)
(* Small environments for ProxyStart: two control planes at most, one      *)
(* kuma-dp.                                                                *)
(***************************************************************************)
EXTENDS ProxyStart, TLC

Proxy == [mesh |-> "default", name |-> "web", ns |-> ""]
Other == [mesh |-> "other", name |-> "web", ns |-> ""]
Pod   == [mesh |-> "default", name |-> "web-1", ns |-> "demo"]

FileCert == [id |-> <<"file", 0>>, hosts |-> {"kuma-sds"}]
DefaultConfig ==
    [env |-> "universal", hostname |-> "kuma-cp", tokenServer |-> DefaultDataplaneTokenServerConfig,
     admin |-> [token |-> DefaultDataplaneTokenApiConfig, port |-> 5679, public |-> FALSE, publicPort |-> 0],
     ports |-> [api |-> 5681, bootstrap |-> 5682, mads |-> 5676, xds |-> 5678],
     params |-> [xdsHost |-> "", xdsPort |-> 0, adminPort |-> 0],
     catalog |-> [bootstrap |-> NoUrl, mads |-> NoUrl, sds |-> NoUrl],
     sdsCert |-> NoCert, xdsCert |-> ""]
KubeConfig == [DefaultConfig EXCEPT !.env = "kubernetes", !.sdsCert = FileCert,
                                    !.catalog.sds = Url("grpcs", "kuma-sds", 5677)]
NoTokens == [DefaultConfig EXCEPT !.tokenServer.enabled = FALSE]

Zipkin == [name |-> "zipkin", apiVersion |-> "", url |-> [valid |-> TRUE, host |-> "zipkin", port |-> "9411",
                                                          path |-> "/api/v1/spans"]]
Traced == [NewMesh EXCEPT !.traced = <<"">>, !.tracing = [default |-> "zipkin", backends |-> {Zipkin}]]

Store(meshes, dataplanes) == [mesh |-> meshes, dataplane |-> dataplanes, key |-> NoKey, epoch |-> 0]
Dataplane(id, services) == [op |-> "dataplane", id |-> id, services |-> services]
SetMtls(backend) == [op |-> "mtls", mesh |-> "default", backend |-> backend]
Create(mesh) == [op |-> "create", mesh |-> mesh]
Delete(mesh) == [op |-> "delete", mesh |-> mesh]

Base == [cfg |-> DefaultConfig, planes |-> {"a"}, proxy |-> Proxy, services |-> {"web"}, token |-> NoToken,
         template |-> NewMesh,
         tokens |-> <<Proxy>>, store |-> Store(<< >>, << >>), changes |-> << >>, crashes |-> 0, stops |-> 0,
         exits |-> 0, eager |-> FALSE, ports |-> <<9901, 9903>>]

\* Two control planes start together, and one of them crashes at any time.
TwoPlanes == [Base EXCEPT !.planes = {"a", "b"}, !.crashes = 1,
                          !.template = [NewMesh EXCEPT !.mtls = "ca-1"],
                          !.changes = <<Dataplane(Proxy, <<"web">>)>>]

\* The default Mesh, and with it the signing key, is deleted and created again.
KeyDeleted == [Base EXCEPT !.planes = {"a", "b"}, !.crashes = 1,
                           !.store = [Store("default" :> NewMesh, << >>) EXCEPT !.key = <<"a", 0>>],
                           !.changes = <<Delete("default"), Create("default"), Dataplane(Proxy, <<"web">>)>>]

\* The first token is one for the Dataplane of the same name in another Mesh.
WrongToken == [Base EXCEPT !.tokens = <<Other, Proxy>>, !.stops = 1,
                           !.store = Store(("default" :> NewMesh) @@ ("other" :> NewMesh), << >>),
                           !.changes = <<Dataplane(Other, <<"db">>), Dataplane(Proxy, <<"web">>), SetMtls("ca-1")>>]

\* Tokens are switched off, mTLS is switched on, off and on, and the service is renamed.
Toggled == [Base EXCEPT !.cfg = NoTokens, !.tokens = << >>, !.crashes = 1, !.services = {"web", "api"},
                        !.store = Store("default" :> Traced, Proxy :> <<"web">>),
                        !.changes = <<SetMtls("ca-1"), SetMtls(""), Dataplane(Proxy, <<"api", "web">>), SetMtls("ca-2")>>]

\* On Kubernetes kuma-dp starts before its Dataplane exists.
Kube == [Base EXCEPT !.cfg = KubeConfig, !.proxy = Pod, !.tokens = << >>, !.eager = TRUE,
                     !.token = [user |-> <<"system", "serviceaccount", "demo", "default">>],
                     !.store = Store("default" :> NewMesh, << >>), !.crashes = 1, !.exits = 1,
                     !.changes = <<SetMtls("ca-1"), Dataplane(Pod, <<"web">>)>>]

MCSetups == {TwoPlanes, KeyDeleted, WrongToken, Toggled, Kube}
=============================================================================
