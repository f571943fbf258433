--------------------------- MODULE MCProxyConfig ---------------------------
(***************************************************************************)
(* Instances of ProxyConfig: the dataplane `web` with an outbound to the   *)
(* service `backend`, two more dataplanes, and policies of every kind that *)
(* compete for the same connections.  Some inputs are ones the validators   *)
(* must refuse.                                                            *)
(***************************************************************************)
EXTENDS ProxyConfig

MCAlphabet == <<"*", "HTTP", "a", "b", "backend", "gw", "http", "pass_through", "protocol", "service",
                "tcp", "v1", "v2", "version", "web", "x">>

MCBadStrings == {"b d"}
MCProfiles == {"default-proxy"}

Svc(s) == [service |-> s]
SvcP(s, p) == [service |-> s, protocol |-> p]
SvcV(s, v) == [service |-> s, version |-> v]
SvcVP(s, v, p) == [service |-> s, version |-> v, protocol |-> p]
NoTags == [t \in {} |-> ""]

In(port, servicePort, tags) ==
    [interface |-> <<>>, port |-> port, servicePort |-> servicePort, address |-> "", tags |-> tags]
LegacyIn(iface, tags) == [interface |-> iface, port |-> 0, servicePort |-> 0, address |-> "", tags |-> tags]
Out(iface, port, service) == [interface |-> iface, address |-> "", port |-> port, service |-> service]

Net(address, inbound, outbound) ==
    [address |-> address, inbound |-> inbound, outbound |-> outbound, gateway |-> <<>>,
     redirectPort |-> 0, prometheus |-> <<>>]

\* Of `web`: with transparent proxying, as a gateway with two outbounds, in the
\* legacy format, and two that are not valid.
Webs == {
    [Net("1.1.1.1", <<In(80, 8080, SvcP("web", "http"))>>, <<Out(<<>>, 1000, "backend")>>)
        EXCEPT !.redirectPort = 15001],
    [Net("1.1.1.1", <<>>, <<Out(<<>>, 1000, "backend"), Out(<<>>, 1001, "x")>>)
        EXCEPT !.gateway = <<Svc("gw")>>, !.prometheus = <<1001, "">>],
    Net("", <<LegacyIn(<<"1.1.1.1", 80, 5670>>, SvcVP("web", "v1", "HTTP")),
              LegacyIn(<<"1.1.1.1", 81, 8081>>, Svc("x"))>>, <<Out(<<"", 1000>>, 0, "backend")>>),
    Net("1.1.1.1", <<In(80, 0, NoTags)>>, <<>>),
    Net("1.1.1.1", <<LegacyIn(<<"1.1.1.1", 80>>, Svc("web"))>>, <<>>)}

MCNetworkings == [
    web |-> Webs,
    a |-> {Net("2.2.2.2", <<In(90, 0, SvcVP("backend", "v1", "http"))>>, <<>>)},
    b |-> {Net("3.3.3.3", <<In(90, 0, SvcVP("backend", "v2", "http")), In(91, 0, SvcV("backend", "v1"))>>, <<>>)}]

LogBackend(name, type) == [name |-> name, type |-> type, format |-> "", target |-> "t:1"]
TraceBackend == [name |-> "z", sampling |-> Nil, type |-> "zipkin", url |-> "u", apiVersion |-> ""]

MCMeshes == {
    [EmptyMesh EXCEPT !.mtls = [enabled |-> "ca", backends |-> <<[name |-> "ca"]>>], !.prometheus = <<0, "">>,
        !.logging = [default |-> "file", backends |-> <<LogBackend("file", "file")>>],
        !.tracing = [default |-> "", backends |-> <<TraceBackend>>]],
    [EmptyMesh EXCEPT !.logging = [default |-> "", backends |-> <<LogBackend("file", "none")>>]],
    [EmptyMesh EXCEPT !.mtls = [enabled |-> "ca", backends |-> <<>>]]}

Pol(name, sources, destinations, conf) ==
    [name |-> name, sources |-> sources, destinations |-> destinations, conf |-> conf]
Dest(weight, destination) == [weight |-> weight, destination |-> destination]

MCRoutes == {
    Pol("a", <<Svc("*")>>, <<Svc("*")>>, <<Dest(1, SvcV("backend", "v1")), Dest(2, SvcV("backend", "*")), Dest(0, Svc("x"))>>),
    Pol("b", <<SvcV("web", "*"), Svc("*")>>, <<Svc("*"), Svc("backend")>>, <<Dest(1, Svc("backend"))>>),
    Pol("x", <<Svc("*")>>, <<Svc("backend")>>, <<Dest(0, Svc("backend"))>>),
    Pol("x", <<Svc("*")>>, <<Svc("backend")>>, <<Dest(1, [version |-> "v1"])>>)}

MCPermissions == {
    Pol("a", <<Svc("*")>>, <<Svc("*")>>, ""),
    Pol("b", <<Svc("a"), Svc("b")>>, <<Svc("web"), SvcV("x", "v1")>>, ""),
    Pol("x", <<Svc("b")>>, <<SvcV("web", "*")>>, ""),
    Pol("x", <<Svc("a")>>, <<NoTags>>, "")}

MCLogs == {
    Pol("a", <<Svc("*")>>, <<Svc("*")>>, ""),
    Pol("b", <<Svc("web"), Svc("gw")>>, <<Svc("backend")>>, "file"),
    Pol("x", <<Svc("*")>>, <<Svc("pass_through")>>, "gone")}

MCTraces == {
    Pol("a", <<Svc("*")>>, <<>>, "z"),
    Pol("b", <<Svc("web"), Svc("x")>>, <<>>, ""),
    Pol("x", <<NoTags>>, <<>>, "z")}

MCChecks == {
    Pol("a", <<Svc("*")>>, <<Svc("*")>>, [active |-> <<1, 1, 1, 1>>, passive |-> <<>>]),
    Pol("b", <<Svc("*")>>, <<Svc("backend")>>, [active |-> <<Nil, Nil, 0, 0>>, passive |-> <<1, 1>>]),
    Pol("x", <<Svc("*")>>, <<Svc("*")>>, [active |-> <<Nil, Nil, 0, 0>>, passive |-> <<>>])}

NoFault == [delay |-> <<>>, abort |-> <<>>, bandwidth |-> <<>>]
Fault(name, destination, conf) == Pol(name, <<SvcP("a", "http")>>, <<destination>>, conf)

MCFaults == {
    Fault("a", SvcP("*", "http"), [NoFault EXCEPT !.abort = <<50 * 1000000, 500>>, !.bandwidth = <<Hundred, <<5, "mbps">>>>]),
    Fault("b", SvcP("web", "http"), [NoFault EXCEPT !.delay = <<10 * 1000000, 5>>, !.bandwidth = <<Nil, <<>>>>]),
    Fault("x", SvcP("web", "http"), [NoFault EXCEPT !.bandwidth = <<Hundred, <<Nil, "kbps">>>>]),
    Fault("x", Svc("web"), [NoFault EXCEPT !.abort = <<Hundred, 500>>])}

RawCluster == [CreateLocalCluster(<<"backend">>, 1) EXCEPT !.discovery = "raw"]
Raw(resource) == [name |-> "r", version |-> "1", resource |-> resource]

MCTemplates == {
    Pol("a", <<>>, <<>>, [imports |-> <<"default-proxy">>, resources |-> <<Raw(<<RawCluster>>)>>]),
    Pol("b", <<Svc("web")>>, <<>>, [imports |-> <<>>, resources |-> <<Raw(<<RawCluster>>)>>]),
    Pol("x", <<Svc("*")>>, <<>>, [imports |-> <<"gone">>, resources |-> <<>>])}

MCPolicies == [
    TrafficPermission |-> MCPermissions, TrafficRoute |-> MCRoutes, TrafficLog |-> MCLogs,
    TrafficTrace |-> MCTraces, HealthCheck |-> MCChecks, FaultInjection |-> MCFaults,
    ProxyTemplate |-> MCTemplates]

MCMetadata == {<<0, "">>, <<9901, "token">>}
=============================================================================
