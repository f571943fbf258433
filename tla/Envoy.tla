-------------------------------- MODULE Envoy --------------------------------
(***************************************************************************)
(* The builders of Envoy resources (pkg/xds/envoy).                        *)
(*                                                                         *)
(* An Envoy resource is a record with a type and a name, names being tuples *)
(* of the parts the code formats into a string.  Of their contents the     *)
(* model keeps what refers to something else or depends on a policy.  `p`  *)
(* is the proxy of BuildProxy in ProxyConfig.                              *)
(***************************************************************************)
EXTENDS Policies

CONSTANT MeshName

(***************************************************************************)
(* Names of Envoy resources.                                               *)
(***************************************************************************)
GetLocalClusterName(port) == <<"localhost", port>>
GetInboundListenerName(address, port) == <<"inbound", address, port>>
GetOutboundListenerName(address, port) == <<"outbound", address, port>>
GetOutboundRouteName(service) == <<"outbound", service>>
EnvoyAdminCluster == <<"kuma:envoy:admin">>
PrometheusListener == <<"kuma:metrics:prometheus">>
CatchAll == <<"catch_all">>
PassThrough == <<"pass_through">>

\* The service and the other tags in the order of their names.
GetDestinationClusterName(selector) ==
    LET keys == SetToSortSeq(DOMAIN selector \ {ServiceTag}, Less)
    IN  <<selector[ServiceTag]>> \o [i \in DOMAIN keys |-> <<keys[i], selector[keys[i]]>>]

(***************************************************************************)
(* Conversions of policies into Envoy's terms.                             *)
(***************************************************************************)
\* <<numerator, denominator>> of a percentage in millionths of a percent.
ConvertPercentage(p) ==
    LET value == IF p = Nil THEN 0 ELSE p
    IN  CASE value % 1000000 = 0 -> <<value \div 1000000, 100>>
          [] value % 100 = 0     -> <<value \div 100, 10000>>
          [] OTHER               -> <<value, 1000000>>

\* Nil is the conversion of a text without digits, or of none at all.
ConvertBandwidthToKbps(limit) ==
    IF limit = <<>> \/ limit[1] = Nil THEN Nil
    ELSE limit[1] * (CASE limit[2] = "kbps" -> 1 [] limit[2] = "mbps" -> 1000 [] OTHER -> 1000000)

ConvertDelay(delay) == IF delay = <<>> THEN <<>> ELSE <<ConvertPercentage(delay[1]), delay[2]>>

\* A missing status is zero.
ConvertAbort(abort) ==
    IF abort = <<>> THEN <<>> ELSE <<ConvertPercentage(abort[1]), IF abort[2] = Nil THEN 0 ELSE abort[2]>>

ConvertResponseRateLimit(bandwidth) ==
    IF bandwidth = <<>> THEN <<>>
    ELSE <<ConvertPercentage(bandwidth[1]), ConvertBandwidthToKbps(bandwidth[2])>>

TagsHeaderName == "x-kuma-tags"

\* The tags in the order of their names, each with all its values.
Serialize(tags) ==
    LET keys == SetToSortSeq(DOMAIN tags, Less) IN [i \in DOMAIN keys |-> <<keys[i], tags[keys[i]]>>]

\* The pattern that the tags header of a request is matched with: the tags of
\* the selector in the order of their names.
MatchingRegex(selector) ==
    LET keys == SetToSortSeq(DOMAIN selector, Less) IN [i \in DOMAIN keys |-> <<keys[i], selector[keys[i]]>>]

createHeaders(selectors) == [i \in DOMAIN selectors |-> MatchingRegex(selectors[i])]

\* Anyone, or who presents the certificate of the service.
createPolicy(permission) ==
    [i \in DOMAIN permission.sources |->
        LET service == Tag(permission.sources[i], ServiceTag)
        IN  IF service = MatchAllTag THEN <<"any">> ELSE <<MeshName, service>>]

\* The token file is named only if the dataplane has one.
sdsSecretConfig(name, p) == [secret |-> name, token |-> p.metadata[2]]

\* One secret for the CA of the mesh, one for the identity of the dataplane.
CreateCommonTlsContext(p) == <<sdsSecretConfig("mesh_ca", p), sdsSecretConfig("identity_cert", p)>>

MTLSEnabled(m) == m.mtls.enabled # ""

CreateDownstreamTlsContext(p) == IF MTLSEnabled(p.mesh) THEN CreateCommonTlsContext(p) ELSE <<>>

CreateUpstreamTlsContext(p) == IF MTLSEnabled(p.mesh) THEN CreateCommonTlsContext(p) ELSE <<>>

(***************************************************************************)
(* Filter chains.  A configurer adds a filter to the chain or changes the   *)
(* one it is meant for; an error of one fails the whole listener.          *)
(***************************************************************************)
NewFilterChain == [filters |-> <<>>, tls |-> <<>>, err |-> FALSE]

Filter(name) == [name |-> name, prefix |-> "/", removed |-> {}, clusters |-> <<>>, route |-> <<>>, faults |-> <<>>,
                 tracing |-> <<>>, logs |-> <<>>, principals |-> <<>>]

Filters(chain) == ToSet(chain.filters)

\* `update` is a function on the filters of the chain.
UpdateFilterConfig(chain, name, update) ==
    [chain EXCEPT !.filters =
        [i \in DOMAIN @ |-> IF @[i].name = name THEN update[@[i]] ELSE @[i]]]

HttpConnectionManager(chain) == [chain EXCEPT !.filters = Append(@, Filter("http"))]

FaultInjection(chain, policy) ==
    IF policy = <<>> THEN chain
    ELSE LET rate == ConvertResponseRateLimit(policy.conf.bandwidth)
             fault == [delay |-> ConvertDelay(policy.conf.delay), abort |-> ConvertAbort(policy.conf.abort),
                       rate |-> rate, headers |-> createHeaders(policy.sources)]
         IN  IF rate # <<>> /\ rate[2] = Nil THEN [chain EXCEPT !.err = TRUE]
             ELSE UpdateFilterConfig(chain, "http", [f \in Filters(chain) |-> [f EXCEPT !.faults = <<fault>> \o @]])

Tracing(chain, backend) ==
    IF backend = <<>> THEN chain
    ELSE UpdateFilterConfig(chain, "http",
            [f \in Filters(chain) |-> [f EXCEPT !.tracing = <<backend[1].name, backend[1].sampling>>]])

\* The route is part of the filter: it removes the tags header and forwards to
\* the application.
HttpInboundRoute(chain, cluster) ==
    UpdateFilterConfig(chain, "http",
        [f \in Filters(chain) |-> [f EXCEPT !.clusters = <<cluster>>, !.removed = {TagsHeaderName}]])

HttpOutboundRoute(chain, routeName) ==
    UpdateFilterConfig(chain, "http", [f \in Filters(chain) |-> [f EXCEPT !.route = routeName]])

TcpProxy(chain, clusters) ==
    [chain EXCEPT !.filters = Append(@, [Filter("tcp") EXCEPT !.clusters = clusters])]

\* A backend that is neither a file nor a TCP one cannot be converted.
convertLoggingBackend(p, destination, backend) ==
    [ok |-> backend.type \in {"file", "tcp"}, sink |-> <<backend.type, backend.target>>, format |-> backend.format,
     mesh |-> MeshName, source |-> GetIdentifyingService(p.n), destination |-> destination, ip |-> GetIP(p.n)]

AddAccessLog(chain, filter, log) ==
    IF log.ok THEN UpdateFilterConfig(chain, filter, [f \in Filters(chain) |-> [f EXCEPT !.logs = Append(@, log)]])
    ELSE [chain EXCEPT !.err = TRUE]

HttpAccessLog(chain, p, destination, backend) ==
    IF backend = <<>> THEN chain
    ELSE AddAccessLog(chain, "http", convertLoggingBackend(p, destination, backend[1]))

NetworkAccessLog(chain, p, destination, backend) ==
    IF backend = <<>> THEN chain
    ELSE AddAccessLog(chain, "tcp", convertLoggingBackend(p, destination, backend[1]))

ServerSideMTLS(chain, p) == [chain EXCEPT !.tls = CreateDownstreamTlsContext(p)]

createRbacFilter(permission) ==
    [Filter("rbac") EXCEPT !.principals = IF permission = <<>> THEN <<>> ELSE createPolicy(permission)]

\* Mutant: the filter is added after the others.
NetworkRBACLast(chain, p, permission) ==
    IF ~MTLSEnabled(p.mesh) THEN chain
    ELSE [chain EXCEPT !.filters = Append(@, createRbacFilter(permission))]

\* Goes first.  Without a permission nobody is admitted.
NetworkRBAC(chain, p, permission) ==
    IF ~MTLSEnabled(p.mesh) THEN chain
    ELSE [chain EXCEPT !.filters = <<createRbacFilter(permission)>> \o @]

PrometheusEndpoint(chain, path) ==
    [chain EXCEPT !.filters =
        Append(@, [Filter("http") EXCEPT !.prefix = path, !.clusters = <<<<EnvoyAdminCluster, 0>>>>])]

(***************************************************************************)
(* Listeners and routes, built by configurers as well.                     *)
(***************************************************************************)
NewListener == [type |-> "listener", name |-> <<>>, direction |-> "", address |-> "", port |-> 0,
                chain |-> NewFilterChain, bind |-> TRUE, originalDst |-> FALSE]

InboundListener(l, name, address, port) ==
    [l EXCEPT !.name = name, !.direction = "inbound", !.address = address, !.port = port]

OutboundListener(l, name, address, port) ==
    [l EXCEPT !.name = name, !.direction = "outbound", !.address = address, !.port = port]

FilterChain(l, chain) == [l EXCEPT !.chain = chain]

\* Traffic reaches the listener through the one at the redirect port.
TransparentProxying(l, redirectPort) == [l EXCEPT !.bind = redirectPort = 0]

OriginalDstForwarder(l) == [l EXCEPT !.originalDst = TRUE]

NewRouteConfiguration == [type |-> "route", name |-> <<>>, clusters |-> <<>>, header |-> <<>>, removed |-> {}]

CommonRouteConfiguration(r, name) == [r EXCEPT !.name = name]

\* Adds the tags of the dataplane to requests, for the header that faults are
\* matched with.
TagsHeader(r, tags) == IF DOMAIN tags = {} THEN r ELSE [r EXCEPT !.header = Serialize(tags)]

ResetTagsHeader(r) == [r EXCEPT !.removed = @ \cup {TagsHeaderName}]

\* The only virtual host has one route, to one cluster or to several by weight.
DefaultRoute(r, clusters) == [r EXCEPT !.clusters = clusters]

(***************************************************************************)
(* Clusters and endpoints.                                                 *)
(***************************************************************************)
CreateLocalCluster(name, port) ==
    [type |-> "cluster", name |-> name, discovery |-> "static", target |-> <<Loopback, port>>,
     tls |-> <<>>, active |-> <<>>, passive |-> <<>>]

CreatePassThroughCluster(name) ==
    [CreateLocalCluster(name, 0) EXCEPT !.discovery = "original_dst", !.target = <<>>]

CreateEdsCluster(name, p) ==
    [CreateLocalCluster(name, 0) EXCEPT !.discovery = "eds", !.target = <<>>, !.tls = CreateUpstreamTlsContext(p)]

ClusterWithHealthChecks(cluster, healthCheck) ==
    IF healthCheck = <<>> THEN cluster
    ELSE [cluster EXCEPT
            !.active = IF HasActiveChecks(healthCheck.conf) THEN healthCheck.conf.active ELSE @,
            !.passive = IF HasPassiveChecks(healthCheck.conf) THEN healthCheck.conf.passive ELSE @]

CreateClusterLoadAssignment(name, endpoints) ==
    [type |-> "endpoints", name |-> name, endpoints |-> endpoints]
=============================================================================
