----------------------------- MODULE ProxyConfig -----------------------------
(***************************************************************************)
(* From the stored resources to the Envoy configuration of a dataplane:    *)
(* matching and topology (pkg/core/{permissions,logs,faultinjections},     *)
(* pkg/xds/topology) and generation (pkg/xds/generator).                   *)
(*                                                                         *)
(* Users write resources; only what the validators accept is stored.       *)
(* Reconcile generates the configuration of the dataplane Proxy from       *)
(* whatever is stored at that time.                                        *)
(***************************************************************************)
EXTENDS Envoy

CONSTANTS
    Proxy,              \* the name of the dataplane generated for
    Meshes,             \* the meshes users write
    Networkings,        \* the dataplanes users write, by name
    PolicyInputs,       \* the policies users write, by kind
    Metadata,           \* what Envoy sends of itself: <<admin port, token path>>
    MaxPolicies,        \* bound: policies stored at a time
    MaxClock            \* bound: creation times

Kinds == {"TrafficPermission", "TrafficRoute", "TrafficLog", "TrafficTrace",
          "HealthCheck", "FaultInjection", "ProxyTemplate"}

VARIABLES
    mesh,         \* the stored Mesh
    dataplanes,   \* the stored Dataplanes: a function from some names
    policies,     \* the stored policies of each kind, with their creation times
    clock,        \* the time of the last write
    snapshot      \* what the last Reconcile generated, NotGenerated after a write

vars == <<mesh, dataplanes, policies, clock, snapshot>>

(***************************************************************************)
(* Topology.                                                               *)
(***************************************************************************)
\* Outbounds no TrafficRoute applies to get the implicit default route.
BuildRouteMap(n, routes) ==
    LET selected == SelectOutboundConnectionPolicies(n, routes)
    IN  [s \in {n.outbound[i].service : i \in DOMAIN n.outbound} |->
            IF s \in DOMAIN selected THEN selected[s].conf
            ELSE <<[weight |-> 100, destination |-> MatchService(s)]>>]

\* The selectors under which each service is reached.
BuildDestinationMap(routes) ==
    LET reached == UNION {{conf[i].destination : i \in DOMAIN conf} : conf \in {routes[s] : s \in DOMAIN routes}}
        named == {d \in reached : ServiceTag \in DOMAIN d}
    IN  [s \in {d[ServiceTag] : d \in named} |-> {d \in named : d[ServiceTag] = s}]

InboundEndpoints(n) ==
    [i \in DOMAIN n.inbound |->
        LET iface == GetInboundInterfaceByIdx(n, i)
        IN  [valid |-> iface # BadInterface, tags |-> n.inbound[i].tags,
             target |-> IF iface = BadInterface THEN <<>> ELSE <<iface[1], iface[2]>>]]

\* The endpoints of each destination service, in the order of the list.
BuildEndpointMap(destinations, stored) ==
    LET names == SetToSortSeq(DOMAIN stored, Less)
        all == FlattenSeq([i \in DOMAIN names |-> InboundEndpoints(stored[names[i]])])
        Serves(e, s) == /\ e.valid /\ Tag(e.tags, ServiceTag) = s
                        /\ \E selector \in destinations[s] : Matches(selector, e.tags)
    IN  [s \in DOMAIN destinations |-> SelectSeq(all, LAMBDA e : Serves(e, s))]

\* Checks are looked up by the destination of a route, not by the outbound.
BuildHealthCheckMap(n, destinations, healthChecks) ==
    IF DOMAIN destinations = {} \/ healthChecks = {} THEN <<>>
    ELSE SelectConnectionPolicies(n, DOMAIN destinations, healthChecks)

Named(backends, name) == {b \in ToSet(backends) : b.name = name}

\* <<>> or the backend, in a sequence of one; "" stands for the default one.
BackendOf(section, name) ==
    SetToSeq(Named(section.backends, IF name = "" THEN section.default ELSE name))

GetTracingBackend(m, trace) == IF trace = None THEN <<>> ELSE BackendOf(m.tracing, trace.conf)

\* A TrafficLog whose backend the mesh does not have is ignored.
MatchLogs(n, m, logs) ==
    LET selected == SelectOutboundConnectionPolicies(n, logs)
        backend == [s \in DOMAIN selected |-> BackendOf(m.logging, selected[s].conf)]
    IN  [s \in {t \in DOMAIN backend : backend[t] # <<>>} |-> backend[s]]

\* The fields the dataplane sets override those of the mesh.
GetPrometheusEndpoint(m, n) ==
    IF m.prometheus = <<>> THEN <<>>
    ELSE IF n.prometheus = <<>> THEN m.prometheus
    ELSE <<IF n.prometheus[1] # 0 THEN n.prometheus[1] ELSE m.prometheus[1],
           IF n.prometheus[2] # "" THEN n.prometheus[2] ELSE m.prometheus[2]>>

Lookup(f, key) == IF key \in DOMAIN f THEN f[key] ELSE <<>>

\* All that OnTick collects for the generators.
BuildProxy(m, stored, byKind, metadata) ==
    LET n == stored[Proxy]
        routes == BuildRouteMap(n, byKind["TrafficRoute"])
        destinations == BuildDestinationMap(routes)
    IN  [n |-> n, mesh |-> m, metadata |-> metadata, routes |-> routes,
         targets |-> BuildEndpointMap(destinations, stored),
         healthChecks |-> BuildHealthCheckMap(n, destinations, byKind["HealthCheck"]),
         tracing |-> GetTracingBackend(m, SelectDataplanePolicy(n, byKind["TrafficTrace"])),
         permissions |-> SelectInboundConnectionPolicies(n, byKind["TrafficPermission"]),
         logs |-> MatchLogs(n, m, byKind["TrafficLog"]),
         faults |-> SelectInboundConnectionPolicies(n, byKind["FaultInjection"])]

\* Mutant: duplicates are recognised by their name alone.
AddResourcesByName(resources, added) ==
    LET Add(rs, r) == IF \E q \in ToSet(rs) : q.name = r.name THEN rs ELSE Append(rs, r)
    IN  FoldLeft(Add, resources, added)

\* ResourceSet: in the order of addition, the first of a type and name stays.
AddResources(resources, added) ==
    LET Add(rs, r) == IF \E q \in ToSet(rs) : q.type = r.type /\ q.name = r.name THEN rs ELSE Append(rs, r)
    IN  FoldLeft(Add, resources, added)

(***************************************************************************)
(* Generators.  Each returns [err, resources].                             *)
(***************************************************************************)
Generated(resources) ==
    [err |-> \E r \in ToSet(resources) : r.type = "listener" /\ r.chain.err, resources |-> resources]

Failed == [err |-> TRUE, resources |-> <<>>]

PrometheusEndpointGenerator(p) ==
    LET endpoint == GetPrometheusEndpoint(p.mesh, p.n)
        adminPort == p.metadata[1]
    IN  IF endpoint = <<>> \/ adminPort = 0 \/ UsesInterface(p.n, Unspecified, endpoint[1])
        THEN Generated(<<>>)
        ELSE Generated(<<CreateLocalCluster(EnvoyAdminCluster, adminPort),
                         TransparentProxying(
                            FilterChain(InboundListener(NewListener, PrometheusListener, Unspecified, endpoint[1]),
                                        PrometheusEndpoint(NewFilterChain, endpoint[2])), p.n.redirectPort)>>)

TransparentProxyGenerator(p) ==
    IF p.n.redirectPort = 0 THEN Generated(<<>>)
    ELSE LET chain == NetworkAccessLog(TcpProxy(NewFilterChain, <<<<PassThrough, 0>>>>), p, "external",
                                       Lookup(p.logs, PassThroughService))
             listener == OutboundListener(NewListener, CatchAll, Unspecified, p.n.redirectPort)
         IN  Generated(<<OriginalDstForwarder(FilterChain(listener, chain)), CreatePassThroughCluster(PassThrough)>>)

InboundChain(p, i, iface) ==
    LET local == <<GetLocalClusterName(iface[3]), 0>>
        http == HttpInboundRoute(
                    Tracing(FaultInjection(HttpConnectionManager(NewFilterChain), Lookup(p.faults, iface)), p.tracing),
                    local)
        chain == IF ParseProtocol(Tag(p.n.inbound[i].tags, ProtocolTag)) = "http"
                 THEN http ELSE TcpProxy(NewFilterChain, <<local>>)
    IN  NetworkRBAC(ServerSideMTLS(chain, p), p, Lookup(p.permissions, iface))

InboundProxyGenerator(p) ==
    LET in == GetInboundInterfaces(p.n)
        Add(rs, i) ==
            LET iface == in.ifaces[i]
            IN  AddResources(rs, <<
                    CreateLocalCluster(GetLocalClusterName(iface[3]), iface[3]),
                    TransparentProxying(
                        FilterChain(InboundListener(NewListener, GetInboundListenerName(iface[1], iface[2]), iface[1], iface[2]),
                                    InboundChain(p, i, iface)), p.n.redirectPort)>>)
    IN  IF in.err THEN Failed
        ELSE Generated(FoldLeft(Add, <<>>, [i \in DOMAIN in.ifaces |-> i]))

\* Envoy does not support a weight of zero.
determineClusters(route) == SelectSeq(route, LAMBDA d : d.weight # 0)

\* Mutant: the endpoints of the service are not filtered by the other tags.
generateEdsUnfiltered(p, d) ==
    LET service == d.destination[ServiceTag]
        name == GetDestinationClusterName(d.destination)
    IN  <<ClusterWithHealthChecks(CreateEdsCluster(name, p), Lookup(p.healthChecks, service)),
          CreateClusterLoadAssignment(name, Lookup(p.targets, service))>>

FilterEndpoints(endpoints, selector) == SelectSeq(endpoints, LAMBDA e : Matches(selector, e.tags))

generateEds(p, d) ==
    LET service == d.destination[ServiceTag]
        name == GetDestinationClusterName(d.destination)
        endpoints == FilterEndpoints(Lookup(p.targets, service), d.destination)
    IN  <<ClusterWithHealthChecks(CreateEdsCluster(name, p), Lookup(p.healthChecks, service)),
          CreateClusterLoadAssignment(name, endpoints)>>

getCommonProtocol(one, another) ==
    CASE one = another                 -> one
      [] "<unknown>" \in {one, another} -> "<unknown>"
      [] OTHER                         -> "tcp"

\* Mutant: the first endpoint speaks for all.
InferFirstProtocol(endpoints) ==
    IF endpoints = <<>> THEN "<unknown>" ELSE ParseProtocol(Tag(endpoints[1].tags, ProtocolTag))

InferServiceProtocol(endpoints) ==
    LET protocols == [i \in DOMAIN endpoints |-> ParseProtocol(Tag(endpoints[i].tags, ProtocolTag))]
    IN  IF endpoints = <<>> THEN "<unknown>" ELSE FoldLeft(getCommonProtocol, protocols[1], Tail(protocols))

generateRds(http, service, clusters, p) ==
    IF ~http THEN <<>>
    ELSE <<DefaultRoute(TagsHeader(CommonRouteConfiguration(NewRouteConfiguration, GetOutboundRouteName(service)),
                                   Tags(p.n)), clusters)>>

OutboundResources(p, service, oface) ==
    LET destinations == determineClusters(p.routes[service])
        clusters == [j \in DOMAIN destinations |->
                        <<GetDestinationClusterName(destinations[j].destination), destinations[j].weight>>]
        eds == FlattenSeq([j \in DOMAIN destinations |-> generateEds(p, destinations[j])])
        endpoints == FlattenSeq([j \in DOMAIN destinations |-> eds[2 * j].endpoints])
        http == InferServiceProtocol(endpoints) = "http"
        log == Lookup(p.logs, service)
        chain == IF http
                 THEN HttpOutboundRoute(
                        HttpAccessLog(Tracing(HttpConnectionManager(NewFilterChain), p.tracing), p, service, log),
                        GetOutboundRouteName(service))
                 ELSE NetworkAccessLog(TcpProxy(NewFilterChain, clusters), p, service, log)
        listener == OutboundListener(NewListener, GetOutboundListenerName(oface[1], oface[2]), oface[1], oface[2])
    IN  eds \o <<TransparentProxying(FilterChain(listener, chain), p.n.redirectPort)>>
            \o generateRds(http, service, clusters, p)

\* A route to a destination without a service cannot be generated.
OutboundProxyGenerator(p) ==
    LET out == GetOutboundInterfaces(p.n)
        bad == \E s \in DOMAIN p.routes : \E i \in DOMAIN p.routes[s] : ServiceTag \notin DOMAIN p.routes[s][i].destination
        Add(rs, i) == AddResources(rs, OutboundResources(p, p.n.outbound[i].service, out.ifaces[i]))
    IN  IF out.err \/ bad THEN Failed ELSE Generated(FoldLeft(Add, <<>>, [i \in DOMAIN out.ifaces |-> i]))

\* An error of one generator fails them all.
Composite(parts) ==
    IF \E i \in DOMAIN parts : parts[i].err THEN Failed
    ELSE [err |-> FALSE, resources |-> FlattenSeq([i \in DOMAIN parts |-> parts[i].resources])]

NewDefaultProxyProfile(p) ==
    Composite(<<PrometheusEndpointGenerator(p), TransparentProxyGenerator(p),
                InboundProxyGenerator(p), OutboundProxyGenerator(p)>>)

ProxyTemplateProfileSource(p, profile) == IF profile \in Profiles THEN NewDefaultProxyProfile(p) ELSE Failed

DefaultProxyTemplate == [imports |-> <<"default-proxy">>, resources |-> <<>>]

\* `listed` is whether the templates could be read: if not there is none.
GetTemplate(p, templates, listed) ==
    LET best == SelectDataplanePolicy(p.n, templates)
    IN  CASE ~listed     -> [imports |-> <<>>, resources |-> <<>>]
          [] best = None -> DefaultProxyTemplate
          [] OTHER       -> best.conf

TemplateProxyGenerator(p, template) ==
    Composite([i \in DOMAIN template.imports |-> ProxyTemplateProfileSource(p, template.imports[i])]
              \o <<[err |-> FALSE,
                    resources |-> FlattenSeq([i \in DOMAIN template.resources |-> template.resources[i].resource])]>>)

\* Resources are indexed by type and name; the last one with a name stays.
GenerateSnapshot(p, template) ==
    LET gen == TemplateProxyGenerator(p, template)
        Hidden(i) == \E j \in DOMAIN gen.resources :
                        /\ j > i
                        /\ gen.resources[j].type = gen.resources[i].type
                        /\ gen.resources[j].name = gen.resources[i].name
    IN  [err |-> gen.err,
         resources |-> {gen.resources[i] : i \in {j \in DOMAIN gen.resources : ~Hidden(j)}}]

(***************************************************************************)
(* The state machine.                                                      *)
(***************************************************************************)
NotGenerated == [err |-> FALSE, resources |-> {}]

EmptyMesh == [mtls |-> [enabled |-> "", backends |-> <<>>], logging |-> [default |-> "", backends |-> <<>>],
              tracing |-> [default |-> "", backends |-> <<>>], prometheus |-> <<>>]

Init ==
    /\ mesh = EmptyMesh
    /\ dataplanes \in [{Proxy} -> {n \in Networkings[Proxy] : ValidateDataplane(n)}]
    /\ policies = [kind \in Kinds |-> {}]
    /\ clock = 1
    /\ snapshot = NotGenerated

PutMesh(m) ==
    /\ ValidateMesh(DefaultMesh(m)) /\ mesh # DefaultMesh(m)
    /\ mesh' = DefaultMesh(m)
    /\ snapshot' = NotGenerated
    /\ UNCHANGED <<dataplanes, policies, clock>>

PutDataplane(name, n) ==
    /\ ValidateDataplane(n)
    /\ dataplanes' = [d \in DOMAIN dataplanes \cup {name} |-> IF d = name THEN n ELSE dataplanes[d]]
    /\ dataplanes' # dataplanes
    /\ snapshot' = NotGenerated
    /\ UNCHANGED <<mesh, policies, clock>>

DeleteDataplane(name) ==
    /\ name \in DOMAIN dataplanes \ {Proxy}
    /\ dataplanes' = Restrict(dataplanes, DOMAIN dataplanes \ {name})
    /\ snapshot' = NotGenerated
    /\ UNCHANGED <<mesh, policies, clock>>

Stored(kind) == {p.name : p \in policies[kind]}

\* Creation times are those of the store: two writes may share one.
CreatePolicy(kind, input) ==
    /\ ValidatePolicy(kind, input)
    /\ input.name \notin Stored(kind)
    /\ FoldSet(LAMBDA k, sum : sum + Cardinality(policies[k]), 0, Kinds) < MaxPolicies
    /\ \E time \in clock..MaxClock :
          /\ time <= clock + 1
          /\ clock' = time
          /\ policies' = [policies EXCEPT ![kind] = @ \cup {
                [name |-> input.name, created |-> time, sources |-> input.sources,
                 destinations |-> input.destinations, conf |-> input.conf]}]
    /\ snapshot' = NotGenerated
    /\ UNCHANGED <<mesh, dataplanes>>

DeletePolicy(kind, p) ==
    /\ policies' = [policies EXCEPT ![kind] = @ \ {p}]
    /\ snapshot' = NotGenerated
    /\ UNCHANGED <<mesh, dataplanes, clock>>

\* A snapshot that cannot be generated leaves the earlier one in place; err
\* records that.  Generation is a function of what is stored, so one tick after
\* a write stands for all until the next.
Reconcile(metadata, listed) ==
    LET p == BuildProxy(mesh, dataplanes, policies, metadata)
        crash == Panic \in Range(p.permissions) \cup Range(p.faults)
    IN  /\ snapshot = NotGenerated
        /\ snapshot' = IF crash THEN [err |-> TRUE, resources |-> {}]
                       ELSE GenerateSnapshot(p, GetTemplate(p, policies["ProxyTemplate"], listed))
        /\ UNCHANGED <<mesh, dataplanes, policies, clock>>

Next ==
    \/ \E m \in Meshes : PutMesh(m)
    \/ \E name \in DOMAIN Networkings : \E n \in Networkings[name] : PutDataplane(name, n)
    \/ \E name \in DOMAIN Networkings : DeleteDataplane(name)
    \/ \E kind \in Kinds : \E input \in PolicyInputs[kind] : CreatePolicy(kind, input)
    \/ \E kind \in Kinds : \E p \in policies[kind] : DeletePolicy(kind, p)
    \/ \E metadata \in Metadata, listed \in BOOLEAN : Reconcile(metadata, listed)

Spec == Init /\ [][Next]_vars

(***************************************************************************)
(* Properties.                                                             *)
(***************************************************************************)
\* The state has the shape the store and the generator give it.
TypeOK ==
    /\ ValidateMesh(mesh)
    /\ DOMAIN dataplanes \subseteq DOMAIN Networkings /\ Proxy \in DOMAIN dataplanes
    /\ \A kind \in Kinds : \A p, q \in policies[kind] : p.name = q.name => p = q
    /\ clock \in 1..MaxClock
    /\ snapshot.err => snapshot.resources = {}

OfType(type) == {r \in snapshot.resources : r.type = type}

\* Whatever is stored, generation (TemplateProxyGenerator.Generate and the
\* matchers before it) fails for two reasons only: a fault injection whose
\* response bandwidth has no number, and a logging backend that is neither a
\* file nor a TCP one.  Every other error return and the nil policy that
\* SelectInboundConnectionPolicies might dereference is kept out by the
\* validators.
GenerationFailsOnlyIf ==
    snapshot.err =>
        \/ \E p \in policies["FaultInjection"] :
              /\ p.conf.bandwidth # <<>>
              /\ p.conf.bandwidth[2] = <<>> \/ p.conf.bandwidth[2][1] = Nil
        \/ /\ policies["TrafficLog"] # {}
           /\ \E i \in DOMAIN mesh.logging.backends : mesh.logging.backends[i].type \notin {"file", "tcp"}

\* What a listener or a route refers to is in the same snapshot: the clusters
\* they forward to, the route configuration an HTTP listener asks for, and the
\* load assignment of every EDS cluster.  An Envoy that is sent a reference to
\* nothing waits for it.
ReferencesResolve ==
    LET clusters == {r.name : r \in OfType("cluster")}
        forwarded == UNION ({ToSet(f.clusters) : f \in UNION {ToSet(l.chain.filters) : l \in OfType("listener")}}
                            \cup {ToSet(r.clusters) : r \in OfType("route")})
    IN  /\ \A c \in forwarded : c[1] \in clusters
        /\ \A l \in OfType("listener") : \A f \in ToSet(l.chain.filters) :
              f.route # <<>> => \E r \in OfType("route") : r.name = f.route
        /\ \A c \in OfType("cluster") :
              c.discovery = "eds" => \E e \in OfType("endpoints") : e.name = c.name

\* The load assignment of a cluster lists the inbounds of the stored dataplanes
\* that have the tags of the cluster, all of them and no other.  The endpoints
\* are collected per service under the selectors of every route and filtered
\* again per cluster.
EndpointsServe ==
    \A e \in OfType("endpoints") :
        LET Serves(tags) == /\ Tag(tags, ServiceTag) = e.name[1]
                            /\ \A i \in 2..Len(e.name) : /\ Tag(tags, e.name[i][1]) # ""
                                                         /\ e.name[i][2] \in {Tag(tags, e.name[i][1]), MatchAllTag}
        IN  {e.endpoints[i].target : i \in DOMAIN e.endpoints} =
            UNION {{<<GetInboundInterfaceByIdx(n, i)[1], GetInboundInterfaceByIdx(n, i)[2]>> :
                        i \in {j \in DOMAIN n.inbound : Serves(n.inbound[j].tags)}} : n \in Range(dataplanes)}

\* An outbound listener speaks HTTP only if every endpoint behind it is
\* declared to, in whatever order the dataplanes are listed.  A single
\* endpoint of another protocol would be sent what it does not understand.
HttpOnlyToHttp ==
    \A r \in OfType("route") :
        LET behind == UNION {ToSet(e.endpoints) : e \in {x \in OfType("endpoints") : \E c \in ToSet(r.clusters) : c[1] = x.name}}
        IN  behind # {} /\ \A e \in behind : Tag(e.tags, ProtocolTag) \in {"http", "HTTP"}

\* With mTLS every listener of an inbound asks for a certificate and runs the
\* RBAC filter before any other; a source service it admits is one that the
\* most specific permission of an inbound with that interface names.  Without
\* mTLS there is neither, on either side of a connection.
InboundsGuarded ==
    /\ \A l \in OfType("listener") :
          l.direction = "inbound" /\ l.name # PrometheusListener =>
            LET filters == l.chain.filters
                mtls == MTLSEnabled(mesh)
            IN  /\ mtls = (l.chain.tls # <<>>)
                /\ \A i \in DOMAIN filters : (filters[i].name = "rbac") = (mtls /\ i = 1)
                /\ mtls /\ filters[1].principals # <<>> =>
                      \E p \in policies["TrafficPermission"] :
                          /\ \A pr \in ToSet(filters[1].principals) :
                                \E s \in ToSet(p.sources) : s[ServiceTag] = (IF pr[1] = "any" THEN "*" ELSE pr[2])
                          /\ \E i \in DOMAIN dataplanes[Proxy].inbound :
                                /\ GetInboundInterfaceByIdx(dataplanes[Proxy], i)[2] = l.port
                                /\ \E d \in ToSet(p.destinations) : Matches(d, dataplanes[Proxy].inbound[i].tags)
    /\ \A c \in OfType("cluster") : c.discovery = "eds" => (c.tls # <<>>) = MTLSEnabled(mesh)

\* The Prometheus endpoint is left out rather than laid over an interface of
\* the dataplane: no inbound or outbound listener, nor the application behind
\* an inbound, has its port.
PrometheusShadowsNothing ==
    \A l \in OfType("listener") :
        l.name = PrometheusListener =>
            /\ \A k \in OfType("listener") : k.name \in {l.name, CatchAll} \/ k.port # l.port
            /\ \A i \in DOMAIN dataplanes[Proxy].inbound :
                  GetInboundInterfaceByIdx(dataplanes[Proxy], i)[3] # l.port

\* The tags of the selectors through which p applies, by `Pairs`.
Beats(p, q, Score(_)) ==
    LET a == Score(p)
        b == Score(q)
    IN  \/ a[1] > b[1]
        \/ a[1] = b[1] /\ a[2] > b[2]
        \/ a = b /\ p.created > q.created
        \/ a = b /\ p.created = q.created /\ Less(p.name, q.name)

Exact(selector) == Cardinality({t \in DOMAIN selector : selector[t] # "*"})

Top(scores) == CHOOSE x \in scores : \A y \in scores : x[1] > y[1] \/ (x[1] = y[1] /\ x[2] >= y[2])

\* The documented choice, stated without the loops: of the policies that apply
\* the one with the most tags wins, then with the most exact ones, then the
\* one created last, then the first by name.
MostSpecific ==
    LET n == dataplanes[Proxy]
        In(p, tags) == {d \in ToSet(p.destinations) : Matches(d, tags)}
        Out(p, s) == {t \in ToSet(p.sources) : MatchTags(n, t)} \X In(p, MatchService(s))
        Pair(x) == <<Cardinality(DOMAIN x[1]) + Cardinality(DOMAIN x[2]), Exact(x[1]) + Exact(x[2])>>
        One(x) == <<Cardinality(DOMAIN x), Exact(x)>>
        Chosen(c, applying, Score(_)) ==
            IF applying = {} THEN c = None
            ELSE c \in applying /\ \A q \in applying \ {c} : Beats(c, q, Score)
    IN  /\ \A kind \in {"TrafficRoute", "TrafficLog", "HealthCheck"} : \A s \in OutboundServices(n) :
              Chosen(SelectFor(n, s, policies[kind]), {p \in policies[kind] : Out(p, s) # {}},
                     LAMBDA p : Top({Pair(x) : x \in Out(p, s)}))
        /\ \A kind \in {"TrafficPermission", "FaultInjection"} : \A i \in DOMAIN n.inbound :
              LET tags == n.inbound[i].tags
              IN  Chosen(SelectForInbound(tags, policies[kind]), {p \in policies[kind] : In(p, tags) # {}},
                         LAMBDA p : Top({One(x) : x \in In(p, tags)}))
        /\ \A kind \in {"TrafficTrace", "ProxyTemplate"} :
              LET On(p) == {t \in ToSet(p.sources) : MatchTags(n, t)}
                  Score(p) == IF On(p) = {} THEN <<0, 0>> ELSE Top({One(x) : x \in On(p)})
              IN  Chosen(SelectDataplanePolicy(n, policies[kind]),
                         {p \in policies[kind] : p.sources = <<>> \/ On(p) # {}}, Score)
=============================================================================
