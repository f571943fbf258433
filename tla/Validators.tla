----------------------------- MODULE Validators -----------------------------
(***************************************************************************)
(* What Validate() accepts for each kind of resource.  A validator collects *)
(* every violation it finds; the REST API and the admission webhooks only  *)
(* ask whether there is any, so that is what the operators return.         *)
(*                                                                         *)
(* An optional message is <<>> when it is missing and a tuple of its fields *)
(* otherwise; a missing number is Nil.  Percentages are in millionths of a *)
(* percent.                                                                *)
(***************************************************************************)
EXTENDS Dataplanes

CONSTANTS
    BadStrings,   \* strings outside of the character set of tags
    Profiles      \* the profiles a ProxyTemplate may import

Nil == -1

Hundred == 100 * 1000000

(***************************************************************************)
(* Selectors.                                                              *)
(***************************************************************************)
NoOpts == [atLeastOneSelector |-> FALSE, atLeastOneTag |-> FALSE, service |-> FALSE,
           onlyService |-> FALSE, protocols |-> {}]

AnyTags == [NoOpts EXCEPT !.atLeastOneSelector = TRUE, !.atLeastOneTag = TRUE]

WithService == [AnyTags EXCEPT !.service = TRUE]

OnlyServiceTagAllowed ==
    [NoOpts EXCEPT !.atLeastOneSelector = TRUE, !.service = TRUE, !.onlyService = TRUE]

\* An empty set of protocols stands for the absence of a ProtocolValidator.
ProtocolValidator(selector, protocols) ==
    protocols # {} => Tag(selector, ProtocolTag) \in protocols

ValidateSelector(selector, opts) ==
    /\ opts.atLeastOneTag => DOMAIN selector # {}
    /\ opts.onlyService => DOMAIN selector = {ServiceTag}
    /\ opts.service => ServiceTag \in DOMAIN selector
    /\ ProtocolValidator(selector, opts.protocols)
    /\ \A t \in DOMAIN selector :
          /\ t # "" /\ t \notin BadStrings
          /\ selector[t] # "" /\ selector[t] \notin BadStrings

ValidateSelectors(selectors, opts) ==
    /\ opts.atLeastOneSelector => selectors # <<>>
    /\ \A s \in ToSet(selectors) : ValidateSelector(s, opts)

(***************************************************************************)
(* Dataplane.                                                              *)
(***************************************************************************)
\* Unlike a selector, a tag may not be the wildcard, which is outside of the
\* character set of its value.
validateTags(tags) ==
    \A t \in DOMAIN tags : t \notin BadStrings /\ tags[t] \notin {"", MatchAllTag} \cup BadStrings

validateInbound(inbound, address) ==
    /\ IF inbound.interface # <<>>
       THEN /\ inbound.port = 0 /\ inbound.servicePort = 0 /\ inbound.address = "" /\ address = ""
            /\ ParseInboundInterface(inbound.interface) # BadInterface
       ELSE /\ IsPort(inbound.port)
            /\ inbound.servicePort <= 65535
            /\ inbound.address # "" => IsIP(inbound.address)
    /\ ServiceTag \in DOMAIN inbound.tags
    /\ ProtocolTag \in DOMAIN inbound.tags => ParseProtocol(inbound.tags[ProtocolTag]) # "<unknown>"
    /\ validateTags(inbound.tags)

validateOutbound(outbound) ==
    /\ IF outbound.interface # <<>>
       THEN /\ outbound.port = 0 /\ outbound.address = ""
            /\ ParseOutboundInterface(outbound.interface) # BadInterface
       ELSE /\ IsPort(outbound.port)
            /\ outbound.address # "" => IsIP(outbound.address)
    /\ outbound.service # ""

validateGateway(tags) == ServiceTag \in DOMAIN tags /\ validateTags(tags)

hasLegacyInbound(n) ==
    \E in \in ToSet(n.inbound) :
        in.interface # <<>> /\ in.port = 0 /\ in.servicePort = 0 /\ in.address = ""

\* networking.address is required unless some inbound is in the legacy format.
ValidateDataplane(n) ==
    /\ (n.inbound = <<>>) # (n.gateway = <<>>)
    /\ n.address # "" \/ ~hasLegacyInbound(n) => IsIP(n.address)
    /\ \A tags \in ToSet(n.gateway) : validateGateway(tags)
    /\ \A in \in ToSet(n.inbound) : validateInbound(in, n.address)
    /\ \A out \in ToSet(n.outbound) : validateOutbound(out)

(***************************************************************************)
(* Mesh.                                                                   *)
(***************************************************************************)
\* Backends have names of their own, and the default is one of them.
validateBackends(backends, default) ==
    /\ \A i, j \in DOMAIN backends : backends[i].name = backends[j].name => i = j
    /\ default # "" => \E b \in ToSet(backends) : b.name = default

validateLoggingTcp(b) == b.target \notin {"", "no-port"}

\* A backend that is neither a file nor a TCP one has nothing to check.
validateLoggingBackend(b) ==
    /\ b.name # ""
    /\ b.format # "malformed"
    /\ b.type = "file" => b.target # ""
    /\ b.type = "tcp" => validateLoggingTcp(b)

validateZipkin(b) ==
    /\ b.url \notin {"", "not-a-url", "no-port"}
    /\ b.apiVersion \in {"", "httpJsonV1", "httpJson", "httpProto"}

validateTracingBackend(b) ==
    /\ b.name # ""
    /\ b.sampling = Nil \/ b.sampling \in 0..Hundred
    /\ b.type = "zipkin" => validateZipkin(b)

validateMtls(mtls) == validateBackends(mtls.backends, mtls.enabled)

validateLogging(logging) ==
    /\ \A b \in ToSet(logging.backends) : validateLoggingBackend(b)
    /\ validateBackends(logging.backends, logging.default)

validateTracing(tracing) ==
    /\ \A b \in ToSet(tracing.backends) : validateTracingBackend(b)
    /\ validateBackends(tracing.backends, tracing.default)

ValidateMesh(m) == validateMtls(m.mtls) /\ validateLogging(m.logging) /\ validateTracing(m.tracing)

\* Defaults are set before a mesh is stored.  `prometheus` is <<>> or
\* <<port, path>>.
DefaultMesh(m) ==
    [m EXCEPT !.prometheus =
        IF @ = <<>> THEN @
        ELSE <<IF @[1] = 0 THEN 5670 ELSE @[1], IF @[2] = "" THEN "/metrics" ELSE @[2]>>]

(***************************************************************************)
(* Policies.                                                               *)
(***************************************************************************)
\* Any duration but zero passes, a negative one too.
ValidateDuration(d) == d \notin {0, Nil}

ValidateThreshold(t) == t # 0

\* A message all of whose fields are unset is as good as none.
HasActiveChecks(conf) == conf.active \notin {<<>>, <<Nil, Nil, 0, 0>>}
HasPassiveChecks(conf) == conf.passive \notin {<<>>, <<0, Nil>>}

validateActiveChecks(active) ==
    /\ ValidateDuration(active[1]) /\ ValidateDuration(active[2])
    /\ ValidateThreshold(active[3]) /\ ValidateThreshold(active[4])

ValidateHealthCheck(p) ==
    /\ ValidateSelectors(p.sources, WithService)
    /\ ValidateSelectors(p.destinations, OnlyServiceTagAllowed)
    /\ HasActiveChecks(p.conf) \/ HasPassiveChecks(p.conf)
    /\ HasActiveChecks(p.conf) => validateActiveChecks(p.conf.active)
    /\ HasPassiveChecks(p.conf) => ValidateThreshold(p.conf.passive[1]) /\ ValidateDuration(p.conf.passive[2])

\* <<percentage, value>>, <<percentage, status>> and <<percentage, limit>>; a
\* limit is <<>> or <<digits, unit>>.
HasFault(fault) == fault \notin {<<>>, <<Nil, Nil>>}
HasFaultResponseBandwidth(bandwidth) == bandwidth \notin {<<>>, <<Nil, <<>>>>}

validatePercentage(p) == p \in 0..Hundred

\* The pattern asks for a unit and for no digit.
validateLimit(limit) == limit # <<>> /\ limit[2] \in {"kbps", "mbps", "gbps"}

\* external: the codes net/http has a text for.
validateHttpStatus(status) == status \in {200, 404, 500, 503}

validateFaults(conf) ==
    /\ HasFault(conf.delay) \/ HasFault(conf.abort) \/ HasFaultResponseBandwidth(conf.bandwidth)
    /\ HasFault(conf.delay) => validatePercentage(conf.delay[1]) /\ conf.delay[2] # Nil
    /\ HasFault(conf.abort) => validatePercentage(conf.abort[1]) /\ validateHttpStatus(conf.abort[2])
    /\ HasFaultResponseBandwidth(conf.bandwidth) =>
          validatePercentage(conf.bandwidth[1]) /\ validateLimit(conf.bandwidth[2])

ValidateFaultInjection(p) ==
    /\ ValidateSelectors(p.sources, [AnyTags EXCEPT !.protocols = {"http"}])
    /\ ValidateSelectors(p.destinations, [AnyTags EXCEPT !.protocols = {"http"}])
    /\ validateFaults(p.conf)

\* Mutant: a destination of the traffic needs no service.
ValidateTrafficRouteLax(p) ==
    /\ ValidateSelectors(p.sources, WithService)
    /\ ValidateSelectors(p.destinations, OnlyServiceTagAllowed)
    /\ p.conf # <<>>

ValidateTrafficRoute(p) ==
    /\ ValidateSelectors(p.sources, WithService)
    /\ ValidateSelectors(p.destinations, OnlyServiceTagAllowed)
    /\ p.conf # <<>>
    /\ \A i \in DOMAIN p.conf :
          ValidateSelector(p.conf[i].destination, [NoOpts EXCEPT !.atLeastOneTag = TRUE, !.service = TRUE])

ValidateTrafficLog(p) ==
    ValidateSelectors(p.sources, WithService) /\ ValidateSelectors(p.destinations, OnlyServiceTagAllowed)

ValidateTrafficPermission(p) ==
    ValidateSelectors(p.sources, OnlyServiceTagAllowed) /\ ValidateSelectors(p.destinations, WithService)

\* A TrafficTrace and a ProxyTemplate have one list of selectors, `sources`.
ValidateTrafficTrace(p) == ValidateSelectors(p.sources, AnyTags)

validateImports(imports) == \A i \in ToSet(imports) : i # "" /\ i \in Profiles

\* `resource` is a sequence of one, the Envoy resource the text stands for, and
\* <<>> when the text is empty or does not parse.
validateResources(resources) ==
    \A r \in ToSet(resources) : r.name # "" /\ r.version # "" /\ r.resource # <<>>

ValidateProxyTemplate(p) ==
    /\ ValidateSelectors(p.sources, [WithService EXCEPT !.atLeastOneSelector = FALSE])
    /\ validateImports(p.conf.imports)
    /\ validateResources(p.conf.resources)

ValidatePolicy(kind, p) ==
    CASE kind = "TrafficRoute"      -> ValidateTrafficRoute(p)
      [] kind = "TrafficLog"        -> ValidateTrafficLog(p)
      [] kind = "TrafficPermission" -> ValidateTrafficPermission(p)
      [] kind = "TrafficTrace"      -> ValidateTrafficTrace(p)
      [] kind = "HealthCheck"       -> ValidateHealthCheck(p)
      [] kind = "FaultInjection"    -> ValidateFaultInjection(p)
      [] kind = "ProxyTemplate"     -> ValidateProxyTemplate(p)
=============================================================================
