---------------------------- MODULE PodConverter ----------------------------
(***************************************************************************)
(* How a Pod of Kubernetes becomes a Dataplane, and what the sidecar        *)
(* injector puts into a Pod.                                               *)
(*                                                                         *)
(* Annotations and labels are functions on the names that are set.  The    *)
(* containers of a Pod are the sequence of their ports; a target port is a *)
(* name or, if that is "", a number.  `protocols` gives, by port, the      *)
(* `<port>.service.kuma.io/protocol` annotations of a Service.             *)
(***************************************************************************)
EXTENDS Validators, TLC

CONSTANTS
    ServiceTags,   \* for texts of service tags: the host, in segments, and the port
    Numerals       \* the number that a text stands for

NotFound == [uid |-> 0]

KumaMesh == "kuma.io/mesh"
SidecarInjection == "kuma.io/sidecar-injection"
SidecarInjected == "kuma.io/sidecar-injected"
TransparentProxying == "kuma.io/transparent-proxying"
TransparentProxyingPort == "kuma.io/transparent-proxying-port"
Gateway == "kuma.io/gateway"
PrometheusPort == "prometheus.metrics.kuma.io/port"
PrometheusPath == "prometheus.metrics.kuma.io/path"
CNCFNetwork == "k8s.v1.cni.cncf.io/networks"
prometheusKeys == {"prometheus.io/scrape", "prometheus.io/path", "prometheus.io/port"}

GetMesh(pod) ==
    LET mesh == Tag(pod.annotations, KumaMesh) IN IF mesh # "" THEN mesh ELSE "default"

HasKumaSidecar(pod) == Tag(pod.annotations, SidecarInjected) = "true"

HasTransparentProxyingEnabled(pod) == Tag(pod.annotations, TransparentProxying) = "enabled"

HasGatewayEnabled(pod) == Tag(pod.annotations, Gateway) = "enabled"

\* A text that is no number gives 0.
GetTransparentProxyingPort(pod) ==
    LET port == Tag(pod.annotations, TransparentProxyingPort)
    IN  IF port \in DOMAIN Numerals THEN Numerals[port] ELSE 0

Itoa(n) == CHOOSE text \in DOMAIN Numerals : Numerals[text] = n
-----------------------------------------------------------------------------
(* Inbounds                                                                 *)

\* An empty selector matches every Pod.
MatchServiceThatSelectsPod(pod, svc) == Matches(svc.selector, pod.labels)

FindServices(svcs, pod) == {svc \in svcs : MatchServiceThatSelectsPod(pod, svc)}

givenOrDefault(protocol) == IF protocol # "" THEN protocol ELSE "TCP"

\* The number of the target port, 0 if no container has a port of that name.
FindPort(pod, svcPort) ==
    LET named == SelectSeq(pod.ports, LAMBDA p : p.name = svcPort.target.name
                              /\ givenOrDefault(p.protocol) = givenOrDefault(svcPort.protocol))
    IN  CASE svcPort.target.name = "" -> svcPort.target.number
          [] named = << >>            -> 0
          [] OTHER                    -> named[1].port

ServiceTagFor(svc, svcPort) ==
    CHOOSE text \in DOMAIN ServiceTags :
        ServiceTags[text] = [host |-> <<svc.name, svc.namespace, "svc">>, port |-> svcPort.port]

ProtocolTagFor(svc, svcPort) ==
    IF svcPort.port \in DOMAIN svc.protocols /\ svc.protocols[svcPort.port] # ""
    THEN svc.protocols[svcPort.port] ELSE "tcp"

\* The labels of the Pod; a gateway has no protocol.
InboundTagsFor(pod, svc, svcPort, isGateway) ==
    (ServiceTag :> ServiceTagFor(svc, svcPort))
        @@ (IF isGateway THEN << >> ELSE ProtocolTag :> ProtocolTagFor(svc, svcPort))
        @@ pod.labels

\* Ports that are not TCP and ports the Pod does not have are left out.  A
\* Service without an address, and a Pod without any interface, are errors.
InboundInterfacesFor(pod, services, isGateway) ==
    LET ports(svc) == SelectSeq(svc.ports, LAMBDA p : givenOrDefault(p.protocol) = "TCP" /\ FindPort(pod, p) # 0)
        iface(svc, p) == [interface |-> <<>>, address |-> "", servicePort |-> 0,
                          port |-> FindPort(pod, p), tags |-> InboundTagsFor(pod, svc, p, isGateway)]
        ifaces(svc) == [i \in DOMAIN ports(svc) |-> iface(svc, ports(svc)[i])]
        all == FlattenSeq([i \in DOMAIN services |-> ifaces(services[i])])
    IN  [err |-> \/ all = << >>
                 \/ \E svc \in ToSet(services) : ports(svc) # << >> /\ ~IsIP(svc.clusterIP),
         ifaces |-> all]

\* The tags of the first interface.
GatewayFor(pod, services) ==
    LET in == InboundInterfacesFor(pod, services, TRUE)
    IN  [err |-> in.err, gateway |-> IF in.err THEN <<>> ELSE <<Head(in.ifaces).tags>>]
-----------------------------------------------------------------------------
(* Outbounds                                                                *)

\* The name and namespace in a host of three segments.
ParseServiceFQDN(host) ==
    IF Len(host) = 3 THEN [err |-> FALSE, name |-> host[1], namespace |-> host[2]] ELSE [err |-> TRUE]

\* The Services of `svcs` that a service tag stands for: one or none.
ServicesOf(tag, svcs) ==
    IF tag \notin DOMAIN ServiceTags THEN {}
    ELSE LET fqdn == ParseServiceFQDN(ServiceTags[tag].host)
         IN  {svc \in svcs : ~fqdn.err /\ svc.name = fqdn.name /\ svc.namespace = fqdn.namespace}

stringSetToSortedList(S) == SetToSortSeq(S, Less)

\* One for every service the dataplanes offer, in order; a service that does
\* not parse or does not exist is left out.
OutboundInterfacesFor(others, svcs) ==
    LET tags == {Tag(in.tags, ServiceTag) : in \in UNION {ToSet(o.networking.inbound) : o \in others}}
        list == stringSetToSortedList({t \in tags : ServicesOf(t, svcs) # {}})
        oface(t) == [interface |-> <<>>, port |-> ServiceTags[t].port, service |-> t,
                     address |-> (CHOOSE svc \in ServicesOf(t, svcs) : TRUE).clusterIP]
    IN  [i \in DOMAIN list |-> oface(list[i])]

DataplaneFor(pod, services, others, svcs) ==
    LET gateway == HasGatewayEnabled(pod)
        gw == GatewayFor(pod, services)
        in == InboundInterfacesFor(pod, services, FALSE)
    IN  [err |-> IF gateway THEN gw.err ELSE in.err,
         networking |->
            [address |-> pod.ip,
             redirectPort |-> IF HasTransparentProxyingEnabled(pod) THEN GetTransparentProxyingPort(pod) ELSE 0,
             gateway |-> IF gateway THEN gw.gateway ELSE <<>>,
             inbound |-> IF gateway THEN <<>> ELSE in.ifaces,
             outbound |-> OutboundInterfacesFor(others, svcs)]]

\* The Pod becomes the controller of its Dataplane.
PodToDataplane(pod, services, others, svcs) ==
    LET dataplane == DataplaneFor(pod, services, others, svcs)
    IN  [err |-> dataplane.err,
         obj |-> [mesh |-> GetMesh(pod), networking |-> dataplane.networking, owner |-> pod.uid]]
-----------------------------------------------------------------------------
(* The sidecar injector                                                     *)

\* A service account token that no container mounts is not mounted either.
FindServiceAccountToken(pod) == pod.token

NewVolumeMounts(pod) == IF FindServiceAccountToken(pod) THEN {"token"} ELSE {}

\* The name is resolved when the Pod starts.
NewSidecarContainer(pod) ==
    [mesh |-> GetMesh(pod), name |-> <<pod.name, pod.namespace>>, mounts |-> NewVolumeMounts(pod)]

\* Mutant: the traffic to a gateway is intercepted too.
NewInitContainerAlways(pod, cfg) == [redirectPort |-> cfg.redirectPort, inboundPorts |-> "*"]

\* The ports whose inbound traffic is redirected.
NewInitContainer(pod, cfg) ==
    [redirectPort |-> cfg.redirectPort, inboundPorts |-> IF HasGatewayEnabled(pod) THEN "" ELSE "*"]

\* Nothing if the Pod has any such annotation, and else the settings of the
\* mesh unless the Pod overrides them.
prometheusAnnotations(pod, mesh) ==
    LET override(key, default) == IF key \in DOMAIN pod.annotations THEN pod.annotations[key] ELSE default
    IN  IF prometheusKeys \cap DOMAIN pod.annotations # {} \/ mesh.prometheus = <<>> THEN << >>
        ELSE ("prometheus.io/scrape" :> "true")
             @@ ("prometheus.io/port" :> override(PrometheusPort, Itoa(mesh.prometheus[1])))
             @@ ("prometheus.io/path" :> override(PrometheusPath, mesh.prometheus[2]))

NewAnnotations(pod, mesh, cfg) ==
    (KumaMesh :> mesh.name) @@ (SidecarInjected :> "true") @@ (TransparentProxying :> "enabled")
        @@ (TransparentProxyingPort :> Itoa(cfg.redirectPort))
        @@ (IF cfg.initContainer THEN << >> ELSE CNCFNetwork :> "kuma-cni")
        @@ prometheusAnnotations(pod, mesh)

\* meshFor fails if the mesh of the Pod is not among `meshes`.
meshFor(pod, meshes) ==
    IF GetMesh(pod) \in DOMAIN meshes THEN meshes[GetMesh(pod)] ELSE NotFound

InjectKuma(pod, meshes, cfg) ==
    LET mesh == meshFor(pod, meshes) IN
    CASE Tag(pod.annotations, SidecarInjection) = "disabled" -> [err |-> FALSE, pod |-> pod]
      [] mesh = NotFound -> [err |-> TRUE, pod |-> pod]
      [] OTHER -> [err |-> FALSE, pod |->
            [pod EXCEPT !.sidecar = <<NewSidecarContainer(pod)>>,
                        !.annotations = NewAnnotations(pod, mesh, cfg) @@ @,
                        !.init = IF cfg.initContainer THEN <<NewInitContainer(pod, cfg)>> ELSE <<>>]]
=============================================================================
