--------------------------- MODULE EnvoyBootstrap ---------------------------
(***************************************************************************)
(* The bootstrap server: from a request of kuma-dp, the Dataplane and its  *)
(* Mesh to the static configuration of Envoy.  A proxy id is a record      *)
(* [mesh, name, ns]; on Universal the namespace ns is empty.  objs is the  *)
(* content of the store:                                                   *)
(*   objs.mesh       Mesh name -> [mtls, tracing, traced]                  *)
(*   objs.dataplane  proxy id  -> the sequence of its services, sorted     *)
(***************************************************************************)
EXTENDS Naturals, Sequences, FiniteSets

ServiceUnknown == "unknown"
NoBackend == [name |-> ""]

BuildProxyId(mesh, name, ns) ==
    [ok |-> mesh # "" /\ name # "", id |-> [mesh |-> mesh, name |-> name, ns |-> ns]]

GetIdentifyingService(services) == IF services = << >> THEN ServiceUnknown ELSE services[1]

\* The collector of a Zipkin backend; its URL has been split by ParseRequestURI.
zipkinCluster(backend) ==
    [ok |-> backend.url.port # "", cluster |-> [name |-> backend.name, host |-> backend.url.host,
                                                port |-> backend.url.port]]

apiVersion(backend) ==
    LET inferred == IF backend.url.path = "/api/v1/spans" THEN "httpJsonV1" ELSE "httpJson"
    IN  IF backend.apiVersion = "" THEN inferred
        ELSE IF backend.apiVersion \in {"httpJsonV1", "httpProto"} THEN backend.apiVersion
        ELSE "httpJson"

zipkinConfig(backend) ==
    LET c == zipkinCluster(backend)
    IN  [ok |-> backend.url.valid /\ c.ok,
         tracing |-> [cluster |-> c.cluster, endpoint |-> backend.url.path, version |-> apiVersion(backend)]]

NoTracing == [cluster |-> NoBackend]
AddTracingConfig(config, backend) ==
    IF backend = NoBackend THEN [ok |-> TRUE, config |-> config]
    ELSE LET z == zipkinConfig(backend)
         IN  [ok |-> z.ok, config |-> [config EXCEPT !.tracing = z.tracing]]

GetTracingBackend(mesh, name) ==
    LET wanted == IF name = "" THEN mesh.tracing.default ELSE name
        found  == {b \in mesh.tracing.backends : b.name = wanted}
    IN  IF found = {} THEN NoBackend ELSE CHOOSE b \in found : TRUE

\* mesh.traced holds the backends named by the TrafficTraces matched to the Dataplane.
fetchTracingBackend(objs, id) ==
    IF id.mesh \notin DOMAIN objs.mesh THEN [err |-> "notfound", backend |-> NoBackend]
    ELSE LET mesh == objs.mesh[id.mesh]
         IN  [err |-> "none", backend |-> IF mesh.traced = << >> THEN NoBackend
                                          ELSE GetTracingBackend(mesh, mesh.traced[1])]

\* The socket of the access log service, named by kuma-dp and by the control plane.
AccessLogPipe(name, mesh) == <<"/tmp/kuma-access-logs", name, mesh>>

\* The template: without an admin port Envoy has no admin API, and its node metadata
\* holds the port and the token path only when they are set.
configForParameters(p) ==
    LET metadata == (IF p.tokenPath THEN {"dataplaneTokenPath"} ELSE {})
                    \cup (IF p.adminPort # 0 THEN {"dataplane.admin.port"} ELSE {})
    IN  [id |-> p.id, cluster |-> p.service, metadata |-> metadata, admin |-> p.adminPort,
         ads |-> [address |-> p.xds, tls |-> p.cert # ""], accessLog |-> p.pipe, tracing |-> NoTracing]

generateFor(params, certFile, id, services, req) ==
    configForParameters(
        [id |-> id, service |-> GetIdentifyingService(services),
         adminPort |-> IF req.adminPort # 0 THEN req.adminPort ELSE params.adminPort,
         xds |-> <<params.xdsHost, params.xdsPort>>, cert |-> certFile,
         pipe |-> AccessLogPipe(req.name, req.mesh), tokenPath |-> req.tokenPath])

BootstrapGenerate(cfg, objs, req) ==
    LET built == BuildProxyId(req.mesh, req.name, req.ns)
        id    == built.id
        t     == fetchTracingBackend(objs, id)
        added == AddTracingConfig(generateFor(cfg.params, cfg.xdsCert, id, objs.dataplane[id], req), t.backend)
    IN  IF ~built.ok THEN [err |-> "invalid"]
        ELSE IF id \notin DOMAIN objs.dataplane THEN [err |-> "notfound"]
        ELSE IF t.err # "none" THEN [err |-> t.err]
        ELSE IF ~added.ok THEN [err |-> "tracing"]
        ELSE [err |-> "none", config |-> added.config]

handleBootstrapRequest(cfg, objs, req) ==
    LET r == BootstrapGenerate(cfg, objs, req)
    IN  IF r.err = "none" THEN [status |-> 200, config |-> r.config]
        ELSE [status |-> IF r.err = "notfound" THEN 404 ELSE 500]
=============================================================================
