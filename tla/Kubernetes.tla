----------------------------- MODULE Kubernetes -----------------------------
(***************************************************************************)
(* Kuma on Kubernetes: the controllers of Pods, Meshes and Namespaces, the *)
(* admission webhooks of the control plane and the sidecar injector.       *)
(*                                                                         *)
(* The API server has the objects.  A watch of each kind sends the changes, *)
(* in order, to an informer, which puts them into the cache the control    *)
(* plane reads from and tells the controllers, whose handlers map an event *)
(* to requests.  A queue holds a request once.  Every controller has one   *)
(* worker, and a request that fails is put back.  A write is refused if    *)
(* the object is not the one that was read.                                *)
(***************************************************************************)
EXTENDS PodConverter

CONSTANTS
    Setups,       \* objects at the start, changes users make, configuration
    MaxLag,       \* bound on the changes of a kind that are on the way
    CaManagers    \* the types of certificate authorities with a plugin

VARIABLES
    setup,        \* the chosen one
    cluster,      \* by kind and key: the objects of the API server
    watch,        \* by kind: the changes that are on the way
    cache,        \* by kind and key: the copies of the control plane
    injector,     \* the copies of the Meshes of kuma-injector
    queue,        \* the requests of the controllers, <<kind, key>>
    podWorker,    \* what the worker has read, or Idle
    meshWorker,   \* the mesh to delete, or ""
    authorities,  \* the meshes with a builtin certificate authority
    networks,     \* the namespaces with a NetworkAttachmentDefinition
    applied,      \* number of changes the users have made
    failures      \* number of calls that have failed

vars == <<setup, cluster, watch, cache, injector, queue, podWorker, meshWorker, authorities, networks,
          applied, failures>>

Kinds == {"Pod", "Service", "Dataplane", "Mesh", "Namespace"}
System == "kuma-system"
DefaultName == "default"
Idle == [key |-> ""]

Keys(kind) == DOMAIN setup.objects[kind]
Present(objs) == {objs[k] : k \in {key \in DOMAIN objs : objs[key] # NotFound}}
PresentMeshes(objs) == [m \in {k \in DOMAIN objs : objs[k] # NotFound} |-> objs[m]]

\* The workers start when the caches are in sync, with a request for every
\* object they are about.
Init ==
    /\ setup \in Setups
    /\ cluster = setup.objects
    /\ watch = [kind \in Kinds |-> << >>]
    /\ cache = cluster
    /\ injector = cluster["Mesh"]
    /\ queue = UNION {{<<kind, k>> : k \in {key \in Keys(kind) : cluster[kind][key] # NotFound}} :
                        kind \in {"Pod", "Mesh", "Namespace"}}
    /\ podWorker = Idle
    /\ meshWorker = ""
    /\ authorities = {}
    /\ networks = {}
    /\ applied = 0
    /\ failures = 0

\* The API server has new objects, and the watches send what has changed.
Store(objs) ==
    /\ cluster' = objs
    /\ watch' = [kind \in Kinds |->
          LET changed == SetToSeq({k \in Keys(kind) : objs[kind][k] # cluster[kind][k]})
          IN  watch[kind] \o [i \in DOMAIN changed |-> [key |-> changed[i], obj |-> objs[kind][changed[i]]]]]
    /\ \A kind \in Kinds : Len(watch'[kind]) <= MaxLag

Unstored == UNCHANGED <<cluster, watch>>
-----------------------------------------------------------------------------
(* Admission                                                                *)

\* ServiceValidator: the protocols in annotations of ports the Service has.
ValidateService(svc) ==
    \A p \in ToSet(svc.ports) :
        p.port \in DOMAIN svc.protocols => ParseProtocol(svc.protocols[p.port]) # "<unknown>"

validateMTLSBackends(mesh) ==
    \A b \in ToSet(mesh.mtls.backends) : b.type \in CaManagers /\ b.valid

ValidateCreate(mesh) == validateMTLSBackends(mesh)

\* The certificate authority may not change while mTLS is enabled.
validateMTLSBackendChange(old, mesh) ==
    old.mtls.enabled = "" \/ mesh.mtls.enabled = "" \/ old.mtls.enabled = mesh.mtls.enabled

ValidateUpdate(old, mesh) == validateMTLSBackendChange(old, mesh) /\ validateMTLSBackends(mesh)

MeshValidator(old, mesh) ==
    IF old = NotFound THEN ValidateCreate(mesh) ELSE ValidateUpdate(old, mesh)

\* The resources of every kind validate themselves.
validatingHandler(kind, obj) ==
    CASE kind = "Mesh"      -> ValidateMesh(obj)
      [] kind = "Dataplane" -> ValidateDataplane(obj.networking)

\* Every validator that supports the kind has to agree.
CompositeValidator(kind, old, obj) ==
    validatingHandler(kind, obj) /\ (kind = "Mesh" => MeshValidator(old, obj))

\* The defaults of a Mesh are set before it is validated.
defaultingHandler(kind, obj) == IF kind = "Mesh" THEN DefaultMesh(obj) ELSE obj

\* kuma-injector, as a webhook.
podMutatingHandler(pod) ==
    LET injected == InjectKuma(pod, PresentMeshes(injector), setup.cfg)
    IN  [ok |-> ~injected.err, obj |-> injected.pod]

\* What the API server stores, if the webhooks do not refuse it.
Admit(kind, old, obj) ==
    CASE obj = NotFound   -> [ok |-> TRUE, obj |-> obj]
      [] kind = "Service" -> [ok |-> ValidateService(obj), obj |-> obj]
      [] kind = "Pod" /\ old = NotFound -> podMutatingHandler(obj)
      [] kind \in {"Mesh", "Dataplane"} ->
            LET defaulted == defaultingHandler(kind, obj)
            IN  [ok |-> CompositeValidator(kind, old, defaulted), obj |-> defaulted]
      [] OTHER            -> [ok |-> TRUE, obj |-> obj]

\* The next change.  The kubelet gives a Pod its address.  A Pod that is
\* refused is tried again; any other change is lost.
Apply ==
    /\ applied < Len(setup.changes)
    /\ LET change == setup.changes[applied + 1]
           old == cluster[change.kind][change.key]
           obj == IF change.ip = "" THEN change.obj ELSE [old EXCEPT !.ip = change.ip]
           answer == Admit(change.kind, old, obj)
       IN  /\ change.kind = "Pod" => answer.ok
           /\ IF answer.ok THEN Store([cluster EXCEPT ![change.kind][change.key] = answer.obj])
              ELSE Unstored
    /\ applied' = applied + 1
    /\ UNCHANGED <<setup, cache, injector, queue, podWorker, meshWorker, authorities, networks, failures>>

\* The garbage collector removes what belonged to a Pod that is gone.
CollectGarbage(k) ==
    LET dataplane == cluster["Dataplane"][k] IN
    /\ dataplane # NotFound
    /\ dataplane.owner # 0
    /\ cluster["Pod"][k].uid # dataplane.owner
    /\ Store([cluster EXCEPT !["Dataplane"][k] = NotFound])
    /\ UNCHANGED <<setup, cache, injector, queue, podWorker, meshWorker, authorities, networks,
                   applied, failures>>
-----------------------------------------------------------------------------
(* Events                                                                   *)

\* All Pods in the namespace of the Service.
ServiceToPodsMapper(svc, objs) ==
    {<<"Pod", k>> : k \in {key \in DOMAIN objs["Pod"] :
        objs["Pod"][key] # NotFound /\ objs["Pod"][key].namespace = svc.namespace}}

\* Mutant: only the Pod of a Dataplane that is gone is reconciled.
DataplaneToItself(k, cause, objs) ==
    IF objs["Dataplane"][k] = NotFound /\ cause.owner # 0 THEN {<<"Pod", k>>} ELSE {}

\* If the Dataplane is gone its Pod, and else the Pods of the other Dataplanes
\* in the same mesh.  A Pod and its Dataplane have the same name.
DataplaneToSameMeshDataplanesMapper(k, cause, objs) ==
    LET dataplanes == objs["Dataplane"] IN
    IF dataplanes[k] = NotFound
    THEN IF cause.owner # 0 THEN {<<"Pod", k>>} ELSE {}
    ELSE {<<"Pod", o>> : o \in {other \in DOMAIN dataplanes \ {k} :
            /\ dataplanes[other] # NotFound
            /\ dataplanes[other].mesh = cause.mesh
            /\ dataplanes[other].owner # 0}}

\* A Mesh is in no namespace, so that its event is for the namespace "".
Requests(kind, k, obj, objs) ==
    CASE kind = "Pod"       -> {<<"Pod", k>>}
      [] kind = "Service"   -> ServiceToPodsMapper(obj, objs)
      [] kind = "Dataplane" -> DataplaneToSameMeshDataplanesMapper(k, obj, objs)
      [] kind = "Mesh"      -> {<<"Mesh", k>>, <<"Namespace", "">>}
      [] kind = "Namespace" -> {<<"Namespace", k>>}

\* The informer of a kind takes over an object.  An update is mapped twice,
\* with the old and with the new object.
Deliver(kind) ==
    /\ watch[kind] # << >>
    /\ LET event == Head(watch[kind])
           objs == {cache[kind][event.key], event.obj} \ {NotFound}
       IN  /\ watch' = [watch EXCEPT ![kind] = Tail(@)]
           /\ cache' = [cache EXCEPT ![kind][event.key] = event.obj]
           /\ queue' = queue \cup UNION {Requests(kind, event.key, obj, cache') : obj \in objs}
    /\ UNCHANGED <<setup, cluster, injector, podWorker, meshWorker, authorities, networks, applied, failures>>

DeliverToInjector(k) ==
    /\ injector[k] # cluster["Mesh"][k]
    /\ injector' = [injector EXCEPT ![k] = cluster["Mesh"][k]]
    /\ UNCHANGED <<setup, cluster, watch, cache, queue, podWorker, meshWorker, authorities, networks, applied, failures>>
-----------------------------------------------------------------------------
(* The controller of Pods                                                   *)

findMatchingServices(pod) ==
    FindServices({svc \in Present(cache["Service"]) : svc.namespace = pod.namespace}, pod)

\* Also the Dataplane of the Pod itself.
findOtherDataplanes(pod) == {d \in Present(cache["Dataplane"]) : d.mesh = GetMesh(pod)}

NeedsDataplane(pod) == pod # NotFound /\ HasKumaSidecar(pod) /\ pod.ip # ""

\* Reconcile, up to createOrUpdateDataplane.  The cache lists objects in any
\* order.
ReconcilePod(k) ==
    LET pod == cache["Pod"][k] IN
    /\ <<"Pod", k>> \in queue
    /\ podWorker = Idle
    /\ queue' = queue \ {<<"Pod", k>>}
    /\ IF NeedsDataplane(pod)
       THEN \E services \in SetToSeqs(findMatchingServices(pod)) :
                podWorker' = [key |-> k, pod |-> pod, services |-> services, others |-> findOtherDataplanes(pod)]
       ELSE UNCHANGED podWorker
    /\ UNCHANGED <<setup, cluster, watch, cache, injector, meshWorker, authorities, networks, applied, failures>>

\* Whether the API server takes the object: a new one, or an update of what
\* was read.
Accepts(k, obj) ==
    /\ cluster["Dataplane"][k] = cache["Dataplane"][k]
    /\ Admit("Dataplane", cluster["Dataplane"][k], obj).ok

\* An object that is as it was is not written.
createOrUpdateDataplane ==
    /\ podWorker # Idle
    /\ podWorker' = Idle
    /\ LET k == podWorker.key IN
       \E dataplane \in {PodToDataplane(podWorker.pod, podWorker.services, podWorker.others,
                                         Present(cache["Service"]))} :
          \/ /\ ~dataplane.err
             /\ \/ dataplane.obj = cache["Dataplane"][k] /\ Unstored
                \/ /\ dataplane.obj # cache["Dataplane"][k]
                   /\ Accepts(k, dataplane.obj)
                   /\ Store([cluster EXCEPT !["Dataplane"][k] = dataplane.obj])
             /\ UNCHANGED <<queue, failures>>
          \/ /\ \/ dataplane.err
                \/ dataplane.obj # cache["Dataplane"][k] /\ ~Accepts(k, dataplane.obj)
             /\ queue' = queue \cup {<<"Pod", k>>}
             /\ Unstored /\ UNCHANGED failures
          \/ /\ failures < setup.maxFailures
             /\ failures' = failures + 1
             /\ queue' = queue \cup {<<"Pod", k>>}
             /\ Unstored
    /\ UNCHANGED <<setup, cache, injector, meshWorker, authorities, networks, applied>>
-----------------------------------------------------------------------------
(* The controller of Meshes                                                 *)

\* The type of the enabled backend, "" without mTLS.
GetEnabledCertificateAuthorityBackend(mesh) ==
    LET enabled == {b \in ToSet(mesh.mtls.backends) : b.name = mesh.mtls.enabled}
    IN  IF mesh.mtls.enabled = "" \/ enabled = {} THEN "" ELSE (CHOOSE b \in enabled : TRUE).type

\* Only the builtin manager creates anything.
EnsureEnabledCA(k, mesh) ==
    IF GetEnabledCertificateAuthorityBackend(mesh) = "builtin" THEN authorities \cup {k} ELSE authorities

\* Mutant: nothing is done for a mesh that is gone.
ReconcileMeshFound(k) ==
    LET mesh == cache["Mesh"][k] IN
    /\ <<"Mesh", k>> \in queue
    /\ meshWorker = ""
    /\ queue' = queue \ {<<"Mesh", k>>}
    /\ authorities' = IF mesh = NotFound THEN authorities ELSE EnsureEnabledCA(k, mesh)
    /\ UNCHANGED <<setup, cluster, watch, cache, injector, podWorker, meshWorker, networks, applied, failures>>

\* Reconcile: a mesh that is not in the cache is to be deleted.
ReconcileMesh(k) ==
    LET mesh == cache["Mesh"][k] IN
    /\ <<"Mesh", k>> \in queue
    /\ meshWorker = ""
    /\ queue' = queue \ {<<"Mesh", k>>}
    /\ IF mesh = NotFound THEN meshWorker' = k /\ UNCHANGED authorities
       ELSE authorities' = EnsureEnabledCA(k, mesh) /\ UNCHANGED meshWorker
    /\ UNCHANGED <<setup, cluster, watch, cache, injector, podWorker, networks, applied, failures>>

\* meshManager.Delete: the mesh, if the cache has it by now, its secrets and
\* the resources the cache lists for it.  That the mesh is gone is an error,
\* so that the request is put back.
DeleteMesh ==
    LET k == meshWorker IN
    /\ k # ""
    /\ meshWorker' = ""
    /\ Store([cluster EXCEPT
          !["Mesh"][k] = IF cache["Mesh"][k] # NotFound THEN NotFound ELSE @,
          !["Dataplane"] = [d \in DOMAIN @ |->
              IF cache["Dataplane"][d] # NotFound /\ cache["Dataplane"][d].mesh = k THEN NotFound ELSE @[d]]])
    /\ authorities' = authorities \ {k}
    /\ queue' = IF cache["Mesh"][k] = NotFound THEN queue \cup {<<"Mesh", k>>} ELSE queue
    /\ UNCHANGED <<setup, cache, injector, podWorker, networks, applied, failures>>
-----------------------------------------------------------------------------
(* The controller of Namespaces                                             *)

createOrUpdateNetworkAttachmentDefinition(k) == networks' = networks \cup {k}

\* CreateDefaultMesh fails if the mesh exists that the cache does not have.
CreateDefaultMesh ==
    /\ authorities' = EnsureEnabledCA(DefaultName, setup.template)
    /\ IF cluster["Mesh"][DefaultName] = NotFound
       THEN /\ Store([cluster EXCEPT !["Mesh"][DefaultName] = DefaultMesh(setup.template)])
            /\ queue' = queue \ {<<"Namespace", System>>}
       ELSE Unstored /\ UNCHANGED queue

\* Only with the CNI plugin are namespaces other than Kuma's own looked at.
ReconcileNamespace(k) ==
    LET cni == ~setup.cfg.initContainer
        absent == k \notin Keys("Namespace") \/ cache["Namespace"][k] = NotFound
        ignored == ~cni /\ k # System
        done == queue' = queue \ {<<"Namespace", k>>}
    IN  /\ <<"Namespace", k>> \in queue
        /\ IF ignored \/ absent THEN done /\ Unstored /\ UNCHANGED <<authorities, networks>>
           ELSE IF k = System /\ cache["Mesh"][DefaultName] = NotFound
           THEN CreateDefaultMesh /\ UNCHANGED networks
           ELSE /\ done
                /\ IF cni /\ cache["Namespace"][k].injection = "enabled"
                   THEN createOrUpdateNetworkAttachmentDefinition(k) ELSE UNCHANGED networks
                /\ Unstored /\ UNCHANGED authorities
        /\ UNCHANGED <<setup, cache, injector, podWorker, meshWorker, applied, failures>>
-----------------------------------------------------------------------------
Inform(kind) == Deliver(kind) \/ (kind = "Mesh" /\ \E k \in Keys("Mesh") : DeliverToInjector(k))

PodStep == \E k \in Keys("Pod") : ReconcilePod(k)

MeshStep == DeleteMesh \/ \E k \in Keys("Mesh") : ReconcileMesh(k)

NamespaceStep == \E k \in Keys("Namespace") \cup {""} : ReconcileNamespace(k)

Collect == \E k \in Keys("Dataplane") : CollectGarbage(k)

Next == Apply \/ (\E kind \in Kinds : Inform(kind)) \/ PodStep \/ createOrUpdateDataplane \/ MeshStep \/ NamespaceStep \/ Collect

\* The informers, the workers and the garbage collector go on, and what the
\* users do is done in the end.  The worker of the Pods always comes back:
\* createOrUpdateDataplane is enabled until it is Idle, and nothing else makes
\* it so, which is why this is the weak fairness of that action.
Spec == /\ Init
        /\ [][Next]_vars
        /\ WF_vars(Apply)
        /\ \A kind \in Kinds : WF_vars(Inform(kind))
        /\ WF_vars(PodStep)
        /\ []<>(podWorker = Idle)
        /\ WF_vars(MeshStep)
        /\ WF_vars(NamespaceStep)
        /\ WF_vars(Collect)
-----------------------------------------------------------------------------
\* Types: a Dataplane that is stored is valid, queues and workers hold keys of
\* objects, and no more is done than the setup says.
TypeOK ==
    /\ \A d \in Present(cluster["Dataplane"]) \cup Present(cache["Dataplane"]) :
          d.owner \in Nat /\ ValidateDataplane(d.networking)
    /\ \A kind \in Kinds : DOMAIN cluster[kind] = Keys(kind) /\ DOMAIN cache[kind] = Keys(kind)
    /\ queue \subseteq {"Pod", "Mesh", "Namespace"} \X UNION {Keys(kind) \cup {""} : kind \in Kinds}
    /\ authorities \subseteq Keys("Mesh")
    /\ networks \subseteq Keys("Namespace")
    /\ podWorker.key \in Keys("Pod") \cup {""}
    /\ meshWorker \in Keys("Mesh") \cup {""}
    /\ applied \in 0 .. Len(setup.changes)
    /\ failures \in 0 .. setup.maxFailures

\* What kuma-injector has put into a Pod agrees with the Dataplane that the
\* control plane makes of it: the sidecar asks for it in its mesh, traffic is
\* redirected to the port where Envoy listens for it, and only the inbound
\* traffic of a gateway is left alone.
SidecarMatches ==
    \A k \in Keys("Pod") :
        LET pod == cluster["Pod"][k]
            d == cluster["Dataplane"][k]
        IN  pod # NotFound /\ d # NotFound /\ d.owner = pod.uid =>
                /\ pod.sidecar # <<>> /\ pod.sidecar[1].mesh = d.mesh
                /\ pod.init # <<>> => /\ pod.init[1].redirectPort = d.networking.redirectPort
                                      /\ (pod.init[1].inboundPorts = "") = (d.networking.gateway # <<>>)
                /\ pod.init = <<>> => CNCFNetwork \in DOMAIN pod.annotations

\* The Dataplanes that the objects of the API server call for, of Pods that
\* can have one.
Desired ==
    LET svcs == Present(cluster["Service"])
        services(pod) == SetToSeq(FindServices({svc \in svcs : svc.namespace = pod.namespace}, pod))
        all == [k \in {key \in Keys("Pod") : NeedsDataplane(cluster["Pod"][key])} |->
                   PodToDataplane(cluster["Pod"][k], services(cluster["Pod"][k]), {}, svcs)]
        viable == {k \in DOMAIN all : /\ cluster["Mesh"][all[k].obj.mesh] # NotFound
                                      /\ ~all[k].err
                                      /\ ValidateDataplane(all[k].obj.networking)}
    IN  [k \in viable |-> all[k].obj]

\* An outbound for the service `tag`, to the address the Service has now.
Reaches(networking, tag) ==
    \E out \in ToSet(networking.outbound) :
        /\ out.service = tag
        /\ \E svc \in ServicesOf(tag, Present(cluster["Service"])) : out.address = svc.clusterIP

\* A Dataplane has the inbounds of its Pod, and it reaches all that the others
\* in its mesh offer.
UpToDate(have, want, others) ==
    /\ have # NotFound
    /\ have.mesh = want.mesh /\ have.owner = want.owner
    /\ have.networking.address = want.networking.address
    /\ ToSet(have.networking.inbound) = ToSet(want.networking.inbound)
    /\ \A o \in others : o.mesh = want.mesh =>
          \A in \in ToSet(o.networking.inbound) : Reaches(have.networking, in.tags[ServiceTag])

\* In the end, whatever the order of events, conflicts and failures: every Pod
\* that can have a Dataplane has one that is up to date (a Service that moved
\* included), and none is left of a Pod that is gone.
Converges ==
    <>[](/\ \E desired \in {Desired} : \A k \in DOMAIN desired :
               UpToDate(cluster["Dataplane"][k], desired[k], {desired[o] : o \in DOMAIN desired \ {k}})
         /\ \A k \in Keys("Pod") :
               cluster["Pod"][k] = NotFound /\ cluster["Dataplane"][k] # NotFound =>
                   cluster["Dataplane"][k].owner = 0)

\* In the end a mesh with a builtin authority has its certificates, of a mesh
\* that is deleted neither these nor the Dataplanes that users made are left,
\* and namespaces where sidecars are injected have the network of the CNI.
MeshesFollow ==
    <>[](/\ \A m \in Keys("Mesh") :
               LET mesh == cluster["Mesh"][m] IN
               IF mesh # NotFound
               THEN GetEnabledCertificateAuthorityBackend(mesh) = "builtin" => m \in authorities
               ELSE /\ m \notin authorities
                    /\ \A d \in Present(cluster["Dataplane"]) : d.mesh = m => d.owner # 0
         /\ ~setup.cfg.initContainer =>
               \A n \in Keys("Namespace") \ {System} :
                  cluster["Namespace"][n] # NotFound /\ cluster["Namespace"][n].injection = "enabled" =>
                      n \in networks)
=============================================================================
