--------------------------- MODULE ResourceStores ---------------------------
(***************************************************************************)
(* The stores of resources behind the interface ResourceStore: memory,     *)
(* Postgres and Kubernetes.  Every operation is a function of the content  *)
(* of the store: it returns the new content, an error or none, and the     *)
(* resources it hands out.  A call is atomic: memory holds a lock, Postgres*)
(* runs one statement, the Kubernetes API server serves one request.       *)
(*                                                                         *)
(* A store is a sequence of records, in the order of their creation, and   *)
(* the revision of the Kubernetes cluster.  Names and meshes are numbers,  *)
(* ordered as the strings are; mesh 0 is no mesh.  A page offset is the    *)
(* index of its first record, or what a continue token stands for.         *)
(***************************************************************************)
EXTENDS Integers, Sequences, FiniteSetsExt

-----------------------------------------------------------------------------
(* The resource types: what each is registered as with the core model, how  *)
(* the API server exposes it, and what Kubernetes object it is.             *)

\* The core types: a resource type and the type of its lists, registered
\* under one name.
MeshResource              == [type |-> "Mesh", list |-> "MeshList"]
DataplaneResource         == [type |-> "Dataplane", list |-> "DataplaneList"]
DataplaneInsightResource  == [type |-> "DataplaneInsight", list |-> "DataplaneInsightList"]
HealthCheckResource       == [type |-> "HealthCheck", list |-> "HealthCheckList"]
ProxyTemplateResource     == [type |-> "ProxyTemplate", list |-> "ProxyTemplateList"]
TrafficPermissionResource == [type |-> "TrafficPermission", list |-> "TrafficPermissionList"]
TrafficLogResource        == [type |-> "TrafficLog", list |-> "TrafficLogList"]
TrafficRouteResource      == [type |-> "TrafficRoute", list |-> "TrafficRouteList"]
TrafficTraceResource      == [type |-> "TrafficTrace", list |-> "TrafficTraceList"]
FaultInjectionResource    == [type |-> "FaultInjection", list |-> "FaultInjectionList"]
SecretResource            == [type |-> "Secret", list |-> "SecretList"]

\* RegisterType: every name is registered once.
Resources ==
    {MeshResource, DataplaneResource, DataplaneInsightResource, HealthCheckResource,
     ProxyTemplateResource, TrafficPermissionResource, TrafficLogResource,
     TrafficRouteResource, TrafficTraceResource, FaultInjectionResource, SecretResource}

\* NewObject of the registry knows the types that are registered.
NewObject(type) == {r \in Resources : r.type = type}
-----------------------------------------------------------------------------
(* The API server                                                           *)

MeshWsDefinition              == [type |-> "Mesh", path |-> "meshes"]
DataplaneWsDefinition         == [type |-> "Dataplane", path |-> "dataplanes"]
DataplaneInsightWsDefinition  == [type |-> "DataplaneInsight", path |-> "dataplane-insights"]
HealthCheckWsDefinition       == [type |-> "HealthCheck", path |-> "health-checks"]
ProxyTemplateWsDefinition     == [type |-> "ProxyTemplate", path |-> "proxytemplates"]
TrafficPermissionWsDefinition == [type |-> "TrafficPermission", path |-> "traffic-permissions"]
TrafficLogWsDefinition        == [type |-> "TrafficLog", path |-> "traffic-logs"]
TrafficRouteWsDefinition      == [type |-> "TrafficRoute", path |-> "traffic-routes"]
TrafficTraceWsDefinition      == [type |-> "TrafficTrace", path |-> "traffic-traces"]
FaultInjectionWsDefinition    == [type |-> "FaultInjection", path |-> "fault-injections"]

AllDefinitions ==
    {MeshWsDefinition, DataplaneWsDefinition, DataplaneInsightWsDefinition,
     HealthCheckWsDefinition, ProxyTemplateWsDefinition, TrafficPermissionWsDefinition,
     TrafficLogWsDefinition, TrafficRouteWsDefinition, TrafficTraceWsDefinition,
     FaultInjectionWsDefinition}

\* The paths a client uses for a type: those of the API server ...
AllApis(type) == {d \in AllDefinitions : d.type = type}

\* ... and those of the admin server, which has the secrets only.
AllAdminApis(type) == {d \in {[type |-> "Secret", path |-> "secrets"]} : d.type = type}
-----------------------------------------------------------------------------
(* Kubernetes                                                               *)

MeshK8s              == [type |-> "Mesh", scope |-> "cluster"]
DataplaneK8s         == [type |-> "Dataplane", scope |-> "namespace"]
DataplaneInsightK8s  == [type |-> "DataplaneInsight", scope |-> "namespace"]
HealthCheckK8s       == [type |-> "HealthCheck", scope |-> "namespace"]
ProxyTemplateK8s     == [type |-> "ProxyTemplate", scope |-> "namespace"]
TrafficPermissionK8s == [type |-> "TrafficPermission", scope |-> "namespace"]
TrafficLogK8s        == [type |-> "TrafficLog", scope |-> "namespace"]
TrafficRouteK8s      == [type |-> "TrafficRoute", scope |-> "namespace"]
TrafficTraceK8s      == [type |-> "TrafficTrace", scope |-> "namespace"]
FaultInjectionK8s    == [type |-> "FaultInjection", scope |-> "namespace"]

KubeTypes ==
    {MeshK8s, DataplaneK8s, DataplaneInsightK8s, HealthCheckK8s, ProxyTemplateK8s,
     TrafficPermissionK8s, TrafficLogK8s, TrafficRouteK8s, TrafficTraceK8s, FaultInjectionK8s}

\* The Kubernetes object of a type, if it is registered.
NewKubeObject(type) == {k \in KubeTypes : k.type = type}
-----------------------------------------------------------------------------
(* What the stores hold                                                     *)

EmptyStore == [records |-> << >>, revision |-> 0]

NoOffset  == [at |-> 0, rest |-> << >>]
BadOffset == [at |-> -1, rest |-> << >>]

\* What an operation returns.
Result(s, err, items, next) == [store |-> s, err |-> err, items |-> items, next |-> next]
Ok(s, items) == Result(s, "none", items, NoOffset)
Error(s, err) == Result(s, err, << >>, NoOffset)

\* A resource as it is created; times says whether its meta has its times.
Record(type, mesh, name, version, spec) ==
    [type |-> type, mesh |-> mesh, name |-> name, version |-> version, spec |-> spec,
     times |-> TRUE]

AnyVersion == -1

\* append(seq[:i], seq[i+1:]...)
Without(seq, i) == [j \in 1..(Len(seq) - 1) |-> seq[IF j < i THEN j ELSE j + 1]]

\* The elements of seq at the positions I, in their order.
Chosen(seq, I) ==
    [j \in 1..Cardinality(I) |-> seq[CHOOSE i \in I : Cardinality({k \in I : k < i}) = j - 1]]

Put(s, rec, i)   == [s EXCEPT !.records[i] = rec]
Add(s, rec)      == [s EXCEPT !.records = Append(@, rec)]
Drop(s, i)       == [s EXCEPT !.records = Without(@, i)]
-----------------------------------------------------------------------------
(* Memory                                                                   *)

\* The position of the record, if there is one.
findRecord(s, type, name, mesh) ==
    {i \in DOMAIN s.records : /\ s.records[i].type = type
                              /\ s.records[i].name = name
                              /\ s.records[i].mesh = mesh}

findRecords(s, type, mesh) ==
    Chosen(s.records, {i \in DOMAIN s.records : /\ s.records[i].type = type
                                                /\ mesh \in {0, s.records[i].mesh}})

initialVersion == 1

MemCreate(s, type, name, mesh, spec) ==
    LET m == IF type = "Mesh" THEN name ELSE mesh
        rec == Record(type, m, name, initialVersion, spec)
    IN  IF findRecord(s, type, name, m) # {} THEN Error(s, "exists")
        ELSE Ok(Add(s, rec), <<rec>>)

\* Mutant: the record is replaced before its version is compared.
MemUpdateBeforeCheck(s, r, spec) ==
    LET found == findRecord(s, r.type, r.name, r.mesh)
        i     == CHOOSE i \in found : TRUE
        next  == Put(s, [r EXCEPT !.version = @ + 1, !.spec = spec, !.times = TRUE], i)
    IN  IF found = {} THEN Error(s, "conflict")
        ELSE IF s.records[i].version # r.version THEN Error(next, "conflict")
        ELSE Ok(next, <<r>>)

\* The resource the caller holds keeps its version.
MemUpdate(s, r, spec) ==
    LET found == findRecord(s, r.type, r.name, r.mesh) IN
    IF \A i \in found : s.records[i].version # r.version THEN Error(s, "conflict")
    ELSE LET i == CHOOSE i \in found : TRUE IN
         Ok(Put(s, [r EXCEPT !.version = @ + 1, !.spec = spec, !.times = TRUE], i), <<r>>)

MemDelete(s, type, name, mesh) ==
    LET found == findRecord(s, type, name, mesh) IN
    IF found = {} THEN Error(s, "notfound")
    ELSE Ok(Drop(s, CHOOSE i \in found : TRUE), << >>)

MemGet(s, type, name, mesh, version) ==
    LET found == findRecord(s, type, name, IF type = "Mesh" THEN name ELSE mesh)
        rec   == s.records[CHOOSE i \in found : TRUE]
    IN  IF found = {} THEN Error(s, "notfound")
        ELSE IF version \notin {AnyVersion, rec.version} THEN Error(s, "precondition")
        ELSE Ok(s, <<rec>>)

\* The records of a page; a next offset if the collection has more.
Page(all, size, at) ==
    SubSeq(all, at + 1, IF at + size < Len(all) THEN at + size ELSE Len(all))

\* Mutant: the offset of the next page skips a record.
NextOffsetSkips(all, size, at) ==
    IF at + size < Len(all) THEN [at |-> at + size + 1, rest |-> << >>] ELSE NoOffset

NextOffset(all, size, at) ==
    IF at + size < Len(all) THEN [at |-> at + size, rest |-> << >>] ELSE NoOffset

MemList(s, type, mesh, size, offset) ==
    LET all == findRecords(s, type, mesh) IN
    IF size = 0 THEN Ok(s, all)
    ELSE IF offset = BadOffset THEN Error(s, "offset")
    ELSE Result(s, "none", Page(all, size, offset.at), NextOffset(all, size, offset.at))
-----------------------------------------------------------------------------
(* Postgres                                                                 *)

PgCreate(s, type, name, mesh, spec) ==
    LET rec == Record(type, mesh, name, 0, spec) IN
    IF findRecord(s, type, name, mesh) # {} THEN Error(s, "exists")
    ELSE Ok(Add(s, rec), <<rec>>)

\* UPDATE ... WHERE version = ...: the caller's resource keeps its version
\* and loses its times.
PgUpdate(s, r, spec) ==
    LET rows == {i \in findRecord(s, r.type, r.name, r.mesh) :
                     s.records[i].version = r.version}
    IN  IF Cardinality(rows) # 1 THEN Error(s, "conflict")
        ELSE LET i == CHOOSE i \in rows : TRUE IN
             Ok(Put(s, [s.records[i] EXCEPT !.version = @ + 1, !.spec = spec], i),
                <<[r EXCEPT !.spec = spec, !.times = FALSE]>>)

PgDelete(s, type, name, mesh) ==
    LET rows == findRecord(s, type, name, mesh) IN
    IF rows = {} THEN Error(s, "notfound") ELSE Ok(Drop(s, CHOOSE i \in rows : TRUE), << >>)

PgGet(s, type, name, mesh, version) ==
    LET rows == findRecord(s, type, name, mesh)
        rec  == s.records[CHOOSE i \in rows : TRUE]
    IN  IF rows = {} THEN Error(s, "notfound")
        ELSE IF version \notin {AnyVersion, rec.version} THEN Error(s, "precondition")
        ELSE Ok(s, <<rec>>)

\* rowToItem: the times are read and not handed out.
rowToItem(r) == [r EXCEPT !.times = FALSE]

\* ORDER BY name, mesh
Before(a, b) == a.name < b.name \/ (a.name = b.name /\ a.mesh < b.mesh)

\* A record comes after all those before it.
Ordered(recs) ==
    [j \in DOMAIN recs |->
        recs[CHOOSE i \in DOMAIN recs :
                Cardinality({k \in DOMAIN recs : Before(recs[k], recs[i])}) = j - 1]]

PgList(s, type, mesh, size, offset) ==
    LET ordered == Ordered(findRecords(s, type, mesh))
        all     == [i \in DOMAIN ordered |-> rowToItem(ordered[i])]
    IN  IF offset = BadOffset THEN Error(s, "offset")
        ELSE IF size = 0 THEN Ok(s, all)
        ELSE Result(s, "none", Page(all, size, offset.at), NextOffset(all, size, offset.at))
-----------------------------------------------------------------------------
(* Kubernetes: an object is known by its type and its name, which has the   *)
(* namespace; the mesh is a field of it.  A write takes the next revision   *)
(* of the cluster as the version of the object.                             *)

\* k8sNameNamespace: an object in a namespace needs a name with one.
k8sNameNamespace(type, name, Qualified) ==
    \E k \in NewKubeObject(type) : k.scope = "cluster" \/ name \in Qualified

kubeObject(s, type, name) ==
    {i \in DOMAIN s.records : s.records[i].type = type /\ s.records[i].name = name}

KubeRevise(s, recs) == [records |-> recs, revision |-> s.revision + 1]

KubeCreate(s, type, name, mesh, spec, Qualified) ==
    LET rec == Record(type, mesh, name, s.revision + 1, spec) IN
    IF ~k8sNameNamespace(type, name, Qualified) THEN Error(s, "error")
    ELSE IF kubeObject(s, type, name) # {} THEN Error(s, "exists")
    ELSE Ok(KubeRevise(s, Append(s.records, rec)), <<rec>>)

KubeUpdate(s, r, spec) ==
    LET found == kubeObject(s, r.type, r.name)
        i     == CHOOSE i \in found : TRUE
        rec   == [r EXCEPT !.version = s.revision + 1, !.spec = spec]
    IN  IF found = {} THEN Error(s, "error")
        ELSE IF s.records[i].version # r.version THEN Error(s, "conflict")
        ELSE Ok(KubeRevise(s, [s.records EXCEPT ![i] = rec]), <<rec>>)

KubeGet(s, type, name, mesh, version, Qualified) ==
    LET found == kubeObject(s, type, name)
        rec   == s.records[CHOOSE i \in found : TRUE]
    IN  IF ~k8sNameNamespace(type, name, Qualified) THEN Error(s, "error")
        ELSE IF found = {} THEN Error(s, "notfound")
        ELSE IF version \notin {AnyVersion, rec.version} THEN Error(s, "precondition")
        ELSE IF rec.mesh # mesh THEN Error(s, "notfound")
        ELSE Ok(s, <<rec>>)

\* Delete reads the object first, to compare its mesh; this is the request
\* that follows, for the object of that name, in whatever mesh it is by now.
KubeDelete(s, type, name) ==
    LET found == kubeObject(s, type, name) IN
    IF found = {} THEN Ok(s, << >>)
    ELSE Ok(KubeRevise(s, Without(s.records, CHOOSE i \in found : TRUE)), << >>)

\* A page has the objects of all meshes that follow the continue token in
\* the cluster's snapshot; those of other meshes are left out afterwards.
KubeList(s, type, mesh, size, offset) ==
    LET all  == Ordered(findRecords(s, type, 0))
        from == IF offset = NoOffset THEN all ELSE offset.rest
        page == IF size = 0 THEN all ELSE Page(from, size, 0)
        mine == Chosen(page, {i \in DOMAIN page : mesh \in {0, page[i].mesh}})
        next == IF size = 0 \/ Len(from) <= size THEN NoOffset
                ELSE [at |-> 1, rest |-> SubSeq(from, size + 1, Len(from))]
    IN  IF size # 0 /\ offset = BadOffset THEN Error(s, "offset")
        ELSE Result(s, "none", mine, next)
-----------------------------------------------------------------------------
(* Secrets on Kubernetes: objects of one namespace, the mesh is a label.    *)
(* Get and Delete go by the name alone.                                     *)

SecretCreate(s, name, mesh, spec) ==
    LET rec == Record("Secret", mesh, name, s.revision + 1, spec) IN
    IF kubeObject(s, "Secret", name) # {} THEN Error(s, "exists")
    ELSE Ok(KubeRevise(s, Append(s.records, rec)), <<rec>>)

SecretUpdate(s, r, spec) == KubeUpdate(s, r, spec)

SecretDelete(s, name) == KubeDelete(s, "Secret", name)

SecretGet(s, name) ==
    LET found == kubeObject(s, "Secret", name) IN
    IF found = {} THEN Error(s, "notfound")
    ELSE Ok(s, <<s.records[CHOOSE i \in found : TRUE]>>)

SecretList(s, mesh) == Ok(s, findRecords(s, "Secret", mesh))
=============================================================================
