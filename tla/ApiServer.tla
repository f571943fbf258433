------------------------------ MODULE ApiServer ------------------------------
(***************************************************************************)
(* The REST API of the control plane: the handlers of the API server, the  *)
(* resource manager they call, and the store behind it.  A request is      *)
(* served in steps, one per call to the store; the steps of concurrent     *)
(* requests interleave.  The admin server serves the secrets the same way; *)
(* requests that change meshes go to the mesh manager (MeshManager).       *)
(***************************************************************************)
EXTENDS ResourceStores

CONSTANTS Slots,            \* requests in service at a time
          MaxPageSize, DefaultPageSize,
          Qualified,        \* the names that have a Kubernetes namespace
          BadSpecs,         \* the specs that Validate refuses
          GatewaySpecs      \* the specs of gateway dataplanes

VARIABLES env,              \* how the control plane is deployed and used
          store,
          requests

backend == env.backend

NoSize  == -1
BadSize == -2

Ops == {"find", "list", "put", "delete", "inspect", "overviews"}

\* A request that has been received: what it asks for, the point its handler
\* has reached, the resources the handler holds, and the answer.
Request(op, type, mesh, name, body, size, offset, gateway) ==
    [op |-> op, type |-> type, mesh |-> mesh, name |-> name, body |-> body,
     size |-> size, offset |-> offset, gateway |-> gateway,
     pc |-> "start", held |-> << >>, next |-> NoOffset, status |-> 0]

Free == Request("find", "Mesh", 0, 0, << >>, NoSize, NoOffset, FALSE)
Idle == [Free EXCEPT !.pc = "idle"]
-----------------------------------------------------------------------------
(* The store of the deployment                                              *)

KubeSecret(type) == backend = "kubernetes" /\ type = "Secret"

\* The checks of the strict store, which wraps the resource store.
Strict(s, name, mesh, r) == IF 0 \in {name, mesh} THEN Error(s, "error") ELSE r

StoreGet(s, type, name, mesh) ==
    IF KubeSecret(type) THEN SecretGet(s, name)
    ELSE Strict(s, name, mesh,
           CASE backend = "memory"     -> MemGet(s, type, name, mesh, AnyVersion)
             [] backend = "postgres"   -> PgGet(s, type, name, mesh, AnyVersion)
             [] backend = "kubernetes" -> KubeGet(s, type, name, mesh, AnyVersion, Qualified))

StoreList(s, type, mesh, size, offset) ==
    IF KubeSecret(type) THEN SecretList(s, mesh)
    ELSE CASE backend = "memory"     -> MemList(s, type, mesh, size, offset)
           [] backend = "postgres"   -> PgList(s, type, mesh, size, offset)
           [] backend = "kubernetes" -> KubeList(s, type, mesh, size, offset)

StoreCreate(s, type, name, mesh, spec) ==
    IF KubeSecret(type) THEN SecretCreate(s, name, mesh, spec)
    ELSE Strict(s, name, mesh,
           CASE backend = "memory"     -> MemCreate(s, type, name, mesh, spec)
             [] backend = "postgres"   -> PgCreate(s, type, name, mesh, spec)
             [] backend = "kubernetes" -> KubeCreate(s, type, name, mesh, spec, Qualified))

StoreUpdate(s, r, spec) ==
    IF KubeSecret(r.type) THEN SecretUpdate(s, r, spec)
    ELSE CASE backend = "memory"     -> MemUpdate(s, r, spec)
           [] backend = "postgres"   -> PgUpdate(s, r, spec)
           [] backend = "kubernetes" -> KubeUpdate(s, r, spec)

\* On Kubernetes, but for secrets, the object is read first, to compare its mesh.
StoreDelete(s, type, name, mesh) ==
    IF KubeSecret(type) THEN SecretDelete(s, name)
    ELSE Strict(s, name, mesh,
           CASE backend = "memory"     -> MemDelete(s, type, name, mesh)
             [] backend = "postgres"   -> PgDelete(s, type, name, mesh)
             [] backend = "kubernetes" -> KubeGet(s, type, name, mesh, AnyVersion, Qualified))
-----------------------------------------------------------------------------
(* The answers                                                              *)

\* HandleError
handleNotFound            == 404
handlePreconditionFailed  == 412
handleInvalidOffset       == 400
handleMeshNotFound        == 400
handleValidationError     == 400
handleMaxPageSizeExceeded == 400
handleInvalidPageSize     == 400
handlePaginationNotSupported == 400
handleUnknownError        == 500

HandleError(err) ==
    CASE err = "notfound"     -> handleNotFound
      [] err = "precondition" -> handlePreconditionFailed
      [] err = "offset"       -> handleInvalidOffset
      [] err = "nomesh"       -> handleMeshNotFound
      [] err = "invalid"      -> handleValidationError
      [] err = "maxsize"      -> handleMaxPageSizeExceeded
      [] err = "size"         -> handleInvalidPageSize
      [] err = "filter"       -> handlePaginationNotSupported
      [] OTHER                -> handleUnknownError

writeError(q, err) == [q EXCEPT !.pc = "done", !.held = << >>, !.status = HandleError(err)]

\* What the converter leaves of a resource: the version is not part of it.
Resource(r) == [r EXCEPT !.version = AnyVersion]
ResourceList(items) == [i \in DOMAIN items |-> Resource(items[i])]

WriteAsJson(q, items, next) ==
    [q EXCEPT !.pc = "done", !.held = items, !.next = next, !.status = 200]
WriteHeader(q, status) == [q EXCEPT !.pc = "done", !.held = << >>, !.status = status]
GoOn(q, pc, held, next) == [q EXCEPT !.pc = pc, !.held = held, !.next = next]

\* pagination
pagination(q) ==
    CASE q.size = NoSize       -> [size |-> DefaultPageSize, err |-> "none"]
      [] q.size = BadSize      -> [size |-> 0, err |-> "size"]
      [] q.size > MaxPageSize  -> [size |-> 0, err |-> "maxsize"]
      [] OTHER                 -> [size |-> q.size, err |-> "none"]

\* validateResourceRequest: the URL and the body name the same resource.
validateResourceRequest(q) ==
    /\ q.name = q.body.name
    /\ q.type = q.body.type
    /\ q.mesh = q.body.mesh \/ q.type = "Mesh"

Served(slot, q) == requests' = [requests EXCEPT ![slot] = q]
Unrouted == env.readOnly
-----------------------------------------------------------------------------
(* The handlers                                                             *)

findResource(slot) ==
    LET q == requests[slot]
        r == StoreGet(store, q.type, q.name, q.mesh)
    IN  /\ q.pc = "start" /\ q.op = "find" /\ q.type # "Secret"
        /\ Served(slot, IF r.err = "none" THEN WriteAsJson(q, ResourceList(r.items), NoOffset)
                        ELSE writeError(q, r.err))
        /\ UNCHANGED store

listResources(slot) ==
    LET q == requests[slot]
        p == pagination(q)
        r == StoreList(store, q.type, q.mesh, p.size, q.offset)
    IN  /\ q.pc = "start" /\ q.op = "list" /\ q.type # "Secret"
        /\ Served(slot, IF p.err # "none" THEN writeError(q, p.err)
                        ELSE IF r.err # "none" THEN writeError(q, r.err)
                        ELSE WriteAsJson(q, ResourceList(r.items), r.next))
        /\ UNCHANGED store

\* PUT: does the resource exist?
createOrUpdateResource(slot) ==
    LET q == requests[slot]
        r == StoreGet(store, q.type, q.name, q.mesh)
    IN  /\ q.pc = "start" /\ q.op = "put" /\ q.type # "Secret"
        /\ Served(slot, IF Unrouted THEN WriteHeader(q, 405)
                        ELSE IF ~validateResourceRequest(q) THEN writeError(q, "invalid")
                        ELSE IF r.err = "none" THEN GoOn(q, "update", r.items, NoOffset)
                        ELSE IF r.err = "notfound" THEN GoOn(q, "create", << >>, NoOffset)
                        ELSE writeError(q, r.err))
        /\ UNCHANGED store

\* Create of the manager: Validate and ensureMeshExists.
ensureMeshExists(slot) ==
    LET q == requests[slot] IN
    /\ q.pc = "create" /\ q.type # "Secret"
    /\ Served(slot, IF q.body.spec \in BadSpecs THEN writeError(q, "invalid")
                    ELSE IF Len(StoreList(store, "Mesh", q.mesh, 0, NoOffset).items) # 1
                         THEN writeError(q, "nomesh")
                    ELSE GoOn(q, "insert", << >>, NoOffset))
    /\ UNCHANGED store

createResource(slot) ==
    LET q == requests[slot]
        r == StoreCreate(store, q.type, q.name, q.mesh, q.body.spec)
    IN  /\ q.pc = "insert"
        /\ Served(slot, IF r.err = "none" THEN WriteHeader(q, 201) ELSE writeError(q, r.err))
        /\ store' = r.store

updateResource(slot) ==
    LET q == requests[slot]
        r == IF q.body.spec \in BadSpecs THEN Error(store, "invalid")
             ELSE StoreUpdate(store, q.held[1], q.body.spec)
    IN  /\ q.pc = "update" /\ q.type # "Secret"
        /\ Served(slot, IF r.err = "none" THEN WriteHeader(q, 200) ELSE writeError(q, r.err))
        /\ store' = r.store

deleteResource(slot) ==
    LET q == requests[slot]
        r == StoreDelete(store, q.type, q.name, q.mesh)
    IN  /\ q.pc = "start" /\ q.op = "delete" /\ q.type # "Secret"
        /\ IF Unrouted
           THEN Served(slot, WriteHeader(q, 405)) /\ UNCHANGED store
           ELSE /\ Served(slot, IF r.err # "none" THEN writeError(q, r.err)
                                ELSE IF backend = "kubernetes"
                                     THEN GoOn(q, "remove", << >>, NoOffset)
                                ELSE WriteHeader(q, 200))
                /\ store' = r.store

\* The second request of Delete on Kubernetes.
deleteObject(slot) ==
    LET q == requests[slot] IN
    /\ q.pc = "remove"
    /\ store' = KubeDelete(store, q.type, q.name).store
    /\ Served(slot, WriteHeader(q, 200))

\* fetchOverview: the dataplane, then its insight; fetchOverviews: a page of
\* dataplanes, then all insights of the mesh.
fetchDataplanes(slot) ==
    LET q == requests[slot]
        p == pagination(q)
        r == IF q.op = "inspect" THEN StoreGet(store, "Dataplane", q.name, q.mesh)
             ELSE StoreList(store, "Dataplane", q.mesh, p.size, q.offset)
    IN  /\ q.pc = "start" /\ q.op \in {"inspect", "overviews"}
        /\ Served(slot,
             IF q.op = "overviews" /\ p.err # "none" THEN writeError(q, p.err)
             ELSE IF q.gateway /\ (q.size # NoSize \/ q.offset # NoOffset)
                  THEN writeError(q, "filter")
             ELSE IF r.err # "none" THEN writeError(q, r.err)
             ELSE GoOn(q, "insights", r.items, r.next))
        /\ UNCHANGED store

RetainGatewayDataplanes(overviews) ==
    SelectSeq(overviews, LAMBDA o : o.spec \in GatewaySpecs)

\* A dataplane with the spec of its insight, if it has one.
NewDataplaneOverviews(dataplanes, insights) ==
    [i \in DOMAIN dataplanes |->
        [name |-> dataplanes[i].name, mesh |-> dataplanes[i].mesh, spec |-> dataplanes[i].spec,
         insight |-> {r.spec : r \in {x \in Range(insights) : /\ x.name = dataplanes[i].name
                                                             /\ x.mesh = dataplanes[i].mesh}}]]

fetchInsights(slot) ==
    LET q == requests[slot]
        r == StoreList(store, "DataplaneInsight", q.mesh, 0, NoOffset)
        overviews == NewDataplaneOverviews(q.held, r.items)
    IN  /\ q.pc = "insights"
        /\ Served(slot, WriteAsJson(q, IF q.gateway THEN RetainGatewayDataplanes(overviews)
                                       ELSE overviews, q.next))
        /\ UNCHANGED store

Serve(slot) ==
    \/ findResource(slot) \/ listResources(slot) \/ createOrUpdateResource(slot)
    \/ ensureMeshExists(slot) \/ createResource(slot) \/ updateResource(slot)
    \/ deleteResource(slot) \/ deleteObject(slot)
    \/ fetchDataplanes(slot) \/ fetchInsights(slot)
-----------------------------------------------------------------------------
(* The secrets of the admin server.  The handlers are those of resources    *)
(* without pages, and the secret manager neither validates a secret nor     *)
(* asks for its mesh.                                                       *)

IsSecret(q) == q.type = "Secret"

findSecret(slot) ==
    LET q == requests[slot]
        r == StoreGet(store, q.type, q.name, q.mesh)
    IN  /\ q.pc = "start" /\ q.op = "find" /\ IsSecret(q)
        /\ Served(slot, IF r.err = "none" THEN WriteAsJson(q, ResourceList(r.items), NoOffset)
                        ELSE writeError(q, r.err))
        /\ UNCHANGED store

listSecrets(slot) ==
    LET q == requests[slot]
        r == StoreList(store, q.type, q.mesh, 0, NoOffset)
    IN  /\ q.pc = "start" /\ q.op = "list" /\ IsSecret(q)
        /\ Served(slot, WriteAsJson(q, ResourceList(r.items), NoOffset))
        /\ UNCHANGED store

validateSecretRequest(q) ==
    q.name = q.body.name /\ q.mesh = q.body.mesh /\ q.type = q.body.type

createOrUpdateSecret(slot) ==
    LET q == requests[slot]
        r == StoreGet(store, q.type, q.name, q.mesh)
    IN  /\ q.pc = "start" /\ q.op = "put" /\ IsSecret(q)
        /\ Served(slot, IF ~validateSecretRequest(q) THEN writeError(q, "invalid")
                        ELSE IF r.err = "none" THEN GoOn(q, "update", r.items, NoOffset)
                        ELSE IF r.err = "notfound" THEN GoOn(q, "create", << >>, NoOffset)
                        ELSE writeError(q, r.err))
        /\ UNCHANGED store

createSecret(slot) ==
    LET q == requests[slot]
        r == StoreCreate(store, q.type, q.name, q.mesh, q.body.spec)
    IN  /\ q.pc = "create" /\ IsSecret(q)
        /\ Served(slot, IF r.err = "none" THEN WriteHeader(q, 201) ELSE writeError(q, r.err))
        /\ store' = r.store

updateSecret(slot) ==
    LET q == requests[slot]
        r == StoreUpdate(store, q.held[1], q.body.spec)
    IN  /\ q.pc = "update" /\ IsSecret(q)
        /\ Served(slot, IF r.err = "none" THEN WriteHeader(q, 200) ELSE writeError(q, r.err))
        /\ store' = r.store

deleteSecret(slot) ==
    LET q == requests[slot]
        r == StoreDelete(store, q.type, q.name, q.mesh)
    IN  /\ q.pc = "start" /\ q.op = "delete" /\ IsSecret(q)
        /\ Served(slot, IF r.err = "none" THEN WriteHeader(q, 200) ELSE writeError(q, r.err))
        /\ store' = r.store

ServeSecret(slot) ==
    \/ findSecret(slot) \/ listSecrets(slot) \/ createOrUpdateSecret(slot)
    \/ createSecret(slot) \/ updateSecret(slot) \/ deleteSecret(slot)
=============================================================================
