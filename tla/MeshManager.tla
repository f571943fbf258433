---------------------------- MODULE MeshManager ----------------------------
(***************************************************************************)
(* Requests of the API server about one mesh: what the mesh manager, the   *)
(* manager of its other resources and the builtin certificate authority    *)
(* do to the store.  Every call of the store is atomic and may fail; a     *)
(* request is a sequence of such calls, and requests run concurrently, on  *)
(* one control plane or on several.                                        *)
(*                                                                         *)
(* The store compares versions on Update.  A resource that is created has  *)
(* the first version, also when it existed before.                         *)
(***************************************************************************)
EXTENDS Naturals, Sequences

CONSTANTS
    Workers,      \* goroutines that serve requests
    Builtin,      \* backends whose certificate authority Kuma creates
    Provided,     \* backends whose certificate authority the user brings
    NoBackend,    \* mTLS is disabled
    NotFound,     \* there is no mesh
    MaxRequests   \* bound on the number of requests

ASSUME BoundsAssumption == MaxRequests \in Nat

VARIABLES
    mesh,         \* the Mesh resource, or NotFound
    secrets,      \* the key pair each secret of the mesh is of, 0 if none
    policy,       \* whether another resource of the mesh exists
    request,      \* what each worker is doing
    requests,     \* number of requests so far
    overlapped,   \* a deletion of the mesh has met another request
    halted        \* a deletion of the mesh has failed

storeVars == <<mesh, secrets, policy>>
ghosts == <<overlapped, halted>>
vars == <<mesh, secrets, policy, request, requests, overlapped, halted>>

Backends == Builtin \cup Provided \cup {NoBackend}
Secrets  == Builtin \X {"cert", "key"}
Types    == {"Mesh", "Secret", "Policy"}
Meshes   == [version : Nat, backend : Backends]

\* No mesh is not a mesh, and no backend not a backend.
ASSUME NamesAssumption == NotFound \notin Meshes /\ NoBackend \notin Builtin

\* pc is the next call of the store; id tells key pairs apart; pending are
\* the listed items still to delete; stack has, for every nested deletion of
\* the mesh, the types still to list.
Idle == [op |-> "none", pc |-> "done", id |-> 0, backend |-> NoBackend, version |-> 0,
         pending |-> {}, stack |-> << >>, result |-> "ok"]

Requests == [op      : {"none", "create", "update", "delete", "policy"},
             pc      : {"done", "current", "getCert", "getKey", "createCert", "createKey", "persist",
                        "deleteMesh", "listSecrets", "deleteSecrets", "types", "ensureMesh",
                        "createPolicy", "deletePolicy"},
             id      : Nat, backend : Backends, version : Nat,
             pending : SUBSET Secrets, stack : Seq(SUBSET Types),
             result  : {"ok", "error", "notfound"}]

Init ==
    /\ mesh = NotFound
    /\ secrets = [s \in Secrets |-> 0]
    /\ policy = FALSE
    /\ request = [w \in Workers |-> Idle]
    /\ requests = 0
    /\ overlapped = FALSE
    /\ halted = FALSE
-----------------------------------------------------------------------------
Running(w) == request[w].pc # "done"

\* A worker takes a request.
Begin(w, r) ==
    /\ ~Running(w)
    /\ requests < MaxRequests
    /\ requests' = requests + 1
    /\ request' = [request EXCEPT ![w] = [r EXCEPT !.id = requests + 1]]
    /\ overlapped' = (overlapped \/ \E o \in Workers \ {w} :
                          Running(o) /\ "delete" \in {r.op, request[o].op})
    /\ UNCHANGED <<storeVars, halted>>

\* The next call of the request of w.
Goto(w, pc) == request' = [request EXCEPT ![w].pc = pc]

Return(w, result) == request' = [request EXCEPT ![w].pc = "done", ![w].result = result]

\* A call of the store fails, or the control plane dies: the request ends.
Fail(w) ==
    /\ Running(w)
    /\ Return(w, "error")
    /\ halted' = (halted \/ request[w].op = "delete")
    /\ UNCHANGED <<storeVars, requests, overlapped>>
-----------------------------------------------------------------------------
(* createOrUpdateResource, for the mesh                                     *)

\* EnsureEnabledCA goes on with the builtin manager or with nothing.
EnsureFirst(b) == IF b \in Builtin THEN "getCert" ELSE "persist"

\* Creates the mesh if it is not there, and else updates what it has read.
PutMesh(w, b) ==
    Begin(w, IF mesh = NotFound
             THEN [Idle EXCEPT !.op = "create", !.backend = b, !.pc = EnsureFirst(b)]
             ELSE [Idle EXCEPT !.op = "update", !.backend = b, !.pc = "current",
                               !.version = mesh.version])

\* On start-up the control plane creates the default mesh if there is none.
CreateDefaultMesh(w) ==
    /\ mesh = NotFound
    /\ Begin(w, [Idle EXCEPT !.op = "create", !.backend = NoBackend, !.pc = "persist"])

\* validateMTLSBackendChange
ChangesCA(old, new) == NoBackend \notin {old, new} /\ old # new

\* Update reads the mesh under the version of the request and validates.
GetCurrent(w) ==
    /\ request[w].pc = "current"
    /\ IF mesh = NotFound THEN Return(w, "notfound")
       ELSE IF \/ mesh.version # request[w].version
               \/ ChangesCA(mesh.backend, request[w].backend)
            THEN Return(w, "error")
            ELSE Goto(w, EnsureFirst(request[w].backend))
    /\ UNCHANGED <<storeVars, requests, ghosts>>

Secret(w, kind) == <<request[w].backend, kind>>
Exists(s) == secrets[s] # 0

\* Mutant: a certificate is taken for a CA.
GetCertOnly(w) ==
    /\ request[w].pc = "getCert"
    /\ Goto(w, IF Exists(Secret(w, "cert")) THEN "persist" ELSE "createCert")
    /\ UNCHANGED <<storeVars, requests, ghosts>>

\* builtinCaManager.getCa
GetCert(w) ==
    /\ request[w].pc = "getCert"
    /\ Goto(w, IF Exists(Secret(w, "cert")) THEN "getKey" ELSE "createCert")
    /\ UNCHANGED <<storeVars, requests, ghosts>>

GetKey(w) ==
    /\ request[w].pc = "getKey"
    /\ Goto(w, IF Exists(Secret(w, "key")) THEN "persist" ELSE "createCert")
    /\ UNCHANGED <<storeVars, requests, ghosts>>

\* secretManager.Create fails if the secret exists.
CreateSecret(w, kind, pc) ==
    /\ IF Exists(Secret(w, kind))
       THEN Return(w, "error") /\ UNCHANGED secrets
       ELSE /\ secrets' = [secrets EXCEPT ![Secret(w, kind)] = request[w].id]
            /\ Goto(w, pc)
    /\ UNCHANGED <<mesh, policy, requests, ghosts>>

\* Mutant: a certificate that exists does not stop the creation of the key.
CreateCertAnyway(w) ==
    /\ request[w].pc = "createCert"
    /\ secrets' = [secrets EXCEPT ![Secret(w, "cert")] = IF @ = 0 THEN request[w].id ELSE @]
    /\ Goto(w, "createKey")
    /\ UNCHANGED <<mesh, policy, requests, ghosts>>

\* builtinCaManager.create
CreateCert(w) == request[w].pc = "createCert" /\ CreateSecret(w, "cert", "createKey")
CreateKey(w)  == request[w].pc = "createKey" /\ CreateSecret(w, "key", "persist")

\* Mutant: the versions are not compared.
AcceptsAnyVersion(r) == (mesh = NotFound) = (r.op = "create")

\* What the store checks: Create wants no mesh, Update the one that was read.
Accepts(r) == IF mesh = NotFound THEN r.op = "create"
              ELSE r.op = "update" /\ mesh.version = r.version

\* store.Create or store.Update
Persist(w) ==
    LET r == request[w] IN
    /\ r.pc = "persist"
    /\ IF Accepts(r)
       THEN /\ mesh' = [version |-> IF r.op = "create" THEN 0 ELSE r.version + 1,
                        backend |-> r.backend]
            /\ Return(w, "ok")
       ELSE Return(w, "error") /\ UNCHANGED mesh
    /\ UNCHANGED <<secrets, policy, requests, ghosts>>
-----------------------------------------------------------------------------
(* meshManager.Delete                                                       *)

DeleteMesh(w) == Begin(w, [Idle EXCEPT !.op = "delete", !.pc = "deleteMesh"])

\* Mutant: a mesh that is gone ends the deletion.
DeleteOnlyFound(w) ==
    /\ request[w].pc = "deleteMesh"
    /\ IF mesh = NotFound /\ request[w].stack = << >> THEN Return(w, "notfound")
       ELSE request' = [request EXCEPT ![w].pc = "listSecrets", ![w].stack = Append(@, Types)]
    /\ mesh' = NotFound
    /\ UNCHANGED <<secrets, policy, requests, ghosts>>

\* A mesh that is gone is remembered; what it left behind is still deleted:
\* its secrets, then the items of all types.  In a nested deletion a missing
\* mesh is no error.
DeleteFirst(w) ==
    /\ request[w].pc = "deleteMesh"
    /\ request' = [request EXCEPT ![w].pc = "listSecrets",
           ![w].stack = Append(@, Types),
           ![w].result = IF mesh = NotFound /\ request[w].stack = << >> THEN "notfound" ELSE @]
    /\ mesh' = NotFound
    /\ UNCHANGED <<secrets, policy, requests, ghosts>>

\* DeleteAll of the secrets: the list ...
ListSecrets(w) ==
    /\ request[w].pc = "listSecrets"
    /\ request' = [request EXCEPT ![w].pc = "deleteSecrets",
                                  ![w].pending = {s \in Secrets : Exists(s)}]
    /\ UNCHANGED <<storeVars, requests, ghosts>>

\* ... and its items, one by one, gone or not.
DeleteSecrets(w) ==
    /\ request[w].pc = "deleteSecrets"
    /\ \/ \E s \in request[w].pending :
             /\ secrets' = [secrets EXCEPT ![s] = 0]
             /\ request' = [request EXCEPT ![w].pending = @ \ {s}]
       \/ /\ request[w].pending = {}
          /\ Goto(w, "types")
          /\ UNCHANGED secrets
    /\ UNCHANGED <<mesh, policy, requests, ghosts>>

\* otherManagers.DeleteAll of the next type, in any order.  An item of type
\* Mesh is deleted by meshManager.Delete: should the mesh exist again, the
\* deletion starts anew within the one that met it.
DeleteAll(w, type) ==
    LET top == Len(request[w].stack)
        pc  == CASE type = "Secret" -> "listSecrets"
                 [] type = "Policy" /\ policy -> "deletePolicy"
                 [] type = "Mesh" /\ mesh # NotFound -> "deleteMesh"
                 [] OTHER -> "types"
    IN  /\ request[w].pc = "types"
        /\ type \in request[w].stack[top]
        /\ request' = [request EXCEPT ![w].stack[top] = @ \ {type}, ![w].pc = pc]
        /\ UNCHANGED <<storeVars, requests, ghosts>>

\* All types are done: back to the deletion around this one, or to the caller.
Deleted(w) ==
    LET top == Len(request[w].stack) IN
    /\ request[w].pc = "types"
    /\ request[w].stack[top] = {}
    /\ request' = [request EXCEPT ![w].stack = SubSeq(@, 1, top - 1),
                                  ![w].pc = IF top = 1 THEN "done" ELSE "types"]
    /\ UNCHANGED <<storeVars, requests, ghosts>>
-----------------------------------------------------------------------------
(* Other resources of the mesh                                              *)

\* createOrUpdateResource, for a resource that is not there yet.
PutPolicy(w) == ~policy /\ Begin(w, [Idle EXCEPT !.op = "policy", !.pc = "ensureMesh"])

ensureMeshExists(w) ==
    /\ request[w].pc = "ensureMesh"
    /\ \/ mesh = NotFound /\ Return(w, "error")
       \/ mesh # NotFound /\ Goto(w, "createPolicy")
    /\ UNCHANGED <<storeVars, requests, ghosts>>

CreatePolicy(w) ==
    /\ request[w].pc = "createPolicy"
    /\ Return(w, IF policy THEN "error" ELSE "ok")
    /\ policy' = TRUE
    /\ UNCHANGED <<mesh, secrets, requests, ghosts>>

RemovePolicy(w) == Begin(w, [Idle EXCEPT !.op = "policy", !.pc = "deletePolicy"])

\* The resource is deleted on request or with its mesh.
DeletePolicy(w) ==
    /\ request[w].pc = "deletePolicy"
    /\ IF request[w].op = "delete" THEN Goto(w, "types")
       ELSE Return(w, IF policy THEN "ok" ELSE "notfound")
    /\ policy' = FALSE
    /\ UNCHANGED <<mesh, secrets, requests, ghosts>>
-----------------------------------------------------------------------------
Put(w)    == \/ GetCurrent(w) \/ GetCert(w) \/ GetKey(w)
             \/ CreateCert(w) \/ CreateKey(w) \/ Persist(w)
Delete(w) == \/ DeleteFirst(w) \/ ListSecrets(w) \/ DeleteSecrets(w) \/ Deleted(w)
             \/ \E type \in Types : DeleteAll(w, type)
Policy(w) == ensureMeshExists(w) \/ CreatePolicy(w) \/ DeletePolicy(w)

Next == \E w \in Workers :
    \/ \E b \in Backends : PutMesh(w, b)
    \/ CreateDefaultMesh(w) \/ DeleteMesh(w) \/ PutPolicy(w) \/ RemovePolicy(w)
    \/ Put(w) \/ Delete(w) \/ Policy(w)
    \/ Fail(w)

Spec == Init /\ [][Next]_vars
-----------------------------------------------------------------------------
(* Properties.                                                             *)

\* The types; the builtin manager is asked for its own backends only.
TypeOK ==
    /\ mesh \in Meshes \cup {NotFound}
    /\ secrets \in [Secrets -> Nat]
    /\ policy \in BOOLEAN
    /\ requests \in 0 .. MaxRequests
    /\ overlapped \in BOOLEAN
    /\ halted \in BOOLEAN
    /\ request \in [Workers -> Requests]
    /\ \A w \in Workers :
          request[w].pc \in {"getCert", "getKey", "createCert", "createKey"} =>
              request[w].backend \in Builtin

Complete(b) == Exists(<<b, "cert">>) /\ Exists(<<b, "key">>)

\* "delete Mesh first to avoid a state where a Mesh could exist without
\* secrets": as long as no deletion of the mesh runs at the same time as
\* another request, a mesh with a builtin CA has its secrets, wherever a
\* request fails and whatever the next one does.
MeshHasCA ==
    ~overlapped /\ mesh # NotFound /\ mesh.backend \in Builtin => Complete(mesh.backend)

Matches(b) == secrets[<<b, "cert">>] = secrets[<<b, "key">>]

\* The certificate and the key of a CA belong together although they are
\* two secrets that concurrent requests create one after the other, each
\* request a pair of its own, unless a deletion removes only one of them.
KeyMatchesCert ==
    ~overlapped /\ ~halted => \A b \in Builtin : Complete(b) => Matches(b)

\* "Ensure ensures that CA of given name is available" (core/ca): a mesh with
\* a builtin CA has a certificate and the key of that certificate.
CAIsAvailable ==
    ~overlapped /\ mesh # NotFound /\ mesh.backend \in Builtin => Matches(mesh.backend)

\* "Changing CA when mTLS is enabled is forbidden": no step takes a mesh from
\* one backend to another, although the backend is validated against what
\* was read several calls before it is stored.
NeverChangesCA ==
    [][~overlapped' /\ mesh # NotFound /\ mesh' # NotFound =>
          mesh'.backend \in {mesh.backend, NoBackend} \/ mesh.backend = NoBackend]_mesh

\* "even if removal of secrets fails later on, delete operation can be safely
\* tried again": when Delete answers that the mesh is deleted or not found,
\* nothing of the mesh is left, whatever earlier deletions left behind.
DeletesEverything ==
    [][\A w \in Workers :
          request[w].op = "delete" /\ Running(w) /\ request'[w].pc = "done"
            /\ request'[w].result # "error" /\ ~overlapped =>
          mesh' = NotFound /\ ~policy' /\ \A s \in Secrets : secrets'[s] = 0]_vars
=============================================================================
