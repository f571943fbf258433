-------------------------- MODULE SecretDiscovery --------------------------
(***************************************************************************)
(* The secret discovery server: who may have which secret, and the server  *)
(* side of one stream.  cp is the running control plane that answers: its  *)
(* configuration cp.cfg and the signing key cp.sdsKey its authenticator    *)
(* has kept since it started.  A token is [key, mesh, name, ns], signed    *)
(* with key; a service account token is [user], the parts of the user name *)
(* the TokenReview API finds.                                              *)
(***************************************************************************)
EXTENDS EnvoyBootstrap

MeshCaResource == "mesh_ca"
IdentityCertResource == "identity_cert"
Resources == {MeshCaResource, IdentityCertResource}

NoKey == << >>
NoToken == [key |-> NoKey]
Refused == [ok |-> FALSE]

------------------------------------------------------------------------------
(* Tokens *)

TokenGenerate(key, id) == [key |-> key, mesh |-> id.mesh, name |-> id.name, ns |-> id.ns]
TokenValidate(key, token) == token # NoToken /\ token.key = key

\* As reviewToken, without the comparison of the meshes.
NameReviewed(cp, id, token) == TokenValidate(cp.sdsKey, token) /\ token.name = id.name

reviewToken(cp, id, token) ==
    /\ TokenValidate(cp.sdsKey, token)
    /\ token.name = id.name
    /\ token.mesh = id.mesh

reviewServiceAccount(id, token) ==
    /\ token # NoToken
    /\ Len(token.user) = 4
    /\ token.user[1] = "system" /\ token.user[2] = "serviceaccount"
    /\ token.user[3] = id.ns

GetDataplaneIdentity(id, services) ==
    IF services = << >> THEN Refused ELSE [ok |-> TRUE, mesh |-> id.mesh, service |-> services[1]]

DataplaneIdentity(objs, id) ==
    IF id \in DOMAIN objs.dataplane THEN GetDataplaneIdentity(id, objs.dataplane[id]) ELSE Refused

KubeAuthenticate(objs, id, token) ==
    IF reviewServiceAccount(id, token) THEN DataplaneIdentity(objs, id) ELSE Refused
UniversalAuthenticate(cp, objs, id, token) ==
    IF reviewToken(cp, id, token) THEN DataplaneIdentity(objs, id) ELSE Refused
NoopAuthenticate(objs, id) == DataplaneIdentity(objs, id)

\* The authenticator looks at the deprecated section of the configuration.
NewUniversalAuthenticator(cp, objs, id, token) ==
    IF cp.cfg.tokenServer.enabled THEN UniversalAuthenticate(cp, objs, id, token)
    ELSE NoopAuthenticate(objs, id)

DefaultAuthenticator(cp, objs, id, token) ==
    IF cp.cfg.env = "kubernetes" THEN KubeAuthenticate(objs, id, token)
    ELSE NewUniversalAuthenticator(cp, objs, id, token)

------------------------------------------------------------------------------
(* Secrets *)

\* A mesh without an enabled backend has mtls = "".
Backend(objs, mesh) == IF mesh \in DOMAIN objs.mesh THEN objs.mesh[mesh].mtls ELSE ""

MeshCaGet(objs, requestor) ==
    LET backend == Backend(objs, requestor.mesh)
    IN  IF backend = "" THEN Refused
        ELSE [ok |-> TRUE, secret |-> [mesh |-> requestor.mesh, backend |-> backend]]

IdentityCertGet(objs, requestor) ==
    LET backend == Backend(objs, requestor.mesh)
    IN  IF backend = "" THEN Refused
        ELSE [ok |-> TRUE, secret |-> [mesh |-> requestor.mesh, backend |-> backend,
                                       service |-> requestor.service]]

Handle(cp, objs, resource, id, token) ==
    LET requestor == DefaultAuthenticator(cp, objs, id, token)
    IN  IF resource = MeshCaResource THEN MeshCaGet(objs, [mesh |-> id.mesh])
        ELSE IF resource = IdentityCertResource /\ requestor.ok THEN IdentityCertGet(objs, requestor)
        ELSE Refused

------------------------------------------------------------------------------
(* The stream: its server side is [resource, nonce], the last nonce being  *)
(* the number of responses; an error ends the stream.                      *)

validateSdsRequest(st, q) ==
    Len(q.names) = 1 /\ q.names[1] # "" /\ st.resource \in {"", q.names[1]}

createResponse(secret, nonce) == [secret |-> secret, nonce |-> nonce]

\* As process, answering acknowledgements too.
AnswerAll(cp, objs, st, q, id, token) ==
    LET h == Handle(cp, objs, q.names[1], id, token)
        n == st.nonce + 1
    IN  IF q.names = << >> THEN [err |-> FALSE, st |-> st, out |-> << >>]
        ELSE IF ~validateSdsRequest(st, q) \/ ~h.ok THEN [err |-> TRUE]
        ELSE [err |-> FALSE, st |-> [resource |-> q.names[1], nonce |-> n],
              out |-> <<createResponse(h.secret, n)>>]

process(cp, objs, st, q, id, token) ==
    LET h == Handle(cp, objs, q.names[1], id, token)
        n == st.nonce + 1
    IN  IF q.names = << >> THEN [err |-> FALSE, st |-> st, out |-> << >>]
        ELSE IF ~validateSdsRequest(st, q) THEN [err |-> TRUE]
        ELSE IF st.nonce # 0 /\ q.nonce = st.nonce
             THEN [err |-> FALSE, st |-> [st EXCEPT !.resource = q.names[1]], out |-> << >>]
        ELSE IF ~h.ok THEN [err |-> TRUE]
        ELSE [err |-> FALSE, st |-> [resource |-> q.names[1], nonce |-> n],
              out |-> <<createResponse(h.secret, n)>>]
=============================================================================
