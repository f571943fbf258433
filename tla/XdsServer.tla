----------------------------- MODULE XdsServer -----------------------------
(***************************************************************************)
(* An ADS stream between the xDS server and one Envoy: server.process, the *)
(* snapshot cache, and the Envoy the protocol is for.  The stream carries  *)
(* clusters, asked for without names, and endpoints, asked for by the      *)
(* names of the clusters Envoy knows; the other types of the stream are    *)
(* served exactly as clusters are.                                         *)
(*                                                                         *)
(* The server only asks whether a nonce is the last one it sent for the    *)
(* type, so a nonce is that answer: a message, or Envoy, holds the current *)
(* nonce of a type or it does not.  A version is the number of the         *)
(* snapshot that brought it; there are MaxVersion of them.                 *)
(***************************************************************************)
EXTENDS SnapshotCache, Naturals, Sequences

CONSTANTS
    Plans,          \* what happens around the stream: a plan has the contents
                    \* the generators produce ([Types -> items]), a bound on how
                    \* often the connection breaks, and says whether clusters
                    \* only change in place
    Rejects(_, _),  \* whether Envoy rejects the items of a type
    NotFound,       \* the node has no snapshot
    MaxVersion      \* bound on the number of snapshots

Types == {"clusters", "endpoints"}

ASSUME BoundsAssumption ==
    /\ ADS \in BOOLEAN
    /\ MaxVersion \in Nat
    /\ \A p \in Plans : \A c \in p.configs, t \in Types :
          c[t] = [n \in DOMAIN c[t] |-> c[t][n]]
    /\ \A p \in Plans : p.reconnects \in Nat /\ p.fixed \in BOOLEAN

VARIABLES
    plan,           \* the plan that is followed
    snapshot,       \* the cache entry of the node, or NotFound
    version,        \* the last version drawn
    connected,      \* whether the stream is open
    breaks,         \* how often the connection broke
    watch,          \* channel of the latest watch of each type
    sent,           \* whether the last nonce of a type is not ""
    nonceAcked,     \* endpointNonceAcked
    requests,       \* requests on the wire, oldest first
    responses,      \* responses on the wire, oldest first
    envoy           \* Envoy: accepted versions and items, whether it holds
                    \* the current nonces, clusters waiting for endpoints

serverVars == <<watch, sent, nonceAcked>>
vars == <<plan, snapshot, version, connected, breaks, watch, sent, nonceAcked,
          requests, responses, envoy>>

NoItems == << >>
EmptyVersion == 0
Versions == 0 .. MaxVersion

Init ==
    /\ plan \in Plans
    /\ snapshot = NotFound
    /\ version = EmptyVersion
    /\ connected = FALSE
    /\ breaks = 0
    /\ watch = [t \in Types |-> NoWatch]
    /\ sent = [t \in Types |-> FALSE]
    /\ nonceAcked = FALSE
    /\ requests = << >>
    /\ responses = << >>
    /\ envoy = [version |-> [t \in Types |-> EmptyVersion],
                items   |-> [t \in Types |-> NoItems],
                current |-> [t \in Types |-> FALSE],
                warming |-> {}]
-----------------------------------------------------------------------------
(* The reconciler puts a new snapshot into the cache, as DataplaneSync      *)
(* describes, and the cache answers the open watches of the node.           *)

Current(t) == IF snapshot = NotFound THEN [version |-> EmptyVersion, items |-> NoItems]
              ELSE snapshot[t]

\* Mutant: only the names of the items decide whether a version is kept.
SetSnapshotNamesOnly(config) ==
    LET new == [t \in Types |->
                  [version |-> IF DOMAIN config[t] = DOMAIN Current(t).items
                               THEN Current(t).version ELSE version + 1,
                   items |-> config[t]]]
    IN  /\ version < MaxVersion
        /\ new # snapshot
        /\ version' = version + 1
        /\ snapshot' = new
        /\ watch' = [t \in Types |-> Trigger(watch[t], new)]
        /\ UNCHANGED <<plan, connected, breaks, sent, nonceAcked, requests, responses, envoy>>

SetSnapshot(config) ==
    LET new == [t \in Types |->
                  [version |-> IF config[t] = Current(t).items THEN Current(t).version
                               ELSE version + 1,
                   items |-> config[t]]]
    IN  /\ version < MaxVersion
        /\ new # snapshot
        /\ version' = version + 1
        /\ snapshot' = new
        /\ watch' = [t \in Types |-> Trigger(watch[t], new)]
        /\ UNCHANGED <<plan, connected, breaks, sent, nonceAcked, requests, responses, envoy>>
-----------------------------------------------------------------------------
(* server.process                                                           *)

\* peekResponse: what the cache would answer to a request without a version.
PeekSkips(req) ==
    FetchSkips([req EXCEPT !.version = EmptyVersion], snapshot # NotFound, snapshot)

scheduleResponse(req) == Responded(createResponse(req, snapshot[req.type]))

\* Mutant: endpoints are served as the other types are.
OnRequestNoPeek(req) ==
    /\ watch' = [watch EXCEPT ![req.type] = CreateWatch(req, snapshot # NotFound, snapshot)]
    /\ UNCHANGED nonceAcked

\* The request case of the select loop, for a request that is not stale.
OnRequest(req) ==
    /\ watch' = [watch EXCEPT ![req.type] =
           IF req.type = "endpoints" /\ nonceAcked /\ ~PeekSkips(req)
           THEN scheduleResponse(req)
           ELSE CreateWatch(req, snapshot # NotFound, snapshot)]
    /\ nonceAcked' = IF req.type # "endpoints" THEN nonceAcked
                     ELSE sent["endpoints"] /\ req.current

Stale(req) == sent[req.type] /\ ~req.current

Receive ==
    /\ connected
    /\ requests # << >>
    /\ requests' = Tail(requests)
    /\ \/ /\ Stale(Head(requests))
          /\ UNCHANGED <<watch, nonceAcked>>
       \/ /\ ~Stale(Head(requests))
          /\ OnRequest(Head(requests))
    /\ UNCHANGED <<plan, snapshot, version, connected, breaks, sent, responses, envoy>>

\* What carried the last nonce of type t does not any more.
Outdated(messages, t) ==
    [i \in DOMAIN messages |->
        [messages[i] EXCEPT !.current = @ /\ messages[i].type # t]]

\* The message send() makes of a response of the cache, with a new nonce.
DiscoveryResponse(resp) == [type |-> resp.type, version |-> resp.version, items |-> resp.items,
                            current |-> TRUE]

\* Mutant: a response about endpoints leaves endpointNonceAcked set.
SendNoReset(t) ==
    /\ connected
    /\ watch[t].state = "responded"
    /\ responses' = Append(Outdated(responses, t), DiscoveryResponse(watch[t].response))
    /\ requests' = Outdated(requests, t)
    /\ envoy' = [envoy EXCEPT !.current[t] = FALSE]
    /\ sent' = [sent EXCEPT ![t] = TRUE]
    /\ watch' = [watch EXCEPT ![t] = NoWatch]
    /\ UNCHANGED <<plan, snapshot, version, connected, breaks, nonceAcked>>

\* A response case of the select loop.
Send(t) ==
    /\ connected
    /\ watch[t].state = "responded"
    /\ responses' = Append(Outdated(responses, t), DiscoveryResponse(watch[t].response))
    /\ requests' = Outdated(requests, t)
    /\ envoy' = [envoy EXCEPT !.current[t] = FALSE]
    /\ sent' = [sent EXCEPT ![t] = TRUE]
    /\ nonceAcked' = (nonceAcked /\ t # "endpoints")
    /\ watch' = [watch EXCEPT ![t] = NoWatch]
    /\ UNCHANGED <<plan, snapshot, version, connected, breaks>>
-----------------------------------------------------------------------------
(* Envoy.  It keeps what it has accepted when the connection breaks.        *)

\* The names asked for: all clusters, and the endpoints of the known ones.
NamesOf(t, e) == IF t = "clusters" THEN {} ELSE DOMAIN e.items["clusters"]

RequestOf(t, e) == [type |-> t, version |-> e.version[t], names |-> NamesOf(t, e),
                    current |-> e.current[t]]

Connect ==
    /\ ~connected
    /\ connected' = TRUE
    /\ requests' = IF NamesOf("endpoints", envoy) = {}
                   THEN <<RequestOf("clusters", envoy)>>
                   ELSE <<RequestOf("clusters", envoy), RequestOf("endpoints", envoy)>>
    /\ UNCHANGED <<plan, snapshot, version, breaks, serverVars, responses, envoy>>

\* The stream breaks, on both sides: messages are lost, process() returns and
\* cancels its watches, and nonces mean nothing any more.
Disconnect ==
    /\ connected
    /\ breaks < plan.reconnects
    /\ breaks' = breaks + 1
    /\ connected' = FALSE
    /\ requests' = << >>
    /\ responses' = << >>
    /\ watch' = [t \in Types |-> NoWatch]
    /\ sent' = [t \in Types |-> FALSE]
    /\ nonceAcked' = FALSE
    /\ envoy' = [envoy EXCEPT !.current = [t \in Types |-> FALSE]]
    /\ UNCHANGED <<plan, snapshot, version>>

\* A rejected response is answered with the version accepted before.
Reject ==
    LET r == Head(responses)
        e == [envoy EXCEPT !.current[r.type] = r.current]
    IN  /\ responses # << >>
        /\ Rejects(r.type, r.items)
        /\ envoy' = e
        /\ requests' = Append(requests, RequestOf(r.type, e))
        /\ responses' = Tail(responses)
        /\ UNCHANGED <<plan, snapshot, version, connected, breaks, serverVars>>

\* A new or updated cluster is warming until a response names its endpoints;
\* when the known clusters change Envoy asks for endpoints again.
AcceptClusters ==
    LET r == Head(responses)
        old == envoy.items["clusters"]
        updated == {n \in DOMAIN r.items : n \notin DOMAIN old \/ r.items[n] # old[n]}
        kept == Restrict(envoy.items["endpoints"],
                         DOMAIN envoy.items["endpoints"] \cap DOMAIN r.items)
        e == [envoy EXCEPT !.version["clusters"] = r.version,
                           !.items["clusters"] = r.items,
                           !.items["endpoints"] = kept,
                           !.current["clusters"] = r.current,
                           !.warming = (envoy.warming \cap DOMAIN r.items) \cup updated]
    IN  /\ responses # << >>
        /\ r.type = "clusters"
        /\ ~Rejects(r.type, r.items)
        /\ envoy' = e
        /\ requests' = requests \o
                         (IF r.items = old THEN << >> ELSE <<RequestOf("endpoints", e)>>)
                       \o <<RequestOf("clusters", e)>>
        /\ responses' = Tail(responses)
        /\ UNCHANGED <<plan, snapshot, version, connected, breaks, serverVars>>

Updated(old, new) ==
    [n \in DOMAIN old \cup DOMAIN new |-> IF n \in DOMAIN new THEN new[n] ELSE old[n]]

\* Endpoints that a response does not name stay as they are.
AcceptEndpoints ==
    LET r == Head(responses)
        known == Restrict(r.items, DOMAIN r.items \cap DOMAIN envoy.items["clusters"])
        e == [envoy EXCEPT !.version["endpoints"] = r.version,
                           !.items["endpoints"] = Updated(envoy.items["endpoints"], known),
                           !.current["endpoints"] = r.current,
                           !.warming = @ \ DOMAIN r.items]
    IN  /\ responses # << >>
        /\ r.type = "endpoints"
        /\ ~Rejects(r.type, r.items)
        /\ envoy' = e
        /\ requests' = Append(requests, RequestOf("endpoints", e))
        /\ responses' = Tail(responses)
        /\ UNCHANGED <<plan, snapshot, version, connected, breaks, serverVars>>
-----------------------------------------------------------------------------
Server == Receive \/ \E t \in Types : Send(t)
Envoy  == Reject \/ AcceptClusters \/ AcceptEndpoints

Next ==
    \/ \E config \in plan.configs : SetSnapshot(config)
    \/ Server
    \/ Connect
    \/ Disconnect
    \/ Envoy

Fairness ==
    /\ WF_vars(Receive)
    /\ \A t \in Types : WF_vars(Send(t))
    /\ WF_vars(Connect)
    /\ WF_vars(Envoy)

Spec == Init /\ [][Next]_vars /\ Fairness
-----------------------------------------------------------------------------
(* Properties.                                                             *)

Items == UNION {Range(c) : c \in plan.configs}

\* Types; the watch kept for a type is a watch for that type.
TypeOK ==
    /\ \/ snapshot = NotFound
       \/ snapshot \in [Types -> [version : Versions, items : Items \cup {NoItems}]]
    /\ version \in Versions
    /\ connected \in BOOLEAN
    /\ breaks \in 0 .. plan.reconnects
    /\ \A t \in Types : CASE watch[t].state = "none"      -> TRUE
                          [] watch[t].state = "open"      -> watch[t].request.type = t
                          [] watch[t].state = "responded" -> watch[t].response.type = t
    /\ sent \in [Types -> BOOLEAN]
    /\ nonceAcked \in BOOLEAN
    /\ \A r \in Range(requests) \cup Range(responses) :
          r.type \in Types /\ r.version \in Versions
    /\ envoy.warming \subseteq DOMAIN envoy.items["clusters"]

\* Envoy never takes old endpoints for those of the cached version: for each
\* name it knows that the snapshot has, equal versions mean equal endpoints,
\* although responses are filtered by the names of older requests and
\* forced ones (peekResponse) carry only a part of their version.
NoStaleEndpoints ==
    snapshot # NotFound =>
    LET t == "endpoints" IN
    envoy.version[t] = snapshot[t].version =>
        \A n \in DOMAIN envoy.items[t] \cap DOMAIN snapshot[t].items :
            envoy.items[t][n] = snapshot[t].items[n]

InputsSettle == <>[][FALSE]_<<snapshot, connected>>

Acceptable == snapshot # NotFound /\ \A t \in Types : ~Rejects(t, snapshot[t].items)

\* Once snapshots and connection settle, Envoy ends up with the clusters of
\* the cache, whatever was rejected, stale or lost on the way.  As long as
\* clusters only change in place on one connection it also has their endpoints
\* and none of them warms for ever: one that was created or updated gets its
\* endpoints even if their version is the one Envoy has (peekResponse).
\* (Where clusters come and go the endpoints may be missing: in ADS mode a
\* request that does not name all endpoints of the snapshot is dropped by
\* respond in the snapshot cache, and Envoy need not ask again.)
EventuallyCurrent ==
    InputsSettle =>
        <>[](Acceptable =>
                /\ envoy.items["clusters"] = snapshot["clusters"].items
                /\ plan.fixed => /\ envoy.items["endpoints"] = snapshot["endpoints"].items
                                 /\ envoy.warming = {})

\* The stream falls silent: an ACK is not taken for the request of a warming
\* cluster, which would be answered, acknowledged and answered again.
EventuallyQuiet ==
    InputsSettle => <>[](Acceptable => requests = << >> /\ responses = << >>)
=============================================================================
