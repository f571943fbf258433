----------------------------- MODULE ResourceApi -----------------------------
(***************************************************************************)
(* The life of resources: users of kumactl change and read them through    *)
(* the REST API, the control plane reads them through its cache, and both  *)
(* meet in the store.                                                      *)
(***************************************************************************)
EXTENDS Kumactl, CachedManager

CONSTANT Deployments   \* ways to deploy and to use the control plane

\* The configuration file that kumactl finds is one it has written.
ASSUME ConfigAssumption == \A d \in Deployments : ConfigOK(d.configFile)

allVars == <<vars, cacheVars>>

Init ==
    /\ \E d \in Deployments :
          env = d.env /\ store = d.store /\ configFile = d.configFile
    /\ requests = [slot \in Slots |-> Idle]
    /\ users = [u \in Users |-> Ready(env.budget[u])]
    /\ seen = [u \in Users |-> Unseen]
    /\ faults = [timeouts |-> 0, kubectl |-> 0]
    /\ CacheInit

\* What the other actions leave of the caching manager.
Elsewhere == Remember /\ UNCHANGED <<cache, readers, now>>

Client == \/ \E u \in Users : \/ \E c \in env.commands[u] : Start(u, c) \/ Load(u, c)
                              \/ Answer(u) \/ Timeout(u) \/ Truncate(u) \/ Save(u) \/ Killed(u)
          \/ Kubectl

Server == \E slot \in Slots : ServerStep(slot) \/ Abandoned(slot)

Reading ==
    /\ UNCHANGED vars
    /\ \/ Tick
       \/ \E r \in Readers : \/ \E k \in env.cached : Lookup(r, k)
                             \/ Fetch(r) \/ SetDefault(r) \/ Return(r)

\* Nobody has anything left to do.
Done ==
    /\ \A u \in Users : users[u].pc = "ready" /\ users[u].left = 0
    /\ \A slot \in Slots : requests[slot].pc = "idle"
    /\ UNCHANGED allVars

Next == ((Client \/ Server) /\ Elsewhere) \/ Reading \/ Done

Spec == Init /\ [][Next]_allVars
-----------------------------------------------------------------------------
\* Types: a request has an answer when it is done, and holds what it is about to
\* update; a user who waits has a request.
TypeOK ==
    /\ backend \in {"memory", "postgres", "kubernetes"}
    /\ \A i \in DOMAIN store.records :
          /\ store.records[i].version \in Nat /\ store.records[i].mesh # 0
          /\ store.records[i].type \in {r.type : r \in Resources}
    /\ \A slot \in Slots :
          /\ requests[slot].op \in Ops
          /\ requests[slot].pc \in {"idle", "start", "create", "insert", "update", "remove",
                                    "insights", "done"}
          /\ requests[slot].pc = "done" <=> requests[slot].status # 0
          /\ requests[slot].pc = "update" => Len(requests[slot].held) = 1
    /\ \A u \in Users :
          /\ users[u].pc \in {"ready", "wait", "edit", "save"}
          /\ users[u].pc = "wait" <=> Len(users[u].slot) = 1
    /\ \A r \in Readers : readers[r].pc \in {"rest", "miss", "set", "hit"}

\* What a client can see of the store.
Content == {[type |-> r.type, mesh |-> r.mesh, name |-> r.name, spec |-> r.spec] :
               r \in Range(store.records)}

Outcome(q) ==
    CASE q.pc = "idle"                     -> "idle"
      [] q.pc \notin {"idle", "done"}      -> "pending"
      [] q.pc = "done" /\ q.status < 300   -> "accepted"
      [] q.pc = "done" /\ q.status >= 300  -> "refused"

\* The contract says nothing of overviews, which are two reads, and of the
\* pages after the first on Kubernetes, which are of the first one's snapshot.
Unspecified(q) ==
    \/ q.op \in {"inspect", "overviews"}
    \/ q.op = "list" /\ backend = "kubernetes" /\ q.offset # NoOffset

Calls == [slot \in Slots |->
    LET q == requests[slot] IN
    [state  |-> Outcome(q),
     op     |-> IF Unspecified(q) THEN "other" ELSE q.op,
     type   |-> q.type, mesh |-> q.mesh, name |-> q.name,
     spec   |-> IF q.op = "put" THEN q.body.spec ELSE "none",
     answer |-> IF Outcome(q) # "accepted" \/ Unspecified(q) \/ q.op \in {"put", "delete"} THEN {}
                ELSE {[type |-> r.type, mesh |-> r.mesh, name |-> r.name, spec |-> r.spec] :
                         r \in Range(q.held)}]]

Contract == INSTANCE ResourceContract
    WITH content <- Content, calls <- Calls, shared <- env.kubectl # {}

\* Every request takes effect at one instant or not at all, whatever others
\* do between the steps of its handler: PUT is a read, a check of the mesh
\* and a write (createOrUpdateResource, resource_endpoints.go), and DELETE on
\* Kubernetes a read and a write, yet an accepted request has done exactly
\* what it asked for and a refused one nothing.
KeepsContract == Contract!Spec

\* What kumactl tells its user was so at some instant while the command ran:
\* apply says nothing only if the resource was as in the file, delete that it
\* is gone only if it was, get shows a spec the resource had.  Concurrent
\* users, and requests of commands that timed out long ago, do not make a
\* command lie.  The one exception is a file from a URL that answers with
\* another status than 200: apply ends without an error and without having
\* sent anything (apply.go wraps a nil error).
AnswersTrue ==
    \A u \in Users :
        LET c == users[u].cmd[1]
            views == seen[u].views
        IN  users[u].cmd # << >> /\ users[u].pc = "ready" =>
              /\ c.kind = "apply" /\ users[u].outcome = "ok" /\ c.file # "url404" => {c.spec} \in views
              /\ c.kind = "delete" /\ users[u].outcome = "ok" => {} \in views
              /\ c.kind \in {"get", "delete"} /\ users[u].outcome = "none" => {} \in views
              /\ c.kind = "get" /\ users[u].outcome = "ok" => users[u].shown \in views

\* A user who follows the offsets of the footer sees every resource that was
\* there all the time: with Kubernetes always, with memory and Postgres, whose
\* offsets count, unless a resource was deleted meanwhile.
\* kumactl inspect, which has no footer, shows them if they fit on a page;
\* on Kubernetes the pages are those of all meshes.
ListComplete ==
    \A u \in Users :
        LET c      == users[u].cmd[1]
            views  == seen[u].views
            steady == {n \in UNION views : \A v \in views : n \in v}
            others == {r \in Range(store.records) : /\ backend = "kubernetes"
                                                    /\ r.type = c.type /\ r.mesh # c.mesh}
        IN  (/\ users[u].cmd # << >> /\ users[u].pc = "ready" /\ users[u].outcome = "ok"
             /\ \/ c.kind = "list" /\ c.offset = NoOffset
                \/ /\ c.kind = "inspect" /\ ~c.gateway
                   /\ Cardinality(UNION views) + Cardinality(others) <= DefaultPageSize
             /\ backend = "kubernetes" \/ ~seen[u].dropped)
            => steady \subseteq users[u].shown

\* A value that the caching manager hands out was in the store at most the
\* expiration time and the duration of one read ago, although a slow reader
\* may write an old value over a newer one ("having old value just extends
\* propagation of new config for 1 more second", cache.go).
CacheBounded ==
    \A r \in Readers : readers[r].pc = "hit" =>
        \E l \in lastHeld : /\ l.held = <<HashCode(readers[r].key[1]), readers[r].value>>
                            /\ now - l.at <= ExpirationTime + MaxFetch

\* No sequence of config commands, of any number of processes, leaves kumactl
\* with a current context that it cannot resolve ("apparently, configuration
\* is broken", root_context.go).
ConfigUsable ==
    configFile.currentContext # 0 =>
        /\ CurrentControlPlane(configFile) # {}
        /\ \E p \in listControlPlanes(configFile) : p.active
=============================================================================
