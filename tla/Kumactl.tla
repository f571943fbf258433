------------------------------- MODULE Kumactl -------------------------------
(***************************************************************************)
(* kumactl: processes that run its commands, one after the other, against  *)
(* the REST API and their common configuration file.  A command loads the  *)
(* configuration, sends its requests and waits for the answers; when the   *)
(* HTTP client times out the command fails and the server serves the       *)
(* request on.  The processes that edit the configuration truncate the     *)
(* file and then write it.                                                 *)
(***************************************************************************)
EXTENDS ApiServer

CONSTANTS Users, MaxKubectl

VARIABLES users,       \* the kumactl process of each user
          configFile,
          seen,        \* history: what the store held while a command ran
          faults       \* how many timeouts, kills and kubectl writes so far

vars == <<env, store, requests, users, configFile, seen, faults>>
-----------------------------------------------------------------------------
(* The configuration: the control planes kumactl knows, a context for each, *)
(* and the current context.  A Go slice is the first len cells of an array, *)
(* because RemoveControlPlane removes contexts from the slice it iterates   *)
(* over.                                                                    *)

\* Name 0 is the empty string.
DefaultConfiguration == [controlPlanes |-> << >>, contexts |-> << >>, currentContext |-> 0]

NewContext(name, cert) == [name |-> name, controlPlane |-> name, cert |-> cert]

GetContext(cfg, name) == {i \in DOMAIN cfg.contexts : cfg.contexts[i].name = name}

AddContext(cfg, c, force) ==
    LET old == GetContext(cfg, c.name) IN
    IF old = {} THEN <<[cfg EXCEPT !.contexts = Append(@, c)]>>
    ELSE IF force THEN <<[cfg EXCEPT !.contexts[Min(old)] = c]>>
    ELSE << >>

\* Mutant: the current context is left as it is.
RemoveContextOnly(cfg, name) ==
    LET old == GetContext(cfg, name) IN
    IF old = {} THEN cfg ELSE [cfg EXCEPT !.contexts = Without(@, Min(old))]

RemoveContext(cfg, name) ==
    LET old  == GetContext(cfg, name)
        rest == Without(cfg.contexts, Min(old))
    IN  IF old = {} THEN cfg
        ELSE [cfg EXCEPT !.contexts = rest,
                         !.currentContext = IF @ # name THEN @
                                            ELSE IF rest = << >> THEN 0 ELSE rest[1].name]

SwitchContext(cfg, name) ==
    IF GetContext(cfg, name) = {} THEN << >> ELSE <<[cfg EXCEPT !.currentContext = name]>>

GetControlPlane(cfg, name) == {i \in DOMAIN cfg.controlPlanes : cfg.controlPlanes[i] = name}

AddControlPlane(cfg, name, force) ==
    IF GetControlPlane(cfg, name) = {} THEN <<[cfg EXCEPT !.controlPlanes = Append(@, name)]>>
    ELSE IF force THEN <<cfg>> ELSE << >>

\* The cells of the array after a removal from the slice: those behind the
\* removed one move up, the last keeps its content.
Shifted(array, rest) == [i \in DOMAIN array |-> IF i <= Len(rest) THEN rest[i] ELSE array[i]]

\* One round of the loop over the contexts, at the cell i of the array.
Visit(acc, i, name) ==
    LET c    == acc.array[i]
        next == RemoveContext(acc.cfg, c.name)
    IN  IF c.controlPlane # name THEN acc
        ELSE [cfg |-> next, array |-> Shifted(acc.array, next.contexts)]

RemoveControlPlane(cfg, name) ==
    LET old == GetControlPlane(cfg, name)
        visited[i \in 0..Len(cfg.contexts)] ==
            IF i = 0 THEN [cfg |-> cfg, array |-> cfg.contexts] ELSE Visit(visited[i - 1], i, name)
    IN  IF old = {} THEN << >>
        ELSE <<[visited[Len(cfg.contexts)].cfg EXCEPT !.controlPlanes = Without(@, Min(old))]>>

\* The root context: the context and the control plane that commands use.
CurrentContext(cfg) ==
    IF cfg.currentContext = 0 THEN {}
    ELSE {cfg.contexts[i] : i \in GetContext(cfg, cfg.currentContext)}

CurrentControlPlane(cfg) ==
    {c.controlPlane : c \in {x \in CurrentContext(cfg) : GetControlPlane(cfg, x.controlPlane) # {}}}

\* A configuration as kumactl writes it: every context is one of its own of
\* the control plane of the same name, and the current context, if there is
\* one, is among them.
ConfigOK(cfg) ==
    /\ DOMAIN cfg = {"controlPlanes", "contexts", "currentContext"}
    /\ cfg.controlPlanes \in Seq(Range(cfg.controlPlanes))
    /\ cfg.contexts \in Seq(Range(cfg.contexts))
    /\ \A i \in DOMAIN cfg.contexts :
          /\ cfg.contexts[i].controlPlane = cfg.contexts[i].name
          /\ GetControlPlane(cfg, cfg.contexts[i].name) # {}
          /\ GetContext(cfg, cfg.contexts[i].name) = {i}
    /\ cfg.currentContext # 0 => GetContext(cfg, cfg.currentContext) # {}
-----------------------------------------------------------------------------
(* kumactl config control-planes: what a command makes of the configuration *)
(* it has loaded; the empty sequence when it fails.                         *)

\* add: the address must answer as the API server of a control plane.
ValidateCpCoordinates(c) == c.reachable

addControlPlane(cfg, c) ==
    LET added   == AddControlPlane(cfg, c.name, c.overwrite)
        context == AddContext(added[1], NewContext(c.name, c.cert), c.overwrite)
    IN  IF ~ValidateCpCoordinates(c) \/ added = << >> THEN << >>
        ELSE IF context = << >> THEN << >>
        ELSE <<[context[1] EXCEPT !.currentContext = c.name]>>

removeControlPlane(cfg, c) == RemoveControlPlane(cfg, c.name)

switchControlPlane(cfg, c) == SwitchContext(cfg, c.name)

\* list and view print what was loaded.
listControlPlanes(cfg) == {[name |-> cfg.controlPlanes[i],
                            active |-> cfg.controlPlanes[i] \in CurrentControlPlane(cfg)] :
                              i \in DOMAIN cfg.controlPlanes}

Edit(cfg, c) ==
    CASE c.kind = "add"    -> addControlPlane(cfg, c)
      [] c.kind = "remove" -> removeControlPlane(cfg, c)
      [] c.kind = "switch" -> switchControlPlane(cfg, c)
-----------------------------------------------------------------------------
(* The server a command talks to                                            *)

\* What GET /catalog answers: the URLs of the admin server and of the
\* dataplane token API, "" where it has none.
validateRemoteAdminServerSettings(context, catalog) ==
    context.cert /\ catalog.adminPublic # ""

adminServerUrl(cfg, catalog, sameMachine) ==
    IF CurrentControlPlane(cfg) = {} THEN "error"
    ELSE IF sameMachine THEN catalog.adminLocal
    ELSE IF \A c \in CurrentContext(cfg) : validateRemoteAdminServerSettings(c, catalog)
         THEN catalog.tokenPublic
    ELSE "error"

CurrentAdminResourceStore(cfg, catalog, sameMachine) ==
    adminServerUrl(cfg, catalog, sameMachine) \notin {"error", ""}

CurrentResourceStore(cfg) == CurrentControlPlane(cfg) # {}

CurrentDataplaneOverviewClient(cfg) == CurrentControlPlane(cfg) # {}
-----------------------------------------------------------------------------
(* The commands.  get and delete know every type by a name of its own.      *)

Command(kind, type) == [kind |-> kind, type |-> type]

getMesh              == Command("get", "Mesh")
getDataplane         == Command("get", "Dataplane")
getHealthCheck       == Command("get", "HealthCheck")
getProxyTemplate     == Command("get", "ProxyTemplate")
getTrafficPermission == Command("get", "TrafficPermission")
getTrafficLog        == Command("get", "TrafficLog")
getTrafficRoute      == Command("get", "TrafficRoute")
getTrafficTrace      == Command("get", "TrafficTrace")
getFaultInjection    == Command("get", "FaultInjection")
getSecret            == Command("get", "Secret")
getMeshes             == Command("list", "Mesh")
getDataplanes         == Command("list", "Dataplane")
getHealthChecks       == Command("list", "HealthCheck")
getProxyTemplates     == Command("list", "ProxyTemplate")
getTrafficPermissions == Command("list", "TrafficPermission")
getTrafficLogs        == Command("list", "TrafficLog")
getTrafficRoutes      == Command("list", "TrafficRoute")
getTrafficTraces      == Command("list", "TrafficTrace")
getFaultInjections    == Command("list", "FaultInjection")
getSecrets            == Command("list", "Secret")

GetCommands == {getMesh, getDataplane, getHealthCheck, getProxyTemplate, getTrafficPermission,
                getTrafficLog, getTrafficRoute, getTrafficTrace, getFaultInjection, getSecret}
ListCommands == {getMeshes, getDataplanes, getHealthChecks, getProxyTemplates,
                 getTrafficPermissions, getTrafficLogs, getTrafficRoutes, getTrafficTraces,
                 getFaultInjections, getSecrets}
DeletableTypes == {"Mesh", "Dataplane", "HealthCheck", "ProxyTemplate", "TrafficLog",
                   "TrafficPermission", "TrafficRoute", "TrafficTrace", "FaultInjection",
                   "Secret"}

\* The tables: the columns that tell resources apart, and whether a footer
\* names the offset of the next page.
Table(columns, footer) == [columns |-> columns, footer |-> footer]

printMeshes             == Table({"name"}, TRUE)
printDataplanes         == Table({"mesh", "name", "tags"}, TRUE)
printHealthChecks       == Table({"mesh", "name"}, TRUE)
printProxyTemplates     == Table({"mesh", "name"}, TRUE)
printTrafficPermissions == Table({"mesh", "name"}, TRUE)
printTrafficLogs        == Table({"mesh", "name"}, TRUE)
printTrafficRoutes      == Table({"mesh", "name"}, TRUE)
printTrafficTraces      == Table({"mesh", "name"}, TRUE)
printFaultInjections    == Table({"mesh", "name"}, TRUE)
printSecrets            == Table({"mesh", "name"}, FALSE)
printDataplaneOverviews == Table({"mesh", "name", "tags", "status"}, FALSE)

TableOf(c) ==
    CASE c.kind = "inspect"             -> printDataplaneOverviews
      [] c.type = "Mesh"                -> printMeshes
      [] c.type = "Dataplane" /\ c.kind # "inspect" -> printDataplanes
      [] c.type = "HealthCheck"         -> printHealthChecks
      [] c.type = "ProxyTemplate"       -> printProxyTemplates
      [] c.type = "TrafficPermission"   -> printTrafficPermissions
      [] c.type = "TrafficLog"          -> printTrafficLogs
      [] c.type = "TrafficRoute"        -> printTrafficRoutes
      [] c.type = "TrafficTrace"        -> printTrafficTraces
      [] c.type = "FaultInjection"      -> printFaultInjections
      [] c.type = "Secret"              -> printSecrets

\* The rows of a table, by the names in them.
Rows(c, items) ==
    IF "name" \in TableOf(c).columns THEN {items[i].name : i \in DOMAIN items} ELSE {}

PaginationFooter(c, next) == TableOf(c).footer /\ next # NoOffset

ListOf(type) == Command("list", type) \in ListCommands
ItemOf(type) == Command("get", type) \in GetCommands

\* parseResource: a file names a type of the registry, a name and a mesh.
parseResource(c) == c.file # "invalid" /\ NewObject(c.type) # {}

\* The resource API of a type, at the server that has it.
GetResourceApi(type) == IF type = "Secret" THEN AllAdminApis(type) # {} ELSE AllApis(type) # {}
-----------------------------------------------------------------------------
(* The processes                                                            *)

IsEdit(c) == c.kind \in {"add", "remove", "switch"}

Ready(commands) == [pc |-> "ready", left |-> commands, cmd |-> << >>, slot |-> << >>,
          cfg |-> DefaultConfiguration, shown |-> {}, outcome |-> "none"]

\* What the store holds that a command is about: the specs of its resource,
\* or the names in its list.
View(s, c) ==
    LET mine == {r \in Range(s.records) : r.type = c.type /\ c.mesh \in {0, r.mesh}} IN
    IF c.kind \in {"list", "inspect"} THEN {r.name : r \in mine}
    ELSE {r.spec : r \in {x \in mine : x.name = c.name}}

Unseen == [views |-> {}, dropped |-> FALSE]

\* The history of the commands, extended by the step from store to store'.
Observe ==
    seen' = [u \in Users |->
        IF users'[u].cmd = << >> \/ IsEdit(users'[u].cmd[1]) THEN Unseen
        ELSE IF users[u].pc = "ready" /\ users'[u].pc = "ready" /\ users'[u] = users[u]
             THEN seen[u]
        ELSE LET c    == users'[u].cmd[1]
                 from == IF users[u].pc = "ready" THEN Unseen ELSE seen[u]
             IN  [views   |-> from.views \cup {View(store, c), View(store', c)},
                  dropped |-> from.dropped \/ (View(store, c) \ View(store', c) # {})]]

Ended(p, outcome) == [p EXCEPT !.pc = "ready", !.slot = << >>, !.outcome = outcome]

\* The request is sent in a free slot of the server.
Send(u, p, q) ==
    LET idle == {slot \in Slots : requests[slot].pc = "idle"}
        slot == CHOOSE slot \in idle : TRUE
    IN  /\ idle # {}
        /\ requests' = [requests EXCEPT ![slot] = q]
        /\ users' = [users EXCEPT ![u] = [p EXCEPT !.pc = "wait", !.slot = <<slot>>]]

Get(c) == Request("find", c.type, c.mesh, c.name, << >>, NoSize, NoOffset, FALSE)

\* Mutant: the spec of the file is not passed on.
upsertBodyEmpty(c) == [type |-> c.type, mesh |-> c.mesh, name |-> c.name, spec |-> "empty"]

upsertBody(c) == [type |-> c.type, mesh |-> c.mesh, name |-> c.name, spec |-> c.spec]
Upsert(c) == Request("put", c.type, c.mesh, c.name, upsertBody(c), NoSize, NoOffset, FALSE)
Delete(c) == Request("delete", c.type, c.mesh, c.name, << >>, NoSize, NoOffset, FALSE)
List(c, offset) ==
    Request("list", c.type, c.mesh, 0, << >>, IF c.size = 0 THEN NoSize ELSE c.size, offset, FALSE)

\* kumactl inspect dataplanes, and GET for one overview
Overviews(c) == Request("overviews", c.type, c.mesh, 0, << >>, NoSize, NoOffset, c.gateway)
Overview(c)  == Request("inspect", c.type, c.mesh, c.name, << >>, NoSize, NoOffset, FALSE)

\* A request to the API that kumactl never makes: its body is that of
\* another resource, or its page size is not one.
Curl(c) == IF c.size # 0 THEN Request("overviews", c.type, c.mesh, 0, << >>, c.size, c.offset, c.gateway)
           ELSE Request("put", c.type, c.mesh, c.name,
                        [upsertBody(c) EXCEPT !.name = c.name + 1], NoSize, NoOffset, FALSE)

FirstRequest(c) ==
    CASE c.kind = "apply"    -> Get(c)
      [] c.kind = "get"      -> Get(c)
      [] c.kind = "delete"   -> Delete(c)
      [] c.kind = "list"     -> List(c, c.offset)
      [] c.kind = "inspect"  -> Overviews(c)
      [] c.kind = "overview" -> Overview(c)
      [] c.kind = "curl"     -> Curl(c)

Connected(c, cfg) ==
    IF c.type = "Secret" THEN CurrentAdminResourceStore(cfg, env.catalog, env.sameMachine)
    ELSE CurrentResourceStore(cfg)

Known(c) ==
    /\ c.kind = "get" => ItemOf(c.type)
    /\ c.kind = "list" => ListOf(c.type)
    /\ c.kind = "delete" => c.type \in DeletableTypes

\* How a command ends before it sends anything: apply reads its file first.
\* A URL that does not answer 200 ends it without an error.
EndsEarly(c, cfg) ==
    CASE c.kind = "apply" /\ c.file = "unreadable"     -> "error"
      [] c.kind = "apply" /\ c.file = "url404"         -> "ok"
      [] c.kind = "apply" /\ ~parseResource(c)         -> "error"
      [] c.kind = "apply" /\ parseResource(c) /\ c.dryRun -> "printed"
      [] c.kind = "curl"                               -> "no"
      [] OTHER -> IF Connected(c, cfg) /\ GetResourceApi(c.type) THEN "no" ELSE "error"

\* A command on resources starts.
Start(u, c) ==
    LET p == [users[u] EXCEPT !.left = @ - 1, !.cmd = <<c>>, !.cfg = configFile,
                              !.shown = {}, !.outcome = "none"]
    IN  /\ users[u].pc = "ready" /\ users[u].left > 0 /\ ~IsEdit(c) /\ Known(c)
        /\ IF EndsEarly(c, configFile) = "no" THEN Send(u, p, FirstRequest(c))
           ELSE /\ users' = [users EXCEPT ![u] = Ended(p, EndsEarly(c, configFile))]
                /\ UNCHANGED requests
        /\ UNCHANGED <<env, store, configFile, faults>>
        /\ Observe

\* The resource of an answer, without a version, and the items of a list; the
\* next link of the list is there for its offset.
Unmarshal(q)     == {q.held[i] : i \in DOMAIN q.held}
UnmarshalList(q) == [items |-> q.held, offset |-> q.next]

\* The request that follows an answer, if one does: apply goes on to PUT, a
\* list to its next page (the user passes the offset of the footer).
NextRequest(c, q) ==
    IF c.kind = "apply" /\ q.op = "find" /\ q.status \in {200, 404} THEN <<Upsert(c)>>
    ELSE IF c.kind = "list" /\ q.status = 200 /\ PaginationFooter(c, UnmarshalList(q).offset)
         THEN <<List(c, UnmarshalList(q).offset)>>
    ELSE << >>

\* How a command takes its last answer.
LastAnswer(c, q) ==
    IF q.status \in {200, 201} THEN "ok"
    ELSE IF q.status = 404 /\ c.kind \in {"get", "delete"} THEN "none" ELSE "error"

\* What a command shows of an answer.
Shown(c, q) ==
    CASE c.kind \in {"list", "inspect"} -> Rows(c, UnmarshalList(q).items)
      [] c.kind = "get"                -> {r.spec : r \in Unmarshal(q)}
      [] OTHER                         -> {}

Answer(u) ==
    LET p    == users[u]
        c    == p.cmd[1]
        slot == p.slot[1]
        q    == requests[slot]
        next == NextRequest(c, q)
        told == [p EXCEPT !.shown = @ \cup Shown(c, q)]
    IN  /\ p.pc = "wait" /\ q.pc = "done"
        /\ requests' = [requests EXCEPT ![slot] = IF next = << >> THEN Idle ELSE next[1]]
        /\ users' = [users EXCEPT ![u] = IF next = << >> THEN Ended(told, LastAnswer(c, q)) ELSE told]
        /\ UNCHANGED <<env, store, configFile, faults>>
        /\ Observe

\* The HTTP client gives up; the server serves the request to its end.
Timeout(u) ==
    /\ users[u].pc = "wait" /\ faults.timeouts < env.maxTimeouts
    /\ requests[users[u].slot[1]].pc # "done"
    /\ users' = [users EXCEPT ![u] = Ended(users[u], "timeout")]
    /\ faults' = [faults EXCEPT !.timeouts = @ + 1]
    /\ UNCHANGED <<env, store, requests, configFile>>
    /\ Observe

\* The answer to a client that has gone.
Abandoned(slot) ==
    /\ requests[slot].pc = "done" /\ \A u \in Users : users[u].slot # <<slot>>
    /\ requests' = [requests EXCEPT ![slot] = Idle]
    /\ UNCHANGED <<env, store, users, configFile, faults>>
    /\ Observe
-----------------------------------------------------------------------------
(* kumactl config control-planes                                            *)

Load(u, c) ==
    /\ users[u].pc = "ready" /\ users[u].left > 0 /\ IsEdit(c)
    /\ users' = [users EXCEPT ![u] =
           [users[u] EXCEPT !.pc = "edit", !.left = @ - 1, !.cmd = <<c>>,
                            !.cfg = configFile, !.outcome = "none"]]
    /\ UNCHANGED <<env, store, requests, configFile, faults>>
    /\ Observe

\* The change, and the first half of Save: WriteFile truncates the file.
Truncate(u) ==
    LET p == users[u]
        edited == Edit(p.cfg, p.cmd[1])
    IN  /\ p.pc = "edit"
        /\ IF edited = << >>
           THEN /\ users' = [users EXCEPT ![u] = Ended(p, "error")]
                /\ UNCHANGED configFile
           ELSE /\ users' = [users EXCEPT ![u] = [p EXCEPT !.pc = "save", !.cfg = edited[1]]]
                /\ configFile' = DefaultConfiguration
        /\ UNCHANGED <<env, store, requests, faults>>
        /\ Observe

Save(u) ==
    /\ users[u].pc = "save"
    /\ configFile' = users[u].cfg
    /\ users' = [users EXCEPT ![u] = Ended(users[u], "ok")]
    /\ UNCHANGED <<env, store, requests, faults>>
    /\ Observe

\* The process is killed before it has written the file.
Killed(u) ==
    /\ users[u].pc = "save" /\ faults.timeouts < env.maxTimeouts
    /\ users' = [users EXCEPT ![u] = Ended(users[u], "killed")]
    /\ faults' = [faults EXCEPT !.timeouts = @ + 1]
    /\ UNCHANGED <<env, store, requests, configFile>>
    /\ Observe
-----------------------------------------------------------------------------
(* Whoever else writes to the Kubernetes cluster                            *)

Kubectl ==
    /\ env.kubectl # {} /\ faults.kubectl < MaxKubectl
    /\ \E c \in env.kubectl :
          LET present == kubeObject(store, c.type, c.name) # {} IN
          store' = IF present THEN KubeDelete(store, c.type, c.name).store
                   ELSE KubeCreate(store, c.type, c.name, c.mesh, c.spec, Qualified).store
    /\ faults' = [faults EXCEPT !.kubectl = @ + 1]
    /\ UNCHANGED <<env, requests, users, configFile>>
    /\ Observe

ServerStep(slot) ==
    /\ Serve(slot) \/ ServeSecret(slot)
    /\ UNCHANGED <<env, users, configFile, faults>>
    /\ Observe
=============================================================================
