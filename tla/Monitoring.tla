----------------------------- MODULE Monitoring -----------------------------
(***************************************************************************)
(* The monitoring assignment server (MADS) and its clients, the agents     *)
(* kuma-prometheus-sd.  Every stream has a watchdog that generates the     *)
(* assignments of all meshes and puts them into the one snapshot that all  *)
(* streams share, whatever the other watchdogs did meanwhile.  A stream    *)
(* answers the requests of its client from the snapshot.  An agent hands   *)
(* what it receives to Prometheus, acknowledges it, and starts a new       *)
(* stream when the old one breaks.                                         *)
(***************************************************************************)
EXTENDS MonitoringAssignments, SnapshotCache

CONSTANTS MaxStreams,      \* bound: streams that are ever started
          Setups           \* [agents, worlds, breaks, changes, failures]: who takes
                           \* part, what the store holds first and later, and
                           \* bounds on broken streams, on changes of the store and on
                           \* failed reads

\* Worlds are what the store may hold, and there are finitely many agents.
ASSUME SetupsAssumption ==
    /\ MaxStreams \in Nat
    /\ \A u \in Setups :
          /\ IsFiniteSet(u.agents)
          /\ 1 \in DOMAIN u.worlds
          /\ \A w \in Range(u.worlds) :
                /\ DOMAIN w = {"meshes", "dataplanes"}
                /\ \A d \in w.dataplanes : DOMAIN d.tags \subseteq [stem : Nat, char : Nat, s : Nat]

VARIABLES setup,
          world,           \* what the store holds
          snapshot,        \* of the node "": << >>, or the snapshot
          streams,
          watchdogs,       \* one per stream
          agents,
          scraped,      \* the groups that the Prometheus of each agent knows
          changes, failures

vars == <<setup, world, snapshot, streams, watchdogs, agents, scraped, changes, failures>>

StreamIds == 1..MaxStreams
Assignments == "assignments"

NewStream == [state |-> "unused", agent |-> << >>, requests |-> << >>, responses |-> << >>,
              watch |-> NoWatch, nonce |-> 0]
NewWatchdog == [pc |-> "none", stop |-> FALSE, meshes |-> {}, left |-> {}, read |-> {},
                new |-> << >>]
NewAgent == [pc |-> "start", stream |-> << >>, received |-> << >>, oldSourceList |-> {}]

Init ==
    /\ setup \in Setups
    /\ world = setup.worlds[1]
    /\ snapshot = << >>
    /\ streams = [s \in StreamIds |-> NewStream]
    /\ watchdogs = [s \in StreamIds |-> NewWatchdog]
    /\ agents = [a \in setup.agents |-> NewAgent]
    /\ scraped = [a \in setup.agents |-> {}]
    /\ changes = 0 /\ failures = 0
-----------------------------------------------------------------------------
(* The store                                                                *)

\* A mesh, or the dataplanes of a mesh, change to what they are in another world.
Change ==
    /\ changes < setup.changes
    /\ \E w \in Range(setup.worlds) : world' \in {[world EXCEPT !.meshes = w.meshes],
                                     [world EXCEPT !.dataplanes = w.dataplanes]}
    /\ world' # world
    /\ changes' = changes + 1
    /\ UNCHANGED <<setup, snapshot, streams, watchdogs, agents, scraped, failures>>

HasPrometheusMetricsEnabled(mesh) == mesh.prometheus # << >>

\* Mutant: the mesh is not passed on and the default one is used.
ListDataplanesDefault(mesh) == {d \in world.dataplanes : d.mesh = 1}

\* List of the resource manager with ListByMesh.
ListDataplanes(mesh) == {d \in world.dataplanes : d.mesh = mesh}
-----------------------------------------------------------------------------
(* Reconcile, on the ticks of a watchdog                                    *)

\* OnTick: GenerateSnapshot starts with the meshes ...
getMeshes(s) ==
    LET on == {m \in world.meshes : HasPrometheusMetricsEnabled(m)} IN
    /\ watchdogs[s].pc = "idle"
    /\ watchdogs' = [watchdogs EXCEPT ![s] =
           [@ EXCEPT !.pc = "read", !.meshes = on, !.left = {m.name : m \in on}]]
    /\ UNCHANGED <<setup, world, snapshot, streams, agents, scraped, changes, failures>>

\* ... and lists the dataplanes of one mesh after the other.
getDataplanes(s) ==
    /\ watchdogs[s].pc = "read"
    /\ \E mesh \in watchdogs[s].left :
          watchdogs' = [watchdogs EXCEPT ![s].read = @ \cup ListDataplanes(mesh),
                                         ![s].left = @ \ {mesh}]
    /\ UNCHANGED <<setup, world, snapshot, streams, agents, scraped, changes, failures>>

\* OnError: a read failed, perhaps because the stream is gone and with it the
\* context of the read.
OnError(s) ==
    /\ watchdogs[s].pc \in {"idle", "read"}
    /\ watchdogs[s].stop \/ failures < setup.failures
    /\ watchdogs' = [watchdogs EXCEPT ![s] = [NewWatchdog EXCEPT !.pc = "idle", !.stop = watchdogs[s].stop]]
    /\ failures' = IF watchdogs[s].stop THEN failures ELSE failures + 1
    /\ UNCHANGED <<setup, world, snapshot, streams, agents, scraped, changes>>

ToIndex(assignments) == [n \in {a.name : a \in assignments} |->
                            CHOOSE a \in assignments : a.name = n]

\* Mutant: collections of the same names are taken for equal.
equalNames(new, old) == DOMAIN new = DOMAIN old

equal(new, old) == new = old

\* The versions that somebody holds: a UUID is none of them.
VersionsInUse ==
    LET Of(seq) == {seq[i].version : i \in DOMAIN seq}
        OfWatch(w) == CASE w.state = "open"      -> {w.request.version}
                        [] w.state = "responded" -> {w.response.version}
                        [] OTHER                 -> {}
        OfSnapshot(snap) == {snap[i][Assignments].version : i \in DOMAIN snap}
    IN  OfSnapshot(snapshot) \cup (UNION {OfSnapshot(watchdogs[s].new) : s \in StreamIds})
          \cup (UNION {Of(streams[s].requests) \cup Of(streams[s].responses)
                        \cup OfWatch(streams[s].watch) : s \in StreamIds})
          \cup (UNION {Of(agents[a].received) : a \in setup.agents})

UUID == CHOOSE v \in 1..Cardinality(VersionsInUse) + 1 : v \notin VersionsInUse

\* SnapshotAutoVersioner: the old version if nothing changed, else a new one.
Version(items, old) ==
    IF old # << >> /\ equal(items, old[1][Assignments].items) THEN old[1][Assignments].version
    ELSE UUID

\* The assignments are generated and compared with the snapshot of the cache;
\* it may be another one when the new snapshot is set.
Reconcile(s) ==
    LET w == watchdogs[s] IN
    /\ w.pc = "read" /\ w.left = {}
    /\ UNCHANGED <<setup, world, snapshot, streams, agents, scraped, changes, failures>>
    /\ \E assignments \in {Generate(w.meshes, w.read)} : \E items \in {ToIndex(assignments)} :
          watchdogs' = [watchdogs EXCEPT ![s] =
              [NewWatchdog EXCEPT !.pc = "set", !.stop = w.stop,
                  !.new = <<[t \in {Assignments} |-> [version |-> Version(items, snapshot),
                                                      items   |-> items]]>>]]

SetSnapshot(s) ==
    LET new == watchdogs[s].new IN
    /\ watchdogs[s].pc = "set"
    /\ UNCHANGED <<setup, world, agents, scraped, changes, failures>>
    /\ snapshot' = new
    /\ streams' = [i \in StreamIds |->
           [streams[i] EXCEPT !.watch = Trigger(@, new[1])]]
    /\ watchdogs' = [watchdogs EXCEPT ![s] = [NewWatchdog EXCEPT !.pc = "idle", !.stop = watchdogs[s].stop]]

\* Between two ticks a stopped watchdog may notice it.
StopWatchdog(s) ==
    /\ watchdogs[s].pc = "idle" /\ watchdogs[s].stop
    /\ watchdogs' = [watchdogs EXCEPT ![s].pc = "ended"]
    /\ UNCHANGED <<setup, world, snapshot, streams, agents, scraped, changes, failures>>

OnTick(s) == getMeshes(s) \/ getDataplanes(s) \/ Reconcile(s) \/ SetSnapshot(s)
-----------------------------------------------------------------------------
(* The streams of the server                                                *)

\* OnStreamRequest: the first request of a stream starts its watchdog.
OnStreamRequest(s) ==
    watchdogs' = [watchdogs EXCEPT ![s].pc = IF @ = "none" THEN "idle" ELSE @]

\* process: a request replaces the watch unless its nonce is stale.
ProcessRequest(s) ==
    LET st    == streams[s]
        req   == Head(st.requests)
        watch == [type |-> Assignments, version |-> req.version, names |-> {}]
    IN  /\ st.state = "open" /\ st.requests # << >>
        /\ UNCHANGED <<setup, world, snapshot, agents, scraped, changes, failures>>
        /\ OnStreamRequest(s)
        /\ streams' = [streams EXCEPT ![s] = [st EXCEPT
               !.requests = Tail(@),
               !.watch = IF st.nonce \in {0, req.nonce}
                         THEN CreateWatch(watch, snapshot # << >>,
                                          IF snapshot = << >> THEN << >> ELSE snapshot[1])
                         ELSE @]]

\* Nonces are compared for equality only and a stream has at most one
\* response without a request, so two of them stand for all.
nextNonce(nonce) == (nonce % 2) + 1

\* process: the watch has an answer.
ProcessResponse(s) ==
    LET st == streams[s] IN
    /\ st.state = "open" /\ st.watch.state = "responded"
    /\ UNCHANGED <<setup, world, snapshot, watchdogs, agents, scraped, changes, failures>>
    /\ streams' = [streams EXCEPT ![s] = [st EXCEPT
           !.nonce = nextNonce(@), !.watch = NoWatch,
           !.responses = Append(@, [version |-> st.watch.response.version,
                                    items   |-> st.watch.response.items,
                                    nonce   |-> nextNonce(st.nonce)])]]

OnStreamClosed(s) ==
    watchdogs' = [watchdogs EXCEPT ![s].stop = TRUE,
                                   ![s].pc = IF @ = "none" THEN "ended" ELSE @]

\* The stream has ended: its watch is cancelled.
ProcessEnd(s) ==
    /\ streams[s].state = "broken"
    /\ streams' = [streams EXCEPT ![s] = [NewStream EXCEPT !.state = "closed", !.agent = streams[s].agent]]
    /\ OnStreamClosed(s)
    /\ UNCHANGED <<setup, world, snapshot, agents, scraped, changes, failures>>

\* The connection breaks.
Break(s) ==
    /\ streams[s].state = "open"
    /\ Cardinality({i \in StreamIds : streams[i].state \in {"broken", "closed"}})
          < setup.breaks
    /\ streams' = [streams EXCEPT ![s].state = "broken"]
    /\ UNCHANGED <<setup, world, snapshot, watchdogs, agents, scraped, changes, failures>>
-----------------------------------------------------------------------------
(* The agents                                                               *)

Request(version, nonce) == [version |-> version, nonce |-> nonce]

\* Run, StartStream, RequestAssignments: a new stream, and the first request on it.
StartStream(a) ==
    LET unused == {s \in StreamIds : streams[s].state = "unused"}
        s == CHOOSE s \in unused : TRUE
    IN  /\ agents[a].pc = "start" /\ unused # {}
        /\ UNCHANGED <<setup, world, snapshot, watchdogs, scraped, changes, failures>>
        /\ streams' = [streams EXCEPT ![s] = [@ EXCEPT !.state = "open", !.agent = <<a>>,
                                                       !.requests = <<Request(0, 0)>>]]
        /\ agents' = [agents EXCEPT ![a] = [@ EXCEPT !.pc = "wait", !.stream = <<s>>]]

\* Handle: the groups of the assignments, and those that are gone.
Handle(a, assignments) ==
    \E groups \in {ConvertAll(assignments)} :
        LET new == buildSourceList(groups) IN
        /\ scraped' = [scraped EXCEPT ![a] =
               Announced(@, groups \cup buildRemovedGroups(agents[a].oldSourceList, new))]
        /\ agents' = [agents EXCEPT ![a].oldSourceList = new, ![a].pc = "ack",
                          ![a].received = <<Head(streams[agents[a].stream[1]].responses)>>]

WaitForAssignments(a) ==
    LET s == agents[a].stream[1] IN
    /\ agents[a].pc = "wait" /\ streams[s].responses # << >>
    /\ UNCHANGED <<setup, world, snapshot, watchdogs, changes, failures>>
    /\ streams' = [streams EXCEPT ![s].responses = Tail(@)]
    /\ LET items == Head(streams[s].responses).items IN
       Handle(a, {items[n] : n \in DOMAIN items})

\* An acknowledgement on a broken stream fails, and Run starts another.
ACK(a) ==
    LET s == agents[a].stream[1]
        r == agents[a].received[1]
    IN  /\ agents[a].pc = "ack"
        /\ UNCHANGED <<setup, world, snapshot, watchdogs, scraped, changes, failures>>
        /\ IF streams[s].state = "open"
           THEN /\ streams' = [streams EXCEPT ![s].requests = Append(@, Request(r.version, r.nonce))]
                /\ agents' = [agents EXCEPT ![a].pc = "wait", ![a].received = << >>]
           ELSE /\ agents' = [agents EXCEPT ![a].pc = "start", ![a].received = << >>,
                                            ![a].stream = << >>]
                /\ UNCHANGED streams

\* The stream ends while the agent waits.
StreamEnds(a) ==
    /\ agents[a].pc = "wait" /\ streams[agents[a].stream[1]].state \in {"broken", "closed"}
    /\ agents' = [agents EXCEPT ![a].pc = "start", ![a].stream = << >>]
    /\ UNCHANGED <<setup, world, snapshot, streams, watchdogs, scraped, changes, failures>>

AgentStep(a) == StartStream(a) \/ WaitForAssignments(a) \/ ACK(a) \/ StreamEnds(a)
ServerStep(s) == ProcessRequest(s) \/ ProcessResponse(s) \/ ProcessEnd(s)

Next ==
    \/ Change
    \/ \E s \in StreamIds : OnTick(s) \/ OnError(s) \/ StopWatchdog(s) \/ ServerStep(s) \/ Break(s)
    \/ \E a \in setup.agents : AgentStep(a)

\* The tickers fire again and again and the goroutines run.  A watchdog that is
\* stopped need not notice it ever: its select has a tick ready as well.
Fairness ==
    /\ \A s \in StreamIds : /\ WF_vars(OnTick(s)) /\ WF_vars(ServerStep(s))
    /\ \A a \in UNION {u.agents : u \in Setups} : WF_vars(a \in setup.agents /\ AgentStep(a))

Spec == Init /\ [][Next]_vars /\ Fairness
-----------------------------------------------------------------------------
\* Types: one message of each direction is under way at most, and an agent has a
\* stream unless it is starting one.
TypeOK ==
    /\ world.meshes \in {w.meshes : w \in Range(setup.worlds)}
    /\ Len(snapshot) <= 1 /\ (snapshot # << >> => snapshot[1][Assignments].version \in Nat \ {0})
    /\ \A s \in StreamIds :
          /\ streams[s].state \in {"unused", "open", "broken", "closed"}
          /\ watchdogs[s].pc \in {"none", "idle", "read", "set", "ended"}
          /\ watchdogs[s].pc # "none" => streams[s].state # "unused"
          /\ Len(streams[s].responses) <= 1 /\ Len(streams[s].requests) <= 1
    /\ \A a \in setup.agents : /\ agents[a].pc \in {"start", "wait", "ack"}
                         /\ agents[a].pc = "start" <=> agents[a].stream = << >>

\* An agent that is left waiting lacks nothing: as long as its watch is open
\* its Prometheus knows exactly the targets of the snapshot, although
\* watchdogs of other streams replace the snapshot at any time, versions are
\* reused, and streams break between a response and its acknowledgement.
WaitingHasAll ==
    \A s \in StreamIds :
        (streams[s].state = "open" /\ streams[s].watch.state = "open" /\ snapshot # << >>) =>
            LET items == snapshot[1][Assignments].items IN
            scraped[streams[s].agent[1]] = ConvertAll({items[n] : n \in DOMAIN items})

\* Every tag is the label of its name, unless another label takes its place:
\* a mandatory one, a part of the name, or a tag that differs in a special
\* character only.
TagsKept(d, labels) ==
    LET clash(k) == \/ k.stem \in mandatoryStems
                    \/ \E o \in DOMAIN d.tags : o.stem = k.stem /\ o.char # k.char
                    \/ \E e \in DOMAIN d.extensions : SanitizeLabelName(e) = SanitizeLabelName(k)
    IN  \A k \in DOMAIN d.tags : ~clash(k) => labels[SanitizeLabelName(k)] = oneValue(d.tags[k])

\* A tag of a dataplane arrives at Prometheus as the label of its name, also
\* when the plural of another tag has that name ("user-defined `services` tag
\* will override auto-generated one", assignments.go).
TagsArrive ==
    \A a \in setup.agents : \A g \in scraped[a] : \E w \in Range(setup.worlds) : \E d \in w.dataplanes :
        g.source = subSourceName(assignmentName(d), 0) /\ TagsKept(d, g.labels)

\* Once meshes and dataplanes stay as they are every Prometheus scrapes
\* exactly the dataplanes of the meshes that have metrics.
Converges ==
    <>[](\A a \in setup.agents : scraped[a] = ConvertAll(Generate(world.meshes, world.dataplanes)))
=============================================================================
