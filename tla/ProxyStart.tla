----------------------------- MODULE ProxyStart -----------------------------
(***************************************************************************)
(* From the start of the control planes to an Envoy that has its secrets.  *)
(*                                                                         *)
(* Control planes start, crash and start again on one store and create the *)
(* default Mesh and the signing key of tokens when they find none.  A user *)
(* takes a token and starts kuma-dp, which reads the catalog and runs two  *)
(* components under its component manager: the access log server and       *)
(* Envoy, which is bootstrapped by a control plane.  Envoy then follows    *)
(* one control plane by xDS and fetches the mesh CA and its certificate on *)
(* two streams of the secret discovery service.                            *)
(*                                                                         *)
(* setup says what surrounds the program: the configuration, the proxy,    *)
(* the tokens the user asks for in turn, the changes made through the API  *)
(* and how many crashes, stops and exits of Envoy happen.                  *)
(***************************************************************************)
EXTENDS SecretDiscovery, ControlPlaneConfig, Functions

CONSTANTS ControlPlanes,  \* the instances of kuma-cp
          Setups          \* the environments to start in

\* A control plane has a name.  A setup has a configuration and a store, and names the
\* services that its proxy may have.
ASSUME SetupsAssumption ==
    /\ "" \notin ControlPlanes
    /\ \A s \in Setups :
        LET Named(services) == services # << >> => services[1] \in s.services IN
        /\ s.planes \subseteq ControlPlanes
        /\ {"env", "tokenServer", "admin", "catalog", "params", "sdsCert"} \subseteq DOMAIN s.cfg
        /\ DOMAIN s.store = {"mesh", "dataplane", "key", "epoch"}
        /\ s.store.key \in {NoKey} \cup (ControlPlanes \X Nat)
        /\ s.store.epoch \in Nat
        /\ s.proxy \in DOMAIN s.store.dataplane => Named(s.store.dataplane[s.proxy])
        /\ s.changes \in Seq(Range(s.changes))
        /\ \A change \in Range(s.changes) :
              /\ change.op \in {"dataplane", "mtls", "create", "delete"}
              /\ change.op = "dataplane" /\ change.id = s.proxy => Named(change.services)

VARIABLES setup,    \* the environment, chosen at the start
          left,     \* what is left of its crashes, stops, exits and changes
          store,    \* Meshes, Dataplanes and the signing key
          cp,       \* the control planes
          dp,       \* the process of kuma-dp and the token file of its user
          files,    \* the sockets in /tmp of its machine
          orphans,  \* the admin ports of Envoys no kuma-dp looks after
          envoy,    \* the Envoy kuma-dp has started
          stream,   \* its streams to the secret discovery server
          secret    \* the secrets it holds

vars == <<setup, left, store, cp, dp, files, orphans, envoy, stream, secret>>
envoyVars == <<envoy, stream, secret>>
machine == <<dp, files, orphans>>

Default == "default"
NoSecret == [mesh |-> ""]
NoAds == << >>
NoEnvoy == [on |-> FALSE, pipe |-> << >>, ads |-> NoAds, sds |-> [host |-> "", cert |-> NoCert], wants |-> FALSE]
NewStream == [resource |-> "", nonce |-> 0]
Closed == [cp |-> "", in |-> << >>, out |-> << >>, st |-> NewStream, closing |-> FALSE]
Down(n) == [pc |-> "off", n |-> n, sdsKey |-> NoKey, adminKey |-> NoKey, sdsEpoch |-> 0, adminEpoch |-> 0]
NewMesh == [mtls |-> "", traced |-> << >>, tracing |-> [default |-> "", backends |-> {}]]

\* A resource of the store is created or replaced.
Put(objs, id, obj) == [i \in DOMAIN objs \cup {id} |-> IF i = id THEN obj ELSE objs[i]]

Universal == setup.cfg.env = "universal"
Running(c) == cp[c].pc = "running"
Pipe == AccessLogPipe(setup.proxy.name, setup.proxy.mesh)
NoStreams == [r \in Resources |-> Closed]
NoSecrets == [r \in Resources |-> NoSecret]

Init ==
    /\ setup \in Setups
    /\ left = [crashes |-> setup.crashes, stops |-> setup.stops, exits |-> setup.exits,
               changes |-> setup.changes]
    /\ store = setup.store
    /\ cp = [c \in setup.planes |-> Down(0)]
    /\ dp = [pc |-> "off", token |-> setup.token, tries |-> 0, refused |-> FALSE,
             logs |-> "none", envoy |-> "none", fail |-> FALSE, stopping |-> FALSE, port |-> 0]
    /\ files = {} /\ orphans = {}
    /\ envoy = NoEnvoy /\ stream = NoStreams /\ secret = NoSecrets

------------------------------------------------------------------------------
(* The start of a control plane *)

Goto(c, pc) == cp' = [cp EXCEPT ![c].pc = pc]
Fails(c) == cp' = [cp EXCEPT ![c] = Down(@.n)]

\* Bootstrap of the runtime; createSigningKey is evaluated on every start.
Bootstrap(c) ==
    LET id == <<c, cp[c].n + 1>>
        started == [pc |-> IF Universal THEN "getMesh" ELSE "sds", n |-> cp[c].n + 1,
                    cfg |-> autoconfigure(setup.cfg, id), mine |-> id,
                    sdsKey |-> NoKey, adminKey |-> NoKey, sdsEpoch |-> 0, adminEpoch |-> 0]
    IN  /\ cp[c].pc = "off"
        /\ cp' = [cp EXCEPT ![c] = started]
        /\ UNCHANGED store

\* CreateDefaultMesh reads and then creates.
createDefaultMesh(c) ==
    \/ /\ cp[c].pc = "getMesh"
       /\ Goto(c, IF Default \in DOMAIN store.mesh THEN "getKey" ELSE "createMesh")
       /\ UNCHANGED store
    \/ /\ cp[c].pc = "createMesh"
       /\ IF Default \in DOMAIN store.mesh THEN Fails(c) /\ UNCHANGED store
          ELSE /\ store' = [store EXCEPT !.mesh = Put(@, Default, setup.template)]
               /\ Goto(c, "getKey")

\* As storeKeyIfNotExist, storing the key also when another one has appeared.
StoreKeyAnyway(c) ==
    \/ /\ cp[c].pc = "getKey"
       /\ Goto(c, IF store.key # NoKey THEN "sds" ELSE "createKey")
       /\ UNCHANGED store
    \/ /\ cp[c].pc = "createKey"
       /\ store' = [store EXCEPT !.key = cp[c].mine]
       /\ Goto(c, "sds")

storeKeyIfNotExist(c) ==
    \/ /\ cp[c].pc = "getKey"
       /\ Goto(c, IF store.key # NoKey THEN "sds" ELSE "createKey")
       /\ UNCHANGED store
    \/ /\ cp[c].pc = "createKey"
       /\ IF store.key # NoKey THEN Fails(c) /\ UNCHANGED store
          ELSE /\ store' = [store EXCEPT !.key = cp[c].mine]
               /\ Goto(c, "sds")

\* The issuer of the authenticator of SDS and that of the token API each read the key.
SetupSds(c) ==
    /\ cp[c].pc = "sds"
    /\ IF ~Universal \/ ~cp[c].cfg.tokenServer.enabled THEN Goto(c, "admin")
       ELSE IF store.key = NoKey THEN Fails(c)
       ELSE cp' = [cp EXCEPT ![c].pc = "admin", ![c].sdsKey = store.key, ![c].sdsEpoch = store.epoch]
    /\ UNCHANGED store

dataplaneTokenWs(c) ==
    /\ cp[c].pc = "admin"
    /\ IF ~Universal \/ ~cp[c].cfg.admin.token.enabled THEN Goto(c, "running")
       ELSE IF store.key = NoKey THEN Fails(c)
       ELSE cp' = [cp EXCEPT ![c].pc = "running", ![c].adminKey = store.key, ![c].adminEpoch = store.epoch]
    /\ UNCHANGED store

ControlPlaneStep(c) ==
    /\ \/ Bootstrap(c) \/ createDefaultMesh(c) \/ storeKeyIfNotExist(c)
       \/ SetupSds(c) \/ dataplaneTokenWs(c)
    /\ UNCHANGED <<setup, left, machine, envoyVars>>

\* Envoy loses its connections to a process that ends.
Crash(c) ==
    /\ left.crashes > 0 /\ cp[c].pc # "off"
    /\ Fails(c)
    /\ left' = [left EXCEPT !.crashes = @ - 1]
    /\ stream' = [r \in Resources |-> IF stream[r].cp = c THEN Closed ELSE stream[r]]
    /\ envoy' = IF envoy.ads # NoAds /\ envoy.ads[1] = c THEN [envoy EXCEPT !.ads = NoAds] ELSE envoy
    /\ UNCHANGED <<setup, store, machine, secret>>

------------------------------------------------------------------------------
(* The user *)

\* Deleting a Mesh deletes what is in it, with the default Mesh the signing key too.
Applied(change) ==
    CASE change.op = "dataplane" ->
            [store EXCEPT !.dataplane = Put(@, change.id, change.services)]
      [] change.op = "mtls" -> [store EXCEPT !.mesh[change.mesh].mtls = change.backend]
      [] change.op = "create" -> [store EXCEPT !.mesh = Put(@, change.mesh, NewMesh)]
      [] change.op = "delete" ->
            [mesh |-> [m \in DOMAIN store.mesh \ {change.mesh} |-> store.mesh[m]],
             dataplane |-> [d \in {i \in DOMAIN store.dataplane : i.mesh # change.mesh} |-> store.dataplane[d]],
             key |-> IF change.mesh = Default THEN NoKey ELSE store.key,
             epoch |-> IF change.mesh = Default THEN store.epoch + 1 ELSE store.epoch]

Applicable(change) ==
    CASE change.op = "dataplane" -> change.id.mesh \in DOMAIN store.mesh
      [] change.op = "create" -> change.mesh \notin DOMAIN store.mesh
      [] OTHER -> change.mesh \in DOMAIN store.mesh

Change ==
    /\ left.changes # << >>
    /\ \E c \in setup.planes : Running(c)
    /\ IF Applicable(Head(left.changes)) THEN store' = Applied(Head(left.changes)) ELSE UNCHANGED store
    /\ left' = [left EXCEPT !.changes = Tail(@)]
    /\ UNCHANGED <<setup, cp, machine, envoyVars>>

\* The token API, asked by a user who has no token or whose token was refused.
handleIdentityRequest(c) ==
    LET id == setup.tokens[dp.tries + 1]
    IN  /\ dp.pc = "off" /\ (dp.token = NoToken \/ dp.refused)
        /\ dp.tries < Len(setup.tokens)
        /\ Running(c) /\ cp[c].adminKey # NoKey
        /\ id.name # "" /\ id.mesh # ""
        /\ dp' = [dp EXCEPT !.token = TokenGenerate(cp[c].adminKey, id), !.tries = @ + 1, !.refused = FALSE]
        /\ UNCHANGED <<setup, left, store, cp, files, orphans, envoyVars>>

------------------------------------------------------------------------------
(* kuma-dp *)

\* The lowest free port of the range, or 0.
PickTCPPort(low, high, busy) ==
    LET free == {p \in low..high : p \notin busy}
    IN  IF free = {} THEN 0 ELSE CHOOSE p \in free : \A q \in free : p <= q

\* newRunCmd up to the start of the components.  A run that fails before changes nothing.
\* The user starts kuma-dp once the Dataplane exists, unless the setup says otherwise.
Run(c) ==
    LET port == PickTCPPort(setup.ports[1], setup.ports[2], orphans)
    IN  /\ dp.pc = "off" /\ ~dp.refused
        /\ setup.eager \/ setup.proxy \in DOMAIN store.dataplane
        /\ Running(c)
        /\ DataplaneTokenEnabled(FromConfig(cp[c].cfg.catalog)) => dp.token # NoToken
        /\ port # 0
        /\ dp' = [dp EXCEPT !.pc = "up", !.port = port, !.logs = "none", !.envoy = "none"]
        /\ UNCHANGED <<setup, left, store, cp, files, orphans, envoyVars>>

\* The access log server: net.Listen fails when the socket exists, and a graceful
\* stop removes it.
AccessLogServerStart ==
    \/ /\ dp.pc = "up" /\ dp.logs = "none"
       /\ IF Pipe \in files
          THEN dp' = [dp EXCEPT !.logs = "failed", !.fail = TRUE] /\ UNCHANGED files
          ELSE dp' = [dp EXCEPT !.logs = "listening"] /\ files' = files \cup {Pipe}
       /\ UNCHANGED <<setup, left, store, cp, orphans, envoyVars>>
    \/ /\ dp.pc = "up" /\ dp.stopping /\ dp.logs = "listening"
       /\ dp' = [dp EXCEPT !.logs = "stopped"]
       /\ files' = files \ {Pipe}
       /\ UNCHANGED <<setup, left, store, cp, orphans, envoyVars>>

\* The request for the bootstrap configuration, answered by the control plane c; there
\* is no second attempt.
RemoteBootstrap(c) ==
    IF ~Running(c) THEN [status |-> 0]
    ELSE handleBootstrapRequest(cp[c].cfg, store,
            [mesh |-> setup.proxy.mesh, name |-> setup.proxy.name, ns |-> setup.proxy.ns,
             adminPort |-> dp.port, tokenPath |-> dp.token # NoToken])

EnvoyStart(c) ==
    /\ dp.pc = "up" /\ dp.envoy = "none"
    /\ \E r \in {RemoteBootstrap(c)} :
          IF r.status = 200
          THEN /\ dp' = [dp EXCEPT !.envoy = "running"]
               /\ envoy' = [NoEnvoy EXCEPT !.on = TRUE, !.pipe = r.config.accessLog]
          ELSE dp' = [dp EXCEPT !.envoy = "failed", !.fail = TRUE] /\ UNCHANGED envoy
    /\ UNCHANGED <<setup, left, store, cp, files, orphans, stream, secret>>

EnvoyGone == envoy' = NoEnvoy /\ stream' = NoStreams /\ secret' = NoSecrets

EnvoyStop ==
    /\ dp.pc = "up" /\ dp.stopping /\ dp.envoy = "running"
    /\ dp' = [dp EXCEPT !.envoy = "stopped"]
    /\ EnvoyGone
    /\ UNCHANGED <<setup, left, store, cp, files, orphans>>

\* Envoy ends by itself: with an error the component fails, otherwise it just ends.
EnvoyExits ==
    /\ left.exits > 0 /\ dp.pc = "up" /\ dp.envoy = "running"
    /\ \/ dp' = [dp EXCEPT !.envoy = "failed", !.fail = TRUE]
       \/ dp' = [dp EXCEPT !.envoy = "quit"]
    /\ left' = [left EXCEPT !.exits = @ - 1]
    /\ EnvoyGone
    /\ UNCHANGED <<setup, store, cp, files, orphans>>

\* The user stops kuma-dp to replace a refused token, or just so.
Stop ==
    /\ dp.pc = "up" /\ ~dp.stopping
    /\ dp' = [dp EXCEPT !.stopping = TRUE]
    /\ \/ dp.refused /\ UNCHANGED left
       \/ left.stops > 0 /\ left' = [left EXCEPT !.stops = @ - 1]
    /\ UNCHANGED <<setup, store, cp, files, orphans, envoyVars>>

\* Start of the component manager returns on the first error or on the stop signal, and
\* the process ends whatever the components have done by then.  A container takes its
\* files and processes with it.
ManagerReturns ==
    /\ dp.pc = "up" /\ (dp.fail \/ dp.stopping)
    /\ dp' = [dp EXCEPT !.pc = "off", !.fail = FALSE, !.stopping = FALSE, !.logs = "none",
                        !.envoy = "none", !.port = 0]
    /\ files' = IF Universal THEN files ELSE {}
    /\ orphans' = IF Universal /\ envoy.on THEN orphans \cup {dp.port} ELSE orphans
    /\ EnvoyGone
    /\ UNCHANGED <<setup, left, store, cp>>

------------------------------------------------------------------------------
(* Envoy (external) and the streams of the secret discovery service *)

Mtls == Backend(store, setup.proxy.mesh) # ""

\* Envoy connects to a control plane, which tells it where SDS is and whom to trust.
EnvoyConnects(c) ==
    LET sds == BuildControlPlaneContext(cp[c].cfg)
    IN  /\ envoy.on /\ envoy.ads = NoAds /\ Running(c)
        /\ envoy' = [envoy EXCEPT !.ads = <<c, cp[c].n>>, !.sds = sds]
        /\ stream' = IF sds = envoy.sds THEN stream ELSE NoStreams
        /\ UNCHANGED <<setup, left, store, cp, machine, secret>>

\* Envoy is given listeners with or without TLS; without, it drops its secrets, sends a
\* request without names and ends the stream.
EnvoyConfigured ==
    /\ envoy.ads # NoAds
    /\ setup.proxy \in DOMAIN store.dataplane /\ envoy.wants # Mtls
    /\ envoy' = [envoy EXCEPT !.wants = Mtls]
    /\ stream' = [r \in Resources |-> IF Mtls \/ stream[r].cp = "" THEN stream[r]
                    ELSE [stream[r] EXCEPT !.in = Append(@, [names |-> << >>, nonce |-> 0]), !.closing = TRUE]]
    /\ secret' = IF Mtls THEN secret ELSE NoSecrets
    /\ UNCHANGED <<setup, left, store, cp, machine>>

\* Any control plane may answer at the address of SDS; TLS fails unless its certificate
\* is the one Envoy was told to trust, for that host.
StreamSecrets(r, c) ==
    /\ envoy.wants /\ stream[r] = Closed /\ Running(c)
    /\ cp[c].cfg.sdsCert.id = envoy.sds.cert.id /\ envoy.sds.host \in cp[c].cfg.sdsCert.hosts
    /\ stream' = [stream EXCEPT ![r].cp = c, ![r].in = <<[names |-> <<r>>, nonce |-> 0]>>]
    /\ UNCHANGED <<setup, left, store, cp, machine, envoy, secret>>

\* The server takes a request; an error ends the stream.
SdsProcess(r) ==
    LET s == stream[r]
    IN  /\ s.in # << >>
        /\ \E res \in {process(cp[s.cp], store, s.st, Head(s.in), setup.proxy, dp.token)} :
              IF res.err
              THEN /\ stream' = [stream EXCEPT ![r] = Closed]
                   /\ dp' = [dp EXCEPT !.refused = @ \/ (r = IdentityCertResource /\ dp.tries < Len(setup.tokens))]
              ELSE /\ stream' = [stream EXCEPT ![r] = [s EXCEPT !.in = Tail(@), !.out = @ \o res.out, !.st = res.st]]
                   /\ UNCHANGED dp
        /\ UNCHANGED <<setup, left, store, cp, files, orphans, envoy, secret>>

\* Envoy takes a secret and acknowledges it, unless it is about to end the stream.
EnvoyReceives(r) ==
    LET s == stream[r]
    IN  /\ s.out # << >>
        /\ stream' = [stream EXCEPT ![r].out = Tail(@),
                         ![r].in = IF s.closing THEN @ ELSE Append(@, [names |-> <<r>>, nonce |-> Head(s.out).nonce])]
        /\ secret' = IF s.closing THEN secret ELSE [secret EXCEPT ![r] = Head(s.out).secret]
        /\ UNCHANGED <<setup, left, store, cp, machine, envoy>>

StreamEnds(r) ==
    /\ stream[r].closing /\ stream[r].in = << >> /\ stream[r].out = << >>
    /\ stream' = [stream EXCEPT ![r] = Closed]
    /\ UNCHANGED <<setup, left, store, cp, machine, envoy, secret>>

StreamStep(r) ==
    \/ \E c \in setup.planes : StreamSecrets(r, c)
    \/ SdsProcess(r) \/ EnvoyReceives(r) \/ StreamEnds(r)

Next ==
    \/ \E c \in setup.planes :
          \/ ControlPlaneStep(c) \/ Crash(c) \/ handleIdentityRequest(c)
          \/ Run(c) \/ EnvoyStart(c) \/ EnvoyConnects(c)
    \/ Change \/ AccessLogServerStart \/ EnvoyStop \/ EnvoyExits \/ Stop \/ ManagerReturns
    \/ EnvoyConfigured
    \/ \E r \in Resources : StreamStep(r)

\* Processes that end are started again and everyone goes on; nobody has to crash, stop
\* or end, except the user whose token was refused.
Fairness ==
    /\ \A c \in ControlPlanes : WF_vars(c \in setup.planes /\ ControlPlaneStep(c))
    /\ WF_vars(\E c \in setup.planes : handleIdentityRequest(c) \/ Run(c))
    /\ WF_vars(\E c \in setup.planes : EnvoyStart(c))
    /\ WF_vars(\E c \in setup.planes : EnvoyConnects(c))
    /\ WF_vars(Change)
    /\ WF_vars(AccessLogServerStart)
    /\ WF_vars(dp.refused /\ Stop)
    /\ WF_vars(ManagerReturns)
    /\ WF_vars(EnvoyConfigured)
    /\ \A r \in Resources : WF_vars(StreamStep(r))

Spec == Init /\ [][Next]_vars /\ Fairness

------------------------------------------------------------------------------
(* Properties *)

Keys == {NoKey} \cup (ControlPlanes \X Nat)
Pcs == {"off", "getMesh", "createMesh", "getKey", "createKey", "sds", "admin", "running"}

\* Types: a control plane is at one of its steps, keys are those of some start, an Envoy
\* belongs to a running kuma-dp, and only an Envoy that was given TLS has streams or
\* secrets.
TypeOK ==
    /\ \A c \in setup.planes : cp[c].pc \in Pcs /\ {cp[c].sdsKey, cp[c].adminKey, store.key} \subseteq Keys
    /\ envoy.on <=> dp.envoy = "running"
    /\ dp.envoy = "running" => dp.pc = "up"
    /\ \A r \in Resources : stream[r].cp # "" => envoy.on /\ cp[stream[r].cp].pc = "running"
    /\ ~envoy.wants => secret = NoSecrets

\* A token issued by one control plane is accepted by every other: the issuer of the
\* token API and the authenticator of SDS have the same signing key, whichever control
\* plane created it and however their starts and crashes interleave
\* (storeKeyIfNotExist, GetSigningKey).  The keys may differ only when the key was
\* deleted with the default Mesh between the two reads.
TokensAccepted ==
    \A c, d \in setup.planes :
        /\ cp[c].adminKey # NoKey /\ cp[d].sdsKey # NoKey
        /\ cp[c].adminEpoch = cp[d].sdsEpoch
        => cp[c].adminKey = cp[d].sdsKey

\* An Envoy gets a certificate only for the Dataplane it runs for, and where tokens are
\* checked only with a token for that very Dataplane (reviewToken), whatever tokens its
\* user has tried before.
IdentityProven ==
    LET cert == secret[IdentityCertResource]
    IN  cert # NoSecret =>
          /\ cert.mesh = setup.proxy.mesh /\ cert.service \in setup.services
          /\ Universal /\ setup.cfg.tokenServer.enabled
               => dp.token.mesh = setup.proxy.mesh /\ dp.token.name = setup.proxy.name

\* A subscription is answered once: the acknowledgement of a secret is not taken for
\* another request, so a stream does not run in circles (process).
AnsweredOnce == \A r \in Resources : stream[r].st.nonce <= 1

Settled ==
    /\ envoy.on /\ envoy.pipe \in files /\ dp.logs = "listening"
    /\ envoy.wants = Mtls
    /\ Mtls => \A r \in Resources : secret[r] # NoSecret
StaleSocket == Pipe \in files /\ dp.logs # "listening"
Revoked == dp.token # NoToken /\ Universal /\ dp.token.key # store.key
EnvoyQuit == dp.envoy = "quit"

\* In the end Envoy runs, its access log goes to a socket kuma-dp listens on and, when
\* its Mesh has mTLS, it holds the mesh CA and its own certificate, through late
\* Dataplanes, crashes of control planes and new tokens (newRunCmd, Generate, process).
\* Three things the code does not recover from are left out: a socket an earlier
\* kuma-dp left behind, a signing key deleted with the default Mesh, and an Envoy that
\* ended without an error.
SecretsArrive == <>[](Settled \/ StaleSocket \/ Revoked \/ EnvoyQuit)
=============================================================================
