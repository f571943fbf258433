-------------------------- MODULE ProxyStartProofs --------------------------
(***************************************************************************)
(* Proofs about ProxyStart, for any number of control planes, crashes,     *)
(* tokens and changes of the store: tokens of one control plane are        *)
(* accepted by the others, a subscription for a secret is answered once,   *)
(* and an Envoy has the certificate of its own Dataplane only.             *)
(***************************************************************************)
EXTENDS ProxyStart, TLAPS

(* Control planes *)

\* What a start of control plane c, its n-th, may look like.
StartedPlanes(c, n) ==
    [pc : Pcs \ {"off"}, n : {n}, cfg : {autoconfigure(setup.cfg, <<c, n>>)}, mine : {<<c, n>>},
     sdsKey : Keys, adminKey : Keys, sdsEpoch : Nat, adminEpoch : Nat]

PlaneOK(c, p) == p.n \in Nat /\ (p = Down(p.n) \/ p \in StartedPlanes(c, p.n))

Stores ==
    /\ DOMAIN store = {"mesh", "dataplane", "key", "epoch"}
    /\ store.key \in Keys
    /\ store.epoch \in Nat

\* A key somebody has read is the one of the store, unless that was deleted since.
KeyCurrent(key, epoch) ==
    key # NoKey => epoch <= store.epoch /\ (epoch = store.epoch => key = store.key)

KeysCurrent ==
    \A c \in setup.planes :
        KeyCurrent(cp[c].sdsKey, cp[c].sdsEpoch) /\ KeyCurrent(cp[c].adminKey, cp[c].adminEpoch)

PlanesOK ==
    /\ setup \in Setups
    /\ DOMAIN cp = setup.planes
    /\ \A c \in setup.planes : PlaneOK(c, cp[c])
    /\ Stores

KeyInv == PlanesOK /\ KeysCurrent /\ TokensAccepted
-----------------------------------------------------------------------------
(* kuma-dp, Envoy and the streams *)

Messages(r) == [names : {<< >>, <<r>>}, nonce : {0, 1}]

\* The certificate is one of the Dataplane that kuma-dp runs for.
Proven(cert) ==
    /\ cert.mesh = setup.proxy.mesh /\ cert.service \in setup.services
    /\ Universal /\ setup.cfg.tokenServer.enabled
         => dp.token.mesh = setup.proxy.mesh /\ dp.token.name = setup.proxy.name

\* A stream has one request that is not an acknowledgement, and one response.
StreamOK(r, s) ==
    /\ DOMAIN s = {"cp", "in", "out", "st", "closing"}
    /\ s.in \in Seq(Messages(r))
    /\ s.st \in [resource : {""} \cup Resources, nonce : {0, 1}]
    /\ s.closing \in BOOLEAN
    /\ s.st.nonce = 0 => /\ s.out = << >>
                         /\ \A i \in DOMAIN s.in : i # 1 => s.in[i].names = << >>
    /\ s.st.nonce = 1 => \A i \in DOMAIN s.in : s.in[i].names = << >> \/ s.in[i].nonce = 1
    /\ s.out # << >> => s.out = <<s.out[1]>> /\ s.out[1].nonce = 1

ProvenOut(s) == s.out # << >> => Proven(s.out[1].secret)

\* A stream ends with the control plane it goes to, and with the need for secrets.
StreamLive(s) ==
    s = Closed \/ (s.cp \in setup.planes /\ cp[s.cp].pc = "running" /\ (s.closing \/ envoy.wants))

StreamsOK ==
    /\ DOMAIN stream = Resources
    /\ \A r \in Resources : StreamOK(r, stream[r]) /\ StreamLive(stream[r])
    /\ ProvenOut(stream[IdentityCertResource])

DpFields == {"pc", "token", "tries", "refused", "logs", "envoy", "fail", "stopping", "port"}
EnvoyFields == {"on", "pipe", "ads", "sds", "wants"}

\* There are no streams and secrets without an Envoy, and no Envoy without kuma-dp.
ProxyOK ==
    /\ DOMAIN dp = DpFields /\ DOMAIN envoy = EnvoyFields
    /\ dp.pc \in {"off", "up"}
    /\ dp.pc = "off" => dp.envoy = "none"
    /\ dp.envoy # "running" => envoy = NoEnvoy /\ stream = NoStreams /\ secret = NoSecrets
    /\ dp.envoy = "running" => envoy.on
    /\ DOMAIN secret = Resources
    /\ ~envoy.wants => secret = NoSecrets
    /\ secret[IdentityCertResource] # NoSecret => Proven(secret[IdentityCertResource])

\* The services of the proxy, in the store and in the changes to come.
Named(services) == services # << >> => services[1] \in setup.services

ServicesOK ==
    /\ setup.proxy \in DOMAIN store.dataplane => Named(store.dataplane[setup.proxy])
    /\ DOMAIN left = {"crashes", "stops", "exits", "changes"}
    /\ left.changes \in Seq(Range(setup.changes))

IInv == KeyInv /\ StreamsOK /\ ProxyOK /\ ServicesOK
-----------------------------------------------------------------------------
(* The signing key *)

LEMMA DownIsOK ==
    ASSUME NEW c, NEW n \in Nat
    PROVE  PlaneOK(c, Down(n)) /\ Down(n).sdsKey = NoKey /\ Down(n).adminKey = NoKey /\ Down(n).pc = "off"
  BY DEF PlaneOK, Down

LEMMA PlaneFields ==
    ASSUME NEW c, NEW p, PlaneOK(c, p)
    PROVE  /\ p.pc \in Pcs /\ p.n \in Nat
           /\ p.sdsKey \in Keys /\ p.adminKey \in Keys
           /\ p.sdsEpoch \in Nat /\ p.adminEpoch \in Nat
<1>1. CASE p = Down(p.n)
  <2> DEFINE n == p.n
  <2>1. n \in Nat /\ p = Down(n)
    BY <1>1 DEF PlaneOK
  <2> HIDE DEF n
  <2> QED
    BY <2>1 DEF Down, Pcs, Keys
<1>2. CASE p \in StartedPlanes(c, p.n)
  BY <1>2 DEF PlaneOK, StartedPlanes
<1> QED
  BY <1>1, <1>2 DEF PlaneOK

LEMMA StartedIsOK ==
    ASSUME NEW c, NEW n \in Nat, NEW p \in StartedPlanes(c, n)
    PROVE  PlaneOK(c, p) /\ p.n = n /\ p.pc # "off" /\ p.cfg = autoconfigure(setup.cfg, <<c, n>>)
  BY DEF PlaneOK, StartedPlanes

\* A control plane that is not off has started and can go on.
LEMMA GoesOn ==
    ASSUME NEW c, NEW p, PlaneOK(c, p), p.pc # "off", NEW pc \in Pcs \ {"off"}
    PROVE  /\ p \in StartedPlanes(c, p.n) /\ p.n \in Nat
           /\ LET q == [p EXCEPT !.pc = pc] IN
              /\ q \in StartedPlanes(c, p.n) /\ q.pc = pc
              /\ q.sdsKey = p.sdsKey /\ q.sdsEpoch = p.sdsEpoch
              /\ q.adminKey = p.adminKey /\ q.adminEpoch = p.adminEpoch
<1>1. p \in StartedPlanes(c, p.n) /\ p.n \in Nat
  BY DEF PlaneOK, Down
<1> DEFINE n == p.n
           a == autoconfigure(setup.cfg, <<c, n>>)
           m == <<c, n>>
<1>2. p \in [pc : Pcs \ {"off"}, n : {n}, cfg : {a}, mine : {m},
             sdsKey : Keys, adminKey : Keys, sdsEpoch : Nat, adminEpoch : Nat]
  BY <1>1 DEF StartedPlanes
<1>3. StartedPlanes(c, p.n) = [pc : Pcs \ {"off"}, n : {n}, cfg : {a}, mine : {m},
             sdsKey : Keys, adminKey : Keys, sdsEpoch : Nat, adminEpoch : Nat]
  BY DEF StartedPlanes
<1> HIDE DEF n, a, m
<1> QED
  BY <1>1, <1>2, <1>3

\* A key that one control plane has is none, the one it had, or the one of the store.
Read(key, epoch, oldKey, oldEpoch) ==
    \/ key = NoKey
    \/ key = oldKey /\ epoch = oldEpoch
    \/ key = store.key /\ epoch = store.epoch

\* One control plane goes on, and the store keeps its key.
LEMMA PlaneGoesOn ==
    ASSUME KeyInv, NEW c \in setup.planes, NEW p, PlaneOK(c, p),
           Read(p.sdsKey, p.sdsEpoch, cp[c].sdsKey, cp[c].sdsEpoch),
           Read(p.adminKey, p.adminEpoch, cp[c].adminKey, cp[c].adminEpoch),
           cp' = [cp EXCEPT ![c] = p], setup' = setup, Stores',
           store'.key = store.key, store'.epoch = store.epoch
    PROVE  KeyInv'
<1> USE DEF KeyInv, PlanesOK
<1>1. \A d \in setup.planes : cp'[d] = IF d = c THEN p ELSE cp[d]
  OBVIOUS
<1>2. PlanesOK'
  <2>1. \A d \in setup.planes : PlaneOK(d, cp'[d])
    BY <1>1
  <2>2. \A d, q : PlaneOK(d, q)' <=> PlaneOK(d, q)
    BY DEF PlaneOK, StartedPlanes
  <2> QED
    BY <2>1, <2>2 DEF PlaneOK, StartedPlanes
<1>3. /\ KeyCurrent(p.sdsKey, p.sdsEpoch) /\ KeyCurrent(p.adminKey, p.adminEpoch)
      /\ \A d \in setup.planes :
            KeyCurrent(cp[d].sdsKey, cp[d].sdsEpoch) /\ KeyCurrent(cp[d].adminKey, cp[d].adminEpoch)
  BY DEF KeysCurrent, KeyCurrent, Read, Stores
<1>4. KeysCurrent'
  BY <1>1, <1>3 DEF KeysCurrent, KeyCurrent
<1>5. TokensAccepted'
  BY <1>1, <1>3 DEF TokensAccepted, KeyCurrent, Read
<1> QED
  BY <1>2, <1>4, <1>5

\* Nobody has a key when the first one is stored, nor one of the epoch that begins when
\* the key is deleted.
LEMMA StoreChanges ==
    ASSUME KeyInv, cp' = cp, setup' = setup, Stores',
           \/ store'.epoch = store.epoch /\ (store.key = NoKey \/ store'.key = store.key)
           \/ store'.epoch > store.epoch
    PROVE  KeyInv'
<1> USE DEF KeyInv, PlanesOK
<1>1. PlanesOK'
  BY DEF PlaneOK, StartedPlanes
<1>2. \A c \in setup.planes : PlaneOK(c, cp[c])
  OBVIOUS
<1>3. KeysCurrent'
  <2> SUFFICES ASSUME NEW c \in setup.planes
               PROVE  /\ KeyCurrent(cp[c].sdsKey, cp[c].sdsEpoch)'
                      /\ KeyCurrent(cp[c].adminKey, cp[c].adminEpoch)'
    BY DEF KeysCurrent
  <2>1. KeyCurrent(cp[c].sdsKey, cp[c].sdsEpoch) /\ KeyCurrent(cp[c].adminKey, cp[c].adminEpoch)
    BY DEF KeysCurrent
  <2>2. cp[c].sdsEpoch \in Nat /\ cp[c].adminEpoch \in Nat
    BY <1>2, PlaneFields
  <2> QED
    BY <2>1, <2>2 DEF KeyCurrent, Stores
<1>4. TokensAccepted'
  BY DEF TokensAccepted
<1> QED
  BY <1>1, <1>3, <1>4

LEMMA FailsKeeps ==
    ASSUME KeyInv, NEW c \in setup.planes, Fails(c), setup' = setup, store' = store
    PROVE  KeyInv'
<1>1. cp[c].n \in Nat
  BY PlaneFields DEF KeyInv, PlanesOK
<1>2. cp' = [cp EXCEPT ![c] = Down(cp[c].n)]
  BY DEF Fails
<1>3. Stores'
  BY DEF Stores, KeyInv, PlanesOK
<1> QED
  BY ZenonT(60), <1>1, <1>2, <1>3, DownIsOK, PlaneGoesOn DEF Read

\* Any step of the start that only goes on, with the store as it is or another Mesh.
LEMMA GotoKeeps ==
    ASSUME KeyInv, NEW c \in setup.planes, NEW pc \in Pcs \ {"off"}, cp[c].pc # "off", Goto(c, pc),
           setup' = setup, Stores', store'.key = store.key, store'.epoch = store.epoch
    PROVE  KeyInv'
<1> DEFINE p == [cp[c] EXCEPT !.pc = pc]
<1>1. cp' = [cp EXCEPT ![c] = p]
  BY DEF Goto
<1>2. PlaneOK(c, cp[c])
  BY DEF KeyInv, PlanesOK
<1>3. /\ p \in StartedPlanes(c, cp[c].n) /\ cp[c].n \in Nat
      /\ p.sdsKey = cp[c].sdsKey /\ p.sdsEpoch = cp[c].sdsEpoch
      /\ p.adminKey = cp[c].adminKey /\ p.adminEpoch = cp[c].adminEpoch
  BY <1>2, GoesOn
<1> HIDE DEF p
<1>4. PlaneOK(c, p)
  BY ZenonT(60), <1>3, StartedIsOK
<1> QED
  BY ZenonT(60), <1>1, <1>3, <1>4, PlaneGoesOn DEF Read

LEMMA BootstrapKeeps ==
    ASSUME KeyInv, NEW c \in setup.planes, Bootstrap(c), setup' = setup
    PROVE  KeyInv'
<1> DEFINE n == cp[c].n + 1
           p == [pc |-> IF Universal THEN "getMesh" ELSE "sds", n |-> n,
                 cfg |-> autoconfigure(setup.cfg, <<c, n>>), mine |-> <<c, n>>,
                 sdsKey |-> NoKey, adminKey |-> NoKey, sdsEpoch |-> 0, adminEpoch |-> 0]
<1>1. n \in Nat
  BY PlaneFields DEF KeyInv, PlanesOK
<1>2. cp' = [cp EXCEPT ![c] = p]
  BY DEF Bootstrap
<1>3. Stores' /\ store' = store
  BY DEF Bootstrap, Stores, KeyInv, PlanesOK
<1> HIDE DEF n
<1>4. p \in StartedPlanes(c, n)
  BY DEF StartedPlanes, Pcs, Keys
<1>5. p.sdsKey = NoKey /\ p.adminKey = NoKey
  OBVIOUS
<1> HIDE DEF p
<1> QED
  BY ZenonT(60), <1>1, <1>2, <1>3, <1>4, <1>5, StartedIsOK, PlaneGoesOn DEF Read

LEMMA MeshKeeps ==
    ASSUME KeyInv, NEW c \in setup.planes, createDefaultMesh(c), setup' = setup
    PROVE  KeyInv'
<1> USE DEF Pcs
<1>1. Stores
  BY DEF KeyInv, PlanesOK
<1>2. CASE cp[c].pc = "getMesh"
  BY <1>1, <1>2, GotoKeeps DEF createDefaultMesh, Stores
<1>3. CASE cp[c].pc = "createMesh"
  <2>1. CASE Default \in DOMAIN store.mesh
    BY <1>3, <2>1, FailsKeeps DEF createDefaultMesh
  <2>2. CASE Default \notin DOMAIN store.mesh
    <3> DEFINE m == Put(store.mesh, Default, setup.template)
    <3>1. store' = [store EXCEPT !.mesh = m] /\ Goto(c, "getKey")
      BY <1>3, <2>2 DEF createDefaultMesh
    <3> HIDE DEF m
    <3>2. Stores' /\ store'.key = store.key /\ store'.epoch = store.epoch
      BY <3>1, <1>1 DEF Stores
    <3> QED
      BY <3>1, <3>2, <1>3, GotoKeeps
  <2> QED
    BY <2>1, <2>2
<1> QED
  BY <1>2, <1>3 DEF createDefaultMesh

\* A new key is stored when nobody can have one of this epoch.
LEMMA KeyKeeps ==
    ASSUME KeyInv, NEW c \in setup.planes, storeKeyIfNotExist(c), setup' = setup
    PROVE  KeyInv'
<1> USE DEF Pcs
<1>1. Stores
  BY DEF KeyInv, PlanesOK
<1>2. CASE cp[c].pc = "getKey"
  BY <1>1, <1>2, GotoKeeps DEF storeKeyIfNotExist, Stores
<1>3. CASE cp[c].pc = "createKey"
  <2>1. CASE store.key # NoKey
    BY <1>3, <2>1, FailsKeeps DEF storeKeyIfNotExist
  <2>2. CASE store.key = NoKey
    <3> DEFINE p == [cp[c] EXCEPT !.pc = "sds"]
    <3>1. store' = [store EXCEPT !.key = cp[c].mine] /\ cp' = [cp EXCEPT ![c] = p]
      BY <1>3, <2>2 DEF storeKeyIfNotExist, Goto
    <3>2. PlaneOK(c, cp[c])
      BY DEF KeyInv, PlanesOK
    <3>3. /\ p \in StartedPlanes(c, cp[c].n)
          /\ p.sdsKey = cp[c].sdsKey /\ p.sdsEpoch = cp[c].sdsEpoch
          /\ p.adminKey = cp[c].adminKey /\ p.adminEpoch = cp[c].adminEpoch
          /\ cp[c] \in StartedPlanes(c, cp[c].n) /\ cp[c].n \in Nat
      BY <3>2, <1>3, GoesOn
    <3>4. c \in ControlPlanes
      BY ZenonT(60), SetupsAssumption DEF KeyInv, PlanesOK
    <3>5. cp[c].mine \in Keys
      BY <3>3, <3>4 DEF StartedPlanes, Keys
    <3>6. Stores' /\ store'.epoch = store.epoch
      BY <3>1, <3>5, <1>1 DEF Stores
    <3> HIDE DEF p
    <3>7. PlaneOK(c, p)
      BY ZenonT(60), <3>3, StartedIsOK
    <3>8. \A d \in setup.planes : cp'[d] = IF d = c THEN p ELSE cp[d]
      BY <3>1 DEF KeyInv, PlanesOK
    <3>9. \A d \in setup.planes : /\ cp'[d].sdsKey = cp[d].sdsKey /\ cp'[d].sdsEpoch = cp[d].sdsEpoch
                                  /\ cp'[d].adminKey = cp[d].adminKey /\ cp'[d].adminEpoch = cp[d].adminEpoch
      BY <3>8, <3>3
    <3>10. PlanesOK'
      <4>1. \A d \in setup.planes : PlaneOK(d, cp'[d])
        BY <3>8, <3>7 DEF KeyInv, PlanesOK
      <4> QED
        BY <4>1, <3>6, <3>1 DEF KeyInv, PlanesOK, PlaneOK, StartedPlanes
    <3>11. KeysCurrent'
      <4> SUFFICES ASSUME NEW d \in setup.planes
                   PROVE  /\ KeyCurrent(cp[d].sdsKey, cp[d].sdsEpoch)'
                          /\ KeyCurrent(cp[d].adminKey, cp[d].adminEpoch)'
        BY DEF KeysCurrent
      <4>1. KeyCurrent(cp[d].sdsKey, cp[d].sdsEpoch) /\ KeyCurrent(cp[d].adminKey, cp[d].adminEpoch)
        BY DEF KeyInv, KeysCurrent
      <4> QED
        BY <4>1, <3>9, <3>6, <2>2 DEF KeyCurrent
    <3>12. TokensAccepted'
      BY <3>9 DEF KeyInv, TokensAccepted
    <3> QED
      BY <3>10, <3>11, <3>12 DEF KeyInv
  <2> QED
    BY <2>1, <2>2
<1> QED
  BY <1>2, <1>3 DEF storeKeyIfNotExist

\* The two readers of the signing key take the one of the store.
LEMMA SdsKeeps ==
    ASSUME KeyInv, NEW c \in setup.planes, SetupSds(c), setup' = setup
    PROVE  KeyInv'
<1> USE DEF Pcs
<1>1. Stores /\ Stores' /\ store' = store /\ cp[c].pc = "sds" /\ PlaneOK(c, cp[c])
  BY DEF KeyInv, PlanesOK, SetupSds, Stores
<1>2. CASE ~Universal \/ ~cp[c].cfg.tokenServer.enabled
  BY <1>1, <1>2, GotoKeeps DEF SetupSds
<1>3. CASE ~(~Universal \/ ~cp[c].cfg.tokenServer.enabled) /\ store.key = NoKey
  BY <1>1, <1>3, FailsKeeps DEF SetupSds
<1>4. CASE ~(~Universal \/ ~cp[c].cfg.tokenServer.enabled) /\ store.key # NoKey
  <2> DEFINE p == [cp[c] EXCEPT !.pc = "admin", !.sdsKey = store.key, !.sdsEpoch = store.epoch]
  <2>1. cp' = [cp EXCEPT ![c] = p]
    BY ZenonT(60), <1>4 DEF SetupSds
  <2>2. /\ p \in StartedPlanes(c, cp[c].n) /\ cp[c].n \in Nat
        /\ p.sdsKey = store.key /\ p.sdsEpoch = store.epoch
        /\ p.adminKey = cp[c].adminKey /\ p.adminEpoch = cp[c].adminEpoch
    <3>1. cp[c] \in StartedPlanes(c, cp[c].n) /\ cp[c].n \in Nat
      BY ZenonT(60), <1>1, GoesOn
    <3> DEFINE n == cp[c].n
               a == autoconfigure(setup.cfg, <<c, n>>)
               m == <<c, n>>
               R == [pc : Pcs \ {"off"}, n : {n}, cfg : {a}, mine : {m},
                     sdsKey : Keys, adminKey : Keys, sdsEpoch : Nat, adminEpoch : Nat]
    <3>2. StartedPlanes(c, n) = R
      BY DEF StartedPlanes
    <3>3. cp[c] \in R /\ store.key \in Keys /\ store.epoch \in Nat
      BY <3>1, <3>2, <1>1 DEF Stores
    <3> HIDE DEF n, a, m
    <3>4. p \in R
      BY ZenonT(60), <3>3
    <3> QED
      BY <3>1, <3>2, <3>3, <3>4 DEF n
  <2> HIDE DEF p
  <2>3. PlaneOK(c, p)
    BY ZenonT(60), <2>2, StartedIsOK
  <2> QED
    BY ZenonT(60), <2>1, <2>2, <2>3, <1>1, PlaneGoesOn DEF Read
<1> QED
  BY <1>2, <1>3, <1>4

LEMMA TokenWsKeeps ==
    ASSUME KeyInv, NEW c \in setup.planes, dataplaneTokenWs(c), setup' = setup
    PROVE  KeyInv'
<1> USE DEF Pcs
<1>1. Stores /\ Stores' /\ store' = store /\ cp[c].pc = "admin" /\ PlaneOK(c, cp[c])
  BY DEF KeyInv, PlanesOK, dataplaneTokenWs, Stores
<1>2. CASE ~Universal \/ ~cp[c].cfg.admin.token.enabled
  BY <1>1, <1>2, GotoKeeps DEF dataplaneTokenWs
<1>3. CASE ~(~Universal \/ ~cp[c].cfg.admin.token.enabled) /\ store.key = NoKey
  BY <1>1, <1>3, FailsKeeps DEF dataplaneTokenWs
<1>4. CASE ~(~Universal \/ ~cp[c].cfg.admin.token.enabled) /\ store.key # NoKey
  <2> DEFINE p == [cp[c] EXCEPT !.pc = "running", !.adminKey = store.key, !.adminEpoch = store.epoch]
  <2>1. cp' = [cp EXCEPT ![c] = p]
    BY ZenonT(60), <1>4 DEF dataplaneTokenWs
  <2>2. /\ p \in StartedPlanes(c, cp[c].n) /\ cp[c].n \in Nat
        /\ p.adminKey = store.key /\ p.adminEpoch = store.epoch
        /\ p.sdsKey = cp[c].sdsKey /\ p.sdsEpoch = cp[c].sdsEpoch
    <3>1. cp[c] \in StartedPlanes(c, cp[c].n) /\ cp[c].n \in Nat
      BY ZenonT(60), <1>1, GoesOn
    <3> DEFINE n == cp[c].n
               a == autoconfigure(setup.cfg, <<c, n>>)
               m == <<c, n>>
               R == [pc : Pcs \ {"off"}, n : {n}, cfg : {a}, mine : {m},
                     sdsKey : Keys, adminKey : Keys, sdsEpoch : Nat, adminEpoch : Nat]
    <3>2. StartedPlanes(c, n) = R
      BY DEF StartedPlanes
    <3>3. cp[c] \in R /\ store.key \in Keys /\ store.epoch \in Nat
      BY <3>1, <3>2, <1>1 DEF Stores
    <3> HIDE DEF n, a, m
    <3>4. p \in R
      BY ZenonT(60), <3>3
    <3> QED
      BY <3>1, <3>2, <3>3, <3>4 DEF n
  <2> HIDE DEF p
  <2>3. PlaneOK(c, p)
    BY ZenonT(60), <2>2, StartedIsOK
  <2> QED
    BY ZenonT(60), <2>1, <2>2, <2>3, <1>1, PlaneGoesOn DEF Read
<1> QED
  BY <1>2, <1>3, <1>4

\* Deleting the default Mesh begins an epoch; no other change touches the key.
LEMMA ChangeKeeps ==
    ASSUME KeyInv, Change, ServicesOK
    PROVE  KeyInv'
<1>1. Stores
  BY DEF KeyInv, PlanesOK
<1>2. setup' = setup /\ cp' = cp
  BY DEF Change
<1>3. CASE store' = store
  BY <1>1, <1>2, <1>3, StoreChanges DEF Stores
<1>4. ASSUME NEW op, op = Head(left.changes), store' = Applied(op)
      PROVE  KeyInv'
  <2>1. CASE op.op = "dataplane"
    <3> DEFINE d == Put(store.dataplane, op.id, op.services)
    <3>1. store' = [store EXCEPT !.dataplane = d]
      BY <1>4, <2>1 DEF Applied
    <3> HIDE DEF d
    <3>2. Stores' /\ store'.key = store.key /\ store'.epoch = store.epoch
      BY SMTT(40), ZenonT(40), <3>1, <1>1 DEF Stores
    <3> QED
      BY <3>2, <1>2, StoreChanges
  <2>2. CASE op.op = "mtls"
    <3> DEFINE m == [store.mesh EXCEPT ![op.mesh].mtls = op.backend]
    <3>1. store' = [store EXCEPT !.mesh = m]
      BY <1>4, <2>2 DEF Applied
    <3> HIDE DEF m
    <3>2. Stores' /\ store'.key = store.key /\ store'.epoch = store.epoch
      BY <3>1, <1>1 DEF Stores
    <3> QED
      BY <3>2, <1>2, StoreChanges
  <2>3. CASE op.op = "create"
    <3> DEFINE m == Put(store.mesh, op.mesh, NewMesh)
    <3>1. store' = [store EXCEPT !.mesh = m]
      BY <1>4, <2>3 DEF Applied
    <3> HIDE DEF m
    <3>2. Stores' /\ store'.key = store.key /\ store'.epoch = store.epoch
      BY <3>1, <1>1 DEF Stores
    <3> QED
      BY <3>2, <1>2, StoreChanges
  <2>4. CASE op.op = "delete"
    <3> DEFINE m == [n \in DOMAIN store.mesh \ {op.mesh} |-> store.mesh[n]]
               d == [i \in {j \in DOMAIN store.dataplane : j.mesh # op.mesh} |-> store.dataplane[i]]
    <3>1. store' = [mesh |-> m, dataplane |-> d,
                    key |-> IF op.mesh = Default THEN NoKey ELSE store.key,
                    epoch |-> IF op.mesh = Default THEN store.epoch + 1 ELSE store.epoch]
      BY <1>4, <2>4 DEF Applied
    <3> HIDE DEF m, d
    <3>2. /\ Stores'
          /\ \/ store'.key = store.key /\ store'.epoch = store.epoch
             \/ store'.epoch > store.epoch
      BY <3>1, <1>1 DEF Stores, Keys
    <3> QED
      BY <3>2, <1>2, StoreChanges
  <2>5. op.op \in {"dataplane", "mtls", "create", "delete"}
    <3>1. op \in Range(setup.changes)
      BY <1>4 DEF Change, ServicesOK
    <3> QED
      BY ZenonT(60), <3>1, SetupsAssumption DEF KeyInv, PlanesOK
  <2> QED
    BY <2>1, <2>2, <2>3, <2>4, <2>5
<1> QED
  BY <1>3, <1>4 DEF Change
-----------------------------------------------------------------------------
(* What a control plane makes of its configuration leaves the environment and the
   deprecated section of the tokens as they are. *)

LEMMA Autoconfigured ==
    ASSUME NEW cfg, NEW id,
           {"env", "tokenServer", "admin", "catalog", "params", "sdsCert"} \subseteq DOMAIN cfg
    PROVE  /\ autoconfigure(cfg, id).env = cfg.env
           /\ autoconfigure(cfg, id).tokenServer = cfg.tokenServer
<1> DEFINE Same(a, b) == DOMAIN a = DOMAIN b /\ a.env = b.env /\ a.tokenServer = b.tokenServer
<1>1. ASSUME NEW a, {"env", "tokenServer", "admin"} \subseteq DOMAIN a, NEW x
      PROVE  Same([a EXCEPT !.admin = x], a)
  BY <1>1
<1>2. ASSUME NEW a, {"env", "tokenServer", "catalog"} \subseteq DOMAIN a, NEW x
      PROVE  Same([a EXCEPT !.catalog = x], a)
  BY <1>2
<1>3. ASSUME NEW a, {"env", "tokenServer", "params"} \subseteq DOMAIN a, NEW x
      PROVE  Same([a EXCEPT !.params = x], a)
  BY <1>3
<1>4. ASSUME NEW a, {"env", "tokenServer", "sdsCert"} \subseteq DOMAIN a, NEW x
      PROVE  Same([a EXCEPT !.sdsCert = x], a)
  BY <1>4
<1> DEFINE a == autoconfigureAdminServer(cfg)
           b == autoconfigureCatalog(a)
           c == autoconfigBootstrapXdsParams(b)
<1>5. Same(a, cfg)
  <2>1. \E x : a = [cfg EXCEPT !.admin = x]
    BY ZenonT(60) DEF autoconfigureAdminServer
  <2> HIDE DEF a, Same
  <2> QED
    BY <2>1, <1>1
<1>6. Same(b, a)
  <2>1. \E x : b = [a EXCEPT !.catalog = x]
    <3> HIDE DEF a
    <3> QED
      BY ZenonT(60) DEF autoconfigureCatalog
  <2>2. {"env", "tokenServer", "catalog"} \subseteq DOMAIN a
    <3> HIDE DEF a
    <3> QED BY <1>5
  <2> HIDE DEF a, b, Same
  <2> QED
    BY <2>1, <2>2, <1>2
<1>7. Same(c, b)
  <2>1. {"env", "tokenServer", "params"} \subseteq DOMAIN b
    <3> HIDE DEF a, b
    <3> QED BY <1>5, <1>6
  <2>2. \E x : c = [b EXCEPT !.params = x]
    <3> HIDE DEF b
    <3> DEFINE h == IF b.params.xdsHost = "" THEN b.hostname ELSE b.params.xdsHost
               q == [b.params EXCEPT !.xdsHost = h]
               x == [q EXCEPT !.xdsPort = IF q.xdsPort = 0 THEN b.ports.xds ELSE q.xdsPort]
    <3>1. c = [[b EXCEPT !.params = q] EXCEPT !.params = x]
      BY <2>1 DEF autoconfigBootstrapXdsParams
    <3> HIDE DEF q, x, c
    <3>2. c = [b EXCEPT !.params = x]
      BY ZenonT(60), <3>1
    <3> QED
      BY ZenonT(60), <3>2
  <2> HIDE DEF b, c, Same
  <2> QED
    BY <2>1, <2>2, <1>3
<1>8. Same(autoconfigureSds(c, id), c)
  <2>1. {"env", "tokenServer", "sdsCert"} \subseteq DOMAIN c
    <3> HIDE DEF a, b, c
    <3> QED BY <1>5, <1>6, <1>7
  <2>2. autoconfigureSds(c, id) = c \/ \E x : autoconfigureSds(c, id) = [c EXCEPT !.sdsCert = x]
    <3> HIDE DEF c
    <3> QED
      BY ZenonT(60) DEF autoconfigureSds
  <2>3. Same(c, c)
    <3> HIDE DEF c
    <3> QED OBVIOUS
  <2> HIDE DEF c, Same
  <2> QED
    BY <2>1, <2>2, <2>3, <1>4
<1>9. autoconfigure(cfg, id) = autoconfigureSds(c, id)
  BY DEF autoconfigure
<1> HIDE DEF a, b, c
<1> QED
  BY <1>5, <1>6, <1>7, <1>8, <1>9
-----------------------------------------------------------------------------
(* The services of the proxy *)

LEMMA ServicesKeep ==
    ASSUME IInv, Next
    PROVE  ServicesOK'
<1> USE DEF ServicesOK, Named
<1>1. ServicesOK /\ Stores /\ setup \in Setups
  BY DEF IInv, KeyInv, PlanesOK
<1>2. setup' = setup
  BY ZenonT(60) DEF Next, ControlPlaneStep, Crash, handleIdentityRequest, Run, EnvoyStart, EnvoyConnects, Change,
         AccessLogServerStart, EnvoyStop, EnvoyExits, Stop, ManagerReturns, EnvoyConfigured, StreamStep,
         StreamSecrets, SdsProcess, EnvoyReceives, StreamEnds
<1>3. CASE store' = store /\ left' = left
  BY <1>1, <1>2, <1>3
<1>4. CASE store' = store /\ \E n : \/ left' = [left EXCEPT !.crashes = n]
                                    \/ left' = [left EXCEPT !.exits = n]
                                    \/ left' = [left EXCEPT !.stops = n]
  <2>1. DOMAIN left' = DOMAIN left /\ left'.changes = left.changes
    BY <1>1, <1>4
  <2> QED
    BY <2>1, <1>1, <1>2, <1>4
<1>5. ASSUME NEW c \in setup.planes, ControlPlaneStep(c)
      PROVE  ServicesOK'
  <2>1. left' = left
    BY <1>5 DEF ControlPlaneStep
  <2>2. \/ store' = store \/ \E x : store' = [store EXCEPT !.mesh = x]
        \/ \E x : store' = [store EXCEPT !.key = x]
    BY <1>5 DEF ControlPlaneStep, Bootstrap, createDefaultMesh, storeKeyIfNotExist, SetupSds, dataplaneTokenWs
  <2>3. store'.dataplane = store.dataplane
    BY <2>2, <1>1 DEF Stores
  <2> QED
    BY <2>1, <2>3, <1>1, <1>2
<1>6. CASE Change
  <2> DEFINE op == Head(left.changes)
  <2>1. op \in Range(setup.changes) /\ Tail(left.changes) \in Seq(Range(setup.changes))
    BY <1>6, <1>1 DEF Change
  <2>2. DOMAIN left' = DOMAIN left /\ left'.changes = Tail(left.changes)
    BY <1>6, <1>1 DEF Change
  <2>3. op.op = "dataplane" /\ op.id = setup.proxy => Named(op.services)
    BY ZenonT(60), <2>1, <1>1, SetupsAssumption
  <2>4. op.op \in {"dataplane", "mtls", "create", "delete"}
    BY ZenonT(60), <2>1, <1>1, SetupsAssumption
  <2>5. store' = store \/ store' = Applied(op)
    BY <1>6 DEF Change
  <2> HIDE DEF op
  <2>6. setup.proxy \in DOMAIN store'.dataplane => Named(store'.dataplane[setup.proxy])
    <3>1. CASE store' = store
      BY <3>1, <1>1
    <3>2. CASE store' = Applied(op) /\ op.op = "dataplane"
      <4>1. store'.dataplane = Put(store.dataplane, op.id, op.services)
        BY <3>2, <1>1 DEF Applied, Stores
      <4> QED
        BY <3>2, <4>1, <2>3, <1>1 DEF Put
    <3>3. CASE store' = Applied(op) /\ op.op \in {"mtls", "create"}
      <4>1. \E x : store' = [store EXCEPT !.mesh = x]
        BY ZenonT(60), <3>3 DEF Applied
      <4>2. store'.dataplane = store.dataplane
        BY <4>1, <1>1 DEF Stores
      <4> QED
        BY <4>2, <1>1
    <3>4. CASE store' = Applied(op) /\ op.op = "delete"
      <4>1. store'.dataplane = [d \in {i \in DOMAIN store.dataplane : i.mesh # op.mesh} |-> store.dataplane[d]]
        BY <3>4 DEF Applied
      <4> QED
        BY <4>1, <1>1
    <3> QED
      BY <2>4, <2>5, <3>1, <3>2, <3>3, <3>4
  <2> QED
    BY <2>1, <2>2, <2>6, <1>1, <1>2
<1>7. \/ store' = store /\ left' = left
      \/ store' = store /\ \E n : \/ left' = [left EXCEPT !.crashes = n]
                                  \/ left' = [left EXCEPT !.exits = n]
                                  \/ left' = [left EXCEPT !.stops = n]
      \/ \E c \in setup.planes : ControlPlaneStep(c)
      \/ Change
  BY ZenonT(60) DEF Next, Crash, handleIdentityRequest, Run, EnvoyStart, EnvoyConnects,
         AccessLogServerStart, EnvoyStop, EnvoyExits, Stop, ManagerReturns, EnvoyConfigured, StreamStep,
         StreamSecrets, SdsProcess, EnvoyReceives, StreamEnds
<1> QED
  BY SMTT(40), ZenonT(40), <1>3, <1>4, <1>5, <1>6, <1>7
-----------------------------------------------------------------------------
(* The streams *)

LEMMA ClosedIsOK ==
    ASSUME NEW r
    PROVE  StreamOK(r, Closed)
<1>1. << >> \in Seq(Messages(r))
  OBVIOUS
<1>2. NewStream \in [resource : {""} \cup Resources, nonce : {0, 1}] /\ NewStream.nonce = 0
  BY DEF NewStream
<1>3. /\ DOMAIN Closed = {"cp", "in", "out", "st", "closing"}
      /\ Closed.in = << >> /\ Closed.out = << >> /\ Closed.st = NewStream /\ Closed.closing = FALSE
  BY DEF Closed
<1>4. \A i \in DOMAIN Closed.in : FALSE
  BY <1>3
<1>5. Closed.closing \in BOOLEAN
  BY ZenonT(60), <1>3
<1> HIDE DEF Closed
<1> QED
  BY <1>1, <1>2, <1>3, <1>4, <1>5, ZenonT(60) DEF StreamOK

LEMMA NoStreamsOK ==
    ASSUME stream' = NoStreams
    PROVE  StreamsOK'
<1>1. \A r \in Resources : stream'[r] = Closed
  BY DEF NoStreams
<1>2. Closed.out = << >>
  BY DEF Closed
<1>3. \A r \in Resources : StreamLive(stream[r])'
  BY <1>1 DEF StreamLive
<1>4. ProvenOut(stream[IdentityCertResource])'
  BY <1>1, <1>2 DEF ProvenOut, Resources
<1> QED
  BY <1>1, <1>3, <1>4, ClosedIsOK DEF StreamsOK, NoStreams

\* No stream changes, and no control plane stops.
LEMMA SameStreams ==
    ASSUME StreamsOK, setup' = setup, dp'.token = dp.token, stream' = stream,
           envoy.wants => envoy'.wants,
           \A c \in setup.planes : cp[c].pc = "running" => cp'[c].pc = "running"
    PROVE  StreamsOK'
<1>1. \A r \in Resources : StreamLive(stream[r])'
  BY DEF StreamsOK, StreamLive
<1>2. ProvenOut(stream[IdentityCertResource])'
  BY DEF StreamsOK, ProvenOut, Proven, Universal
<1> QED
  BY <1>1, <1>2 DEF StreamsOK

\* One stream changes and is as it may be.
LEMMA OneStream ==
    ASSUME StreamsOK, setup' = setup, dp'.token = dp.token, envoy' = envoy, cp' = cp,
           NEW r \in Resources, NEW s, stream' = [stream EXCEPT ![r] = s],
           StreamOK(r, s), StreamLive(s), r = IdentityCertResource => ProvenOut(s)
    PROVE  StreamsOK'
<1>1. \A x \in Resources : stream'[x] = IF x = r THEN s ELSE stream[x]
  BY DEF StreamsOK
<1>2. \A x \in Resources : StreamOK(x, stream'[x]) /\ StreamLive(stream'[x])
  BY <1>1 DEF StreamsOK
<1>3. \A x \in Resources : StreamLive(stream[x])'
  BY <1>2 DEF StreamLive
<1>4. ProvenOut(stream'[IdentityCertResource])
  BY <1>1 DEF StreamsOK, Resources
<1>5. ProvenOut(stream[IdentityCertResource])'
  BY <1>4 DEF ProvenOut, Proven, Universal
<1> QED
  BY <1>2, <1>3, <1>5 DEF StreamsOK

LEMMA TailOf ==
    ASSUME NEW T, NEW q \in Seq(T), q # << >>
    PROVE  /\ Tail(q) \in Seq(T) /\ Head(q) \in T /\ Head(q) = q[1] /\ 1 \in DOMAIN q
           /\ \A i \in DOMAIN Tail(q) : i \in Nat /\ i + 1 \in DOMAIN q /\ i + 1 # 1 /\ Tail(q)[i] = q[i + 1]
  OBVIOUS

LEMMA AppendTo ==
    ASSUME NEW T, NEW q \in Seq(T), NEW x \in T
    PROVE  /\ Append(q, x) \in Seq(T)
           /\ \A i \in DOMAIN Append(q, x) : \/ i \in DOMAIN q /\ Append(q, x)[i] = q[i]
                                             \/ Append(q, x)[i] = x
  OBVIOUS

\* What process makes of one request for the secret r, when it finds no error.
Processed(r, st, q, h, res) ==
    \/ q.names = << >> /\ res = [err |-> FALSE, st |-> st, out |-> << >>]
    \/ res = [err |-> FALSE, st |-> [st EXCEPT !.resource = r], out |-> << >>]
    \/ /\ q.names = <<r>> /\ ~(st.nonce # 0 /\ q.nonce = st.nonce) /\ h.ok
       /\ res = [err |-> FALSE, st |-> [resource |-> r, nonce |-> st.nonce + 1],
                 out |-> <<[secret |-> h.secret, nonce |-> st.nonce + 1]>>]

LEMMA ProcessOne ==
    ASSUME NEW r, NEW p, NEW objs, NEW st, NEW q, NEW id, NEW token,
           q.names = << >> \/ q.names = <<r>>,
           process(p, objs, st, q, id, token) # [err |-> TRUE]
    PROVE  Processed(r, st, q, Handle(p, objs, r, id, token), process(p, objs, st, q, id, token))
<1> DEFINE h == Handle(p, objs, r, id, token)
           res == process(p, objs, st, q, id, token)
<1> USE DEF Processed
<1>2. CASE q.names = << >>
  BY <1>2, ZenonT(60) DEF process
<1>3. CASE q.names = <<r>>
  <2>1. q.names # << >> /\ q.names[1] = r
    BY <1>3
  <2> DEFINE n == st.nonce + 1
             v == validateSdsRequest(st, q)
             ack == st.nonce # 0 /\ q.nonce = st.nonce
             x == [err |-> FALSE, st |-> [st EXCEPT !.resource = r], out |-> << >>]
             y == [err |-> FALSE, st |-> [resource |-> r, nonce |-> n], out |-> <<createResponse(h.secret, n)>>]
             e == [err |-> TRUE]
  <2>2. res = IF ~v THEN e ELSE IF ack THEN x ELSE IF ~h.ok THEN e ELSE y
    BY <2>1, ZenonT(60) DEF process
  <2>3. y = [err |-> FALSE, st |-> [resource |-> r, nonce |-> n], out |-> <<[secret |-> h.secret, nonce |-> n]>>]
    BY DEF createResponse
  <2> HIDE DEF n, v, ack, x, y, e
  <2>4. res = x \/ (~ack /\ h.ok /\ res = y)
    BY <2>2, ZenonT(60) DEF e
  <2> QED
    BY <2>3, <2>4, <1>3, ZenonT(60) DEF x, n, ack
<1> QED
  BY <1>2, <1>3

\* What becomes of the stream, h being what the handler says.
Answered(r, s, t, h) ==
    /\ StreamOK(r, t) /\ t.cp = s.cp /\ t.closing = s.closing
    /\ \/ t.out = s.out
       \/ h.ok /\ t.out = <<[secret |-> h.secret, nonce |-> 1]>>

\* The server answers the one request that is no acknowledgement, with the secret of
\* the stream, and takes every other request without an answer.
LEMMA ProcessAnswers ==
    ASSUME NEW r \in Resources, NEW s, StreamOK(r, s), s.in # << >>,
           NEW p, NEW objs, NEW id, NEW token, NEW res,
           res = process(p, objs, s.st, Head(s.in), id, token), res # [err |-> TRUE]
    PROVE  Answered(r, s, [s EXCEPT !.in = Tail(@), !.out = @ \o res.out, !.st = res.st],
                    Handle(p, objs, r, id, token))
<1> DEFINE m == Head(s.in)
           h == Handle(p, objs, r, id, token)
           in == Tail(s.in)
           St == [resource : {""} \cup Resources, nonce : {0, 1}]
<1>1. /\ s.st \in St
      /\ s.out = << >> \/ \E x : s.out = <<x>> /\ x.nonce = 1
      /\ s.st.nonce = 0 => s.out = << >>
  BY ZenonT(60) DEF StreamOK
<1>j. \A j \in DOMAIN s.in :
         /\ s.st.nonce = 0 => j = 1 \/ s.in[j].names = << >>
         /\ s.st.nonce = 1 => s.in[j].names = << >> \/ s.in[j].nonce = 1
  BY ZenonT(60) DEF StreamOK
<1>0. DOMAIN s = {"cp", "in", "out", "st", "closing"}
  BY ZenonT(60) DEF StreamOK
<1>2. /\ in \in Seq(Messages(r)) /\ m \in Messages(r) /\ m = s.in[1] /\ 1 \in DOMAIN s.in
      /\ \A i \in DOMAIN in : i + 1 \in DOMAIN s.in /\ i + 1 # 1 /\ in[i] = s.in[i + 1]
  <2>1. s.in \in Seq(Messages(r))
    BY ZenonT(60) DEF StreamOK
  <2> DEFINE q == s.in
             T == Messages(r)
  <2>2. q \in Seq(T) /\ q # << >>
    BY <2>1
  <2> HIDE DEF q, T
  <2>3. /\ Tail(q) \in Seq(T) /\ Head(q) \in T /\ Head(q) = q[1] /\ 1 \in DOMAIN q
        /\ \A i \in DOMAIN Tail(q) : i + 1 \in DOMAIN q /\ i + 1 # 1 /\ Tail(q)[i] = q[i + 1]
    BY <2>2, TailOf
  <2> QED
    BY <2>3, ZenonT(60) DEF q, T
<1>3. m.names \in {<< >>, <<r>>} /\ m.nonce \in {0, 1}
  BY <1>2 DEF Messages
<1>4. \A i \in DOMAIN in : /\ s.st.nonce = 0 => in[i].names = << >>
                           /\ s.st.nonce = 1 => in[i].names = << >> \/ in[i].nonce = 1
  <2> HIDE DEF in, St
  <2> SUFFICES ASSUME NEW i \in DOMAIN in
               PROVE  /\ s.st.nonce = 0 => in[i].names = << >>
                      /\ s.st.nonce = 1 => in[i].names = << >> \/ in[i].nonce = 1
    OBVIOUS
  <2>1. i + 1 \in DOMAIN s.in /\ i + 1 # 1 /\ in[i] = s.in[i + 1]
    BY <1>2, ZenonT(60)
  <2>2. /\ s.st.nonce = 0 => s.in[i + 1].names = << >>
        /\ s.st.nonce = 1 => s.in[i + 1].names = << >> \/ s.in[i + 1].nonce = 1
    <3> DEFINE k == i + 1
    <3>1. k \in DOMAIN s.in /\ k # 1
      BY <2>1
    <3> HIDE DEF k
    <3>2. /\ s.st.nonce = 0 => s.in[k].names = << >>
          /\ s.st.nonce = 1 => s.in[k].names = << >> \/ s.in[k].nonce = 1
      BY <1>j, <3>1
    <3> QED
      BY <3>2 DEF k
  <2> QED
    BY <2>1, <2>2
<1>5. s.st.nonce \in {0, 1} /\ (s.st.nonce = 1 => m.names = << >> \/ m.nonce = 1)
  <2>1. s.st.nonce \in {0, 1}
    BY ZenonT(60), <1>1
  <2> HIDE DEF m
  <2>2. s.st.nonce = 1 => m.names = << >> \/ m.nonce = 1
    BY <1>2, ZenonT(60) DEF StreamOK
  <2> QED
    BY <2>1, <2>2
<1>6. s.closing \in BOOLEAN
  BY ZenonT(60) DEF StreamOK
<1> DEFINE out == s.out \o res.out
           st == res.st
           t == [s EXCEPT !.in = in, !.out = out, !.st = st]
<1> HIDE DEF m, in
<1>7. \/ /\ st \in St /\ st.nonce = s.st.nonce /\ res.out = << >>
      \/ /\ s.st.nonce = 0 /\ st \in St /\ st.nonce = 1 /\ h.ok
         /\ res.out = <<[secret |-> h.secret, nonce |-> 1]>>
  <2>1. res = process(p, objs, s.st, m, id, token)
    BY DEF m
  <2>2. CASE m.names = << >> /\ res = [err |-> FALSE, st |-> s.st, out |-> << >>]
    <3> HIDE DEF St
    <3>1. res.st = s.st /\ res.out = << >>
      BY <2>2
    <3> QED
      BY <3>1, <1>1
  <2>3. CASE res = [err |-> FALSE, st |-> [s.st EXCEPT !.resource = r], out |-> << >>]
    <3> DEFINE x == [s.st EXCEPT !.resource = r]
    <3>1. x \in St /\ x.nonce = s.st.nonce
      BY ZenonT(60), <1>1
    <3> HIDE DEF x, St
    <3>2. res.st = x /\ res.out = << >>
      BY <2>3 DEF x
    <3> QED
      BY <3>1, <3>2
  <2>4. CASE /\ m.names = <<r>> /\ ~(s.st.nonce # 0 /\ m.nonce = s.st.nonce) /\ h.ok
             /\ res = [err |-> FALSE, st |-> [resource |-> r, nonce |-> s.st.nonce + 1],
                       out |-> <<[secret |-> h.secret, nonce |-> s.st.nonce + 1]>>]
    <3>1. s.st.nonce = 0
      BY <2>4, <1>5
    <3> DEFINE x == [resource |-> r, nonce |-> 1]
               y == [secret |-> h.secret, nonce |-> 1]
    <3>2. x \in St /\ x.nonce = 1
      BY ZenonT(60)
    <3>3. s.st.nonce + 1 = 1
      BY <3>1
    <3>4. res = [err |-> FALSE, st |-> x, out |-> <<y>>]
      BY <2>4, <3>3, ZenonT(60)
    <3> HIDE DEF x, y, h, St
    <3>5. res.st = x /\ res.out = <<y>>
      BY <3>4
    <3> QED
      BY <3>1, <3>2, <3>5, <2>4, ZenonT(60) DEF y
  <2>5. Processed(r, s.st, m, h, res)
    <3>1. h = Handle(p, objs, r, id, token)
      OBVIOUS
    <3>2. m.names = << >> \/ m.names = <<r>>
      BY <1>3
    <3> HIDE DEF h, St
    <3> QED
      BY ZenonT(60), <3>2, <2>1, <3>1, ProcessOne
  <2> QED
    BY <2>2, <2>3, <2>4, <2>5, ZenonT(60) DEF Processed
<1>8. \/ st.nonce = s.st.nonce /\ out = s.out
      \/ /\ s.st.nonce = 0 /\ st.nonce = 1 /\ h.ok
         /\ out = <<[secret |-> h.secret, nonce |-> 1]>>
  <2> HIDE DEF h
  <2> HIDE DEF st, St
  <2>1. CASE res.out = << >> /\ s.out = << >>
    <3>1. out = << >>
      BY <2>1
    <3> QED
      BY <2>1, <3>1, <1>7
  <2>2. ASSUME NEW x, s.out = <<x>>, res.out = << >>
        PROVE  out = s.out
    <3>1. <<x>> \o << >> = <<x>>
      OBVIOUS
    <3> QED
      BY <2>2, <3>1, ZenonT(60)
  <2>3. CASE s.st.nonce = 0 /\ res.out # << >>
    <3> DEFINE y == [secret |-> h.secret, nonce |-> 1]
    <3>1. res.out = <<y>> /\ s.out = << >> /\ st.nonce = 1 /\ h.ok
      BY <2>3, <1>7, <1>1, ZenonT(60)
    <3> HIDE DEF y
    <3>2. out = <<y>>
      BY <3>1
    <3> QED
      BY <3>1, <3>2, <2>3 DEF y
  <2>4. CASE res.out = << >> /\ st.nonce = s.st.nonce
    BY <2>1, <2>2, <2>4, <1>1, ZenonT(60)
  <2>5. <<[secret |-> h.secret, nonce |-> 1]>> # << >>
    BY SMTT(40), ZenonT(40)
  <2> QED
    BY <2>3, <2>4, <2>5, <1>7, ZenonT(60)
<1>9. st \in St
  BY ZenonT(60), <1>7
<1> HIDE DEF out, st, h
<1>10. /\ DOMAIN t = {"cp", "in", "out", "st", "closing"}
       /\ t.in = in /\ t.out = out /\ t.st = st /\ t.cp = s.cp /\ t.closing = s.closing
  BY <1>0
<1>11. out # << >> => out = <<out[1]>> /\ out[1].nonce = 1
  <2>1. ASSUME NEW x, out = <<x>>, x.nonce = 1
        PROVE  out = <<out[1]>> /\ out[1].nonce = 1
    <3>1. out[1] = x
      BY <2>1
    <3> QED
      BY <2>1, <3>1, ZenonT(60)
  <2>2. [secret |-> h.secret, nonce |-> 1].nonce = 1
    OBVIOUS
  <2>3. out = << >> \/ \E x : out = <<x>> /\ x.nonce = 1
    BY <1>8, <1>1, <2>2, ZenonT(60)
  <2> QED
    BY <2>1, <2>3, ZenonT(60)
<1>12. st.nonce = 0 => out = << >> /\ \A i \in DOMAIN in : i # 1 => in[i].names = << >>
  <2>2. st.nonce = 0 => s.st.nonce = 0
    BY <1>8
  <2>3. st.nonce = 0 => st.nonce # 1
    OBVIOUS
  <2>1. st.nonce = 0 => out = << >>
    BY <1>8, <1>1, <2>2, <2>3, ZenonT(60)
  <2> QED
    BY <2>1, <2>2, <1>4, ZenonT(60)
<1>13. st.nonce = 1 => \A i \in DOMAIN in : in[i].names = << >> \/ in[i].nonce = 1
  BY <1>8, <1>4
<1>14. t = [s EXCEPT !.in = Tail(@), !.out = @ \o res.out, !.st = res.st]
  BY DEF in, out, st
<1> HIDE DEF t
<1>15. StreamOK(r, t)
  BY <1>2, <1>6, <1>9, <1>10, <1>11, <1>12, <1>13, ZenonT(60) DEF StreamOK
<1> QED
  BY ZenonT(60), <1>8, <1>10, <1>14, <1>15 DEF h, Answered

\* A running control plane hands out a certificate for the proxy only, and where tokens
\* are checked only to the holder of its token.
LEMMA HandleProven ==
    ASSUME NEW p, NEW h, h = Handle(p, store, IdentityCertResource, setup.proxy, dp.token), h.ok,
           p.cfg.env = setup.cfg.env, p.cfg.tokenServer = setup.cfg.tokenServer, ServicesOK
    PROVE  Proven(h.secret)
<1> DEFINE id == setup.proxy
           token == dp.token
           q == DefaultAuthenticator(p, store, id, token)
           d == DataplaneIdentity(store, id)
<1>1. q.ok /\ h = IdentityCertGet(store, q)
  <2>1. IdentityCertResource # MeshCaResource
    BY DEF IdentityCertResource, MeshCaResource
  <2>2. h = IF q.ok THEN IdentityCertGet(store, q) ELSE Refused
    <3> HIDE DEF q
    <3>1. h = IF IdentityCertResource = IdentityCertResource /\ q.ok THEN IdentityCertGet(store, q) ELSE Refused
      BY <2>1, ZenonT(60) DEF Handle, q
    <3> QED
      BY <3>1
  <2>3. ~Refused.ok
    BY DEF Refused
  <2> HIDE DEF q
  <2> QED
    BY <2>2, <2>3
<1>2. h.secret.mesh = q.mesh /\ h.secret.service = q.service
  <2> HIDE DEF q
  <2>1. ~Refused.ok
    BY DEF Refused
  <2>2. Backend(store, q.mesh) # ""
    BY ZenonT(60), <1>1, <2>1 DEF IdentityCertGet
  <2>3. h = [ok |-> TRUE, secret |-> [mesh |-> q.mesh, backend |-> Backend(store, q.mesh),
                                      service |-> q.service]]
    BY ZenonT(60), <1>1, <2>2 DEF IdentityCertGet
  <2> QED
    BY <2>3
<1>3. q = d \/ q = Refused
  BY DEF DefaultAuthenticator, KubeAuthenticate, NewUniversalAuthenticator, UniversalAuthenticate, NoopAuthenticate
<1>4. q = d
  <2>1. ~Refused.ok
    BY DEF Refused
  <2> HIDE DEF q, d
  <2> QED
    BY SMTT(40), ZenonT(40), <1>1, <1>3, <2>1
<1>5. d.mesh = id.mesh /\ d.service \in setup.services
  <2>1. d.ok
    <3> HIDE DEF q, d
    <3> QED BY <1>1, <1>4
  <2>2. ~Refused.ok
    BY DEF Refused
  <2>3. id \in DOMAIN store.dataplane /\ d = GetDataplaneIdentity(id, store.dataplane[id])
    BY <2>1, <2>2 DEF DataplaneIdentity
  <2> DEFINE services == store.dataplane[id]
  <2>4. services # << >> => services[1] \in setup.services
    BY <2>3 DEF ServicesOK, Named
  <2> HIDE DEF d, services
  <2>5. services # << >> /\ d = [ok |-> TRUE, mesh |-> id.mesh, service |-> services[1]]
    BY <2>1, <2>2, <2>3 DEF GetDataplaneIdentity, services
  <2> QED
    BY <2>4, <2>5
<1>6. ASSUME Universal, setup.cfg.tokenServer.enabled
      PROVE  token.mesh = id.mesh /\ token.name = id.name
  <2>1. p.cfg.env # "kubernetes" /\ p.cfg.tokenServer.enabled
    BY <1>6 DEF Universal
  <2>2. q = IF reviewToken(p, id, token) THEN d ELSE Refused
    BY <2>1 DEF DefaultAuthenticator, NewUniversalAuthenticator, UniversalAuthenticate
  <2>3. ~Refused.ok
    BY DEF Refused
  <2>4. reviewToken(p, id, token)
    <3> HIDE DEF q, d, id, token
    <3> QED BY <2>2, <2>3, <1>1
  <2> QED
    BY <2>4 DEF reviewToken
<1> HIDE DEF q, d
<1> QED
  BY <1>2, <1>4, <1>5, <1>6 DEF Proven

\* A control plane that runs has the environment and the token section of the setup.
LEMMA RunningConfig ==
    ASSUME KeyInv, NEW c \in setup.planes, cp[c].pc = "running"
    PROVE  cp[c].cfg.env = setup.cfg.env /\ cp[c].cfg.tokenServer = setup.cfg.tokenServer
<1>1. PlaneOK(c, cp[c]) /\ setup \in Setups
  BY DEF KeyInv, PlanesOK
<1>2. cp[c] \in StartedPlanes(c, cp[c].n) /\ cp[c].n \in Nat
  BY ZenonT(60), <1>1, GoesOn DEF Pcs
<1>3. cp[c].cfg = autoconfigure(setup.cfg, <<c, cp[c].n>>)
  BY <1>2, StartedIsOK
<1>4. {"env", "tokenServer", "admin", "catalog", "params", "sdsCert"} \subseteq DOMAIN setup.cfg
  BY ZenonT(60), <1>1, SetupsAssumption
<1> QED
  BY <1>3, <1>4, Autoconfigured
-----------------------------------------------------------------------------
(* The steps of the control planes and of the user *)

\* A control plane that runs goes on running, and nothing else happens.
LEMMA PlaneStepKeeps ==
    ASSUME IInv, NEW c \in setup.planes, ControlPlaneStep(c)
    PROVE  StreamsOK' /\ ProxyOK'
<1>1. /\ setup' = setup /\ dp' = dp /\ envoy' = envoy /\ stream' = stream /\ secret' = secret
  BY DEF ControlPlaneStep, machine, envoyVars
<1>2. cp[c].pc # "running" /\ \E p : cp' = [cp EXCEPT ![c] = p]
  BY SMTT(40), ZenonT(40) DEF ControlPlaneStep, Bootstrap, createDefaultMesh, storeKeyIfNotExist, SetupSds, dataplaneTokenWs,
         Goto, Fails
<1>3. DOMAIN cp = setup.planes
  BY DEF IInv, KeyInv, PlanesOK
<1>4. \A d \in setup.planes : cp[d].pc = "running" => cp'[d].pc = "running"
  BY <1>2, <1>3
<1>5. StreamsOK'
  BY <1>1, <1>4, SameStreams DEF IInv
<1>6. ProxyOK'
  BY <1>1 DEF IInv, ProxyOK, Proven, Universal
<1> QED
  BY <1>5, <1>6

LEMMA ChangeKeepsProxy ==
    ASSUME IInv, Change
    PROVE  StreamsOK' /\ ProxyOK'
<1>1. /\ setup' = setup /\ dp' = dp /\ envoy' = envoy /\ stream' = stream /\ secret' = secret /\ cp' = cp
  BY DEF Change, machine, envoyVars
<1>2. StreamsOK'
  BY <1>1, SameStreams DEF IInv
<1>3. ProxyOK'
  BY <1>1 DEF IInv, ProxyOK, Proven, Universal
<1> QED
  BY <1>2, <1>3

\* The streams to a control plane end with it.
LEMMA CrashKeeps ==
    ASSUME IInv, NEW c \in setup.planes, Crash(c)
    PROVE  StreamsOK' /\ ProxyOK'
<1>1. /\ setup' = setup /\ dp' = dp /\ secret' = secret
      /\ stream' = [r \in Resources |-> IF stream[r].cp = c THEN Closed ELSE stream[r]]
      /\ cp' = [cp EXCEPT ![c] = Down(cp[c].n)] /\ DOMAIN cp = setup.planes
      /\ envoy' = envoy \/ (envoy.ads # NoAds /\ envoy' = [envoy EXCEPT !.ads = NoAds])
  BY DEF Crash, Fails, machine, IInv, KeyInv, PlanesOK
<1>2. DOMAIN envoy = EnvoyFields
  BY DEF IInv, ProxyOK
<1>3. DOMAIN envoy' = EnvoyFields /\ envoy'.on = envoy.on /\ envoy'.wants = envoy.wants
  BY <1>1, <1>2 DEF EnvoyFields
<1>4. envoy = NoEnvoy => envoy' = NoEnvoy
  <2>1. NoEnvoy.ads = NoAds
    BY DEF NoEnvoy
  <2> QED
    BY <1>1, <2>1
<1>5. \A r \in Resources : StreamOK(r, stream[r]) /\ StreamLive(stream[r])
  BY DEF IInv, StreamsOK
<1>6. \A r \in Resources : stream'[r] = IF stream[r].cp = c THEN Closed ELSE stream[r]
  BY <1>1
<1>7. ASSUME NEW r \in Resources
      PROVE  StreamOK(r, stream'[r]) /\ StreamLive(stream[r])'
  <2>1. CASE stream'[r] = Closed
    BY <2>1, ClosedIsOK DEF StreamLive
  <2>2. CASE stream'[r] = stream[r] /\ stream[r].cp # c
    <3>1. stream[r] = Closed \/ (stream[r].cp \in setup.planes /\ cp[stream[r].cp].pc = "running"
                                 /\ (stream[r].closing \/ envoy.wants))
      BY <1>5 DEF StreamLive
    <3>2. stream[r].cp \in setup.planes => cp'[stream[r].cp] = cp[stream[r].cp]
      BY SMTT(40), ZenonT(40), <1>1, <2>2
    <3> QED
      BY SMTT(40), ZenonT(40), <3>1, <3>2, <2>2, <1>1, <1>3, <1>5 DEF StreamLive
  <2> QED
    BY <1>6, <2>1, <2>2
<1>8. ProvenOut(stream[IdentityCertResource])'
  <2>1. ProvenOut(stream[IdentityCertResource]) /\ Closed.out = << >>
    BY DEF IInv, StreamsOK, Closed
  <2>2. stream'[IdentityCertResource] \in {Closed, stream[IdentityCertResource]}
    BY <1>6 DEF Resources
  <2> QED
    BY <2>1, <2>2, <1>1 DEF ProvenOut, Proven, Universal
<1>9. StreamsOK'
  BY <1>1, <1>7, <1>8 DEF StreamsOK
<1>10. stream = NoStreams => stream' = NoStreams
  BY <1>1 DEF NoStreams
<1>11. ProxyOK'
  BY <1>1, <1>3, <1>4, <1>10 DEF IInv, ProxyOK, Proven, Universal
<1> QED
  BY <1>9, <1>11

-----------------------------------------------------------------------------
(* The steps of kuma-dp *)

\* kuma-dp goes on with its token and with its Envoy as they are.
LEMMA DpGoesOn ==
    ASSUME IInv, setup' = setup, cp' = cp, envoy' = envoy, stream' = stream, secret' = secret,
           DOMAIN dp' = DpFields, dp'.token = dp.token, dp'.envoy = dp.envoy, dp'.pc \in {"off", "up"},
           dp'.pc = "off" => dp.pc = "off"
    PROVE  StreamsOK' /\ ProxyOK'
<1>1. StreamsOK'
  BY SameStreams DEF IInv
<1>2. ProxyOK'
  BY DEF IInv, ProxyOK, Proven, Universal
<1> QED
  BY <1>1, <1>2

\* The token changes while there is no Envoy.
LEMMA TokenKeeps ==
    ASSUME IInv, NEW c, handleIdentityRequest(c)
    PROVE  StreamsOK' /\ ProxyOK'
<1> DEFINE token == TokenGenerate(cp[c].adminKey, setup.tokens[dp.tries + 1])
           n == dp.tries + 1
<1>1. /\ dp.pc = "off" /\ dp' = [dp EXCEPT !.token = token, !.tries = n, !.refused = FALSE]
      /\ setup' = setup /\ envoy' = envoy /\ stream' = stream /\ secret' = secret
  BY ZenonT(60) DEF handleIdentityRequest, envoyVars
<1> HIDE DEF token, n
<1>2. dp.envoy = "none" /\ envoy = NoEnvoy /\ stream = NoStreams /\ secret = NoSecrets
      /\ DOMAIN dp = DpFields
  BY <1>1 DEF IInv, ProxyOK
<1>3. dp'.pc = "off" /\ dp'.envoy = "none" /\ DOMAIN dp' = DpFields
  BY <1>1, <1>2 DEF DpFields
<1>4. StreamsOK'
  BY <1>1, <1>2, NoStreamsOK
<1>5. ProxyOK'
  BY ZenonT(60), <1>1, <1>2, <1>3 DEF ProxyOK, NoEnvoy, NoSecrets, EnvoyFields, Resources
<1> QED
  BY <1>4, <1>5

LEMMA DpStepsKeep ==
    ASSUME IInv, (\E c \in setup.planes : Run(c)) \/ AccessLogServerStart \/ Stop
    PROVE  StreamsOK' /\ ProxyOK'
<1>1. /\ setup' = setup /\ cp' = cp /\ envoy' = envoy /\ stream' = stream /\ secret' = secret
  BY DEF Run, AccessLogServerStart, Stop, envoyVars
<1>2. DOMAIN dp = DpFields /\ dp.pc \in {"off", "up"} /\ (dp.pc = "off" => dp.envoy = "none")
  BY DEF IInv, ProxyOK
<1>3. /\ DOMAIN dp' = DpFields /\ dp'.token = dp.token /\ dp'.envoy = dp.envoy /\ dp'.pc = "up"
  <2>1. ASSUME NEW c, Run(c)
        PROVE  /\ DOMAIN dp' = DpFields /\ dp'.token = dp.token /\ dp'.envoy = dp.envoy /\ dp'.pc = "up"
    <3>1. dp.pc = "off" /\ \E port : dp' = [dp EXCEPT !.pc = "up", !.port = port, !.logs = "none", !.envoy = "none"]
      BY ZenonT(60), <2>1 DEF Run
    <3> QED
      BY SMTT(40), ZenonT(40), <3>1, <1>2 DEF DpFields
  <2>2. CASE AccessLogServerStart
    <3>1. /\ dp.pc = "up"
          /\ \/ dp' = [dp EXCEPT !.logs = "failed", !.fail = TRUE]
             \/ dp' = [dp EXCEPT !.logs = "listening"]
             \/ dp' = [dp EXCEPT !.logs = "stopped"]
      BY <2>2 DEF AccessLogServerStart
    <3> QED
      BY ZenonT(60), <3>1, <1>2 DEF DpFields
  <2>3. CASE Stop
    BY <2>3, <1>2 DEF Stop, DpFields
  <2> QED
    BY <2>1, <2>2, <2>3
<1> QED
  BY <1>1, <1>2, <1>3, DpGoesOn

LEMMA EnvoyStartKeeps ==
    ASSUME IInv, NEW c, EnvoyStart(c)
    PROVE  StreamsOK' /\ ProxyOK'
<1>1. /\ setup' = setup /\ cp' = cp /\ stream' = stream /\ secret' = secret
      /\ dp.pc = "up" /\ dp.envoy = "none"
  BY DEF EnvoyStart
<1>2. DOMAIN dp = DpFields /\ envoy = NoEnvoy /\ stream = NoStreams /\ secret = NoSecrets
  BY <1>1 DEF IInv, ProxyOK
<1>3. \/ /\ dp' = [dp EXCEPT !.envoy = "running"]
         /\ \E pipe : envoy' = [NoEnvoy EXCEPT !.on = TRUE, !.pipe = pipe]
      \/ dp' = [dp EXCEPT !.envoy = "failed", !.fail = TRUE] /\ envoy' = envoy
  BY ZenonT(60) DEF EnvoyStart
<1>4. DOMAIN dp' = DpFields /\ dp'.pc = "up" /\ (dp'.envoy # "running" => envoy' = NoEnvoy)
  BY ZenonT(60), <1>1, <1>2, <1>3 DEF DpFields
<1>5. DOMAIN envoy' = EnvoyFields /\ (dp'.envoy = "running" => envoy'.on)
  BY ZenonT(60), <1>1, <1>2, <1>3 DEF NoEnvoy, EnvoyFields, DpFields
<1>6. StreamsOK'
  BY <1>1, <1>2, NoStreamsOK
<1>7. ProxyOK'
  BY <1>1, <1>2, <1>4, <1>5 DEF ProxyOK, NoSecrets, Resources
<1> QED
  BY <1>6, <1>7

LEMMA EnvoyGoneKeeps ==
    ASSUME IInv, EnvoyStop \/ EnvoyExits \/ ManagerReturns
    PROVE  StreamsOK' /\ ProxyOK'
<1>1. /\ setup' = setup /\ envoy' = NoEnvoy /\ stream' = NoStreams /\ secret' = NoSecrets
  BY DEF EnvoyStop, EnvoyExits, ManagerReturns, EnvoyGone
<1>2. DOMAIN dp = DpFields
  BY DEF IInv, ProxyOK
<1>3. /\ DOMAIN dp' = DpFields /\ dp'.pc \in {"off", "up"} /\ (dp'.pc = "off" => dp'.envoy = "none")
      /\ dp'.envoy # "running"
  BY ZenonT(60), <1>2 DEF EnvoyStop, EnvoyExits, ManagerReturns, DpFields
<1>4. StreamsOK'
  BY <1>1, NoStreamsOK
<1>5. ProxyOK'
  BY ZenonT(60), <1>1, <1>3 DEF ProxyOK, NoEnvoy, NoSecrets, EnvoyFields, Resources
<1> QED
  BY <1>4, <1>5

-----------------------------------------------------------------------------
(* The steps of Envoy and of the streams *)

LEMMA EnvoyConnectsKeeps ==
    ASSUME IInv, NEW c, EnvoyConnects(c)
    PROVE  StreamsOK' /\ ProxyOK'
<1>1. /\ setup' = setup /\ cp' = cp /\ dp' = dp /\ secret' = secret /\ envoy.on
      /\ \E ads, sds : envoy' = [envoy EXCEPT !.ads = ads, !.sds = sds]
      /\ stream' = stream \/ stream' = NoStreams
  BY ZenonT(60) DEF EnvoyConnects, machine
<1>2. DOMAIN envoy = EnvoyFields /\ dp.envoy = "running"
  <2>1. ~NoEnvoy.on
    BY DEF NoEnvoy
  <2> QED
    BY <1>1, <2>1 DEF IInv, ProxyOK
<1>3. DOMAIN envoy' = EnvoyFields /\ envoy'.on = envoy.on /\ envoy'.wants = envoy.wants
  BY ZenonT(60), <1>1, <1>2 DEF EnvoyFields
<1>4. StreamsOK'
  BY <1>1, <1>3, NoStreamsOK, SameStreams DEF IInv
<1>5. ProxyOK'
  BY <1>1, <1>2, <1>3 DEF IInv, ProxyOK, Proven, Universal
<1> QED
  BY <1>4, <1>5

\* A request without names may follow any other.
LEMMA UnsubscribeOK ==
    ASSUME NEW r, NEW s, StreamOK(r, s)
    PROVE  LET t == [s EXCEPT !.in = Append(@, [names |-> << >>, nonce |-> 0]), !.closing = TRUE]
           IN  StreamOK(r, t) /\ t.cp = s.cp /\ t.closing /\ t.out = s.out
<1> DEFINE x == [names |-> << >>, nonce |-> 0]
           q == s.in
           T == Messages(r)
           in == Append(q, x)
           t == [s EXCEPT !.in = in, !.closing = TRUE]
<1>1. x \in T /\ x.names = << >>
  BY DEF Messages
<1>2. q \in Seq(T) /\ DOMAIN s = {"cp", "in", "out", "st", "closing"}
  BY ZenonT(60) DEF StreamOK
<1>3. \A j \in DOMAIN q :
         /\ s.st.nonce = 0 => j = 1 \/ q[j].names = << >>
         /\ s.st.nonce = 1 => q[j].names = << >> \/ q[j].nonce = 1
  BY ZenonT(60) DEF StreamOK
<1> HIDE DEF x, q, T
<1>4. /\ in \in Seq(T)
      /\ \A i \in DOMAIN in : (i \in DOMAIN q /\ in[i] = q[i]) \/ in[i] = x
  BY <1>1, <1>2, AppendTo
<1> HIDE DEF in
<1>5. \A j \in DOMAIN in :
         /\ s.st.nonce = 0 => j = 1 \/ in[j].names = << >>
         /\ s.st.nonce = 1 => in[j].names = << >> \/ in[j].nonce = 1
  BY <1>1, <1>3, <1>4
<1>6. /\ DOMAIN t = DOMAIN s /\ t.in = in /\ t.closing = TRUE /\ t.out = s.out /\ t.st = s.st /\ t.cp = s.cp
  BY <1>2
<1>7. TRUE \in BOOLEAN
  OBVIOUS
<1>8. t = [s EXCEPT !.in = Append(@, [names |-> << >>, nonce |-> 0]), !.closing = TRUE]
  BY DEF in, q, x
<1>9. t.closing \in BOOLEAN /\ t.closing
  BY <1>6
<1> HIDE DEF t
<1>10. StreamOK(r, t)
  BY <1>2, <1>4, <1>5, <1>6, <1>9, ZenonT(60) DEF StreamOK, T
<1> QED
  BY <1>6, <1>8, <1>9, <1>10

LEMMA EnvoyConfiguredKeeps ==
    ASSUME IInv, EnvoyConfigured
    PROVE  StreamsOK' /\ ProxyOK'
<1> DEFINE Ended(s) == [s EXCEPT !.in = Append(@, [names |-> << >>, nonce |-> 0]), !.closing = TRUE]
<1>1. /\ setup' = setup /\ cp' = cp /\ dp' = dp /\ envoy.ads # NoAds
      /\ envoy' = [envoy EXCEPT !.wants = Mtls]
      /\ stream' = [r \in Resources |-> IF Mtls \/ stream[r].cp = "" THEN stream[r] ELSE Ended(stream[r])]
      /\ secret' = IF Mtls THEN secret ELSE NoSecrets
  BY ZenonT(60) DEF EnvoyConfigured, machine
<1>2. DOMAIN envoy = EnvoyFields /\ dp.envoy = "running" /\ envoy.on
  <2>1. NoEnvoy.ads = NoAds
    BY SMTT(40), ZenonT(40) DEF NoEnvoy
  <2> QED
    BY ZenonT(60), <1>1, <2>1 DEF IInv, ProxyOK
<1>3. DOMAIN envoy' = EnvoyFields /\ envoy'.on = envoy.on /\ envoy'.wants = Mtls
  BY ZenonT(60), <1>1, <1>2 DEF EnvoyFields
<1> HIDE DEF Ended
<1>4. /\ DOMAIN stream = Resources /\ ProvenOut(stream[IdentityCertResource])
      /\ \A r \in Resources : StreamOK(r, stream[r]) /\ StreamLive(stream[r])
  BY DEF IInv, StreamsOK
<1>5. ASSUME NEW r \in Resources
      PROVE  /\ StreamOK(r, stream'[r]) /\ StreamLive(stream[r])'
             /\ stream'[r].out = stream[r].out
  <2>0. StreamOK(r, stream[r]) /\ StreamLive(stream[r])
    BY <1>4
  <2>1. CASE Mtls
    <3>1. stream'[r] = stream[r] /\ envoy'.wants
      BY <1>1, <1>3, <2>1
    <3>2. StreamLive(stream[r])'
      BY <3>1, <2>0, <1>1 DEF StreamLive
    <3> QED
      BY <3>1, <3>2, <2>0
  <2>2. CASE ~Mtls /\ stream[r].cp = ""
    <3>1. "" \notin setup.planes
      BY ZenonT(60), SetupsAssumption DEF IInv, KeyInv, PlanesOK
    <3>2. stream[r] = Closed
      BY ZenonT(60), <2>0, <2>2, <3>1 DEF StreamLive
    <3>3. stream'[r] = stream[r]
      BY ZenonT(60), <1>1, <2>2
    <3>4. StreamLive(stream[r])'
      BY <3>2, <3>3 DEF StreamLive
    <3> QED
      BY <3>3, <3>4, <2>0
  <2>3. CASE ~Mtls /\ stream[r].cp # ""
    <3>1. stream'[r] = Ended(stream[r])
      BY ZenonT(60), <1>1, <2>3
    <3> DEFINE s == stream[r]
               t == stream'[r]
    <3>2. StreamOK(r, t) /\ t.cp = s.cp /\ t.closing /\ t.out = s.out
      <4> HIDE DEF s
      <4>1. t = Ended(s) /\ StreamOK(r, s)
        BY <3>1, <2>0 DEF s
      <4> HIDE DEF t
      <4> QED
        BY ZenonT(60), <4>1, UnsubscribeOK DEF Ended
    <3>3. s.cp \in setup.planes /\ cp[s.cp].pc = "running"
      <4>1. Closed.cp = ""
        BY DEF Closed
      <4> QED
        BY ZenonT(60), <2>0, <2>3, <4>1 DEF StreamLive
    <3>4. StreamLive(stream[r])'
      BY ZenonT(60), <3>2, <3>3, <1>1 DEF StreamLive
    <3> QED
      BY <3>2, <3>4
  <2> QED
    BY ZenonT(60), <2>1, <2>2, <2>3
<1>6. ProvenOut(stream[IdentityCertResource])'
  <2>1. stream'[IdentityCertResource].out = stream[IdentityCertResource].out
    BY <1>5 DEF Resources
  <2> QED
    BY ZenonT(60), <2>1, <1>1, <1>4 DEF ProvenOut, Proven, Universal
<1>7. StreamsOK'
  BY ZenonT(60), <1>1, <1>5, <1>6 DEF StreamsOK
<1>8. ProxyOK'
  <2>1. CASE Mtls
    BY <2>1, <1>1, <1>2, <1>3 DEF IInv, ProxyOK, Proven, Universal
  <2>2. CASE ~Mtls
    <3>1. secret' = NoSecrets /\ DOMAIN NoSecrets = Resources /\ NoSecrets[IdentityCertResource] = NoSecret
      BY ZenonT(60), <1>1, <2>2 DEF NoSecrets, Resources
    <3> QED
      BY ZenonT(60), <3>1, <1>1, <1>2, <1>3 DEF IInv, ProxyOK
  <2> QED
    BY <2>1, <2>2
<1> QED
  BY <1>7, <1>8

\* One stream changes and perhaps the secret it is for.
LEMMA ProxyWithStream ==
    ASSUME IInv, setup' = setup, envoy' = envoy, envoy.on, DOMAIN secret' = Resources,
           DOMAIN dp' = DpFields, dp'.token = dp.token, dp'.pc = dp.pc, dp'.envoy = dp.envoy,
           ~envoy.wants => secret' = secret,
           secret'[IdentityCertResource] = secret[IdentityCertResource] \/ Proven(secret'[IdentityCertResource])
    PROVE  ProxyOK'
<1>1. dp.envoy = "running"
  <2>1. ~NoEnvoy.on
    BY DEF NoEnvoy
  <2> QED
    BY <2>1 DEF IInv, ProxyOK
<1>2. secret'[IdentityCertResource] # NoSecret => Proven(secret'[IdentityCertResource])
  BY DEF IInv, ProxyOK
<1>3. secret'[IdentityCertResource] # NoSecret => Proven(secret[IdentityCertResource])'
  BY <1>2 DEF Proven, Universal
<1> QED
  BY <1>1, <1>3 DEF IInv, ProxyOK

\* A stream that is open belongs to an Envoy that runs.
LEMMA OpenStream ==
    ASSUME IInv, NEW r \in Resources, stream[r] # Closed
    PROVE  /\ envoy.on /\ stream[r].cp \in setup.planes /\ cp[stream[r].cp].pc = "running"
           /\ stream[r].closing \/ envoy.wants
<1>1. dp.envoy = "running"
  BY DEF IInv, ProxyOK, NoStreams
<1> QED
  BY <1>1 DEF IInv, ProxyOK, StreamsOK, StreamLive

LEMMA StreamSecretsKeeps ==
    ASSUME IInv, NEW r \in Resources, NEW c \in setup.planes, StreamSecrets(r, c)
    PROVE  StreamsOK' /\ ProxyOK'
<1> DEFINE m == [names |-> <<r>>, nonce |-> 0]
           s == [Closed EXCEPT !.cp = c, !.in = <<m>>]
<1>1. /\ setup' = setup /\ cp' = cp /\ dp' = dp /\ envoy' = envoy /\ secret' = secret
      /\ envoy.wants /\ stream[r] = Closed /\ cp[c].pc = "running"
  BY SMTT(40), ZenonT(40) DEF StreamSecrets, machine, Running
<1>2. /\ DOMAIN stream = Resources /\ DOMAIN dp = DpFields /\ DOMAIN secret = Resources
  BY DEF IInv, StreamsOK, ProxyOK
<1>3. stream' = [stream EXCEPT ![r] = s]
  <2>2. stream' = [stream EXCEPT ![r] = [stream[r] EXCEPT !.cp = c, !.in = <<m>>]]
    BY ZenonT(60), <1>2 DEF StreamSecrets
  <2> HIDE DEF m
  <2> QED
    BY <2>2, <1>1
<1>4. <<m>> \in Seq(Messages(r)) /\ DOMAIN <<m>> = {1}
  <2>1. m \in Messages(r)
    BY DEF Messages
  <2> HIDE DEF m
  <2> QED
    BY <2>1
<1>5. NewStream \in [resource : {""} \cup Resources, nonce : {0, 1}] /\ NewStream.nonce = 0 /\ 0 # 1
  BY DEF NewStream
<1> HIDE DEF m
<1>6. /\ DOMAIN s = {"cp", "in", "out", "st", "closing"} /\ s.cp = c /\ s.in = <<m>> /\ s.out = << >>
      /\ s.st = NewStream /\ s.closing = FALSE
  BY DEF Closed
<1>7. s.closing \in BOOLEAN
  BY ZenonT(60), <1>6
<1> HIDE DEF s
<1>8. s.st.nonce = 0 => s.out = << >> /\ \A i \in DOMAIN s.in : i # 1 => s.in[i].names = << >>
  BY <1>4, <1>6
<1>9. StreamOK(r, s)
  BY <1>4, <1>5, <1>6, <1>7, <1>8, ZenonT(60) DEF StreamOK
<1>10. StreamLive(s) /\ ProvenOut(s)
  BY <1>1, <1>6 DEF StreamLive, ProvenOut
<1>11. StreamsOK'
  BY ZenonT(60), <1>1, <1>3, <1>9, <1>10, OneStream DEF IInv
<1>12. envoy.on
  <2>1. ~NoEnvoy.wants
    BY DEF NoEnvoy
  <2> QED
    BY <2>1, <1>1 DEF IInv, ProxyOK
<1>13. ProxyOK'
  BY <1>1, <1>2, <1>12, ProxyWithStream
<1> QED
  BY <1>11, <1>13

LEMMA StreamEndsKeeps ==
    ASSUME IInv, NEW r \in Resources, StreamEnds(r)
    PROVE  StreamsOK' /\ ProxyOK'
<1>1. /\ setup' = setup /\ cp' = cp /\ dp' = dp /\ envoy' = envoy /\ secret' = secret
      /\ stream[r].closing /\ stream' = [stream EXCEPT ![r] = Closed]
  BY DEF StreamEnds, machine
<1>2. /\ DOMAIN dp = DpFields /\ DOMAIN secret = Resources
  BY DEF IInv, ProxyOK
<1>3. ~Closed.closing /\ Closed.out = << >>
  BY DEF Closed
<1>4. envoy.on
  BY <1>1, <1>3, OpenStream
<1>5. StreamOK(r, Closed) /\ StreamLive(Closed) /\ ProvenOut(Closed)
  BY <1>3, ClosedIsOK DEF StreamLive, ProvenOut
<1>6. StreamsOK'
  BY ZenonT(60), <1>1, <1>5, OneStream DEF IInv
<1>7. ProxyOK'
  BY <1>1, <1>2, <1>4, ProxyWithStream
<1> QED
  BY <1>6, <1>7

\* The server answers the subscription once, on the stream of the certificate with one
\* of the proxy.
LEMMA SdsProcessKeeps ==
    ASSUME IInv, NEW r \in Resources, SdsProcess(r)
    PROVE  StreamsOK' /\ ProxyOK'
<1> DEFINE s == stream[r]
           p == cp[s.cp]
           res == process(p, store, s.st, Head(s.in), setup.proxy, dp.token)
           t == [s EXCEPT !.in = Tail(@), !.out = @ \o res.out, !.st = res.st]
<1>1. /\ setup' = setup /\ cp' = cp /\ envoy' = envoy /\ secret' = secret /\ s.in # << >>
      /\ \/ /\ stream' = [stream EXCEPT ![r] = Closed]
            /\ \E b : dp' = [dp EXCEPT !.refused = b]
         \/ ~res.err /\ stream' = [stream EXCEPT ![r] = t] /\ dp' = dp
  BY DEF SdsProcess
<1>2. /\ DOMAIN dp = DpFields /\ DOMAIN secret = Resources
  BY DEF IInv, ProxyOK
<1>3. DOMAIN dp' = DpFields /\ dp'.token = dp.token /\ dp'.pc = dp.pc /\ dp'.envoy = dp.envoy
  <2> HIDE DEF s, p, res, t
  <2> QED
    BY <1>1, <1>2 DEF DpFields
<1>4. Closed.in = << >> /\ Closed.out = << >>
  BY DEF Closed
<1>5. /\ envoy.on /\ s.cp \in setup.planes /\ p.pc = "running" /\ (s.closing \/ envoy.wants)
  BY <1>1, <1>4, OpenStream
<1>6. ProxyOK'
  BY <1>1, <1>2, <1>3, <1>5, ProxyWithStream
<1>7. CASE stream' = [stream EXCEPT ![r] = Closed]
  <2>1. StreamOK(r, Closed) /\ StreamLive(Closed) /\ ProvenOut(Closed)
    BY <1>4, ClosedIsOK DEF StreamLive, ProvenOut
  <2>2. StreamsOK'
    BY ZenonT(60), <1>1, <1>3, <1>7, <2>1, OneStream DEF IInv
  <2> QED
    BY <2>2, <1>6
<1>8. CASE ~res.err /\ stream' = [stream EXCEPT ![r] = t]
  <2> DEFINE h == Handle(p, store, r, setup.proxy, dp.token)
  <2>1. StreamOK(r, s) /\ (r = IdentityCertResource => ProvenOut(s))
    BY DEF IInv, StreamsOK
  <2>2. /\ StreamOK(r, t) /\ t.cp = s.cp /\ t.closing = s.closing
        /\ \/ t.out = s.out
           \/ h.ok /\ t.out = <<[secret |-> h.secret, nonce |-> 1]>>
    <3> DEFINE id == setup.proxy
               token == dp.token
    <3>1. res = process(p, store, s.st, Head(s.in), id, token)
      OBVIOUS
    <3>2. res # [err |-> TRUE]
      <4> HIDE DEF res
      <4> QED BY SMTT(40), ZenonT(40), <1>8
    <3> HIDE DEF s, p, res, id, token
    <3>3. Answered(r, s, t, Handle(p, store, r, id, token))
      BY ZenonT(60), <3>1, <3>2, <2>1, <1>1, ProcessAnswers
    <3> HIDE DEF t
    <3> QED
      BY <3>3 DEF id, token, Answered
  <2> HIDE DEF t
  <2>3. StreamLive(t)
    BY SMTT(40), ZenonT(40), <2>2, <1>5 DEF StreamLive
  <2>4. ASSUME r = IdentityCertResource, h.ok
        PROVE  Proven(h.secret)
    <3>1. h = Handle(p, store, IdentityCertResource, setup.proxy, dp.token)
      BY SMTT(40), ZenonT(40), <2>4
    <3>2. p.cfg.env = setup.cfg.env /\ p.cfg.tokenServer = setup.cfg.tokenServer
      BY <1>5, RunningConfig DEF IInv
    <3> HIDE DEF h, p
    <3> QED
      BY SMTT(40), ZenonT(40), <3>1, <3>2, <2>4, HandleProven DEF IInv
  <2> HIDE DEF h, p, s
  <2>5. r = IdentityCertResource => ProvenOut(t)
    <3>1. CASE t.out = s.out
      BY SMTT(40), ZenonT(40), <3>1, <2>1 DEF ProvenOut
    <3>2. CASE h.ok /\ t.out = <<[secret |-> h.secret, nonce |-> 1]>>
      <4>1. t.out[1].secret = h.secret
        BY <3>2
      <4> QED
        BY <3>2, <4>1, <2>4 DEF ProvenOut
    <3> QED
      BY <3>1, <3>2, <2>2
  <2>6. StreamsOK'
    BY ZenonT(60), <1>1, <1>3, <1>8, <2>2, <2>3, <2>5, OneStream DEF IInv
  <2> QED
    BY <2>6, <1>6
<1> QED
  BY <1>1, <1>7, <1>8

\* Envoy acknowledges the one response with its nonce.
LEMMA EnvoyReceivesKeeps ==
    ASSUME IInv, NEW r \in Resources, EnvoyReceives(r)
    PROVE  StreamsOK' /\ ProxyOK'
<1> DEFINE s == stream[r]
           x == s.out[1]
           m == [names |-> <<r>>, nonce |-> Head(s.out).nonce]
           in == IF s.closing THEN s.in ELSE Append(s.in, m)
           t == [s EXCEPT !.out = << >>, !.in = in]
<1>1. /\ setup' = setup /\ cp' = cp /\ dp' = dp /\ envoy' = envoy /\ s.out # << >>
      /\ stream' = [stream EXCEPT ![r] = [s EXCEPT !.out = Tail(@), !.in = in]]
      /\ secret' = IF s.closing THEN secret ELSE [secret EXCEPT ![r] = Head(s.out).secret]
  BY ZenonT(60) DEF EnvoyReceives, machine, IInv, StreamsOK
<1>2. /\ DOMAIN dp = DpFields /\ DOMAIN secret = Resources /\ DOMAIN stream = Resources
      /\ StreamOK(r, s) /\ (r = IdentityCertResource => ProvenOut(s))
  BY DEF IInv, StreamsOK, ProxyOK
<1>3. s.out = <<x>> /\ x.nonce = 1
  BY <1>1, <1>2, ZenonT(60) DEF StreamOK
<1>4. Closed.out = << >>
  BY DEF Closed
<1>5. /\ envoy.on /\ s.cp \in setup.planes /\ cp[s.cp].pc = "running" /\ (s.closing \/ envoy.wants)
  BY <1>1, <1>4, OpenStream
<1>6. /\ DOMAIN s = {"cp", "in", "out", "st", "closing"} /\ s.in \in Seq(Messages(r)) /\ s.closing \in BOOLEAN
      /\ s.st \in [resource : {""} \cup Resources, nonce : {0, 1}]
      /\ \A j \in DOMAIN s.in : s.st.nonce = 1 => s.in[j].names = << >> \/ s.in[j].nonce = 1
      /\ s.st.nonce # 0
  BY <1>1, <1>2, ZenonT(60) DEF StreamOK
<1> HIDE DEF s
<1>7. s.st.nonce = 1
  BY ZenonT(60), <1>6
<1> HIDE DEF x
<1>8. Head(s.out) = x /\ Tail(s.out) = << >>
  <2>1. Head(<<x>>) = x /\ Tail(<<x>>) = << >>
    OBVIOUS
  <2> QED
    BY <2>1, <1>3, ZenonT(60)
<1>9. m \in Messages(r) /\ m.nonce = 1
  <2>1. Head(s.out).nonce = 1
    BY <1>3, <1>8
  <2> QED
    BY <2>1 DEF Messages
<1> HIDE DEF m
<1>10. /\ in \in Seq(Messages(r))
       /\ \A j \in DOMAIN in : in[j].names = << >> \/ in[j].nonce = 1
  <2> DEFINE T == Messages(r)
             q == s.in
  <2>1. q \in Seq(T) /\ m \in T
    BY ZenonT(60), <1>6, <1>9
  <2>2. \A j \in DOMAIN q : q[j].names = << >> \/ q[j].nonce = 1
    BY <1>6, <1>7, ZenonT(60)
  <2> HIDE DEF T, q
  <2>3. /\ Append(q, m) \in Seq(T)
        /\ \A i \in DOMAIN Append(q, m) : (i \in DOMAIN q /\ Append(q, m)[i] = q[i]) \/ Append(q, m)[i] = m
    BY <2>1, AppendTo
  <2>4. \A i \in DOMAIN Append(q, m) : Append(q, m)[i].names = << >> \/ Append(q, m)[i].nonce = 1
    BY <2>2, <2>3, <1>9
  <2>5. in = q \/ in = Append(q, m)
    BY DEF q
  <2> HIDE DEF in
  <2> QED
    BY <2>1, <2>2, <2>3, <2>4, <2>5, ZenonT(60) DEF T
<1> HIDE DEF in
<1>11. /\ DOMAIN t = DOMAIN s /\ t.in = in /\ t.out = << >> /\ t.st = s.st /\ t.cp = s.cp /\ t.closing = s.closing
  BY ZenonT(60), <1>6
<1>12. stream' = [stream EXCEPT ![r] = t]
  BY ZenonT(60), <1>1, <1>8
<1> HIDE DEF t
<1>13. StreamOK(r, t)
  BY <1>6, <1>10, <1>11, ZenonT(60) DEF StreamOK
<1>14. StreamLive(t) /\ ProvenOut(t)
  BY <1>5, <1>11 DEF StreamLive, ProvenOut
<1>15. StreamsOK'
  BY ZenonT(60), <1>1, <1>12, <1>13, <1>14, OneStream DEF IInv
<1>16. /\ DOMAIN secret' = Resources /\ (~envoy.wants => secret' = secret)
       /\ \/ secret'[IdentityCertResource] = secret[IdentityCertResource]
          \/ Proven(secret'[IdentityCertResource])
  <2>1. CASE s.closing
    BY <2>1, <1>1, <1>2
  <2>2. CASE ~s.closing
    <3>1. secret' = [secret EXCEPT ![r] = x.secret] /\ envoy.wants
      BY ZenonT(60), <2>2, <1>1, <1>5, <1>8
    <3>2. r = IdentityCertResource => Proven(x.secret)
      BY <1>1, <1>2 DEF ProvenOut, x
    <3> QED
      BY <3>1, <3>2, <1>2 DEF Resources
  <2> QED
    BY <2>1, <2>2
<1>17. ProxyOK'
  BY <1>1, <1>2, <1>5, <1>16, ProxyWithStream
<1> QED
  BY <1>15, <1>17
-----------------------------------------------------------------------------
(* The theorems *)

LEMMA InitInvariant == Init => IInv
<1> SUFFICES ASSUME Init PROVE IInv
  BY SMTT(40), ZenonT(40)
<1> USE DEF Init
<1>1. PlanesOK
  <2>1. Stores
    BY ZenonT(60), SetupsAssumption DEF Stores, Keys
  <2>2. \A c \in setup.planes : PlaneOK(c, cp[c])
    <3> SUFFICES ASSUME NEW c \in setup.planes PROVE PlaneOK(c, cp[c])
      BY SMTT(40), ZenonT(40)
    <3>1. cp[c] = Down(0) /\ 0 \in Nat
      BY SMTT(40), ZenonT(40)
    <3> QED
      BY SMTT(40), ZenonT(40), <3>1, DownIsOK
  <2> QED
    BY SMTT(40), ZenonT(40), <2>1, <2>2 DEF PlanesOK
<1>2. \A c \in setup.planes : cp[c].sdsKey = NoKey /\ cp[c].adminKey = NoKey
  BY SMTT(40), ZenonT(40) DEF Down
<1>3. KeyInv
  BY SMTT(40), ZenonT(40), <1>1, <1>2 DEF KeyInv, KeysCurrent, KeyCurrent, TokensAccepted
<1>4. StreamsOK
  <2>1. \A r \in Resources : stream[r] = Closed
    BY ZenonT(60) DEF NoStreams
  <2>2. Closed.out = << >>
    BY ZenonT(60) DEF Closed
  <2>3. ProvenOut(stream[IdentityCertResource])
    BY SMTT(40), ZenonT(40), <2>1, <2>2 DEF ProvenOut, Resources
  <2> QED
    BY SMTT(40), ZenonT(40), <2>1, <2>3, ClosedIsOK DEF StreamsOK, StreamLive, NoStreams
<1>5. ProxyOK
  <2>1. DOMAIN dp = DpFields /\ dp.pc = "off" /\ dp.envoy = "none"
    BY SMTT(40), ZenonT(40) DEF DpFields
  <2>2. DOMAIN envoy = EnvoyFields /\ envoy = NoEnvoy
    BY ZenonT(60) DEF EnvoyFields, NoEnvoy
  <2>3. DOMAIN secret = Resources /\ secret[IdentityCertResource] = NoSecret
    BY SMTT(40), ZenonT(40) DEF NoSecrets, Resources
  <2> QED
    BY SMTT(40), ZenonT(40), <2>1, <2>2, <2>3 DEF ProxyOK
<1>6. ServicesOK
  <2>1. /\ DOMAIN left = {"crashes", "stops", "exits", "changes"} /\ left.changes = setup.changes
        /\ store = setup.store /\ setup \in Setups
    BY SMTT(40), ZenonT(40)
  <2>2. setup.changes \in Seq(Range(setup.changes))
    BY ZenonT(60), <2>1, SetupsAssumption
  <2>3. setup.proxy \in DOMAIN setup.store.dataplane => Named(setup.store.dataplane[setup.proxy])
    BY ZenonT(60), <2>1, SetupsAssumption DEF Named
  <2> QED
    BY SMTT(40), ZenonT(40), <2>1, <2>2, <2>3 DEF ServicesOK
<1> QED
  BY <1>3, <1>4, <1>5, <1>6 DEF IInv

LEMMA KeyStep ==
    ASSUME IInv, Next
    PROVE  KeyInv'
<1>1. KeyInv /\ ServicesOK
  BY SMTT(40), ZenonT(40) DEF IInv
<1>2. ASSUME NEW c \in setup.planes, ControlPlaneStep(c)
      PROVE  KeyInv'
  <2>1. setup' = setup
    BY <1>2 DEF ControlPlaneStep
  <2> QED
    BY SMTT(40), ZenonT(40), <1>1, <1>2, <2>1, BootstrapKeeps, MeshKeeps, KeyKeeps, SdsKeeps, TokenWsKeeps DEF ControlPlaneStep
<1>3. ASSUME NEW c \in setup.planes, Crash(c)
      PROVE  KeyInv'
  BY <1>1, <1>3, FailsKeeps DEF Crash
<1>4. CASE Change
  BY SMTT(40), ZenonT(40), <1>1, <1>4, ChangeKeeps
<1>5. CASE setup' = setup /\ cp' = cp /\ store' = store
  BY SMTT(40), ZenonT(40), <1>1, <1>5, StoreChanges DEF KeyInv, PlanesOK, Stores
<1>6. \/ \E c \in setup.planes : ControlPlaneStep(c) \/ Crash(c)
      \/ Change
      \/ setup' = setup /\ cp' = cp /\ store' = store
  BY ZenonT(60) DEF Next, handleIdentityRequest, Run, EnvoyStart, EnvoyConnects,
         AccessLogServerStart, EnvoyStop, EnvoyExits, Stop, ManagerReturns, EnvoyConfigured, StreamStep,
         StreamSecrets, SdsProcess, EnvoyReceives, StreamEnds
<1> QED
  BY <1>2, <1>3, <1>4, <1>5, <1>6

LEMMA NextInvariant == IInv /\ [Next]_vars => IInv'
<1> SUFFICES ASSUME IInv, [Next]_vars PROVE IInv'
  OBVIOUS
<1>1. CASE Next
  <2>1. StreamsOK' /\ ProxyOK'
    BY SMTT(40), ZenonT(40), <1>1, PlaneStepKeeps, CrashKeeps, TokenKeeps, DpStepsKeep, EnvoyStartKeeps, EnvoyConnectsKeeps,
       ChangeKeepsProxy, EnvoyGoneKeeps, EnvoyConfiguredKeeps, StreamSecretsKeeps, SdsProcessKeeps,
       EnvoyReceivesKeeps, StreamEndsKeeps DEF Next, StreamStep
  <2> QED
    BY <1>1, <2>1, KeyStep, ServicesKeep DEF IInv
<1>2. CASE UNCHANGED vars
  <2> USE <1>2 DEF vars
  <2>1. KeyInv'
    BY ZenonT(60), StoreChanges DEF IInv, KeyInv, PlanesOK, Stores
  <2>2. StreamsOK'
    BY SMTT(40), ZenonT(40), SameStreams DEF IInv
  <2>3. ProxyOK'
    BY SMTT(40), ZenonT(40) DEF IInv, ProxyOK, Proven, Universal
  <2>4. ServicesOK'
    BY DEF IInv, ServicesOK, Named
  <2> QED
    BY SMTT(40), ZenonT(40), <2>1, <2>2, <2>3, <2>4 DEF IInv
<1> QED
  BY <1>1, <1>2

\* The inductive invariant holds in every state: nothing a control plane, kuma-dp, Envoy
\* or the user does breaks it, so that the invariants it implies hold (newRunCmd, process).
THEOREM Invariant == Spec => []IInv
  BY InitInvariant, NextInvariant, PTL DEF Spec

\* Whatever the number of control planes, their crashes and the changes of the store, a
\* token of one control plane is accepted by the others: a key is stored only when there
\* is none, so everybody who reads it before it is deleted reads the same
\* (storeKeyIfNotExist, GetSigningKey).
THEOREM TokensAlwaysAccepted == Spec => []TokensAccepted
<1>1. IInv => TokensAccepted
  BY DEF IInv, KeyInv
<1> QED
  BY <1>1, Invariant, PTL

\* Every subscription for a secret is answered once, whatever requests Envoy sends on its
\* stream and however often the control planes end it (process).
THEOREM AlwaysAnsweredOnce == Spec => []AnsweredOnce
<1>1. IInv => AnsweredOnce
  <2> SUFFICES ASSUME IInv, NEW r \in Resources PROVE stream[r].st.nonce <= 1
    BY DEF AnsweredOnce
  <2>1. stream[r].st \in [resource : {""} \cup Resources, nonce : {0, 1}]
    BY ZenonT(60) DEF IInv, StreamsOK, StreamOK
  <2> DEFINE st == stream[r].st
  <2> HIDE DEF st
  <2>2. st.nonce \in {0, 1}
    BY ZenonT(60), <2>1 DEF st
  <2>3. st.nonce <= 1
    BY SMTT(40), ZenonT(40), <2>2
  <2> QED
    BY <2>3 DEF st
<1> QED
  BY <1>1, Invariant, PTL

\* Whatever tokens the user of kuma-dp has tried and whichever control plane answered, the
\* certificate an Envoy holds is one of its own Dataplane, and the token kuma-dp has was
\* issued for it where tokens are checked (reviewToken, GetDataplaneIdentity).
THEOREM IdentityAlwaysProven == Spec => []IdentityProven
<1>1. IInv => IdentityProven
  BY SMTT(40), ZenonT(40) DEF IInv, ProxyOK, Proven, IdentityProven
<1> QED
  BY <1>1, Invariant, PTL

\* Every state of the start of a proxy has the types of the model: an Envoy belongs to a
\* running kuma-dp and a stream to a running control plane.
THEOREM TypeCorrect == Spec => []TypeOK
<1>1. IInv => TypeOK
  <2> SUFFICES ASSUME IInv PROVE TypeOK
    OBVIOUS
  <2>1. \A c \in setup.planes : cp[c].pc \in Pcs /\ {cp[c].sdsKey, cp[c].adminKey, store.key} \subseteq Keys
    BY PlaneFields DEF IInv, KeyInv, PlanesOK, Stores
  <2>2. ~NoEnvoy.on
    BY DEF NoEnvoy
  <2>3. /\ envoy.on <=> dp.envoy = "running"
        /\ dp.envoy = "running" => dp.pc = "up"
        /\ ~envoy.wants => secret = NoSecrets
    BY SMTT(40), ZenonT(40), <2>2 DEF IInv, ProxyOK
  <2>4. Closed.cp = ""
    BY DEF Closed
  <2>5. \A r \in Resources : stream[r].cp # "" => envoy.on /\ cp[stream[r].cp].pc = "running"
    BY ZenonT(60), <2>4, OpenStream
  <2> QED
    BY ZenonT(60), <2>1, <2>3, <2>5 DEF TypeOK
<1> QED
  BY <1>1, Invariant, PTL
=============================================================================
