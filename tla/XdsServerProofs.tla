-------------------------- MODULE XdsServerProofs --------------------------
(***************************************************************************)
(* Proofs about XdsServer, for any snapshots and any number of broken      *)
(* connections, with and without the ADS mode of the cache: Envoy does not *)
(* take old endpoints for those of the cached version.                     *)
(***************************************************************************)
EXTENDS XdsServer, TLAPS

EP == "endpoints"

\* What the generators may produce of one type, and parts of it.
Contents == UNION {{c[t] : t \in Types} : c \in UNION {p.configs : p \in Plans}}
Names    == UNION {DOMAIN f : f \in Contents}
Values   == UNION {Range(f) : f \in Contents}
ItemMaps == UNION {[S -> Values] : S \in SUBSET Names}

Requests  == [type : Types, version : Nat, names : SUBSET Names, current : BOOLEAN]
Responses == [type : Types, version : Nat, items : ItemMaps, current : BOOLEAN]
Answered  == [type : Types, version : Nat, items : ItemMaps]
Snapshots == [Types -> [version : Nat, items : ItemMaps]]
Envoys    == [version : [Types -> Nat], items : [Types -> ItemMaps],
              current : [Types -> BOOLEAN], warming : SUBSET Names]

WatchOK(w, t) ==
    \/ w = NoWatch
    \/ w.state = "open" /\ w.request \in Requests /\ w.request.type = t
    \/ w.state = "responded" /\ w.response \in Answered /\ w.response.type = t

Typed ==
    /\ plan \in Plans
    /\ snapshot \in Snapshots \cup {NotFound}
    /\ version \in Nat
    /\ DOMAIN watch = Types /\ \A t \in Types : WatchOK(watch[t], t)
    /\ sent \in [Types -> BOOLEAN]
    /\ nonceAcked \in BOOLEAN
    /\ requests \in Seq(Requests)
    /\ responses \in Seq(Responses)
    /\ envoy \in Envoys

\* No version anywhere is newer than the last one drawn.
VersionsDrawn ==
    /\ snapshot # NotFound => snapshot[EP].version <= version
    /\ watch[EP].state = "responded" => watch[EP].response.version <= version
    /\ \A i \in DOMAIN responses : responses[i].type = EP => responses[i].version <= version
    /\ envoy.version[EP] <= version

\* Endpoints of version v are those of a snapshot, should it have that version.
Agrees(snap, v, items) ==
    snap # NotFound /\ snap[EP].version = v =>
        \A n \in DOMAIN items \cap DOMAIN snap[EP].items : items[n] = snap[EP].items[n]

\* Endpoints of version v replace all that somebody has and the snapshot has.
Replaces(snap, have, v, items) ==
    snap # NotFound /\ snap[EP].version = v =>
        have \cap DOMAIN snap[EP].items \subseteq DOMAIN items

\* A request for these names is about all that somebody has.
NamesAll(have, names) == names = {} \/ have \subseteq names

\* The clusters whose endpoints Envoy has.
Have == DOMAIN envoy.items[EP]

\* A response about endpoints is on its way to Envoy.
InFlight == \E i \in DOMAIN responses : responses[i].type = EP

\* There is at most one, and while it is under way the server has no watch for
\* endpoints and takes every request for them for stale.
OneInFlight ==
    /\ \A i, j \in DOMAIN responses : responses[i].type = EP /\ responses[j].type = EP => i = j
    /\ InFlight =>
          /\ watch[EP] = NoWatch
          /\ sent[EP]
          /\ ~envoy.current[EP]
          /\ \A i \in DOMAIN requests : requests[i].type = EP => ~requests[i].current

\* A response is true to its version and covers what Envoy has.
ResponseCovers(snap, have, r) ==
    Agrees(snap, r.version, r.items) /\ Replaces(snap, have, r.version, r.items)

WatchCovers(snap, have, w) ==
    /\ w.state = "open" => NamesAll(have, w.request.names)
    /\ w.state = "responded" => ResponseCovers(snap, have, w.response)

\* What is asked for and answered covers what Envoy has.
ResponsesCover ==
    /\ \A i \in DOMAIN requests :
          requests[i].type = EP /\ ~Stale(requests[i]) => NamesAll(Have, requests[i].names)
    /\ WatchCovers(snapshot, Have, watch[EP])
    /\ \A i \in DOMAIN responses :
          responses[i].type = EP => ResponseCovers(snapshot, Have, responses[i])

EnvoyAgrees ==
    /\ Have \subseteq DOMAIN envoy.items["clusters"]
    /\ Agrees(snapshot, envoy.version[EP], envoy.items[EP])

IInv == Typed /\ VersionsDrawn /\ OneInFlight /\ ResponsesCover /\ EnvoyAgrees
-----------------------------------------------------------------------------
(* Items, and the messages that carry them                                  *)

LEMMA DomainInNames ==
    ASSUME NEW f \in ItemMaps
    PROVE  DOMAIN f \in SUBSET Names /\ f \in [DOMAIN f -> Values]
  BY DEF ItemMaps

LEMMA MapIsItemMap ==
    ASSUME NEW S \in SUBSET Names, NEW f \in [S -> Values]
    PROVE  f \in ItemMaps /\ DOMAIN f = S
  BY DEF ItemMaps

LEMMA RestrictItems ==
    ASSUME NEW f \in ItemMaps, NEW S \in SUBSET DOMAIN f
    PROVE  /\ Restrict(f, S) \in ItemMaps
           /\ DOMAIN Restrict(f, S) = S
           /\ \A n \in S : Restrict(f, S)[n] = f[n]
<1>1. f \in [DOMAIN f -> Values] /\ S \in SUBSET Names
  BY DomainInNames
<1>2. Restrict(f, S) \in [S -> Values] /\ \A n \in S : Restrict(f, S)[n] = f[n]
  BY <1>1 DEF Restrict
<1> QED
  BY <1>1, <1>2, MapIsItemMap

LEMMA UpdatedItems ==
    ASSUME NEW f \in ItemMaps, NEW g \in ItemMaps
    PROVE  /\ Updated(f, g) \in ItemMaps
           /\ DOMAIN Updated(f, g) = DOMAIN f \cup DOMAIN g
           /\ \A n \in DOMAIN f \cup DOMAIN g :
                 Updated(f, g)[n] = IF n \in DOMAIN g THEN g[n] ELSE f[n]
<1> DEFINE S == DOMAIN f \cup DOMAIN g
<1>1. f \in [DOMAIN f -> Values] /\ g \in [DOMAIN g -> Values] /\ S \in SUBSET Names
  BY DomainInNames
<1>2. Updated(f, g) \in [S -> Values]
      /\ \A n \in S : Updated(f, g)[n] = IF n \in DOMAIN g THEN g[n] ELSE f[n]
  BY <1>1 DEF Updated
<1> QED
  BY <1>1, <1>2, MapIsItemMap

LEMMA NoItemsIsItemMap == NoItems \in ItemMaps /\ DOMAIN NoItems = {}
<1>1. NoItems \in [{} -> Values]
  BY DEF NoItems
<1>2. {} \in SUBSET Names
  OBVIOUS
<1> QED
  BY ZenonT(60), <1>1, <1>2, MapIsItemMap

LEMMA ConfigItems ==
    ASSUME plan \in Plans, NEW c \in plan.configs, NEW t \in Types
    PROVE  c[t] \in ItemMaps
<1>1. c[t] = [n \in DOMAIN c[t] |-> c[t][n]]
  BY BoundsAssumption
<1>2. c[t] \in Contents
  BY DEF Contents
<1> DEFINE f == c[t]
<1> HIDE DEF f
<1>3. DOMAIN f \in SUBSET Names /\ \A n \in DOMAIN f : f[n] \in Values
  BY <1>2 DEF f, Names, Values, Range
<1>4. f \in [DOMAIN f -> Values]
  BY <1>1, <1>3 DEF f
<1> QED
  BY <1>3, <1>4, MapIsItemMap DEF f

\* The messages on the wire, when one is taken off or another is added.
LEMMA TailOf ==
    ASSUME NEW S, NEW s \in Seq(S), s # << >>
    PROVE  /\ Tail(s) \in Seq(S) /\ 1 \in DOMAIN s /\ Head(s) = s[1] /\ s[1] \in S
           /\ \A i \in DOMAIN Tail(s) :
                 i + 1 \in DOMAIN s /\ Tail(s)[i] = s[i + 1] /\ i + 1 # 1 /\ i \in Int
<1>1. Len(s) \in Nat /\ Len(s) # 0
  OBVIOUS
<1> QED
  BY <1>1

LEMMA AppendTo ==
    ASSUME NEW S, NEW s \in Seq(S), NEW e \in S
    PROVE  /\ Append(s, e) \in Seq(S)
           /\ \A i \in DOMAIN Append(s, e) :
                 \/ i \in DOMAIN s /\ Append(s, e)[i] = s[i]
                 \/ i = Len(s) + 1 /\ Append(s, e)[i] = e
  OBVIOUS

LEMMA ElementOf ==
    ASSUME NEW S, NEW s \in Seq(S)
    PROVE  \A i \in DOMAIN s : s[i] \in S
  OBVIOUS

\* A new nonce outdates the others of its type and leaves the messages as they are.
LEMMA OutdatedRequests ==
    ASSUME NEW ms \in Seq(Requests), NEW t \in Types
    PROVE  /\ Outdated(ms, t) \in Seq(Requests)
           /\ DOMAIN Outdated(ms, t) = DOMAIN ms
           /\ \A i \in DOMAIN ms : /\ Outdated(ms, t)[i].type = ms[i].type
                                   /\ Outdated(ms, t)[i].names = ms[i].names
                                   /\ Outdated(ms, t)[i].current => ms[i].current /\ ms[i].type # t
<1>1. ASSUME NEW m \in Requests, NEW b \in BOOLEAN
      PROVE  /\ [m EXCEPT !.current = b] \in Requests
             /\ [m EXCEPT !.current = b].type = m.type
             /\ [m EXCEPT !.current = b].names = m.names
             /\ [m EXCEPT !.current = b].current = b
  BY DEF Requests
<1> DEFINE O == Outdated(ms, t)
           B(i) == ms[i].current /\ ms[i].type # t
<1>2. \A i \in DOMAIN ms : ms[i] \in Requests /\ B(i) \in BOOLEAN
  <2>1. \A i \in DOMAIN ms : ms[i] \in Requests
    OBVIOUS
  <2>2. \A i \in DOMAIN ms : B(i) \in BOOLEAN
    BY ZenonT(60)
  <2> QED
    BY <2>1, <2>2
<1>3. O = [i \in DOMAIN ms |-> [ms[i] EXCEPT !.current = B(i)]]
  BY DEF Outdated
<1> HIDE DEF O
<1>4. DOMAIN O = DOMAIN ms /\ DOMAIN O = 1 .. Len(ms)
  BY <1>3
<1>5. \A i \in DOMAIN ms : O[i] \in Requests /\ O[i].type = ms[i].type /\ O[i].names = ms[i].names
                           /\ O[i].current = B(i)
  <2> HIDE DEF B
  <2> QED
    BY ZenonT(60), <1>1, <1>2, <1>3
<1>6. O \in Seq(Requests)
  BY <1>3, <1>4, <1>5
<1> QED
  BY ZenonT(60), <1>4, <1>5, <1>6 DEF O

LEMMA OutdatedResponses ==
    ASSUME NEW ms \in Seq(Responses), NEW t \in Types
    PROVE  /\ Outdated(ms, t) \in Seq(Responses)
           /\ DOMAIN Outdated(ms, t) = DOMAIN ms
           /\ \A i \in DOMAIN ms : /\ Outdated(ms, t)[i].type = ms[i].type
                                   /\ Outdated(ms, t)[i].version = ms[i].version
                                   /\ Outdated(ms, t)[i].items = ms[i].items
                                   /\ Outdated(ms, t)[i].current => ms[i].current /\ ms[i].type # t
<1>1. ASSUME NEW m \in Responses, NEW b \in BOOLEAN
      PROVE  /\ [m EXCEPT !.current = b] \in Responses
             /\ [m EXCEPT !.current = b].type = m.type
             /\ [m EXCEPT !.current = b].version = m.version
             /\ [m EXCEPT !.current = b].items = m.items
             /\ [m EXCEPT !.current = b].current = b
  BY SMTT(40), ZenonT(40) DEF Responses
<1> DEFINE O == Outdated(ms, t)
           B(i) == ms[i].current /\ ms[i].type # t
<1>2. \A i \in DOMAIN ms : ms[i] \in Responses /\ B(i) \in BOOLEAN
  <2>1. \A i \in DOMAIN ms : ms[i] \in Responses
    OBVIOUS
  <2>2. \A i \in DOMAIN ms : B(i) \in BOOLEAN
    BY ZenonT(60)
  <2> QED
    BY <2>1, <2>2
<1>3. O = [i \in DOMAIN ms |-> [ms[i] EXCEPT !.current = B(i)]]
  BY DEF Outdated
<1> HIDE DEF O
<1>4. DOMAIN O = DOMAIN ms /\ DOMAIN O = 1 .. Len(ms)
  BY <1>3
<1>5. \A i \in DOMAIN ms : O[i] \in Responses /\ O[i].type = ms[i].type /\ O[i].items = ms[i].items
                           /\ O[i].version = ms[i].version
                           /\ O[i].current = B(i)
  <2> HIDE DEF B
  <2> QED
    BY ZenonT(60), <1>1, <1>2, <1>3
<1>6. O \in Seq(Responses)
  BY <1>3, <1>4, <1>5
<1> QED
  BY ZenonT(60), <1>4, <1>5, <1>6 DEF O
-----------------------------------------------------------------------------
(* The snapshot cache                                                       *)

LEMMA CreateResponseItems ==
    ASSUME NEW q \in Requests, NEW res \in [version : Nat, items : ItemMaps]
    PROVE  LET r == createResponse(q, res) IN
           /\ r \in Answered /\ r.type = q.type /\ r.version = res.version
           /\ DOMAIN r.items = IF q.names = {} THEN DOMAIN res.items ELSE DOMAIN res.items \cap q.names
           /\ \A n \in DOMAIN r.items : r.items[n] = res.items[n]
<1> DEFINE items == IF q.names = {} THEN res.items
                    ELSE Restrict(res.items, DOMAIN res.items \cap q.names)
<1>1. /\ items \in ItemMaps
      /\ DOMAIN items = IF q.names = {} THEN DOMAIN res.items ELSE DOMAIN res.items \cap q.names
      /\ \A n \in DOMAIN items : items[n] = res.items[n]
  BY RestrictItems
<1>2. createResponse(q, res) = [type |-> q.type, version |-> res.version, items |-> items]
  BY DEF createResponse
<1> HIDE DEF items
<1> QED
  BY <1>1, <1>2 DEF Answered, Requests

\* A watch that is answered is for the request it was opened with.
LEMMA RespondWatch ==
    ASSUME NEW q \in Requests, NEW res \in [version : Nat, items : ItemMaps]
    PROVE  /\ respond(q, res) \in {NoWatch, Responded(createResponse(q, res))}
           /\ WatchOK(respond(q, res), q.type)
           /\ WatchOK(Responded(createResponse(q, res)), q.type)
           /\ WatchOK(OpenWatch(q), q.type)
           /\ Responded(createResponse(q, res)).state = "responded"
           /\ Responded(createResponse(q, res)).response = createResponse(q, res)
           /\ OpenWatch(q).state = "open" /\ OpenWatch(q).request = q
           /\ NoWatch.state = "none"
<1>1. createResponse(q, res) \in Answered /\ createResponse(q, res).type = q.type
  BY ZenonT(60), CreateResponseItems
<1> QED
  BY <1>1 DEF respond, NoWatch, Responded, OpenWatch, WatchOK

\* A response made of a snapshot is of its version and has what Envoy has,
\* provided the request names it.
LEMMA SnapshotAnswers ==
    ASSUME NEW snap \in Snapshots, NEW have, NEW q \in Requests, NamesAll(have, q.names)
    PROVE  /\ WatchCovers(snap, have, Responded(createResponse(q, snap[EP])))
           /\ WatchCovers(snap, have, respond(q, snap[EP]))
<1> DEFINE r == createResponse(q, snap[EP])
<1>1. snap[EP] \in [version : Nat, items : ItemMaps]
  BY DEF Snapshots, EP, Types
<1>2. /\ r.version = snap[EP].version
      /\ DOMAIN r.items = IF q.names = {} THEN DOMAIN snap[EP].items
                          ELSE DOMAIN snap[EP].items \cap q.names
      /\ \A n \in DOMAIN r.items : r.items[n] = snap[EP].items[n]
  BY ZenonT(60), <1>1, CreateResponseItems
<1> HIDE DEF r
<1>3. ResponseCovers(snap, have, r)
  BY <1>2 DEF ResponseCovers, Agrees, Replaces, NamesAll
<1>4. WatchCovers(snap, have, Responded(r))
  BY <1>3 DEF WatchCovers, Responded
<1>5. WatchCovers(snap, have, NoWatch)
  BY DEF WatchCovers, NoWatch
<1> QED
  BY <1>1, <1>4, <1>5, RespondWatch DEF r

\* Fewer names are covered as well.
LEMMA FewerCovered ==
    ASSUME NEW snap, NEW have, NEW fewer \in SUBSET have
    PROVE  /\ \A r : ResponseCovers(snap, have, r) => ResponseCovers(snap, fewer, r)
           /\ \A names : NamesAll(have, names) => NamesAll(fewer, names)
           /\ \A w : WatchCovers(snap, have, w) => WatchCovers(snap, fewer, w)
  BY DEF ResponseCovers, Replaces, NamesAll, WatchCovers

-----------------------------------------------------------------------------
\* There is no snapshot and no message at first.
LEMMA InitInvariant == Init => IInv
<1> SUFFICES ASSUME Init PROVE IInv
  OBVIOUS
<1>1. envoy \in Envoys /\ envoy.items[EP] = NoItems /\ envoy.version[EP] = 0
  <2> DEFINE v == [t \in Types |-> EmptyVersion]
             it == [t \in Types |-> NoItems]
             c == [t \in Types |-> FALSE]
             w == {}
  <2>1. v \in [Types -> Nat] /\ it \in [Types -> ItemMaps]
    BY NoItemsIsItemMap DEF EmptyVersion
  <2>2. c \in [Types -> BOOLEAN]
    OBVIOUS
  <2>3. w \in SUBSET Names /\ it[EP] = NoItems /\ v[EP] = 0
    BY DEF EmptyVersion, EP, Types
  <2>4. envoy = [version |-> v, items |-> it, current |-> c, warming |-> w]
    BY DEF Init
  <2> HIDE DEF v, it, c, w
  <2> QED
    BY SMTT(40), ZenonT(40), <2>1, <2>2, <2>3, <2>4 DEF Envoys
<1>2. Typed
  <2>1. \A t \in Types : WatchOK(watch[t], t)
    BY DEF Init, WatchOK
  <2>2. sent \in [Types -> BOOLEAN] /\ nonceAcked \in BOOLEAN
    BY ZenonT(60) DEF Init
  <2> QED
    BY SMTT(40), ZenonT(40), <1>1, <2>1, <2>2 DEF Init, Typed, EmptyVersion
<1>3. watch[EP] = NoWatch /\ NoWatch.state = "none" /\ EP \in Types
  BY DEF Init, NoWatch, EP, Types
<1>4. VersionsDrawn /\ OneInFlight /\ ResponsesCover
  BY <1>1, <1>3 DEF Init, VersionsDrawn, OneInFlight, InFlight, ResponsesCover, WatchCovers, EmptyVersion
<1>5. EnvoyAgrees
  BY <1>1, NoItemsIsItemMap DEF Init, EnvoyAgrees, Agrees, Have
<1> QED
  BY SMTT(40), ZenonT(40), <1>2, <1>4, <1>5 DEF IInv

\* A new snapshot: endpoints that are not those of the snapshot before have a
\* version nobody has seen.
LEMMA SetSnapshotInvariant ==
    ASSUME IInv, NEW config \in plan.configs, SetSnapshot(config)
    PROVE  IInv'
<1> USE DEF IInv
<1> DEFINE Kept(t) == config[t] = Current(t).items
           Entry(t) == [version |-> IF Kept(t) THEN Current(t).version ELSE version + 1,
                        items |-> config[t]]
           new == [t \in Types |-> Entry(t)]
<1>1. /\ version' = version + 1 /\ snapshot' = new
      /\ watch' = [t \in Types |-> Trigger(watch[t], new)]
      /\ UNCHANGED <<plan, connected, breaks, sent, nonceAcked, requests, responses, envoy>>
  BY DEF SetSnapshot
<1>2. EP \in Types /\ version \in Nat
  BY DEF EP, Types, Typed
<1>3. \A t \in Types : Current(t) \in [version : Nat, items : ItemMaps]
  BY NoItemsIsItemMap DEF Current, Typed, Snapshots, EmptyVersion
<1>4. \A t \in Types : Entry(t) \in [version : Nat, items : ItemMaps]
  <2> TAKE t \in Types
  <2>1. config[t] \in ItemMaps
    BY ConfigItems DEF Typed
  <2>2. Current(t).version \in Nat /\ version + 1 \in Nat
    BY SMTT(40), ZenonT(40), <1>2, <1>3
  <2> QED
    BY SMTT(40), ZenonT(40), <2>1, <2>2
<1>5. /\ Entry(EP).version = (IF Kept(EP) THEN Current(EP).version ELSE version + 1)
      /\ Entry(EP).items = config[EP]
  OBVIOUS
<1> HIDE DEF Entry
<1>6. new \in Snapshots /\ new[EP] = Entry(EP)
  BY SMTT(40), ZenonT(40), <1>2, <1>4 DEF Snapshots
<1>7. Current(EP).version <= version
  BY <1>2 DEF Current, VersionsDrawn, EmptyVersion
<1>8. new[EP].version <= version'
  BY SMTT(40), ZenonT(40), <1>1, <1>2, <1>3, <1>5, <1>6, <1>7
<1>9. ASSUME NEW v \in Nat, NEW items, v <= version
      PROVE  /\ Agrees(snapshot, v, items) => Agrees(new, v, items)
             /\ Replaces(snapshot, Have, v, items) => Replaces(new, Have, v, items)
  <2>1. CASE ~Kept(EP)
    BY SMTT(40), ZenonT(40), <1>2, <1>5, <1>6, <1>9, <2>1 DEF Agrees, Replaces
  <2>2. CASE Kept(EP) /\ snapshot = NotFound
    <3>1. DOMAIN new[EP].items = {}
      BY SMTT(40), ZenonT(40), <1>5, <1>6, <2>2, NoItemsIsItemMap DEF Current
    <3> QED
      BY <3>1 DEF Agrees, Replaces
  <2>3. CASE Kept(EP) /\ snapshot # NotFound
    <3>1. new[EP].version = snapshot[EP].version /\ new[EP].items = snapshot[EP].items
      BY SMTT(40), ZenonT(40), <1>5, <1>6, <2>3 DEF Current
    <3> HIDE DEF new
    <3> QED
      BY SMTT(40), ZenonT(40), <2>3, <3>1 DEF Agrees, Replaces
  <2> QED
    BY SMTT(40), ZenonT(40), <2>1, <2>2, <2>3
<1> HIDE DEF new
<1>10. Have' = Have
  BY <1>1 DEF Have
<1>11. \A t \in Types : watch'[t] = Trigger(watch[t], new)
  BY <1>1
<1>12. \A t \in Types : WatchOK(watch'[t], t)
  <2> TAKE t \in Types
  <2>1. new[t] \in [version : Nat, items : ItemMaps]
    BY <1>6 DEF Snapshots
  <2>2. WatchOK(watch[t], t)
    BY DEF Typed
  <2>3. CASE watch[t].state = "open"
    <3>1. watch[t].request \in Requests /\ watch[t].request.type = t
      BY SMTT(40), ZenonT(40), <2>2, <2>3 DEF WatchOK, NoWatch
    <3> QED
      BY SMTT(40), ZenonT(40), <1>11, <2>1, <2>2, <3>1, RespondWatch DEF Trigger
  <2>4. CASE watch[t].state # "open"
    BY SMTT(40), ZenonT(40), <1>11, <2>2, <2>4 DEF Trigger
  <2> QED
    BY <2>3, <2>4
<1>13. /\ WatchCovers(new, Have, watch'[EP])
       /\ watch'[EP].state = "responded" => watch'[EP].response.version <= version'
       /\ watch[EP] = NoWatch => watch'[EP] = NoWatch
  <2> DEFINE w == watch[EP]
  <2>1. WatchCovers(snapshot, Have, w) /\ WatchOK(w, EP) /\ watch'[EP] = Trigger(w, new)
    BY SMTT(40), ZenonT(40), <1>2, <1>11 DEF Typed, ResponsesCover
  <2>2. CASE Trigger(w, new) = w
    <3>1. ASSUME w.state = "responded"
          PROVE  ResponseCovers(new, Have, w.response) /\ w.response.version <= version'
      <4>1. w.response.version \in Nat /\ w.response.version <= version
        BY SMTT(40), ZenonT(40), <2>1, <3>1 DEF WatchOK, NoWatch, Answered, VersionsDrawn
      <4> QED
        BY SMTT(40), ZenonT(40), <1>1, <1>2, <1>9, <2>1, <3>1, <4>1 DEF WatchCovers, ResponseCovers
    <3> QED
      BY SMTT(40), ZenonT(40), <2>1, <2>2, <3>1 DEF WatchCovers
  <2>3. CASE Trigger(w, new) # w
    <3> DEFINE q == w.request
    <3>1. w.state = "open" /\ q \in Requests /\ q.type = EP
      BY SMTT(40), ZenonT(40), <2>1, <2>3 DEF Trigger, WatchOK, NoWatch
    <3>2. watch'[EP] = respond(q, new[EP])
      BY SMTT(40), ZenonT(40), <2>1, <2>3, <3>1 DEF Trigger
    <3>3. NamesAll(Have, q.names)
      BY <2>1, <3>1 DEF WatchCovers
    <3>4. new[EP] \in [version : Nat, items : ItemMaps]
      BY SMTT(40), ZenonT(40), <1>2, <1>6 DEF Snapshots
    <3>5. createResponse(q, new[EP]).version = new[EP].version
      BY ZenonT(60), <3>1, <3>4, CreateResponseItems
    <3>6. w # NoWatch
      BY <3>1 DEF NoWatch
    <3> QED
      BY SMTT(40), ZenonT(40), <1>6, <1>8, <3>1, <3>2, <3>3, <3>4, <3>5, <3>6, SnapshotAnswers, RespondWatch
  <2> QED
    BY SMTT(40), ZenonT(40), <2>2, <2>3
<1>14. Typed'
  BY <1>1, <1>2, <1>6, <1>12 DEF Typed
<1>15. ASSUME NEW i \in DOMAIN responses, responses[i].type = EP
       PROVE  ResponseCovers(new, Have, responses[i]) /\ responses[i].version <= version'
  <2>1. responses[i].version \in Nat /\ responses[i].version <= version
    <3>1. responses[i] \in Responses
      BY ElementOf DEF Typed
    <3> QED
      BY SMTT(40), ZenonT(40), <1>15, <3>1 DEF Responses, VersionsDrawn
  <2>2. ResponseCovers(snapshot, Have, responses[i])
    BY <1>15 DEF ResponsesCover
  <2> QED
    BY SMTT(40), ZenonT(40), <1>1, <1>2, <1>9, <2>1, <2>2 DEF ResponseCovers
<1>16. envoy.version[EP] \in Nat /\ envoy.version[EP] <= version
  BY SMTT(40), ZenonT(40), <1>2 DEF Typed, Envoys, VersionsDrawn
<1>17. VersionsDrawn'
  BY SMTT(40), ZenonT(40), <1>1, <1>2, <1>8, <1>13, <1>15, <1>16 DEF VersionsDrawn
<1>18. OneInFlight'
  BY SMTT(40), ZenonT(40), <1>1, <1>13 DEF OneInFlight, InFlight
<1>19. ResponsesCover'
  BY SMTT(40), ZenonT(40), <1>1, <1>10, <1>13, <1>15 DEF ResponsesCover, Stale
<1>20. EnvoyAgrees'
  BY SMTT(40), ZenonT(40), <1>1, <1>9, <1>10, <1>16 DEF EnvoyAgrees
<1> QED
  BY <1>14, <1>17, <1>18, <1>19, <1>20

\* A request that is not stale names what Envoy has, so that whatever answers
\* it covers that; while endpoints are under way there is none.
LEMMA ReceiveInvariant == IInv /\ Receive => IInv'
<1> SUFFICES ASSUME IInv, Receive PROVE IInv'
  OBVIOUS
<1> USE DEF IInv
<1> DEFINE q == requests[1]
           W == IF q.type = "endpoints" /\ nonceAcked /\ ~PeekSkips(q)
                THEN scheduleResponse(q)
                ELSE CreateWatch(q, snapshot # NotFound, snapshot)
<1>1. /\ requests # << >> /\ requests' = Tail(requests)
      /\ UNCHANGED <<plan, snapshot, version, sent, responses, envoy>>
  BY DEF Receive
<1>2. /\ requests' \in Seq(Requests) /\ 1 \in DOMAIN requests
      /\ Head(requests) = q /\ q \in Requests
      /\ \A i \in DOMAIN requests' :
            i + 1 \in DOMAIN requests /\ requests'[i] = requests[i + 1]
  BY SMTT(40), ZenonT(40), <1>1, TailOf DEF Typed
<1>3. q.type \in Types /\ EP \in Types
  BY <1>2 DEF Requests, EP, Types
<1>4. Have' = Have
  BY <1>1 DEF Have
<1>5. /\ \A t \in Types : WatchOK(watch'[t], t)
      /\ DOMAIN watch' = Types
      /\ nonceAcked' \in BOOLEAN
      /\ WatchCovers(snapshot, Have, watch'[EP])
      /\ watch'[EP].state = "responded" => watch'[EP].response.version <= version
      /\ InFlight => watch'[EP] = NoWatch
  <2>1. CASE Stale(q)
    <3>1. watch' = watch /\ nonceAcked' = nonceAcked
      BY SMTT(40), ZenonT(40), <1>2, <2>1 DEF Receive
    <3>2. nonceAcked' \in BOOLEAN
      BY SMTT(40), ZenonT(40), <3>1 DEF Typed
    <3> QED
      BY SMTT(40), ZenonT(40), <3>1, <3>2 DEF Typed, ResponsesCover, VersionsDrawn, OneInFlight
  <2>2. CASE ~Stale(q)
    <3>1. OnRequest(q)
      BY SMTT(40), ZenonT(40), <1>2, <2>2 DEF Receive
    <3>2. watch' = [watch EXCEPT ![q.type] = W]
      BY <3>1 DEF OnRequest
    <3>3. W = OpenWatch(q) \/ (/\ snapshot # NotFound
                               /\ W \in {respond(q, snapshot[q.type]),
                                         Responded(createResponse(q, snapshot[q.type]))})
      BY DEF PeekSkips, FetchSkips, scheduleResponse, CreateWatch
    <3>4. snapshot # NotFound =>
             snapshot \in Snapshots /\ snapshot[q.type] \in [version : Nat, items : ItemMaps]
      BY SMTT(40), ZenonT(40), <1>3 DEF Typed, Snapshots
    <3>5. WatchOK(W, q.type)
      <4>1. WatchOK(OpenWatch(q), q.type)
        BY <1>2 DEF WatchOK, OpenWatch
      <4> QED
        BY SMTT(40), ZenonT(40), <1>2, <3>3, <3>4, <4>1, RespondWatch
    <3> HIDE DEF W
    <3>6. \A t \in Types : WatchOK(watch'[t], t)
      BY SMTT(40), ZenonT(40), <1>3, <3>2, <3>5 DEF Typed
    <3>7. nonceAcked' \in BOOLEAN
      <4>1. nonceAcked' = IF q.type # "endpoints" THEN nonceAcked
                          ELSE sent["endpoints"] /\ q.current
        BY <3>1 DEF OnRequest
      <4>2. (sent["endpoints"] /\ q.current) \in BOOLEAN
        BY ZenonT(60)
      <4> QED
        BY ZenonT(60), <4>1, <4>2 DEF Typed
    <3>8. CASE q.type = EP
      <4>1. NamesAll(Have, q.names)
        BY SMTT(40), ZenonT(40), <1>2, <2>2, <3>8 DEF ResponsesCover
      <4>2. WatchCovers(snapshot, Have, OpenWatch(q))
        BY SMTT(40), ZenonT(40), <4>1 DEF WatchCovers, OpenWatch
      <4>3. WatchCovers(snapshot, Have, W)
        BY ZenonT(60), <1>2, <3>3, <3>4, <3>8, <4>1, <4>2, SnapshotAnswers
      <4>4. W.state = "responded" => W.response.version <= version
        <5>1. snapshot # NotFound =>
                 createResponse(q, snapshot[q.type]).version = snapshot[q.type].version
          BY ZenonT(60), <1>2, <3>4, CreateResponseItems
        <5>2. OpenWatch(q).state # "responded" /\ NoWatch.state # "responded"
          BY DEF OpenWatch, NoWatch
        <5>3. snapshot # NotFound => respond(q, snapshot[q.type])
                 \in {NoWatch, Responded(createResponse(q, snapshot[q.type]))}
          BY DEF respond
        <5>4. snapshot # NotFound =>
                 Responded(createResponse(q, snapshot[q.type])).response.version <= version
          BY <3>8, <5>1 DEF Responded, VersionsDrawn
        <5> QED
          BY <3>3, <5>2, <5>3, <5>4
      <4>5. ~InFlight
        BY SMTT(40), ZenonT(40), <1>2, <2>2, <3>8 DEF OneInFlight, Stale
      <4>6. watch'[EP] = W
        BY SMTT(40), ZenonT(40), <1>3, <3>2, <3>8 DEF Typed
      <4> QED
        BY <3>2, <3>6, <3>7, <4>3, <4>4, <4>5, <4>6 DEF Typed
    <3>9. CASE q.type # EP
      <4>1. watch'[EP] = watch[EP]
        BY SMTT(40), ZenonT(40), <1>3, <3>2, <3>9 DEF Typed
      <4> QED
        BY SMTT(40), ZenonT(40), <3>2, <3>6, <3>7, <4>1 DEF Typed, ResponsesCover, VersionsDrawn, OneInFlight
    <3> QED
      BY SMTT(40), ZenonT(40), <3>8, <3>9
  <2> QED
    BY SMTT(40), ZenonT(40), <2>1, <2>2
<1>6. Typed'
  BY SMTT(40), ZenonT(40), <1>1, <1>2, <1>5 DEF Typed
<1>7. VersionsDrawn'
  BY SMTT(40), ZenonT(40), <1>1, <1>5 DEF VersionsDrawn
<1>8. OneInFlight'
  BY SMTT(40), ZenonT(40), <1>1, <1>2, <1>5 DEF OneInFlight, InFlight
<1>9. ResponsesCover'
  BY SMTT(40), ZenonT(40), <1>1, <1>2, <1>4, <1>5 DEF ResponsesCover, Stale
<1>10. EnvoyAgrees'
  BY SMTT(40), ZenonT(40), <1>1, <1>4 DEF EnvoyAgrees
<1> QED
  BY SMTT(40), ZenonT(40), <1>6, <1>7, <1>8, <1>9, <1>10

\* A response that is sent makes its nonce the current one.
LEMMA SendInvariant == \A t \in Types : IInv /\ Send(t) => IInv'
<1> SUFFICES ASSUME IInv, NEW t \in Types, Send(t) PROVE IInv'
  OBVIOUS
<1> USE DEF IInv
<1> DEFINE r == DiscoveryResponse(watch[t].response)
           O == Outdated(responses, t)
<1>1. /\ watch[t].state = "responded"
      /\ responses' = Append(O, r)
      /\ requests' = Outdated(requests, t)
      /\ envoy' = [envoy EXCEPT !.current[t] = FALSE]
      /\ sent' = [sent EXCEPT ![t] = TRUE]
      /\ nonceAcked' = (nonceAcked /\ t # "endpoints")
      /\ watch' = [watch EXCEPT ![t] = NoWatch]
      /\ UNCHANGED <<plan, snapshot, version>>
  BY DEF Send
<1>2. EP \in Types
  BY DEF EP, Types
<1>3. watch[t].response \in Answered /\ watch[t].response.type = t
  BY SMTT(40), ZenonT(40), <1>1 DEF Typed, WatchOK, NoWatch
<1>4. /\ r \in Responses /\ r.type = t
      /\ r.version = watch[t].response.version /\ r.items = watch[t].response.items
  BY SMTT(40), ZenonT(40), <1>3 DEF DiscoveryResponse, Responses, Answered
<1>5. /\ O \in Seq(Responses) /\ DOMAIN O = DOMAIN responses /\ Len(O) \in Nat
      /\ \A i \in DOMAIN responses : /\ O[i].type = responses[i].type
                                     /\ O[i].version = responses[i].version
                                     /\ O[i].items = responses[i].items
  BY OutdatedResponses DEF Typed
<1>6. /\ requests' \in Seq(Requests) /\ DOMAIN requests' = DOMAIN requests
      /\ \A i \in DOMAIN requests :
            /\ requests'[i].type = requests[i].type
            /\ requests'[i].names = requests[i].names
            /\ requests'[i].current => requests[i].current /\ requests[i].type # t
  BY SMTT(40), ZenonT(40), <1>1, OutdatedRequests DEF Typed
<1> HIDE DEF r, O
<1>7. /\ responses' \in Seq(Responses)
      /\ \A i \in DOMAIN responses' :
            \/ i \in DOMAIN responses /\ responses'[i] = O[i]
            \/ i = Len(O) + 1 /\ responses'[i] = r
  BY SMTT(40), ZenonT(40), <1>1, <1>4, <1>5, AppendTo
<1>8. /\ envoy' \in Envoys /\ envoy'.items = envoy.items /\ envoy'.version = envoy.version
      /\ envoy'.current = [envoy.current EXCEPT ![t] = FALSE]
  BY ZenonT(60), <1>1 DEF Typed, Envoys
<1>9. Have' = Have
  BY <1>8 DEF Have
<1>10. \A u \in Types : watch'[u] = IF u = t THEN NoWatch ELSE watch[u]
  BY <1>1 DEF Typed
<1>11. Typed'
  <2>1. \A u \in Types : WatchOK(watch'[u], u)
    BY SMTT(40), ZenonT(40), <1>10 DEF Typed, WatchOK
  <2>2. nonceAcked' \in BOOLEAN
    BY <1>1, ZenonT(60)
  <2>3. sent' \in [Types -> BOOLEAN]
    BY <1>1 DEF Typed
  <2>4. DOMAIN watch' = Types
    BY <1>1 DEF Typed
  <2> QED
    BY SMTT(40), ZenonT(40), <1>1, <1>6, <1>7, <1>8, <2>1, <2>2, <2>3, <2>4 DEF Typed
<1>12. t = EP => ~InFlight
  BY SMTT(40), ZenonT(40), <1>1 DEF OneInFlight, NoWatch
<1>13. VersionsDrawn'
  <2>1. watch'[EP].state = "responded" => watch'[EP].response.version <= version
    BY SMTT(40), ZenonT(40), <1>2, <1>10 DEF VersionsDrawn, NoWatch
  <2>2. ASSUME NEW i \in DOMAIN responses', responses'[i].type = EP
        PROVE  responses'[i].version <= version
    BY ZenonT(60), <1>1, <1>4, <1>5, <1>7, <2>2 DEF VersionsDrawn
  <2> QED
    BY SMTT(40), ZenonT(40), <1>1, <1>8, <2>1, <2>2 DEF VersionsDrawn
<1>14. OneInFlight'
  <2>1. CASE t = EP
    <3>1. \A i \in DOMAIN responses' : responses'[i].type = EP => i = Len(O) + 1
      BY SMTT(40), ZenonT(40), <1>5, <1>7, <1>12, <2>1 DEF InFlight
    <3>2. watch'[EP] = NoWatch /\ \A i \in DOMAIN requests' : requests'[i].type = EP => ~requests'[i].current
      BY SMTT(40), ZenonT(40), <1>2, <1>6, <1>10, <2>1
    <3>3. sent'[EP]
      BY SMTT(40), ZenonT(40), <1>1, <1>2, <2>1 DEF Typed
    <3>4. ~envoy'.current[EP]
      BY SMTT(40), ZenonT(40), <1>2, <1>8, <2>1 DEF Typed, Envoys
    <3> QED
      BY <3>1, <3>2, <3>3, <3>4 DEF OneInFlight, InFlight
  <2>2. CASE t # EP
    <3>1. \A i \in DOMAIN responses' :
             responses'[i].type = EP => i \in DOMAIN responses /\ responses[i].type = EP
      BY SMTT(40), ZenonT(40), <1>4, <1>5, <1>7, <2>2
    <3>2. watch'[EP] = watch[EP] /\ sent'[EP] = sent[EP]
      BY ZenonT(60), <1>1, <1>2, <1>10, <2>2 DEF Typed
    <3>3. envoy'.current[EP] = envoy.current[EP]
      BY ZenonT(60), <1>2, <1>8, <2>2 DEF Typed, Envoys
    <3>4. InFlight' => InFlight
      BY <3>1 DEF InFlight
    <3>5. ASSUME InFlight, NEW i \in DOMAIN requests', requests'[i].type = EP
          PROVE  ~requests'[i].current
      BY SMTT(40), ZenonT(40), <1>6, <3>5 DEF OneInFlight
    <3>6. ASSUME InFlight PROVE watch'[EP] = NoWatch /\ sent'[EP]
      BY SMTT(40), ZenonT(40), <3>2, <3>6 DEF OneInFlight
    <3>7. ASSUME InFlight PROVE ~envoy'.current[EP]
      BY SMTT(40), ZenonT(40), <3>3, <3>7 DEF OneInFlight
    <3>8. \A i, j \in DOMAIN responses' :
             responses'[i].type = EP /\ responses'[j].type = EP => i = j
      BY SMTT(40), ZenonT(40), <3>1 DEF OneInFlight
    <3> QED
      BY SMTT(40), ZenonT(40), <3>4, <3>5, <3>6, <3>7, <3>8 DEF OneInFlight
  <2> QED
    BY <2>1, <2>2
<1>15. ResponsesCover'
  <2>1. ASSUME NEW i \in DOMAIN requests', requests'[i].type = EP,
               ~(sent'[EP] /\ ~requests'[i].current)
        PROVE  NamesAll(Have, requests'[i].names)
    <3>1. i \in DOMAIN requests /\ requests[i].type = EP /\ requests'[i].names = requests[i].names
      BY SMTT(40), ZenonT(40), <1>6, <2>1
    <3>2. sent[EP] => sent'[EP]
      BY SMTT(40), ZenonT(40), <1>1, <1>2 DEF Typed
    <3>3. ~Stale(requests[i])
      BY SMTT(40), ZenonT(40), <1>6, <2>1, <3>1, <3>2 DEF Stale
    <3> QED
      BY SMTT(40), ZenonT(40), <3>1, <3>3 DEF ResponsesCover
  <2>2. WatchCovers(snapshot, Have, watch'[EP])
    BY SMTT(40), ZenonT(40), <1>2, <1>10 DEF ResponsesCover, WatchCovers, NoWatch
  <2>3. ASSUME NEW i \in DOMAIN responses', responses'[i].type = EP
        PROVE  ResponseCovers(snapshot, Have, responses'[i])
    <3>1. CASE i \in DOMAIN responses /\ responses'[i] = O[i]
      BY SMTT(40), ZenonT(40), <1>5, <2>3, <3>1 DEF ResponsesCover, ResponseCovers
    <3>2. CASE responses'[i] = r
      BY SMTT(40), ZenonT(40), <1>1, <1>4, <2>3, <3>2 DEF ResponsesCover, ResponseCovers, WatchCovers
    <3> QED
      BY SMTT(40), ZenonT(40), <1>7, <3>1, <3>2
  <2> QED
    BY SMTT(40), ZenonT(40), <1>1, <1>9, <2>1, <2>2, <2>3 DEF ResponsesCover, Stale
<1>16. EnvoyAgrees'
  BY SMTT(40), ZenonT(40), <1>1, <1>8, <1>9 DEF EnvoyAgrees
<1> QED
  BY SMTT(40), ZenonT(40), <1>11, <1>13, <1>14, <1>15, <1>16
-----------------------------------------------------------------------------
(* Envoy                                                                    *)

LEMMA RequestOfEnvoy ==
    ASSUME NEW e \in Envoys, NEW t \in Types
    PROVE  /\ RequestOf(t, e) \in Requests
           /\ RequestOf(t, e).type = t
           /\ RequestOf(t, e).current = e.current[t]
           /\ t = EP => RequestOf(t, e).names = DOMAIN e.items["clusters"]
<1>1. DOMAIN e.items["clusters"] \in SUBSET Names
  BY SMTT(40), ZenonT(40), DomainInNames DEF Envoys, Types
<1>2. NamesOf(t, e) \in SUBSET Names
  BY <1>1 DEF NamesOf
<1>3. e.version[t] \in Nat
  BY DEF Envoys
<1>4. e.current[t] \in BOOLEAN
  BY SMTT(40), ZenonT(40) DEF Envoys
<1> DEFINE c == e.current[t]
           n == NamesOf(t, e)
<1>5. RequestOf(t, e) = [type |-> t, version |-> e.version[t], names |-> n, current |-> c]
  BY DEF RequestOf
<1>6. t = EP => n = DOMAIN e.items["clusters"]
  BY DEF NamesOf, EP
<1> HIDE DEF c, n
<1>7. RequestOf(t, e).current = c
  BY SMTT(40), ZenonT(40), <1>5
<1> QED
  BY SMTT(40), ZenonT(40), <1>2, <1>3, <1>4, <1>5, <1>6, <1>7 DEF c, n, Requests

\* A request is about endpoints that somebody has, and not for a nonce that a
\* response under way will bring.
GoodRequest(have, inflight, q) ==
    q.type = EP => NamesAll(have, q.names) /\ (inflight => ~q.current)

\* Envoy asks for the endpoints of all clusters it knows.
LEMMA EnvoyAsks ==
    ASSUME NEW e \in Envoys, NEW t \in Types, NEW have, NEW inflight,
           have \subseteq DOMAIN e.items["clusters"], inflight => ~e.current[EP]
    PROVE  RequestOf(t, e) \in Requests /\ GoodRequest(have, inflight, RequestOf(t, e))
<1>1. CASE t = EP
  <2>1. RequestOf(t, e).current = e.current[EP]
    BY SMTT(40), ZenonT(40), <1>1, RequestOfEnvoy
  <2>2. inflight => ~RequestOf(t, e).current
    BY SMTT(40), ZenonT(40), <2>1
  <2> QED
    BY SMTT(40), ZenonT(40), <1>1, <2>2, RequestOfEnvoy DEF GoodRequest, NamesAll
<1>2. CASE t # EP
  BY SMTT(40), ZenonT(40), <1>2, RequestOfEnvoy DEF GoodRequest
<1> QED
  BY SMTT(40), ZenonT(40), <1>1, <1>2

LEMMA ConnectInvariant == IInv /\ Connect => IInv'
<1> SUFFICES ASSUME IInv, Connect PROVE IInv'
  OBVIOUS
<1> USE DEF IInv
<1>1. UNCHANGED <<plan, snapshot, version, watch, sent, nonceAcked, responses, envoy>>
  BY DEF Connect, serverVars
<1>2. Have' = Have /\ InFlight' = InFlight
  BY <1>1 DEF Have, InFlight
<1>3. "clusters" \in Types /\ EP \in Types
  BY SMTT(40), ZenonT(40) DEF EP, Types
<1> DEFINE c == RequestOf("clusters", envoy)
           q == RequestOf(EP, envoy)
<1>4. c \in Requests /\ q \in Requests /\ GoodRequest(Have, InFlight, c) /\ GoodRequest(Have, InFlight, q)
  BY ZenonT(60), <1>3, EnvoyAsks DEF Typed, EnvoyAgrees, OneInFlight
<1>5. requests' = <<c>> \/ requests' = <<c, q>>
  BY DEF Connect, EP
<1> HIDE DEF c, q
<1>6. requests' \in Seq(Requests) /\ \A i \in DOMAIN requests' : requests'[i] \in {c, q}
  <2>1. <<c>> \in Seq(Requests) /\ <<c, q>> \in Seq(Requests)
    BY SMTT(40), ZenonT(40), <1>4
  <2>2. DOMAIN <<c>> = 1 .. 1 /\ DOMAIN <<c, q>> = 1 .. 2
    OBVIOUS
  <2>3. CASE requests' = <<c>>
    BY SMTT(40), ZenonT(40), <2>1, <2>2, <2>3
  <2>4. CASE requests' = <<c, q>>
    BY SMTT(40), ZenonT(40), <2>1, <2>2, <2>4
  <2> QED
    BY SMTT(40), ZenonT(40), <1>5, <2>3, <2>4
<1>7. \A i \in DOMAIN requests' : GoodRequest(Have, InFlight, requests'[i])
  BY SMTT(40), ZenonT(40), <1>4, <1>6
<1>8. Typed'
  BY SMTT(40), ZenonT(40), <1>1, <1>6 DEF Typed
<1>9. VersionsDrawn'
  BY SMTT(40), ZenonT(40), <1>1 DEF VersionsDrawn
<1>10. OneInFlight'
  BY SMTT(40), ZenonT(40), <1>1, <1>2, <1>7 DEF OneInFlight, GoodRequest
<1>11. ResponsesCover'
  BY SMTT(40), ZenonT(40), <1>1, <1>2, <1>7 DEF ResponsesCover, GoodRequest
<1>12. EnvoyAgrees'
  BY SMTT(40), ZenonT(40), <1>1, <1>2 DEF EnvoyAgrees
<1> QED
  BY <1>8, <1>9, <1>10, <1>11, <1>12

LEMMA DisconnectInvariant == IInv /\ Disconnect => IInv'
<1> SUFFICES ASSUME IInv, Disconnect PROVE IInv'
  OBVIOUS
<1> USE DEF IInv
<1>1. /\ requests' = << >> /\ responses' = << >>
      /\ watch' = [t \in Types |-> NoWatch]
      /\ sent' = [t \in Types |-> FALSE]
      /\ nonceAcked' = FALSE
      /\ envoy' = [envoy EXCEPT !.current = [t \in Types |-> FALSE]]
      /\ UNCHANGED <<plan, snapshot, version>>
  BY DEF Disconnect
<1>2. EP \in Types
  BY DEF EP, Types
<1>3. envoy' \in Envoys /\ envoy'.items = envoy.items /\ envoy'.version = envoy.version
  <2> DEFINE f == [t \in Types |-> FALSE]
  <2>1. f \in [Types -> BOOLEAN]
    OBVIOUS
  <2>2. envoy' = [envoy EXCEPT !.current = f]
    BY <1>1
  <2> HIDE DEF f
  <2> QED
    BY ZenonT(60), <2>1, <2>2 DEF Typed, Envoys
<1>4. Have' = Have
  BY <1>3 DEF Have
<1>5. watch'[EP] = NoWatch
  BY <1>1, <1>2
<1>6. Typed'
  <2>1. sent' \in [Types -> BOOLEAN]
    BY <1>1
  <2>2. nonceAcked' \in BOOLEAN
    BY ZenonT(60), <1>1
  <2>3. DOMAIN watch' = Types /\ \A t \in Types : WatchOK(watch'[t], t)
    BY <1>1 DEF WatchOK
  <2>4. requests' \in Seq(Requests) /\ responses' \in Seq(Responses)
    BY <1>1
  <2> QED
    BY SMTT(40), ZenonT(40), <1>1, <1>3, <2>1, <2>2, <2>3, <2>4 DEF Typed
<1>7. DOMAIN requests' = {} /\ DOMAIN responses' = {}
  BY <1>1
<1>8. VersionsDrawn'
  BY SMTT(40), ZenonT(40), <1>1, <1>3, <1>5, <1>7 DEF VersionsDrawn, NoWatch
<1>9. OneInFlight'
  BY SMTT(40), ZenonT(40), <1>7 DEF OneInFlight, InFlight
<1>10. ResponsesCover'
  BY SMTT(40), ZenonT(40), <1>5, <1>7 DEF ResponsesCover, WatchCovers, NoWatch
<1>11. EnvoyAgrees'
  BY SMTT(40), ZenonT(40), <1>1, <1>3, <1>4 DEF EnvoyAgrees
<1> QED
  BY <1>6, <1>8, <1>9, <1>10, <1>11

\* There was one response about endpoints at most, so that none is left when
\* Envoy takes it.
LEMMA TakeResponse ==
    ASSUME IInv, responses # << >>, responses' = Tail(responses)
    PROVE  /\ responses' \in Seq(Responses) /\ 1 \in DOMAIN responses
           /\ Head(responses) = responses[1] /\ responses[1] \in Responses
           /\ \A i \in DOMAIN responses' :
                 i + 1 \in DOMAIN responses /\ responses'[i] = responses[i + 1]
           /\ \A i, j \in DOMAIN responses' :
                 responses'[i].type = EP /\ responses'[j].type = EP => i = j
           /\ InFlight' => InFlight /\ responses[1].type # EP
           /\ responses[1].type = EP => InFlight
<1> USE DEF IInv
<1>1. /\ responses' \in Seq(Responses) /\ 1 \in DOMAIN responses
      /\ Head(responses) = responses[1] /\ responses[1] \in Responses
      /\ \A i \in DOMAIN responses' : /\ i + 1 \in DOMAIN responses
                                      /\ responses'[i] = responses[i + 1]
                                      /\ i + 1 # 1 /\ i \in Int
  BY SMTT(40), ZenonT(40), TailOf DEF Typed
<1>2. ASSUME NEW i \in DOMAIN responses', NEW j \in DOMAIN responses',
             responses'[i].type = EP, responses'[j].type = EP
      PROVE  i = j
  <2>1. i + 1 = j + 1
    BY SMTT(40), ZenonT(40), <1>1, <1>2 DEF OneInFlight
  <2> QED
    BY SMTT(40), ZenonT(40), <1>1, <2>1
<1>3. InFlight' => InFlight /\ responses[1].type # EP
  <2> SUFFICES ASSUME InFlight' PROVE InFlight /\ responses[1].type # EP
    OBVIOUS
  <2>1. PICK i \in DOMAIN responses' : responses'[i].type = EP
    BY DEF InFlight
  <2> QED
    BY <1>1, <2>1 DEF OneInFlight, InFlight
<1> QED
  BY SMTT(40), ZenonT(40), <1>1, <1>2, <1>3 DEF InFlight

\* What the three ways to answer a response have in common.
LEMMA EnvoyAnswers ==
    ASSUME IInv, responses # << >>, responses' = Tail(responses),
           UNCHANGED <<plan, snapshot, version, watch, sent, nonceAcked>>,
           envoy' \in Envoys, envoy'.version[EP] <= version,
           responses[1].type # EP => envoy'.current[EP] = envoy.current[EP],
           requests' \in Seq(Requests),
           \A i \in DOMAIN requests' :
              \/ \E j \in DOMAIN requests : requests'[i] = requests[j]
              \/ GoodRequest(Have', InFlight', requests'[i])
    PROVE  /\ Typed' /\ VersionsDrawn' /\ OneInFlight'
           /\ Have' \subseteq Have => ResponsesCover'
<1> USE DEF IInv
<1>1. Typed'
  BY SMTT(40), ZenonT(40), TakeResponse DEF Typed
<1>2. \A i \in DOMAIN responses' :
         i + 1 \in DOMAIN responses /\ responses'[i] = responses[i + 1]
  BY SMTT(40), ZenonT(40), TakeResponse
<1>3. VersionsDrawn'
  BY SMTT(40), ZenonT(40), <1>2 DEF VersionsDrawn
<1>4. OneInFlight'
  <2>1. \A i, j \in DOMAIN responses' :
           responses'[i].type = EP /\ responses'[j].type = EP => i = j
    BY SMTT(40), ZenonT(40), TakeResponse
  <2> SUFFICES ASSUME InFlight'
               PROVE  /\ watch'[EP] = NoWatch
                      /\ sent'[EP]
                      /\ ~envoy'.current[EP]
                      /\ \A i \in DOMAIN requests' : requests'[i].type = EP => ~requests'[i].current
    BY SMTT(40), ZenonT(40), <2>1 DEF OneInFlight
  <2>2. InFlight /\ responses[1].type # EP
    BY SMTT(40), ZenonT(40), TakeResponse
  <2>3. watch'[EP] = NoWatch
    BY SMTT(40), ZenonT(40), <2>2 DEF OneInFlight
  <2>4. sent'[EP]
    BY SMTT(40), ZenonT(40), <2>2 DEF OneInFlight
  <2>5. ~envoy'.current[EP]
    BY SMTT(40), ZenonT(40), <2>2 DEF OneInFlight
  <2>6. ASSUME NEW i \in DOMAIN requests', requests'[i].type = EP
        PROVE  ~requests'[i].current
    BY SMTT(40), ZenonT(40), <2>2, <2>6 DEF OneInFlight, GoodRequest
  <2> QED
    BY SMTT(40), ZenonT(40), <2>3, <2>4, <2>5, <2>6
<1>5. ASSUME Have' \subseteq Have PROVE ResponsesCover'
  <2>1. WatchCovers(snapshot, Have', watch[EP])
    BY ZenonT(60), <1>5, FewerCovered DEF ResponsesCover
  <2>2. ASSUME NEW i \in DOMAIN responses', responses'[i].type = EP
        PROVE  ResponseCovers(snapshot, Have', responses'[i])
    BY ZenonT(60), <1>2, <1>5, <2>2, FewerCovered DEF ResponsesCover
  <2>3. ASSUME NEW i \in DOMAIN requests', requests'[i].type = EP,
               ~(sent[EP] /\ ~requests'[i].current)
        PROVE  NamesAll(Have', requests'[i].names)
    <3>1. CASE \E j \in DOMAIN requests : requests'[i] = requests[j]
      BY ZenonT(60), <1>5, <2>3, <3>1, FewerCovered DEF ResponsesCover, Stale
    <3>2. CASE GoodRequest(Have', InFlight', requests'[i])
      BY <2>3, <3>2 DEF GoodRequest
    <3> QED
      BY <3>1, <3>2
  <2> QED
    BY SMTT(40), ZenonT(40), <2>1, <2>2, <2>3 DEF ResponsesCover, Stale
<1> QED
  BY SMTT(40), ZenonT(40), <1>1, <1>3, <1>4, <1>5

LEMMA RejectInvariant == IInv /\ Reject => IInv'
<1> SUFFICES ASSUME IInv, Reject PROVE IInv'
  OBVIOUS
<1> USE DEF IInv
<1> DEFINE r == responses[1]
           e == [envoy EXCEPT !.current[r.type] = r.current]
<1>1. /\ responses # << >> /\ responses' = Tail(responses)
      /\ UNCHANGED <<plan, snapshot, version, watch, sent, nonceAcked>>
  BY DEF Reject, serverVars
<1>2. /\ Head(responses) = r /\ r \in Responses
      /\ InFlight' => InFlight /\ r.type # EP
  BY SMTT(40), ZenonT(40), <1>1, TakeResponse
<1>3. envoy' = e /\ requests' = Append(requests, RequestOf(r.type, e))
  BY ZenonT(60), <1>2 DEF Reject
<1>4. r.type \in Types /\ EP \in Types
  BY <1>2 DEF Responses, EP, Types
<1>5. r.current \in BOOLEAN
  BY <1>2 DEF Responses
<1>6. /\ e \in Envoys /\ e.version = envoy.version /\ e.items = envoy.items
      /\ e.current = [envoy.current EXCEPT ![r.type] = r.current]
  BY ZenonT(60), <1>4, <1>5 DEF Typed, Envoys
<1>7. r.type # EP => e.current[EP] = envoy.current[EP]
  BY <1>4, <1>6 DEF Typed, Envoys
<1>8. Have' = Have
  BY <1>3, <1>6 DEF Have
<1>9. InFlight' => ~e.current[EP]
  <2> SUFFICES ASSUME InFlight' PROVE ~e.current[EP]
    OBVIOUS
  <2>1. ~envoy.current[EP]
    BY SMTT(40), ZenonT(40), <1>2 DEF OneInFlight
  <2> QED
    BY SMTT(40), ZenonT(40), <1>2, <1>7, <2>1
<1> DEFINE q == RequestOf(r.type, e)
<1> HIDE DEF e
<1>10. q \in Requests /\ GoodRequest(Have', InFlight', q)
  BY ZenonT(60), <1>4, <1>6, <1>8, <1>9, EnvoyAsks DEF EnvoyAgrees
<1> HIDE DEF q
<1>11. /\ requests' \in Seq(Requests)
       /\ \A i \in DOMAIN requests' : \/ \E j \in DOMAIN requests : requests'[i] = requests[j]
                                      \/ GoodRequest(Have', InFlight', requests'[i])
  <2>1. requests \in Seq(Requests) /\ requests' = Append(requests, q)
    BY <1>3 DEF Typed, q
  <2> HIDE DEF IInv
  <2>2. /\ requests' \in Seq(Requests)
        /\ \A i \in DOMAIN requests' : \/ i \in DOMAIN requests /\ requests'[i] = requests[i]
                                       \/ requests'[i] = q
    BY <1>10, <2>1, AppendTo
  <2> QED
    BY <1>10, <2>2
<1>12. envoy'.version[EP] <= version
  BY <1>3, <1>6 DEF VersionsDrawn
<1>13. Typed' /\ VersionsDrawn' /\ OneInFlight' /\ ResponsesCover'
  BY SMTT(40), ZenonT(40), <1>1, <1>3, <1>6, <1>7, <1>8, <1>11, <1>12, EnvoyAnswers
<1>14. EnvoyAgrees'
  BY SMTT(40), ZenonT(40), <1>1, <1>3, <1>6, <1>8 DEF EnvoyAgrees
<1> QED
  BY SMTT(40), ZenonT(40), <1>13, <1>14

\* Envoy forgets the endpoints of clusters that are gone.
LEMMA AcceptClustersInvariant == IInv /\ AcceptClusters => IInv'
<1> SUFFICES ASSUME IInv, AcceptClusters PROVE IInv'
  OBVIOUS
<1> USE DEF IInv
<1> DEFINE r == responses[1]
           old == envoy.items["clusters"]
           updated == {n \in DOMAIN r.items : n \notin DOMAIN old \/ r.items[n] # old[n]}
           warming == (envoy.warming \cap DOMAIN r.items) \cup updated
           kept == Restrict(envoy.items["endpoints"],
                            DOMAIN envoy.items["endpoints"] \cap DOMAIN r.items)
           e == [envoy EXCEPT !.version["clusters"] = r.version,
                              !.items["clusters"] = r.items,
                              !.items["endpoints"] = kept,
                              !.current["clusters"] = r.current,
                              !.warming = warming]
<1>1. /\ responses # << >> /\ responses' = Tail(responses)
      /\ UNCHANGED <<plan, snapshot, version, watch, sent, nonceAcked>>
  BY ZenonT(60) DEF AcceptClusters, serverVars
<1>2. /\ Head(responses) = r /\ r \in Responses
      /\ InFlight' => InFlight /\ r.type # EP
  BY <1>1, TakeResponse
<1> DEFINE c == RequestOf("clusters", e)
           q == RequestOf(EP, e)
<1>3. /\ envoy' = e /\ r.type = "clusters"
      /\ \/ requests' = requests \o << >> \o <<c>>
         \/ requests' = requests \o <<q>> \o <<c>>
  BY ZenonT(60), <1>2 DEF AcceptClusters, EP
<1>4. "clusters" \in Types /\ EP \in Types /\ EP = "endpoints" /\ EP # "clusters"
  BY DEF EP, Types
<1>5. r.version \in Nat /\ r.items \in ItemMaps /\ DOMAIN r.items \in SUBSET Names
  BY SMTT(40), ZenonT(40), <1>2, DomainInNames DEF Responses
<1>6. r.current \in BOOLEAN
  BY <1>2 DEF Responses
<1>7. /\ kept \in ItemMaps
      /\ DOMAIN kept = Have \cap DOMAIN r.items
      /\ \A n \in DOMAIN kept : kept[n] = envoy.items[EP][n]
  <2> DEFINE f == envoy.items["endpoints"]
             S == DOMAIN f \cap DOMAIN r.items
  <2>1. f \in ItemMaps /\ f = envoy.items[EP] /\ S \in SUBSET DOMAIN f
    BY SMTT(40), ZenonT(40), <1>4 DEF Typed, Envoys
  <2> HIDE DEF f
  <2>2. /\ Restrict(f, S) \in ItemMaps
        /\ DOMAIN Restrict(f, S) = S
        /\ \A n \in S : Restrict(f, S)[n] = f[n]
    BY SMTT(40), ZenonT(40), <2>1, RestrictItems
  <2>3. kept = Restrict(f, S) /\ DOMAIN f = Have
    BY SMTT(40), ZenonT(40), <1>4 DEF f, Have
  <2> HIDE DEF kept
  <2> QED
    BY SMTT(40), ZenonT(40), <2>1, <2>2, <2>3
<1>8. warming \in SUBSET Names
  BY SMTT(40), ZenonT(40), <1>5
<1> HIDE DEF kept, warming
<1>9. /\ e \in Envoys /\ e.items["clusters"] = r.items /\ e.items[EP] = kept
      /\ e.version[EP] = envoy.version[EP] /\ e.current[EP] = envoy.current[EP]
  <2> DEFINE vs == [envoy.version EXCEPT !["clusters"] = r.version]
             is == [envoy.items EXCEPT !["clusters"] = r.items, !["endpoints"] = kept]
             cs == [envoy.current EXCEPT !["clusters"] = r.current]
  <2>1. vs \in [Types -> Nat] /\ vs[EP] = envoy.version[EP]
    BY SMTT(40), ZenonT(40), <1>4, <1>5 DEF Typed, Envoys
  <2>2. is \in [Types -> ItemMaps] /\ is["clusters"] = r.items /\ is[EP] = kept
    BY ZenonT(60), <1>4, <1>5, <1>7 DEF Typed, Envoys
  <2>3. cs \in [Types -> BOOLEAN]
    BY <1>4, <1>6 DEF Typed, Envoys
  <2>4. cs[EP] = envoy.current[EP]
    BY <1>4 DEF Typed, Envoys
  <2>5. e = [envoy EXCEPT !.version = vs, !.items = is, !.current = cs, !.warming = warming]
    BY ZenonT(60) DEF Typed, Envoys
  <2> HIDE DEF vs, is, cs
  <2> HIDE DEF e
  <2>7. e \in Envoys
    BY ZenonT(60), <1>8, <2>1, <2>2, <2>3, <2>5 DEF Typed, Envoys
  <2>8. e.version = vs /\ e.items = is /\ e.current = cs
    BY SMTT(40), ZenonT(40), <2>5 DEF Typed, Envoys
  <2> QED
    BY SMTT(40), ZenonT(40), <2>1, <2>2, <2>4, <2>7, <2>8
<1> HIDE DEF e
<1>10. Have' = DOMAIN kept
  BY SMTT(40), ZenonT(40), <1>3, <1>9 DEF Have
<1>11. InFlight' => ~e.current[EP]
  <2> SUFFICES ASSUME InFlight' PROVE ~e.current[EP]
    BY SMTT(40), ZenonT(40)
  <2>1. ~envoy.current[EP]
    BY <1>2 DEF OneInFlight
  <2> QED
    BY SMTT(40), ZenonT(40), <1>9, <2>1
<1>12. /\ c \in Requests /\ GoodRequest(Have', InFlight', c)
       /\ q \in Requests /\ GoodRequest(Have', InFlight', q)
  BY SMTT(40), ZenonT(40), <1>4, <1>7, <1>9, <1>10, <1>11, EnvoyAsks
<1> HIDE DEF c, q
<1>13. /\ requests' \in Seq(Requests)
       /\ \A i \in DOMAIN requests' : \/ \E j \in DOMAIN requests : requests'[i] = requests[j]
                                      \/ GoodRequest(Have', InFlight', requests'[i])
  <2>0. requests \in Seq(Requests)
    BY SMTT(40), ZenonT(40) DEF Typed
  <2>1. requests' = Append(requests, c) \/ requests' = Append(Append(requests, q), c)
    <3>1. requests \o << >> = requests /\ requests \o <<q>> = Append(requests, q)
      BY SMTT(40), ZenonT(40), <1>12, <2>0
    <3>2. \A s \in Seq(Requests) : s \o <<c>> = Append(s, c)
      BY <1>12
    <3>3. Append(requests, q) \in Seq(Requests)
      BY SMTT(40), ZenonT(40), <1>12, <2>0
    <3> QED
      BY SMTT(40), ZenonT(40), <1>3, <2>0, <3>1, <3>2, <3>3
  <2>2. CASE requests' = Append(requests, c)
    BY SMTT(40), ZenonT(40), <1>12, <2>0, <2>2, AppendTo
  <2>3. CASE requests' = Append(Append(requests, q), c)
    <3> DEFINE s == Append(requests, q)
    <3>1. s \in Seq(Requests) /\ \A i \in DOMAIN s :
             (\E j \in DOMAIN requests : s[i] = requests[j]) \/ s[i] = q
      BY SMTT(40), ZenonT(40), <1>12, <2>0, AppendTo
    <3> HIDE DEF s
    <3>2. requests' \in Seq(Requests) /\ \A i \in DOMAIN requests' :
             (\E j \in DOMAIN s : requests'[i] = s[j]) \/ requests'[i] = c
      BY SMTT(40), ZenonT(40), <1>12, <2>3, <3>1, AppendTo DEF s
    <3> QED
      BY SMTT(40), ZenonT(40), <1>12, <3>1, <3>2
  <2> QED
    BY SMTT(40), ZenonT(40), <2>1, <2>2, <2>3
<1>14. envoy'.version[EP] <= version
  BY SMTT(40), ZenonT(40), <1>3, <1>9 DEF VersionsDrawn
<1>15. Typed' /\ VersionsDrawn' /\ OneInFlight' /\ ResponsesCover'
  <2>1. /\ envoy' \in Envoys /\ Have' \subseteq Have
        /\ r.type # EP => envoy'.current[EP] = envoy.current[EP]
    BY SMTT(40), ZenonT(40), <1>3, <1>7, <1>9, <1>10
  <2> QED
    BY SMTT(40), ZenonT(40), <1>1, <1>13, <1>14, <2>1, EnvoyAnswers
<1>16. EnvoyAgrees'
  <2>1. Have' \subseteq DOMAIN envoy'.items["clusters"]
    BY SMTT(40), ZenonT(40), <1>3, <1>7, <1>9, <1>10
  <2>2. Agrees(snapshot, envoy.version[EP], kept)
    BY SMTT(40), ZenonT(40), <1>7 DEF EnvoyAgrees, Agrees, Have
  <2> QED
    BY SMTT(40), ZenonT(40), <1>1, <1>3, <1>9, <2>1, <2>2 DEF EnvoyAgrees
<1> QED
  BY <1>15, <1>16

\* The only response about endpoints replaces all that Envoy has of its
\* version, so that what is left is of the same version.
LEMMA AcceptEndpointsInvariant == IInv /\ AcceptEndpoints => IInv'
<1> SUFFICES ASSUME IInv, AcceptEndpoints PROVE IInv'
  OBVIOUS
<1> USE DEF IInv
<1> DEFINE r == responses[1]
           clusters == DOMAIN envoy.items["clusters"]
           known == Restrict(r.items, DOMAIN r.items \cap clusters)
           new == Updated(envoy.items["endpoints"], known)
           warming == envoy.warming \ DOMAIN r.items
           e == [envoy EXCEPT !.version["endpoints"] = r.version,
                              !.items["endpoints"] = new,
                              !.current["endpoints"] = r.current,
                              !.warming = warming]
<1>1. /\ responses # << >> /\ responses' = Tail(responses)
      /\ UNCHANGED <<plan, snapshot, version, watch, sent, nonceAcked>>
  BY DEF AcceptEndpoints, serverVars
<1>2. /\ Head(responses) = r /\ r \in Responses /\ 1 \in DOMAIN responses
      /\ InFlight' => InFlight /\ r.type # EP
      /\ r.type = EP => InFlight
  BY SMTT(40), ZenonT(40), <1>1, TakeResponse
<1> DEFINE q == RequestOf(EP, e)
<1>3. envoy' = e /\ r.type = EP /\ requests' = Append(requests, q)
  BY <1>2 DEF AcceptEndpoints, EP
<1>4. EP \in Types /\ EP = "endpoints" /\ "clusters" # EP /\ "clusters" \in Types
  BY DEF EP, Types
<1>5. r.version \in Nat /\ r.items \in ItemMaps
  BY <1>2 DEF Responses
<1>6. r.current \in BOOLEAN
  BY SMTT(40), ZenonT(40), <1>2 DEF Responses
<1>7. /\ known \in ItemMaps /\ DOMAIN known = DOMAIN r.items \cap clusters
      /\ \A n \in DOMAIN known : known[n] = r.items[n]
  BY SMTT(40), ZenonT(40), <1>5, RestrictItems
<1> HIDE DEF known
<1>8. envoy.items[EP] \in ItemMaps
  BY SMTT(40), ZenonT(40), <1>4 DEF Typed, Envoys
<1>9. /\ new \in ItemMaps /\ DOMAIN new = Have \cup DOMAIN known
      /\ \A n \in DOMAIN new : new[n] = IF n \in DOMAIN known THEN known[n] ELSE envoy.items[EP][n]
  <2> DEFINE f == envoy.items[EP]
  <2>1. new = Updated(f, known) /\ DOMAIN f = Have /\ f \in ItemMaps
    BY SMTT(40), ZenonT(40), <1>4, <1>8 DEF Have
  <2> HIDE DEF new, f
  <2>2. /\ new \in ItemMaps /\ DOMAIN new = DOMAIN f \cup DOMAIN known
        /\ \A n \in DOMAIN f \cup DOMAIN known :
              new[n] = IF n \in DOMAIN known THEN known[n] ELSE f[n]
    BY ZenonT(60), <1>7, <2>1, UpdatedItems
  <2> QED
    BY SMTT(40), ZenonT(40), <2>1, <2>2 DEF f
<1>10. warming \in SUBSET Names
  BY DEF Typed, Envoys
<1> HIDE DEF new, warming
<1>11. /\ e \in Envoys /\ e.items["clusters"] = envoy.items["clusters"] /\ e.items[EP] = new
       /\ e.version[EP] = r.version
  <2> DEFINE vs == [envoy.version EXCEPT !["endpoints"] = r.version]
             is == [envoy.items EXCEPT !["endpoints"] = new]
             cs == [envoy.current EXCEPT !["endpoints"] = r.current]
  <2>1. vs \in [Types -> Nat] /\ vs[EP] = r.version
    BY SMTT(40), ZenonT(40), <1>4, <1>5 DEF Typed, Envoys
  <2>2. is \in [Types -> ItemMaps] /\ is["clusters"] = envoy.items["clusters"] /\ is[EP] = new
    BY SMTT(40), ZenonT(40), <1>4, <1>9 DEF Typed, Envoys
  <2>3. cs \in [Types -> BOOLEAN]
    BY <1>4, <1>6 DEF Typed, Envoys
  <2>4. e = [envoy EXCEPT !.version = vs, !.items = is, !.current = cs, !.warming = warming]
    BY DEF Typed, Envoys
  <2> HIDE DEF vs, is, cs, e
  <2>5. e \in Envoys
    BY ZenonT(60), <1>10, <2>1, <2>2, <2>3, <2>4 DEF Typed, Envoys
  <2>6. e.version = vs /\ e.items = is
    BY <2>4 DEF Typed, Envoys
  <2> QED
    BY <2>1, <2>2, <2>5, <2>6
<1> HIDE DEF e
<1>12. Have' = DOMAIN new /\ Have' \subseteq clusters
  <2>1. Have \subseteq clusters
    BY DEF EnvoyAgrees
  <2> QED
    BY <1>3, <1>7, <1>9, <1>11, <2>1 DEF Have
<1>13. InFlight /\ ~InFlight'
  BY SMTT(40), ZenonT(40), <1>2, <1>3
<1>14. q \in Requests /\ GoodRequest(Have', InFlight', q)
  BY SMTT(40), ZenonT(40), <1>4, <1>11, <1>12, <1>13, EnvoyAsks
<1> HIDE DEF q
<1>15. /\ requests' \in Seq(Requests)
       /\ \A i \in DOMAIN requests' : \/ \E j \in DOMAIN requests : requests'[i] = requests[j]
                                      \/ GoodRequest(Have', InFlight', requests'[i])
  BY SMTT(40), ZenonT(40), <1>3, <1>14, AppendTo DEF Typed
<1>16. envoy'.version[EP] <= version
  BY SMTT(40), ZenonT(40), <1>2, <1>3, <1>11 DEF VersionsDrawn
<1>17. Typed' /\ VersionsDrawn' /\ OneInFlight'
  BY SMTT(40), ZenonT(40), <1>1, <1>3, <1>11, <1>15, <1>16, EnvoyAnswers
<1>18. ResponsesCover'
  <2>1. WatchCovers(snapshot, Have', watch[EP])
    BY <1>13 DEF OneInFlight, WatchCovers, NoWatch
  <2>2. \A i \in DOMAIN responses' : responses'[i].type # EP
    BY SMTT(40), ZenonT(40), <1>13 DEF InFlight
  <2>3. ASSUME NEW i \in DOMAIN requests', requests'[i].type = EP,
               ~(sent[EP] /\ ~requests'[i].current)
        PROVE  NamesAll(Have', requests'[i].names)
    <3>1. CASE \E j \in DOMAIN requests : requests'[i] = requests[j]
      BY SMTT(40), ZenonT(40), <1>13, <2>3, <3>1 DEF OneInFlight
    <3>2. CASE GoodRequest(Have', InFlight', requests'[i])
      BY SMTT(40), ZenonT(40), <2>3, <3>2 DEF GoodRequest
    <3> QED
      BY SMTT(40), ZenonT(40), <1>15, <3>1, <3>2
  <2> QED
    BY SMTT(40), ZenonT(40), <1>1, <2>1, <2>2, <2>3 DEF ResponsesCover, Stale
<1>19. Agrees(snapshot, r.version, new)
  <2>1. Agrees(snapshot, r.version, r.items) /\ Replaces(snapshot, Have, r.version, r.items)
    BY SMTT(40), ZenonT(40), <1>2, <1>3 DEF ResponsesCover, ResponseCovers
  <2> SUFFICES ASSUME snapshot # NotFound, snapshot[EP].version = r.version,
                      NEW n \in DOMAIN new \cap DOMAIN snapshot[EP].items
               PROVE  new[n] = snapshot[EP].items[n]
    BY SMTT(40), ZenonT(40) DEF Agrees
  <2>2. n \in DOMAIN known
    BY SMTT(40), ZenonT(40), <1>7, <1>9, <2>1 DEF Replaces, EnvoyAgrees
  <2> QED
    BY SMTT(40), ZenonT(40), <1>7, <1>9, <2>1, <2>2 DEF Agrees
<1>20. EnvoyAgrees'
  BY SMTT(40), ZenonT(40), <1>1, <1>3, <1>11, <1>12, <1>19 DEF EnvoyAgrees
<1> QED
  BY SMTT(40), ZenonT(40), <1>17, <1>18, <1>20
-----------------------------------------------------------------------------
LEMMA NextInvariant == IInv /\ [Next]_vars => IInv'
<1> SUFFICES ASSUME IInv, [Next]_vars PROVE IInv'
  OBVIOUS
<1>1. CASE UNCHANGED vars
  <2>1. Have' = Have /\ InFlight' = InFlight
    BY SMTT(40), ZenonT(40), <1>1 DEF vars, Have, InFlight
  <2>2. Typed' /\ VersionsDrawn'
    BY SMTT(40), ZenonT(40), <1>1 DEF IInv, Typed, VersionsDrawn, vars
  <2>3. OneInFlight'
    BY SMTT(40), ZenonT(40), <1>1, <2>1 DEF IInv, OneInFlight, vars
  <2>4. ResponsesCover' /\ EnvoyAgrees'
    BY ZenonT(60), <1>1, <2>1 DEF IInv, ResponsesCover, EnvoyAgrees, Stale, vars
  <2> QED
    BY SMTT(40), ZenonT(40), <2>2, <2>3, <2>4 DEF IInv
<1>2. CASE \E config \in plan.configs : SetSnapshot(config)
  BY SMTT(40), ZenonT(40), <1>2, SetSnapshotInvariant
<1>3. CASE Server
  BY SMTT(40), ZenonT(40), <1>3, ReceiveInvariant, SendInvariant DEF Server
<1>4. CASE Connect
  BY SMTT(40), ZenonT(40), <1>4, ConnectInvariant
<1>5. CASE Disconnect
  BY SMTT(40), ZenonT(40), <1>5, DisconnectInvariant
<1>6. CASE Envoy
  BY SMTT(40), ZenonT(40), <1>6, RejectInvariant, AcceptClustersInvariant, AcceptEndpointsInvariant DEF Envoy
<1> QED
  BY SMTT(40), ZenonT(40), <1>1, <1>2, <1>3, <1>4, <1>5, <1>6 DEF Next

\* Envoy never has old endpoints under the version of the cached snapshot,
\* whatever responses were lost, rejected, filtered by the names of an older
\* request or forced by peekResponse.
THEOREM EndpointsNeverStale == Spec => []NoStaleEndpoints
<1>1. IInv => NoStaleEndpoints
  BY SMTT(40), ZenonT(40) DEF IInv, EnvoyAgrees, Agrees, NoStaleEndpoints, EP
<1> QED
  BY <1>1, InitInvariant, NextInvariant, PTL DEF Spec

\* At most one response about endpoints is under way, and meanwhile every
\* request for endpoints is stale: server.process answers none before the
\* response has been acknowledged or rejected.
THEOREM OneResponseInFlight == Spec => []OneInFlight
<1>1. IInv => OneInFlight
  BY DEF IInv
<1> QED
  BY <1>1, InitInvariant, NextInvariant, PTL DEF Spec
============================================================================
