-------------------------- MODULE MonitoringProofs --------------------------
(***************************************************************************)
(* An agent that waits lacks nothing, and tags arrive as labels, for every *)
(* number of agents and streams and whatever the store holds.              *)
(*                                                                         *)
(* What is proved by induction says who holds which assignments under      *)
(* which version: nobody holds two collections under one version, and an   *)
(* agent whose request or open watch names a version scrapes what anybody  *)
(* holds under it.                                                         *)
(***************************************************************************)
EXTENDS Monitoring, FiniteSetTheorems, TLAPS

\* The versions under which collections are held, with the collections.
OfSeq(seq)  == {<<seq[i].version, seq[i].items>> : i \in DOMAIN seq}
OfSnap(seq) == {<<seq[i][Assignments].version, seq[i][Assignments].items>> : i \in DOMAIN seq}
OfWatch(w)  == IF w.state = "responded" THEN {<<w.response.version, w.response.items>>} ELSE {}

Held ==
    OfSnap(snapshot) \cup (UNION {OfSnap(watchdogs[s].new) : s \in StreamIds})
      \cup (UNION {OfSeq(streams[s].responses) \cup OfWatch(streams[s].watch) : s \in StreamIds})
      \cup (UNION {OfSeq(agents[a].received) : a \in setup.agents})

Collected(items) == {items[n] : n \in DOMAIN items}

\* The dataplanes that the store may hold.
Known == UNION {w.dataplanes : w \in Range(setup.worlds)}

\* What the generator makes of a dataplane.
Genuine(a) == \E d \in Known : a.name = assignmentName(d) /\ TagsKept(d, a.labels)

\* A version stands for one collection, of genuine assignments.
VersionsUnique ==
    /\ \A p, q \in Held : p[1] = q[1] => p[2] = q[2]
    /\ \A p \in Held : p[1] \in Nat \ {0} /\ \A a \in Collected(p[2]) : Genuine(a)

AtMostOne(seq) == seq = << >> \/ \E x \in Range(seq) : seq = <<x>>

StoreOK ==
    /\ setup \in Setups
    /\ DOMAIN world = {"meshes", "dataplanes"} /\ world.dataplanes \subseteq Known
    /\ AtMostOne(snapshot)

WatchdogOK(w) ==
    /\ DOMAIN w = {"pc", "stop", "meshes", "left", "read", "new"}
    /\ AtMostOne(w.new) /\ (w.pc = "set" => w.new # << >>)

WatchdogsOK ==
    /\ DOMAIN watchdogs = StreamIds
    /\ \A s \in StreamIds : WatchdogOK(watchdogs[s]) /\ watchdogs[s].read \subseteq Known

\* A stream has a request, a watch or a response, and never two of them; its
\* watches are for all assignments.
StreamOK(st) ==
    /\ DOMAIN st = {"state", "agent", "requests", "responses", "watch", "nonce"}
    /\ AtMostOne(st.requests) /\ AtMostOne(st.responses)
    /\ st.requests # << >> => st.watch.state = "none" /\ st.responses = << >>
    /\ st.watch.state # "none" => st.responses = << >>
    /\ st.watch.state = "open" => st.watch.request.type = Assignments /\ st.watch.request.names = {}
    /\ st.state = "unused" => st = NewStream

Quiet(st) == st.requests = << >> /\ st.watch.state = "none" /\ st.responses = << >>

\* An open stream has its agent, which has no other.
StreamsOK ==
    /\ DOMAIN streams = StreamIds
    /\ \A s \in StreamIds :
          /\ StreamOK(streams[s])
          /\ streams[s].state = "open" =>
                \E a \in setup.agents : /\ streams[s].agent = <<a>>
                                        /\ agents[a].pc # "start" /\ agents[a].stream = <<s>>

\* The agent a, which scrapes groups: what it scrapes it has on its list of
\* sources, and if it has something to acknowledge it scrapes that, and nothing
\* else is under way on its stream.
AgentOK(a, p, groups, sts) ==
    /\ DOMAIN p = {"pc", "stream", "received", "oldSourceList"}
    /\ AtMostOne(p.received)
    /\ \A g \in groups : g.source \in p.oldSourceList
    /\ p.pc # "start" =>
          \E s \in StreamIds : p.stream = <<s>> /\ sts[s].state # "unused" /\ sts[s].agent = <<a>>
    /\ p.pc = "ack" =>
          /\ Quiet(sts[p.stream[1]])
          /\ \E r \in Range(p.received) :
                p.received = <<r>> /\ groups = ConvertAll(Collected(r.items))

AgentsOK ==
    /\ DOMAIN agents = setup.agents /\ DOMAIN scraped = setup.agents
    /\ \A a \in setup.agents : AgentOK(a, agents[a], scraped[a], streams)

\* The agent a scrapes what is held under the version v.
Scrapes(a, v) == \A p \in Held : p[1] = v => scraped[a] = ConvertAll(Collected(p[2]))

\* The version of a request and of an open watch is the one its agent scrapes,
\* and a watch is open only for the version of the snapshot.
VersionsScraped ==
    \A s \in StreamIds : \A a \in setup.agents :
        streams[s].state = "open" /\ streams[s].agent = <<a>> =>
            /\ streams[s].requests # << >> => Scrapes(a, streams[s].requests[1].version)
            /\ streams[s].watch.state = "open" =>
                  /\ Scrapes(a, streams[s].watch.request.version)
                  /\ snapshot # << >> =>
                        snapshot[1][Assignments].version = streams[s].watch.request.version

IInv ==
    /\ StoreOK /\ WatchdogsOK /\ StreamsOK /\ AgentsOK
    /\ VersionsUnique /\ VersionsScraped /\ TagsArrive
-----------------------------------------------------------------------------
(* The labels of a dataplane                                                *)

Keys == [stem : Nat, char : Nat, s : Nat]

\* Of the keys that set the label of a tag without a clash the tag itself is
\* the last.
LEMMA TagWins ==
    ASSUME NEW tags, DOMAIN tags \subseteq Keys, NEW k \in DOMAIN tags,
           \A o \in DOMAIN tags : o.stem = k.stem => o.char = k.char
    PROVE  tagLabels(tags)[SanitizeLabelName(k)] = oneValue(tags[k])
<1> DEFINE Setters(name) == {o \in DOMAIN tags : name \in {SanitizeLabelName(o), SanitizeLabelName(Plural(o))}}
           Winner(keys)  == CHOOSE o \in keys : \A x \in keys \ {o} : KeyBefore(x, o)
           Value(name, o) == IF name = SanitizeLabelName(o) THEN oneValue(tags[o]) ELSE multiValue(tags[o])
           Names == UNION {{SanitizeLabelName(o), SanitizeLabelName(Plural(o))} : o \in DOMAIN tags}
           name == SanitizeLabelName(k)
<1>1. tagLabels(tags) = [n \in Names |-> Value(n, Winner(Setters(n)))] BY DEF tagLabels
<1>2. name \in Names OBVIOUS
<1>3. k \in Setters(name) OBVIOUS
<1>4. \A o \in Setters(name) : o = k \/ (o.stem = k.stem /\ o.char = k.char /\ o.s + 1 = k.s)
  <2> TAKE o \in Setters(name)
  <2>1. o \in Keys /\ k \in Keys OBVIOUS
  <2>2. Plural(o) = [stem |-> o.stem, char |-> o.char, s |-> o.s + 1] BY <2>1 DEF Plural, Keys
  <2>3. <<k.stem, k.s>> \in {<<o.stem, o.s>>, <<o.stem, o.s + 1>>} BY <2>2 DEF SanitizeLabelName
  <2>4. o.stem = k.stem /\ (o.s = k.s \/ o.s + 1 = k.s) BY <2>3
  <2>5. o.char = k.char BY <2>4
  <2>6. /\ o = [stem |-> o.stem, char |-> o.char, s |-> o.s]
        /\ k = [stem |-> k.stem, char |-> k.char, s |-> k.s]
    BY <2>1 DEF Keys
  <2>7. o.s = k.s => o = k BY <2>4, <2>5, <2>6, ZenonT(60)
  <2> QED BY <2>4, <2>5, <2>7
<1>5. \A o \in Setters(name) \ {k} : KeyBefore(o, k) /\ ~KeyBefore(k, o)
  <2> TAKE o \in Setters(name) \ {k}
  <2>1. o.stem = k.stem /\ o.char = k.char /\ o.s + 1 = k.s BY <1>4
  <2>2. o.s \in Nat /\ k.s \in Nat /\ k.stem \in Nat /\ k.char \in Nat BY DEF Keys
  <2> QED BY <2>1, <2>2 DEF KeyBefore
<1> HIDE DEF Setters
<1>6. Winner(Setters(name)) = k
  <2>1. k \in Setters(name) /\ \A x \in Setters(name) \ {k} : KeyBefore(x, k) BY <1>3, <1>5
  <2>2. \A o \in Setters(name) : (\A x \in Setters(name) \ {o} : KeyBefore(x, o)) => o = k
    BY <1>3, <1>5
  <2> QED BY <2>1, <2>2
<1> HIDE DEF Winner, Names
<1>7. tagLabels(tags)[name] = Value(name, Winner(Setters(name))) BY <1>1, <1>2
<1> QED BY <1>6, <1>7

\* dataplaneLabels: nothing on top of the tags replaces a tag without a clash.
LEMMA LabelsKeepTags ==
    ASSUME NEW d, NEW endpoint, DOMAIN d.tags \subseteq Keys
    PROVE  TagsKept(d, dataplaneLabels(d, endpoint))
<1> SUFFICES ASSUME NEW k \in DOMAIN d.tags, k.stem \notin mandatoryStems,
                    \A o \in DOMAIN d.tags : o.stem = k.stem => o.char = k.char,
                    \A e \in DOMAIN d.extensions : SanitizeLabelName(e) # SanitizeLabelName(k)
             PROVE  dataplaneLabels(d, endpoint)[SanitizeLabelName(k)] = oneValue(d.tags[k])
  BY DEF TagsKept
<1> DEFINE name == SanitizeLabelName(k)
           M == mandatoryLabels(d, endpoint)
           E == extensionLabels(d.extensions)
           T == tagLabels(d.tags)
<1>1. name \notin DOMAIN M BY DEF mandatoryLabels, SanitizeLabelName
<1>2. name \notin DOMAIN E BY DEF extensionLabels
<1>3. name \in DOMAIN T BY DEF tagLabels
<1>4. T[name] = oneValue(d.tags[k]) BY TagWins
<1>5. dataplaneLabels(d, endpoint) = Over(M, Over(E, T)) BY DEF dataplaneLabels
<1> HIDE DEF name, M, E, T
<1>6. name \in DOMAIN Over(E, T) /\ Over(E, T)[name] = T[name] BY <1>2, <1>3 DEF Over
<1>7. Over(M, Over(E, T))[name] = Over(E, T)[name] BY <1>1, <1>6 DEF Over
<1> QED BY <1>4, <1>5, <1>6, <1>7 DEF name

\* Generate: every assignment is one of a dataplane that was read.
LEMMA GenerateGenuine ==
    ASSUME StoreOK, NEW meshes, NEW read \in SUBSET Known, NEW a \in Generate(meshes, read)
    PROVE  Genuine(a)
<1>1. PICK p \in read \X meshes :
         a = [name   |-> assignmentName(p[1]),
              target |-> addressLabel(p[1], GetPrometheusEndpoint(p[1], p[2])),
              labels |-> dataplaneLabels(p[1], GetPrometheusEndpoint(p[1], p[2]))]
  BY DEF Generate
<1> DEFINE d == p[1]
<1>2. d \in Known OBVIOUS
<1>3. PICK w \in Range(setup.worlds) : d \in w.dataplanes BY <1>2 DEF Known
<1>4. DOMAIN d.tags \subseteq Keys BY <1>3, SetupsAssumption DEF StoreOK, Keys
<1>5. a.name = assignmentName(d) /\ a.labels = dataplaneLabels(d, GetPrometheusEndpoint(p[1], p[2]))
  BY <1>1
<1> HIDE DEF d
<1>6. TagsKept(d, a.labels) BY <1>4, <1>5, LabelsKeepTags
<1> QED BY <1>2, <1>5, <1>6 DEF Genuine
-----------------------------------------------------------------------------
(* The agent                                                                *)

\* Handle: what an agent knew goes, by the list of its sources, and what it
\* has received comes.
LEMMA AnnouncedAll ==
    ASSUME NEW known, NEW old, NEW assignments, \A g \in known : g.source \in old
    PROVE  LET groups == ConvertAll(assignments)
               new    == buildSourceList(groups)
           IN  Announced(known, groups \cup buildRemovedGroups(old, new)) = groups
<1> DEFINE groups == ConvertAll(assignments)
           new    == buildSourceList(groups)
           gone   == buildRemovedGroups(old, new)
<1>1. \A g \in groups : g.targets # {} BY DEF ConvertAll, Convert
<1>2. \A g \in gone : g.targets = {} BY DEF buildRemovedGroups
<1>3. \A x \in old : x \in buildSourceList(groups \cup gone)
  <2> TAKE x \in old
  <2>1. CASE x \in new BY <2>1 DEF buildSourceList
  <2>2. CASE x \notin new
    <3>1. [source |-> x, targets |-> {}, labels |-> << >>] \in gone BY ZenonT(60), <2>2 DEF buildRemovedGroups
    <3>2. \A g \in groups \cup gone : g.source \in buildSourceList(groups \cup gone)
      BY ZenonT(60) DEF buildSourceList
    <3> HIDE DEF gone, groups, new
    <3>3. [source |-> x, targets |-> {}, labels |-> << >>].source \in buildSourceList(groups \cup gone)
      BY ZenonT(60), <3>1, <3>2
    <3> QED BY <3>3
  <2> QED BY <2>1, <2>2
<1> HIDE DEF groups, new, gone
<1>4. {g \in known : g.source \notin buildSourceList(groups \cup gone)} = {} BY ZenonT(60), <1>3
<1>5. {g \in groups \cup gone : g.targets # {}} = groups BY <1>1, <1>2
<1>6. Announced(known, groups \cup gone) = groups BY ZenonT(60), <1>4, <1>5 DEF Announced
<1> QED BY <1>6 DEF groups, new, gone
-----------------------------------------------------------------------------
(* The versions                                                             *)

VersionsOf(seq)     == {seq[i].version : i \in DOMAIN seq}
VersionsOfSnap(seq) == {seq[i][Assignments].version : i \in DOMAIN seq}
VersionsOfWatch(w)  == CASE w.state = "open"      -> {w.request.version}
                         [] w.state = "responded" -> {w.response.version}
                         [] OTHER                 -> {}

LEMMA InUse ==
    VersionsInUse =
        VersionsOfSnap(snapshot) \cup (UNION {VersionsOfSnap(watchdogs[s].new) : s \in StreamIds})
          \cup (UNION {VersionsOf(streams[s].requests) \cup VersionsOf(streams[s].responses)
                        \cup VersionsOfWatch(streams[s].watch) : s \in StreamIds})
          \cup (UNION {VersionsOf(agents[a].received) : a \in setup.agents})
BY DEF VersionsInUse, VersionsOf, VersionsOfSnap, VersionsOfWatch

LEMMA FiniteUnion ==
    ASSUME NEW S, IsFiniteSet(S), NEW f, \A x \in S : IsFiniteSet(f[x])
    PROVE  IsFiniteSet(UNION {f[x] : x \in S})
<1> DEFINE T == {f[x] : x \in S}
           g == [x \in S |-> f[x]]
<1>1. g \in Surjection(S, T) BY DEF Surjection
<1>2. IsFiniteSet(T) BY <1>1, FS_Surjection
<1>3. \A t \in T : IsFiniteSet(t) OBVIOUS
<1> QED BY ZenonT(60), <1>2, <1>3, FS_UNION

\* A sequence of one element, or none.
LEMMA One ==
    ASSUME NEW seq, AtMostOne(seq)
    PROVE  seq = << >> \/ \E x : seq = <<x>>
BY ZenonT(60) DEF AtMostOne

LEMMA FiniteVersions ==
    ASSUME NEW seq, AtMostOne(seq)
    PROVE  IsFiniteSet(VersionsOf(seq)) /\ IsFiniteSet(VersionsOfSnap(seq))
<1>1. CASE seq = << >>
  <2>1. VersionsOf(seq) = {} /\ VersionsOfSnap(seq) = {} BY <1>1 DEF VersionsOf, VersionsOfSnap
  <2> QED BY <2>1, FS_EmptySet
<1>2. ASSUME NEW x, seq = <<x>> PROVE IsFiniteSet(VersionsOf(seq)) /\ IsFiniteSet(VersionsOfSnap(seq))
  <2>1. DOMAIN seq = {1} /\ seq[1] = x BY <1>2
  <2>2. VersionsOf(seq) = {x.version} /\ VersionsOfSnap(seq) = {x[Assignments].version}
    BY <2>1 DEF VersionsOf, VersionsOfSnap
  <2> QED BY ZenonT(60), <2>2, FS_Singleton
<1> QED BY <1>1, <1>2, One

\* core.NewUUID: a new version is one that nobody holds.
LEMMA UUIDFresh ==
    ASSUME StoreOK, WatchdogsOK, StreamsOK, AgentsOK
    PROVE  UUID \in Nat \ {0} /\ UUID \notin VersionsInUse
<1>1. IsFiniteSet(StreamIds) BY FS_Interval, SetupsAssumption DEF StreamIds
<1>2. IsFiniteSet(setup.agents) BY SetupsAssumption DEF StoreOK
<1> DEFINE W == [s \in StreamIds |-> VersionsOfSnap(watchdogs[s].new)]
           T == [s \in StreamIds |-> VersionsOf(streams[s].requests) \cup VersionsOf(streams[s].responses)
                                      \cup VersionsOfWatch(streams[s].watch)]
           A == [a \in setup.agents |-> VersionsOf(agents[a].received)]
<1>3. IsFiniteSet(VersionsOfSnap(snapshot)) BY FiniteVersions DEF StoreOK
<1>4. IsFiniteSet(UNION {W[s] : s \in StreamIds})
  <2>1. \A s \in StreamIds : IsFiniteSet(W[s]) BY FiniteVersions DEF WatchdogsOK, WatchdogOK
  <2> HIDE DEF W
  <2> QED BY <1>1, <2>1, FiniteUnion
<1>5. IsFiniteSet(UNION {T[s] : s \in StreamIds})
  <2>1. ASSUME NEW s \in StreamIds PROVE IsFiniteSet(T[s])
    <3>1. AtMostOne(streams[s].requests) /\ AtMostOne(streams[s].responses)
      BY DEF StreamsOK, StreamOK
    <3>2. IsFiniteSet(VersionsOf(streams[s].requests)) /\ IsFiniteSet(VersionsOf(streams[s].responses))
      BY <3>1, FiniteVersions
    <3>3. IsFiniteSet(VersionsOfWatch(streams[s].watch))
      BY ZenonT(60), FS_Singleton, FS_EmptySet DEF VersionsOfWatch
    <3> QED BY ZenonT(60), <3>2, <3>3, FS_Union
  <2> HIDE DEF T
  <2> QED BY <1>1, <2>1, FiniteUnion
<1>6. IsFiniteSet(UNION {A[a] : a \in setup.agents})
  <2>1. \A a \in setup.agents : IsFiniteSet(A[a]) BY FiniteVersions DEF AgentsOK, AgentOK
  <2> HIDE DEF A
  <2> QED BY <1>2, <2>1, FiniteUnion
<1>7. VersionsInUse = VersionsOfSnap(snapshot) \cup (UNION {W[s] : s \in StreamIds})
                        \cup (UNION {T[s] : s \in StreamIds}) \cup (UNION {A[a] : a \in setup.agents})
  BY ZenonT(60), InUse
<1> HIDE DEF W, T, A
<1> DEFINE B == VersionsOfSnap(snapshot) \cup (UNION {W[s] : s \in StreamIds})
           C == B \cup (UNION {T[s] : s \in StreamIds})
<1>8. IsFiniteSet(VersionsInUse)
  <2>1. IsFiniteSet(B) BY ZenonT(60), <1>3, <1>4, FS_Union
  <2>2. IsFiniteSet(C) BY ZenonT(60), <1>5, <2>1, FS_Union
  <2> HIDE DEF C
  <2>3. IsFiniteSet(C \cup (UNION {A[a] : a \in setup.agents})) BY ZenonT(60), <1>6, <2>2, FS_Union
  <2>4. VersionsInUse = C \cup (UNION {A[a] : a \in setup.agents}) BY <1>7 DEF C
  <2> QED BY <2>3, <2>4, ZenonT(60)
<1> DEFINE n == Cardinality(VersionsInUse)
<1>9. n \in Nat BY <1>8, FS_CardinalityType
<1>10. \E v \in 1..n + 1 : v \notin VersionsInUse
  <2> SUFFICES ASSUME 1..n + 1 \subseteq VersionsInUse PROVE FALSE OBVIOUS
  <2>1. Cardinality(1..n + 1) <= n BY ZenonT(60), <1>8, FS_Subset
  <2>2. Cardinality(1..n + 1) = n + 1 BY <1>9, FS_Interval
  <2> QED BY <1>9, <2>1, <2>2
<1>11. UUID \in 1..n + 1 /\ UUID \notin VersionsInUse BY <1>10 DEF UUID
<1> QED BY <1>9, <1>11
-----------------------------------------------------------------------------
(* What a step leaves as it is                                              *)

\* Everybody who holds a collection.
LEMMA Holders ==
    /\ OfSnap(snapshot) \subseteq Held
    /\ \A s \in StreamIds : /\ OfSnap(watchdogs[s].new) \subseteq Held
                            /\ OfSeq(streams[s].responses) \subseteq Held
                            /\ OfWatch(streams[s].watch) \subseteq Held
    /\ \A a \in setup.agents : OfSeq(agents[a].received) \subseteq Held
BY DEF Held

LEMMA HeldBefore ==
    ASSUME setup' = setup, NEW H, OfSnap(snapshot') \subseteq H,
           \A s \in StreamIds : /\ OfSnap(watchdogs'[s].new) \subseteq H
                                /\ OfSeq(streams'[s].responses) \subseteq H
                                /\ OfWatch(streams'[s].watch) \subseteq H,
           \A a \in setup.agents : OfSeq(agents'[a].received) \subseteq H
    PROVE  Held' \subseteq H
BY DEF Held, OfSnap, OfSeq, OfWatch

LEMMA Elements ==
    /\ OfSeq(<< >>) = {} /\ OfSnap(<< >>) = {}
    /\ \A x : OfSeq(<<x>>) = {<<x.version, x.items>>}
    /\ \A x : OfSnap(<<x>>) = {<<x[Assignments].version, x[Assignments].items>>}
BY DEF OfSeq, OfSnap

LEMMA UniqueKept ==
    ASSUME VersionsUnique, setup' = setup, Held' \subseteq Held
    PROVE  VersionsUnique'
<1>1. \A a : Genuine(a) => Genuine(a)' BY DEF Genuine, Known
<1> QED BY <1>1 DEF VersionsUnique

LEMMA StoreKept ==
    ASSUME StoreOK, UNCHANGED <<setup, world>>, AtMostOne(snapshot')
    PROVE  StoreOK'
BY DEF StoreOK, Known, AtMostOne

LEMMA TagsArriveKept ==
    ASSUME TagsArrive, UNCHANGED <<setup, scraped>>
    PROVE  TagsArrive'
BY DEF TagsArrive

LEMMA WatchdogsKept ==
    ASSUME WatchdogsOK, setup' = setup, NEW s \in StreamIds, NEW w,
           watchdogs' = [watchdogs EXCEPT ![s] = w], WatchdogOK(w), w.read \subseteq Known
    PROVE  WatchdogsOK'
<1>1. DOMAIN watchdogs = StreamIds BY DEF WatchdogsOK
<1>2. DOMAIN watchdogs' = StreamIds /\ watchdogs'[s] = w
      /\ \A i \in StreamIds : i # s => watchdogs'[i] = watchdogs[i]
  BY <1>1
<1>3. Known' = Known BY DEF Known
<1>4. \A i \in StreamIds : WatchdogOK(watchdogs'[i]) /\ watchdogs'[i].read \subseteq Known
  BY <1>2 DEF WatchdogsOK
<1> QED BY <1>2, <1>3, <1>4 DEF WatchdogsOK, WatchdogOK, AtMostOne

\* The server changes streams, and nothing on one where all is quiet.
LEMMA StreamsKept ==
    ASSUME StreamsOK, AgentsOK, UNCHANGED <<setup, agents, scraped>>, DOMAIN streams' = StreamIds,
           \A s \in StreamIds :
               /\ StreamOK(streams'[s]) /\ streams'[s].agent = streams[s].agent
               /\ streams'[s].state = "open" => streams[s].state = "open"
               /\ streams'[s].state = "unused" => streams[s].state = "unused"
               /\ Quiet(streams[s]) => Quiet(streams'[s])
    PROVE  StreamsOK' /\ AgentsOK'
<1>1. StreamsOK'
  <2>1. \A s \in StreamIds : StreamOK(streams[s])'
    BY DEF StreamOK, AtMostOne, NewStream, NoWatch
  <2>2. ASSUME NEW s \in StreamIds, streams'[s].state = "open"
        PROVE  \E a \in setup'.agents : /\ streams'[s].agent = <<a>>
                                        /\ agents'[a].pc # "start" /\ agents'[a].stream = <<s>>
    BY ZenonT(60), <2>2 DEF StreamsOK
  <2> QED BY SMTT(40), ZenonT(40), <2>1, <2>2 DEF StreamsOK
<1>2. AgentsOK'
  <2> SUFFICES ASSUME NEW a \in setup.agents PROVE AgentOK(a, agents[a], scraped[a], streams')
    BY DEF AgentsOK
  <2>1. AgentOK(a, agents[a], scraped[a], streams) BY DEF AgentsOK
  <2>2. ASSUME agents[a].pc = "ack" PROVE Quiet(streams'[agents[a].stream[1]])
    <3>1. PICK s \in StreamIds : agents[a].stream = <<s>> BY <2>1, <2>2 DEF AgentOK
    <3>2. Quiet(streams[s]) BY <2>1, <2>2, <3>1 DEF AgentOK
    <3> QED BY <3>1, <3>2
  <2> QED BY <2>1, <2>2 DEF AgentOK
<1> QED BY <1>1, <1>2

\* An agent goes on scraping what is held under a version, as long as the
\* holders of the version are the same or fewer.
LEMMA ScrapedKept ==
    ASSUME UNCHANGED <<setup, scraped>>, Held' \subseteq Held,
           \A s \in StreamIds : \A a \in setup.agents :
               streams'[s].state = "open" /\ streams'[s].agent = <<a>> =>
                   /\ streams'[s].requests # << >> => Scrapes(a, streams'[s].requests[1].version)
                   /\ streams'[s].watch.state = "open" =>
                         /\ Scrapes(a, streams'[s].watch.request.version)
                         /\ snapshot' # << >> =>
                               snapshot'[1][Assignments].version = streams'[s].watch.request.version
    PROVE  VersionsScraped'
<1>1. ASSUME NEW a, NEW v, Scrapes(a, v)
      PROVE  \A p \in Held' : p[1] = v => scraped'[a] = ConvertAll(Collected(p[2]))
  BY <1>1 DEF Scrapes
<1> QED BY <1>1 DEF VersionsScraped, Scrapes
-----------------------------------------------------------------------------
(* The watchdogs                                                            *)

LEMMA Initially == Init => IInv
<1> SUFFICES ASSUME Init PROVE IInv OBVIOUS
<1>1. StoreOK
  <2>1. setup \in Setups /\ world = setup.worlds[1] /\ snapshot = << >> BY DEF Init
  <2>2. world \in Range(setup.worlds) BY <2>1, SetupsAssumption DEF Range
  <2> QED BY <2>1, <2>2, SetupsAssumption DEF StoreOK, AtMostOne, Known
<1>2. WatchdogsOK
  BY DEF Init, WatchdogsOK, WatchdogOK, NewWatchdog, AtMostOne
<1>3. StreamsOK
  BY DEF Init, StreamsOK, StreamOK, NewStream, NoWatch, AtMostOne
<1>4. AgentsOK
  BY DEF Init, AgentsOK, AgentOK, NewAgent, AtMostOne
<1>5. Held = {}
  <2>1. OfSnap(snapshot) = {} BY Elements DEF Init
  <2>2. \A s \in StreamIds : OfSnap(watchdogs[s].new) = {} BY Elements DEF Init, NewWatchdog
  <2>3. \A s \in StreamIds : OfSeq(streams[s].responses) = {} BY Elements DEF Init, NewStream
  <2>4. \A s \in StreamIds : OfWatch(streams[s].watch) = {} BY DEF Init, NewStream, OfWatch, NoWatch
  <2>5. \A a \in setup.agents : OfSeq(agents[a].received) = {} BY Elements DEF Init, NewAgent
  <2> QED BY SMTT(40), ZenonT(40), <2>1, <2>2, <2>3, <2>4, <2>5 DEF Held
<1>6. VersionsUnique BY <1>5 DEF VersionsUnique
<1>7. VersionsScraped BY DEF Init, VersionsScraped, NewStream
<1>8. TagsArrive BY DEF Init, TagsArrive
<1> QED BY <1>1, <1>2, <1>3, <1>4, <1>6, <1>7, <1>8 DEF IInv

\* Streams, agents and the snapshot stay, and nobody holds more.
LEMMA OnlyWatchdogs ==
    ASSUME IInv, UNCHANGED <<setup, snapshot, streams, agents, scraped>>,
           StoreOK', WatchdogsOK',
           \A s \in StreamIds : OfSnap(watchdogs'[s].new) \subseteq Held
    PROVE  IInv'
<1>1. Held' \subseteq Held BY Holders, HeldBefore
<1>2. VersionsUnique' BY SMTT(40), ZenonT(40), <1>1, UniqueKept DEF IInv
<1>3. VersionsScraped' BY <1>1, ScrapedKept DEF IInv, VersionsScraped
<1>4. TagsArrive' BY SMTT(40), ZenonT(40), TagsArriveKept DEF IInv
<1>5. StreamsOK' /\ AgentsOK'
  BY ZenonT(60), StreamsKept DEF IInv, StreamsOK
<1> QED BY <1>2, <1>3, <1>4, <1>5 DEF IInv

\* The watchdog s becomes w, which holds no new snapshot.
LEMMA OneWatchdog ==
    ASSUME IInv, UNCHANGED <<setup, world, snapshot, streams, agents, scraped>>,
           NEW s \in StreamIds, NEW w, watchdogs' = [watchdogs EXCEPT ![s] = w],
           WatchdogOK(w), w.read \subseteq Known, w.new \in {watchdogs[s].new, << >>}
    PROVE  IInv'
<1>1. StoreOK' BY StoreKept DEF IInv, StoreOK
<1>2. WatchdogsOK' BY ZenonT(60), WatchdogsKept DEF IInv
<1>3. \A i \in StreamIds : watchdogs'[i] = IF i = s THEN w ELSE watchdogs[i]
  BY DEF IInv, WatchdogsOK
<1>4. \A i \in StreamIds : OfSnap(watchdogs'[i].new) \subseteq Held
  BY <1>3, Holders, Elements
<1> QED BY <1>1, <1>2, <1>4, OnlyWatchdogs

LEMMA ChangeKeeps == ASSUME IInv, Change PROVE IInv'
<1>1. PICK w \in Range(setup.worlds) : world' \in {[world EXCEPT !.meshes = w.meshes],
                                                   [world EXCEPT !.dataplanes = w.dataplanes]}
  BY DEF Change
<1>2. UNCHANGED <<setup, snapshot, streams, watchdogs, agents, scraped>> BY DEF Change
<1>3. DOMAIN world = {"meshes", "dataplanes"} /\ world.dataplanes \subseteq Known
  BY DEF IInv, StoreOK
<1>4. w.dataplanes \subseteq Known BY DEF Known
<1>5. DOMAIN world' = {"meshes", "dataplanes"} /\ world'.dataplanes \subseteq Known
  BY <1>1, <1>3, <1>4
<1>6. Known' = Known BY <1>2 DEF Known
<1>7. StoreOK' BY <1>2, <1>5, <1>6 DEF IInv, StoreOK
<1>8. WatchdogsOK' BY <1>2, <1>6 DEF IInv, WatchdogsOK
<1> QED BY <1>2, <1>7, <1>8, Holders, OnlyWatchdogs

LEMMA getMeshesKeeps == ASSUME IInv, NEW s \in StreamIds, getMeshes(s) PROVE IInv'
<1> DEFINE on == {m \in world.meshes : HasPrometheusMetricsEnabled(m)}
           w  == [watchdogs[s] EXCEPT !.pc = "read", !.meshes = on, !.left = {m.name : m \in on}]
<1>1. /\ watchdogs' = [watchdogs EXCEPT ![s] = w]
      /\ UNCHANGED <<setup, world, snapshot, streams, agents, scraped>>
  BY DEF getMeshes
<1>2. WatchdogOK(watchdogs[s]) /\ watchdogs[s].read \subseteq Known BY DEF IInv, WatchdogsOK
<1> HIDE DEF on
<1>3. /\ DOMAIN w = DOMAIN watchdogs[s] /\ w.pc = "read"
      /\ w.read = watchdogs[s].read /\ w.new = watchdogs[s].new
  BY <1>2 DEF WatchdogOK
<1> HIDE DEF w
<1>4. WatchdogOK(w) BY <1>2, <1>3 DEF WatchdogOK
<1> QED BY ZenonT(60), <1>1, <1>2, <1>3, <1>4, OneWatchdog

LEMMA getDataplanesKeeps == ASSUME IInv, NEW s \in StreamIds, getDataplanes(s) PROVE IInv'
<1>1. PICK mesh \in watchdogs[s].left :
         watchdogs' = [watchdogs EXCEPT ![s].read = @ \cup ListDataplanes(mesh), ![s].left = @ \ {mesh}]
  BY ZenonT(60) DEF getDataplanes
<1> DEFINE w == [watchdogs[s] EXCEPT !.read = @ \cup ListDataplanes(mesh), !.left = @ \ {mesh}]
<1>2. /\ watchdogs[s].pc = "read"
      /\ UNCHANGED <<setup, world, snapshot, streams, agents, scraped>>
  BY DEF getDataplanes
<1>3. watchdogs' = [watchdogs EXCEPT ![s] = w] BY ZenonT(60), <1>1 DEF IInv, WatchdogsOK
<1>4. WatchdogOK(watchdogs[s]) /\ watchdogs[s].read \subseteq Known BY DEF IInv, WatchdogsOK
<1>5. ListDataplanes(mesh) \subseteq Known BY DEF ListDataplanes, IInv, StoreOK
<1>6. /\ DOMAIN w = DOMAIN watchdogs[s] /\ w.pc = "read"
      /\ w.read = watchdogs[s].read \cup ListDataplanes(mesh) /\ w.new = watchdogs[s].new
  BY <1>2, <1>4 DEF WatchdogOK
<1> HIDE DEF w
<1>7. WatchdogOK(w) BY <1>4, <1>6 DEF WatchdogOK
<1>8. w.read \subseteq Known BY <1>4, <1>5, <1>6
<1> QED BY ZenonT(60), <1>2, <1>3, <1>6, <1>7, <1>8, OneWatchdog

LEMMA OnErrorKeeps == ASSUME IInv, NEW s \in StreamIds, OnError(s) PROVE IInv'
<1> DEFINE w == [NewWatchdog EXCEPT !.pc = "idle", !.stop = watchdogs[s].stop]
<1>1. /\ watchdogs' = [watchdogs EXCEPT ![s] = w]
      /\ UNCHANGED <<setup, world, snapshot, streams, agents, scraped>>
  BY DEF OnError
<1>2. WatchdogOK(w) /\ w.read = {} /\ w.new = << >> BY DEF WatchdogOK, NewWatchdog, AtMostOne
<1> HIDE DEF w
<1> QED BY ZenonT(60), <1>1, <1>2, OneWatchdog

LEMMA StopWatchdogKeeps == ASSUME IInv, NEW s \in StreamIds, StopWatchdog(s) PROVE IInv'
<1> DEFINE w == [watchdogs[s] EXCEPT !.pc = "ended"]
<1>1. /\ watchdogs' = [watchdogs EXCEPT ![s] = w]
      /\ UNCHANGED <<setup, world, snapshot, streams, agents, scraped>>
  BY DEF StopWatchdog
<1>2. WatchdogOK(watchdogs[s]) /\ watchdogs[s].read \subseteq Known BY DEF IInv, WatchdogsOK
<1>3. /\ DOMAIN w = DOMAIN watchdogs[s] /\ w.pc = "ended"
      /\ w.read = watchdogs[s].read /\ w.new = watchdogs[s].new
  BY <1>2 DEF WatchdogOK
<1> HIDE DEF w
<1>4. WatchdogOK(w) BY <1>2, <1>3 DEF WatchdogOK
<1> QED BY ZenonT(60), <1>1, <1>2, <1>3, <1>4, OneWatchdog

\* What is held, asked for and waited for is in use.
LEMMA HeldInUse ==
    /\ \A p \in Held : p[1] \in VersionsInUse
    /\ \A s \in StreamIds :
          /\ \A x : streams[s].requests = <<x>> => x.version \in VersionsInUse
          /\ streams[s].watch.state = "open" => streams[s].watch.request.version \in VersionsInUse
<1>1. \A seq : \A p \in OfSeq(seq) : p[1] \in VersionsOf(seq) BY DEF OfSeq, VersionsOf
<1>2. \A seq : \A p \in OfSnap(seq) : p[1] \in VersionsOfSnap(seq) BY DEF OfSnap, VersionsOfSnap
<1>3. \A w : \A p \in OfWatch(w) : p[1] \in VersionsOfWatch(w) BY DEF OfWatch, VersionsOfWatch
<1>4. \A p \in Held : p[1] \in VersionsInUse BY <1>1, <1>2, <1>3, InUse DEF Held
<1>5. ASSUME NEW s \in StreamIds, NEW x, streams[s].requests = <<x>> PROVE x.version \in VersionsInUse
  <2>1. x.version \in VersionsOf(streams[s].requests) BY SMTT(40), ZenonT(40), <1>5 DEF VersionsOf
  <2> QED BY <2>1, InUse
<1>6. ASSUME NEW s \in StreamIds, streams[s].watch.state = "open"
      PROVE  streams[s].watch.request.version \in VersionsInUse
  <2>1. streams[s].watch.request.version \in VersionsOfWatch(streams[s].watch)
    BY <1>6 DEF VersionsOfWatch
  <2> QED BY <2>1, InUse
<1> QED BY <1>4, <1>5, <1>6

\* A new collection under a version that nobody holds is nobody's concern.
LEMMA FreshKeeps ==
    ASSUME IInv, UNCHANGED <<setup, snapshot, streams, scraped>>,
           NEW v \in Nat \ {0}, v \notin VersionsInUse, NEW items,
           \A a \in Collected(items) : Genuine(a), Held' \subseteq Held \cup {<<v, items>>}
    PROVE  VersionsUnique' /\ VersionsScraped'
<1> DEFINE new == <<v, items>>
<1>1. new[1] = v /\ new[2] = items OBVIOUS
<1>2. \A p \in Held : p[1] # v BY HeldInUse
<1> HIDE DEF new
<1>3. \A p \in Held' : p \in Held \/ p = new BY DEF new
<1>4. VersionsUnique'
  <2>1. \A a : Genuine(a) => Genuine(a)' BY DEF Genuine, Known
  <2>2. \A p, q \in Held' : p[1] = q[1] => p[2] = q[2]
    BY <1>1, <1>2, <1>3 DEF IInv, VersionsUnique
  <2>3. ASSUME NEW p \in Held' PROVE p[1] \in Nat \ {0} /\ \A a \in Collected(p[2]) : Genuine(a)
    <3>1. CASE p \in Held BY <3>1 DEF IInv, VersionsUnique
    <3>2. CASE p = new BY <1>1, <3>2
    <3> QED BY <1>3, <3>1, <3>2
  <2> QED BY <2>1, <2>2, <2>3 DEF VersionsUnique
<1>5. ASSUME NEW a, NEW u \in VersionsInUse, Scrapes(a, u)
      PROVE  \A p \in Held' : p[1] = u => scraped'[a] = ConvertAll(Collected(p[2]))
  BY <1>1, <1>3, <1>5 DEF Scrapes
<1>6. VersionsScraped'
  <2> SUFFICES ASSUME NEW s \in StreamIds, NEW a \in setup.agents,
                      streams[s].state = "open", streams[s].agent = <<a>>
      PROVE  /\ streams[s].requests # << >> => Scrapes(a, streams[s].requests[1].version)'
             /\ streams[s].watch.state = "open" =>
                   /\ Scrapes(a, streams[s].watch.request.version)'
                   /\ snapshot # << >> =>
                         snapshot[1][Assignments].version = streams[s].watch.request.version
    BY DEF VersionsScraped
  <2>1. ASSUME streams[s].requests # << >> PROVE Scrapes(a, streams[s].requests[1].version)'
    <3>1. PICK x : streams[s].requests = <<x>>
      BY <2>1, One DEF IInv, StreamsOK, StreamOK
    <3>2. streams[s].requests[1] = x /\ x.version \in VersionsInUse BY <3>1, HeldInUse
    <3>3. Scrapes(a, x.version) BY <2>1, <3>2 DEF IInv, VersionsScraped
    <3>4. \A p \in Held' : p[1] = x.version => scraped'[a] = ConvertAll(Collected(p[2]))
      BY <1>5, <3>2, <3>3
    <3> QED BY SMTT(40), ZenonT(40), <3>2, <3>4 DEF Scrapes
  <2>2. ASSUME streams[s].watch.state = "open"
        PROVE  /\ Scrapes(a, streams[s].watch.request.version)'
               /\ snapshot # << >> =>
                     snapshot[1][Assignments].version = streams[s].watch.request.version
    <3> DEFINE u == streams[s].watch.request.version
    <3>1. u \in VersionsInUse BY SMTT(40), ZenonT(40), <2>2, HeldInUse
    <3>2. /\ Scrapes(a, u)
          /\ snapshot # << >> => snapshot[1][Assignments].version = u
      BY <2>2 DEF IInv, VersionsScraped
    <3>3. \A p \in Held' : p[1] = u => scraped'[a] = ConvertAll(Collected(p[2]))
      BY <1>5, <3>1, <3>2
    <3> QED BY <3>2, <3>3 DEF Scrapes
  <2> QED BY <2>1, <2>2
<1> QED BY <1>4, <1>6

\* Reconcile: an old version is reused for the collection it stands for only.
LEMMA ReconcileKeeps == ASSUME IInv, NEW s \in StreamIds, Reconcile(s) PROVE IInv'
<1> DEFINE assignments == Generate(watchdogs[s].meshes, watchdogs[s].read)
           items == ToIndex(assignments)
           v == Version(items, snapshot)
           x == [t \in {Assignments} |-> [version |-> v, items |-> items]]
           w == [NewWatchdog EXCEPT !.pc = "set", !.stop = watchdogs[s].stop, !.new = <<x>>]
<1>1. /\ watchdogs' = [watchdogs EXCEPT ![s] = w]
      /\ UNCHANGED <<setup, world, snapshot, streams, agents, scraped>>
  BY DEF Reconcile
<1>2. \A a \in Collected(items) : Genuine(a)
  <2>1. watchdogs[s].read \in SUBSET Known /\ StoreOK BY DEF IInv, WatchdogsOK
  <2>2. \A a \in assignments : Genuine(a) BY <2>1, GenerateGenuine
  <2> HIDE DEF assignments
  <2>3. \A a \in Collected(items) : a \in assignments BY ZenonT(60) DEF Collected, ToIndex
  <2> QED BY <2>2, <2>3
<1>3. x[Assignments].version = v /\ x[Assignments].items = items OBVIOUS
<1> HIDE DEF assignments, items, v, x
<1>4. WatchdogOK(w) /\ w.read = {} /\ w.new = <<x>>
  BY DEF WatchdogOK, NewWatchdog, AtMostOne, Range
<1> HIDE DEF w
<1>5. WatchdogsOK' BY ZenonT(60), <1>1, <1>4, WatchdogsKept DEF IInv
<1>6. StoreOK' BY <1>1, StoreKept DEF IInv, StoreOK
<1>7. \A i \in StreamIds : watchdogs'[i] = IF i = s THEN w ELSE watchdogs[i]
  BY <1>1 DEF IInv, WatchdogsOK
<1>8. OfSnap(w.new) = {<<v, items>>} BY <1>3, <1>4, Elements
<1>9. CASE snapshot # << >> /\ equal(items, snapshot[1][Assignments].items)
  <2>1. v = snapshot[1][Assignments].version /\ items = snapshot[1][Assignments].items
    BY <1>9 DEF v, Version, equal
  <2>2. PICK y : snapshot = <<y>> BY <1>9, One DEF IInv, StoreOK
  <2>3. <<v, items>> \in Held BY SMTT(40), ZenonT(40), <2>1, <2>2, Elements, Holders
  <2>4. \A i \in StreamIds : OfSnap(watchdogs'[i].new) \subseteq Held BY <1>7, <1>8, <2>3, Holders
  <2> QED BY <1>1, <1>5, <1>6, <2>4, OnlyWatchdogs
<1>10. CASE ~(snapshot # << >> /\ equal(items, snapshot[1][Assignments].items))
  <2>1. v = UUID BY <1>10 DEF v, Version
  <2>2. v \in Nat \ {0} /\ v \notin VersionsInUse BY <2>1, UUIDFresh DEF IInv
  <2>3. Held' \subseteq Held \cup {<<v, items>>}
    <3> DEFINE H == Held \cup {<<v, items>>}
    <3>1. \A i \in StreamIds : OfSnap(watchdogs'[i].new) \subseteq H BY SMTT(40), ZenonT(40), <1>7, <1>8, Holders
    <3>2. /\ OfSnap(snapshot') \subseteq H
          /\ \A i \in StreamIds : /\ OfSeq(streams'[i].responses) \subseteq H
                                  /\ OfWatch(streams'[i].watch) \subseteq H
          /\ \A a \in setup.agents : OfSeq(agents'[a].received) \subseteq H
      BY <1>1, Holders
    <3> HIDE DEF H
    <3>3. Held' \subseteq H BY <1>1, <3>1, <3>2, HeldBefore
    <3> QED BY <3>3 DEF H
  <2>4. VersionsUnique' /\ VersionsScraped' BY SMTT(40), ZenonT(40), <1>1, <1>2, <2>2, <2>3, FreshKeeps
  <2>5. StreamsOK' /\ AgentsOK' BY ZenonT(60), <1>1, StreamsKept DEF IInv, StreamsOK
  <2>6. TagsArrive' BY <1>1, TagsArriveKept DEF IInv
  <2> QED BY SMTT(40), ZenonT(40), <1>5, <1>6, <2>4, <2>5, <2>6 DEF IInv
<1> QED BY <1>9, <1>10

\* SetSnapshot: the watches of another version are answered, the others wait on.
LEMMA Triggered ==
    ASSUME NEW w, NEW x, w.state = "open" => w.request.type = Assignments /\ w.request.names = {}
    PROVE  \/ Trigger(w, x) = w /\ (w.state = "open" => x[Assignments].version = w.request.version)
           \/ /\ w.state = "open" /\ Trigger(w, x).state = "responded"
              /\ OfWatch(Trigger(w, x)) = {<<x[Assignments].version, x[Assignments].items>>}
<1>1. CASE w.state = "open" /\ x[Assignments].version # w.request.version
  <2> DEFINE r == [type |-> w.request.type, version |-> x[Assignments].version, items |-> x[Assignments].items]
  <2>1. Trigger(w, x) = Responded(r)
    BY SMTT(40), ZenonT(40), <1>1 DEF Trigger, respond, Answers, createResponse
  <2>2. Responded(r).state = "responded" /\ Responded(r).response = r BY DEF Responded
  <2> QED BY <1>1, <2>1, <2>2 DEF OfWatch
<1>2. CASE ~(w.state = "open" /\ x[Assignments].version # w.request.version)
  BY <1>2 DEF Trigger
<1> QED BY <1>1, <1>2

LEMMA SetSnapshotKeeps == ASSUME IInv, NEW s \in StreamIds, SetSnapshot(s) PROVE IInv'
<1>1. WatchdogOK(watchdogs[s]) /\ watchdogs[s].pc = "set" BY DEF SetSnapshot, IInv, WatchdogsOK
<1>2. PICK x : watchdogs[s].new = <<x>> BY <1>1, One DEF WatchdogOK
<1> DEFINE w == [NewWatchdog EXCEPT !.pc = "idle", !.stop = watchdogs[s].stop]
           p == <<x[Assignments].version, x[Assignments].items>>
<1>3. /\ UNCHANGED <<setup, world, agents, scraped>>
      /\ snapshot' = <<x>>
      /\ streams' = [i \in StreamIds |-> [streams[i] EXCEPT !.watch = Trigger(@, x)]]
      /\ watchdogs' = [watchdogs EXCEPT ![s] = w]
  BY <1>2 DEF SetSnapshot
<1>4. WatchdogOK(w) /\ w.read = {} /\ w.new = << >> BY DEF WatchdogOK, NewWatchdog, AtMostOne
<1> HIDE DEF w
<1>5. WatchdogsOK' BY ZenonT(60), <1>3, <1>4, WatchdogsKept DEF IInv
<1>6. AtMostOne(snapshot') BY <1>3 DEF AtMostOne, Range
<1>7. StoreOK' BY <1>3, <1>6, StoreKept DEF IInv
<1>8. OfSnap(watchdogs[s].new) = {p} /\ OfSnap(snapshot') = {p} BY <1>2, <1>3, Elements
<1>9. p \in Held BY <1>8, Holders
<1> HIDE DEF p
<1>10. ASSUME NEW i \in StreamIds
       PROVE  /\ DOMAIN streams'[i] = DOMAIN streams[i]
              /\ streams'[i].watch = Trigger(streams[i].watch, x)
              /\ streams'[i].state = streams[i].state /\ streams'[i].agent = streams[i].agent
              /\ streams'[i].requests = streams[i].requests
              /\ streams'[i].responses = streams[i].responses
              /\ streams'[i].nonce = streams[i].nonce
  <2>1. DOMAIN streams[i] = {"state", "agent", "requests", "responses", "watch", "nonce"}
    BY SMTT(40), ZenonT(40) DEF IInv, StreamsOK, StreamOK
  <2> QED BY SMTT(40), ZenonT(40), <1>3, <2>1
<1>11. ASSUME NEW i \in StreamIds
       PROVE  \/ /\ streams'[i].watch = streams[i].watch
                 /\ streams[i].watch.state = "open" =>
                       x[Assignments].version = streams[i].watch.request.version
              \/ /\ streams[i].watch.state = "open" /\ streams'[i].watch.state = "responded"
                 /\ OfWatch(streams'[i].watch) = {p}
  <2> DEFINE ow == streams[i].watch
  <2>1. ow.state = "open" => ow.request.type = Assignments /\ ow.request.names = {}
    BY SMTT(40), ZenonT(40) DEF IInv, StreamsOK, StreamOK
  <2>2. CASE Trigger(ow, x) = ow /\ (ow.state = "open" => x[Assignments].version = ow.request.version)
    BY SMTT(40), ZenonT(40), <1>10, <2>2
  <2>3. CASE /\ ow.state = "open" /\ Trigger(ow, x).state = "responded"
             /\ OfWatch(Trigger(ow, x)) = {p}
    BY <1>10, <2>3
  <2> QED BY SMTT(40), ZenonT(40), <2>1, <2>2, <2>3, Triggered DEF p
<1>12. StreamsOK' /\ AgentsOK'
  <2>1. DOMAIN streams' = StreamIds BY <1>3
  <2>2. ASSUME NEW i \in StreamIds PROVE StreamOK(streams'[i])
    <3>1. StreamOK(streams[i]) BY SMTT(40), ZenonT(40) DEF IInv, StreamsOK
    <3>2. CASE streams'[i].watch = streams[i].watch
      <4>1. ASSUME streams[i].state = "unused" PROVE streams'[i] = NewStream
        <5>1. streams[i] = NewStream BY <3>1, <4>1 DEF StreamOK
        <5>2. Trigger(NoWatch, x) = NoWatch BY DEF Trigger, NoWatch
        <5>3. streams'[i] = [NewStream EXCEPT !.watch = NoWatch] BY SMTT(40), ZenonT(40), <1>3, <5>1, <5>2 DEF NewStream
        <5> QED BY <5>3 DEF NewStream
      <4> QED BY <1>10, <3>1, <3>2, <4>1 DEF StreamOK
    <3>3. CASE streams[i].watch.state = "open" /\ streams'[i].watch.state = "responded"
      <4>1. streams[i].state # "unused" BY SMTT(40), ZenonT(40), <3>1, <3>3 DEF StreamOK, NewStream, NoWatch
      <4> QED BY SMTT(40), ZenonT(40), <1>10, <3>1, <3>3, <4>1 DEF StreamOK
    <3> QED BY <1>11, <3>2, <3>3
  <2>3. \A i \in StreamIds : Quiet(streams[i]) => Quiet(streams'[i]) BY <1>10, <1>11 DEF Quiet
  <2> QED BY <1>3, <1>10, <2>1, <2>2, <2>3, StreamsKept DEF IInv
<1>13. Held' \subseteq Held
  <2>1. OfSnap(snapshot') \subseteq Held BY <1>8, <1>9
  <2>2. \A i \in StreamIds : watchdogs'[i] = IF i = s THEN w ELSE watchdogs[i]
    BY <1>3 DEF IInv, WatchdogsOK
  <2>3. \A i \in StreamIds : OfSnap(watchdogs'[i].new) \subseteq Held BY <1>4, <2>2, Holders, Elements
  <2>4. \A i \in StreamIds : OfSeq(streams'[i].responses) \subseteq Held BY SMTT(40), ZenonT(40), <1>10, Holders
  <2>5. \A i \in StreamIds : OfWatch(streams'[i].watch) \subseteq Held BY SMTT(40), ZenonT(40), <1>9, <1>11, Holders
  <2> QED BY ZenonT(60), <1>3, <2>1, <2>3, <2>4, <2>5, Holders, HeldBefore
<1>14. VersionsScraped'
  <2> SUFFICES ASSUME NEW i \in StreamIds, NEW a \in setup.agents,
                      streams'[i].state = "open", streams'[i].agent = <<a>>
      PROVE  /\ streams'[i].requests # << >> => Scrapes(a, streams'[i].requests[1].version)
             /\ streams'[i].watch.state = "open" =>
                   /\ Scrapes(a, streams'[i].watch.request.version)
                   /\ snapshot' # << >> =>
                         snapshot'[1][Assignments].version = streams'[i].watch.request.version
    BY ZenonT(60), <1>3, <1>13, ScrapedKept
  <2>1. streams[i].state = "open" /\ streams[i].agent = <<a>> BY <1>10
  <2>2. streams'[i].requests # << >> => Scrapes(a, streams'[i].requests[1].version)
    BY <1>10, <2>1 DEF IInv, VersionsScraped
  <2>3. ASSUME streams'[i].watch.state = "open"
        PROVE  /\ Scrapes(a, streams'[i].watch.request.version)
               /\ snapshot'[1][Assignments].version = streams'[i].watch.request.version
    <3>1. /\ streams'[i].watch = streams[i].watch /\ streams[i].watch.state = "open"
          /\ x[Assignments].version = streams[i].watch.request.version
      BY <1>11, <2>3
    <3>2. snapshot'[1] = x BY <1>3
    <3> QED BY SMTT(40), ZenonT(40), <2>1, <3>1, <3>2 DEF IInv, VersionsScraped
  <2> QED BY <2>2, <2>3
<1>15. VersionsUnique' BY <1>3, <1>13, UniqueKept DEF IInv
<1>16. TagsArrive' BY SMTT(40), ZenonT(40), <1>3, TagsArriveKept DEF IInv
<1> QED BY <1>5, <1>7, <1>12, <1>14, <1>15, <1>16 DEF IInv
-----------------------------------------------------------------------------
(* The streams                                                              *)

\* The stream s becomes st; the watchdogs go on without a new snapshot.
LEMMA OneStream ==
    ASSUME IInv, UNCHANGED <<setup, world, snapshot, agents, scraped>>, WatchdogsOK',
           \A i \in StreamIds : OfSnap(watchdogs'[i].new) \subseteq Held,
           NEW s \in StreamIds, NEW st, streams' = [streams EXCEPT ![s] = st],
           StreamOK(st), st.agent = streams[s].agent,
           st.state = "open" => streams[s].state = "open",
           st.state # "unused", Quiet(streams[s]) => Quiet(st),
           OfSeq(st.responses) \subseteq Held, OfWatch(st.watch) \subseteq Held,
           \A a \in setup.agents : st.state = "open" /\ st.agent = <<a>> =>
               /\ st.requests # << >> => Scrapes(a, st.requests[1].version)
               /\ st.watch.state = "open" =>
                     /\ Scrapes(a, st.watch.request.version)
                     /\ snapshot # << >> => snapshot[1][Assignments].version = st.watch.request.version
    PROVE  IInv'
<1>1. StoreOK' BY SMTT(40), ZenonT(40), StoreKept DEF IInv, StoreOK
<1>2. /\ DOMAIN streams' = StreamIds
      /\ streams'[s] = st /\ \A i \in StreamIds : i # s => streams'[i] = streams[i]
  BY SMTT(40), ZenonT(40) DEF IInv, StreamsOK
<1>3. StreamsOK' /\ AgentsOK'
  <2>1. \A i \in StreamIds : StreamOK(streams[i]) BY SMTT(40), ZenonT(40) DEF IInv, StreamsOK
  <2>2. \A i \in StreamIds :
            /\ StreamOK(streams'[i]) /\ streams'[i].agent = streams[i].agent
            /\ streams'[i].state = "open" => streams[i].state = "open"
            /\ streams'[i].state = "unused" => streams[i].state = "unused"
            /\ Quiet(streams[i]) => Quiet(streams'[i])
    BY SMTT(40), ZenonT(40), <1>2, <2>1
  <2> QED BY SMTT(40), ZenonT(40), <1>2, <2>2, StreamsKept DEF IInv
<1>4. Held' \subseteq Held
  <2>1. \A i \in StreamIds : /\ OfSeq(streams'[i].responses) \subseteq Held
                             /\ OfWatch(streams'[i].watch) \subseteq Held
    BY SMTT(40), ZenonT(40), <1>2, Holders
  <2> QED BY SMTT(40), ZenonT(40), <2>1, Holders, HeldBefore
<1>5. VersionsUnique' BY SMTT(40), ZenonT(40), <1>4, UniqueKept DEF IInv
<1>6. VersionsScraped'
  <2>1. ASSUME NEW i \in StreamIds, NEW a \in setup.agents,
               streams'[i].state = "open", streams'[i].agent = <<a>>
        PROVE  /\ streams'[i].requests # << >> => Scrapes(a, streams'[i].requests[1].version)
               /\ streams'[i].watch.state = "open" =>
                     /\ Scrapes(a, streams'[i].watch.request.version)
                     /\ snapshot' # << >> =>
                           snapshot'[1][Assignments].version = streams'[i].watch.request.version
    <3>1. CASE i = s
      <4>1. streams'[i] = st BY SMTT(40), ZenonT(40), <1>2, <3>1
      <4> QED BY SMTT(40), ZenonT(40), <2>1, <4>1
    <3>2. CASE i # s
      <4>1. streams'[i] = streams[i] BY SMTT(40), ZenonT(40), <1>2, <3>2
      <4> QED BY ZenonT(60), <2>1, <4>1 DEF IInv, VersionsScraped
    <3> QED BY ZenonT(60), <3>1, <3>2
  <2> QED BY SMTT(40), ZenonT(40), <1>4, <2>1, ScrapedKept
<1>7. TagsArrive' BY TagsArriveKept DEF IInv
<1> QED BY SMTT(40), ZenonT(40), <1>1, <1>3, <1>5, <1>6, <1>7 DEF IInv

\* The watchdog of a stream starts or is told to stop.
LEMMA WatchdogTold ==
    ASSUME IInv, setup' = setup, NEW s \in StreamIds, NEW w,
           watchdogs' = [watchdogs EXCEPT ![s] = w], DOMAIN w = DOMAIN watchdogs[s],
           w.new = watchdogs[s].new, w.read = watchdogs[s].read, w.pc = "set" => watchdogs[s].pc = "set"
    PROVE  WatchdogsOK' /\ \A i \in StreamIds : OfSnap(watchdogs'[i].new) \subseteq Held
<1>1. WatchdogOK(watchdogs[s]) /\ watchdogs[s].read \subseteq Known BY DEF IInv, WatchdogsOK
<1>2. WatchdogOK(w) BY <1>1 DEF WatchdogOK
<1>3. WatchdogsOK' BY ZenonT(60), <1>1, <1>2, WatchdogsKept DEF IInv
<1>4. \A i \in StreamIds : watchdogs'[i] = IF i = s THEN w ELSE watchdogs[i]
  BY DEF IInv, WatchdogsOK
<1> QED BY <1>3, <1>4, Holders

\* CreateWatch: an answer from the snapshot, or a watch of its version.
LEMMA WatchCreated ==
    ASSUME IInv, NEW v
    PROVE  LET watch == [type |-> Assignments, version |-> v, names |-> {}]
               w == CreateWatch(watch, snapshot # << >>, IF snapshot = << >> THEN << >> ELSE snapshot[1])
           IN  \/ /\ w.state = "open" /\ w.request = watch
                  /\ snapshot # << >> => snapshot[1][Assignments].version = v
               \/ w.state = "responded" /\ OfWatch(w) \subseteq Held
<1> DEFINE watch == [type |-> Assignments, version |-> v, names |-> {}]
           w == CreateWatch(watch, snapshot # << >>, IF snapshot = << >> THEN << >> ELSE snapshot[1])
<1>1. CASE snapshot = << >> \/ snapshot[1][Assignments].version = v
  <2>1. w = OpenWatch(watch) BY SMTT(40), ZenonT(40), <1>1 DEF CreateWatch
  <2> HIDE DEF w
  <2>2. w.state = "open" /\ w.request = watch BY SMTT(40), ZenonT(40), <2>1 DEF OpenWatch
  <2> QED BY ZenonT(60), <1>1, <2>2 DEF w
<1>2. CASE snapshot # << >> /\ snapshot[1][Assignments].version # v
  <2>1. PICK x : snapshot = <<x>> BY <1>2, One DEF IInv, StoreOK
  <2> DEFINE r == [type |-> Assignments, version |-> x[Assignments].version, items |-> x[Assignments].items]
  <2>2. w = Responded(r) BY <1>2, <2>1 DEF CreateWatch, respond, Answers, createResponse
  <2>3. Responded(r).state = "responded" /\ Responded(r).response = r BY DEF Responded
  <2>4. OfSnap(snapshot) = {<<x[Assignments].version, x[Assignments].items>>} BY <2>1, Elements
  <2>5. r.version = x[Assignments].version /\ r.items = x[Assignments].items OBVIOUS
  <2> HIDE DEF w, r
  <2>6. OfWatch(w) = {<<x[Assignments].version, x[Assignments].items>>} BY SMTT(40), ZenonT(40), <2>2, <2>3, <2>5 DEF OfWatch
  <2>7. OfWatch(w) \subseteq Held BY SMTT(40), ZenonT(40), <2>4, <2>6, Holders
  <2> QED BY ZenonT(60), <2>2, <2>3, <2>7 DEF w
<1> QED BY ZenonT(60), <1>1, <1>2

LEMMA ProcessRequestKeeps == ASSUME IInv, NEW s \in StreamIds, ProcessRequest(s) PROVE IInv'
<1> DEFINE os == streams[s]
<1>1. os.state = "open" /\ os.requests # << >> BY DEF ProcessRequest
<1>2. StreamOK(os) BY SMTT(40), ZenonT(40) DEF IInv, StreamsOK
<1>3. PICK q : os.requests = <<q>> BY SMTT(40), ZenonT(40), <1>1, <1>2, One DEF StreamOK
<1> DEFINE watch == [type |-> Assignments, version |-> q.version, names |-> {}]
           new == CreateWatch(watch, snapshot # << >>, IF snapshot = << >> THEN << >> ELSE snapshot[1])
           nw == IF os.nonce \in {0, q.nonce} THEN new ELSE os.watch
           st == [os EXCEPT !.requests = << >>, !.watch = nw]
           w  == [watchdogs[s] EXCEPT !.pc = IF @ = "none" THEN "idle" ELSE @]
<1>4. Head(os.requests) = q /\ Tail(os.requests) = << >> BY <1>3
<1>5. /\ UNCHANGED <<setup, world, snapshot, agents, scraped>>
      /\ streams' = [streams EXCEPT ![s] = st]
  BY ZenonT(60), <1>4 DEF ProcessRequest
<1>6. watchdogs' = [watchdogs EXCEPT ![s] = w]
  BY DEF ProcessRequest, OnStreamRequest, IInv, WatchdogsOK
<1>7. WatchdogOK(watchdogs[s]) BY DEF IInv, WatchdogsOK
<1>8. /\ DOMAIN w = DOMAIN watchdogs[s] /\ w.new = watchdogs[s].new /\ w.read = watchdogs[s].read
      /\ w.pc = "set" => watchdogs[s].pc = "set"
  BY <1>7 DEF WatchdogOK
<1> HIDE DEF w
<1>9. WatchdogsOK' /\ \A i \in StreamIds : OfSnap(watchdogs'[i].new) \subseteq Held
  BY ZenonT(60), <1>5, <1>6, <1>8, WatchdogTold
<1>10. \/ /\ nw.state = "open" /\ nw.request = watch
          /\ snapshot # << >> => snapshot[1][Assignments].version = q.version
       \/ nw.state = "responded" /\ OfWatch(nw) \subseteq Held
       \/ nw.state = "none"
  <2>1. os.watch.state = "none" BY <1>1, <1>2 DEF StreamOK
  <2> QED BY ZenonT(60), <2>1, WatchCreated
<1>11. watch.type = Assignments /\ watch.version = q.version /\ watch.names = {} OBVIOUS
<1> HIDE DEF new, nw, watch
<1>12. /\ DOMAIN st = DOMAIN os /\ st.requests = << >> /\ st.watch = nw
       /\ st.state = "open" /\ st.agent = os.agent /\ st.responses = os.responses
  BY SMTT(40), ZenonT(40), <1>1, <1>2 DEF StreamOK
<1>13. os.responses = << >> BY SMTT(40), ZenonT(40), <1>1, <1>2 DEF StreamOK
<1> HIDE DEF st
<1>14. StreamOK(st) BY SMTT(40), ZenonT(40), <1>2, <1>10, <1>11, <1>12, <1>13 DEF StreamOK, AtMostOne
<1>15. ~Quiet(os) BY SMTT(40), ZenonT(40), <1>1 DEF Quiet
<1>16. OfSeq(st.responses) \subseteq Held /\ OfWatch(st.watch) \subseteq Held
  <2>1. nw.state # "responded" => OfWatch(nw) = {} BY DEF OfWatch
  <2> QED BY SMTT(40), ZenonT(40), <1>10, <1>12, <1>13, <2>1, Elements
<1>17. ASSUME NEW a \in setup.agents, st.agent = <<a>>, st.watch.state = "open"
       PROVE  /\ Scrapes(a, st.watch.request.version)
              /\ snapshot # << >> => snapshot[1][Assignments].version = st.watch.request.version
  <2>1. os.requests[1] = q BY SMTT(40), ZenonT(40), <1>3
  <2>2. Scrapes(a, q.version) BY ZenonT(60), <1>1, <1>12, <1>17, <2>1 DEF IInv, VersionsScraped
  <2>3. st.watch.request.version = q.version BY <1>10, <1>11, <1>12, <1>17
  <2> QED BY SMTT(40), ZenonT(40), <1>10, <1>12, <1>17, <2>2, <2>3
<1> QED BY ZenonT(60), <1>1, <1>5, <1>9, <1>12, <1>14, <1>15, <1>16, <1>17, OneStream

LEMMA ProcessResponseKeeps == ASSUME IInv, NEW s \in StreamIds, ProcessResponse(s) PROVE IInv'
<1> DEFINE os == streams[s]
           r == [version |-> os.watch.response.version, items |-> os.watch.response.items,
                 nonce |-> nextNonce(os.nonce)]
           st == [os EXCEPT !.nonce = nextNonce(@), !.watch = NoWatch, !.responses = Append(@, r)]
<1>1. /\ os.state = "open" /\ os.watch.state = "responded"
      /\ UNCHANGED <<setup, world, snapshot, watchdogs, agents, scraped>>
      /\ streams' = [streams EXCEPT ![s] = st]
  BY DEF ProcessResponse
<1>2. StreamOK(os) BY DEF IInv, StreamsOK
<1>3. os.responses = << >> /\ os.requests = << >> BY SMTT(40), ZenonT(40), <1>1, <1>2 DEF StreamOK
<1>4. Append(os.responses, r) = <<r>> BY <1>3
<1>5. r.version = os.watch.response.version /\ r.items = os.watch.response.items OBVIOUS
<1> HIDE DEF r
<1>6. /\ DOMAIN st = DOMAIN os /\ st.requests = << >> /\ st.watch = NoWatch /\ st.responses = <<r>>
      /\ st.state = "open" /\ st.agent = os.agent
  BY SMTT(40), ZenonT(40), <1>1, <1>2, <1>3, <1>4 DEF StreamOK
<1> HIDE DEF st
<1>7. st.watch.state = "none" BY SMTT(40), ZenonT(40), <1>6 DEF NoWatch
<1>8. AtMostOne(<<r>>) /\ AtMostOne(<< >>) BY SMTT(40), ZenonT(40) DEF AtMostOne, Range
<1>9. StreamOK(st) BY SMTT(40), ZenonT(40), <1>2, <1>6, <1>7, <1>8 DEF StreamOK
<1>10. ~Quiet(os) BY SMTT(40), ZenonT(40), <1>1 DEF Quiet
<1>11. OfWatch(os.watch) = {<<r.version, r.items>>} BY SMTT(40), ZenonT(40), <1>1, <1>5 DEF OfWatch
<1>12. OfSeq(st.responses) \subseteq Held BY <1>6, <1>11, Elements, Holders
<1>13. OfWatch(st.watch) \subseteq Held BY SMTT(40), ZenonT(40), <1>7 DEF OfWatch
<1>14. WatchdogsOK' BY SMTT(40), ZenonT(40), <1>1 DEF IInv, WatchdogsOK, Known
<1> QED BY ZenonT(60), <1>1, <1>6, <1>7, <1>9, <1>10, <1>12, <1>13, <1>14, OneStream, Holders

LEMMA ProcessEndKeeps == ASSUME IInv, NEW s \in StreamIds, ProcessEnd(s) PROVE IInv'
<1> DEFINE st == [NewStream EXCEPT !.state = "closed", !.agent = streams[s].agent]
           w  == [watchdogs[s] EXCEPT !.stop = TRUE, !.pc = IF @ = "none" THEN "ended" ELSE @]
<1>1. /\ UNCHANGED <<setup, world, snapshot, agents, scraped>>
      /\ streams' = [streams EXCEPT ![s] = st]
  BY DEF ProcessEnd
<1>2. WatchdogOK(watchdogs[s]) BY DEF IInv, WatchdogsOK
<1>3. watchdogs' = [watchdogs EXCEPT ![s] = w]
  BY ZenonT(60), <1>2 DEF ProcessEnd, OnStreamClosed, IInv, WatchdogsOK, WatchdogOK
<1>4. /\ DOMAIN w = DOMAIN watchdogs[s] /\ w.new = watchdogs[s].new /\ w.read = watchdogs[s].read
      /\ w.pc = "set" => watchdogs[s].pc = "set"
  BY <1>2 DEF WatchdogOK
<1> HIDE DEF w
<1>5. WatchdogsOK' /\ \A i \in StreamIds : OfSnap(watchdogs'[i].new) \subseteq Held
  BY ZenonT(60), <1>1, <1>3, <1>4, WatchdogTold
<1>6. /\ DOMAIN st = {"state", "agent", "requests", "responses", "watch", "nonce"}
      /\ st.requests = << >> /\ st.watch.state = "none" /\ st.responses = << >>
      /\ st.state = "closed" /\ st.agent = streams[s].agent
  BY DEF NewStream, NoWatch
<1> HIDE DEF st
<1>7. StreamOK(st) BY <1>6 DEF StreamOK, AtMostOne
<1>8. Quiet(st) BY SMTT(40), ZenonT(40), <1>6 DEF Quiet
<1>9. OfSeq(st.responses) \subseteq Held /\ OfWatch(st.watch) \subseteq Held
  BY SMTT(40), ZenonT(40), <1>6, Elements DEF OfWatch
<1> QED BY ZenonT(60), <1>1, <1>5, <1>6, <1>7, <1>8, <1>9, OneStream

LEMMA BreakKeeps == ASSUME IInv, NEW s \in StreamIds, Break(s) PROVE IInv'
<1> DEFINE os == streams[s]
           st == [os EXCEPT !.state = "broken"]
<1>1. /\ os.state = "open"
      /\ UNCHANGED <<setup, world, snapshot, watchdogs, agents, scraped>>
      /\ streams' = [streams EXCEPT ![s] = st]
  BY DEF Break
<1>2. StreamOK(os) BY DEF IInv, StreamsOK
<1>3. /\ DOMAIN st = DOMAIN os /\ st.requests = os.requests /\ st.watch = os.watch
      /\ st.responses = os.responses /\ st.state = "broken" /\ st.agent = os.agent
  BY SMTT(40), ZenonT(40), <1>2 DEF StreamOK
<1> HIDE DEF st
<1>4. StreamOK(st) BY ZenonT(60), <1>2, <1>3 DEF StreamOK
<1>5. Quiet(os) => Quiet(st) BY SMTT(40), ZenonT(40), <1>3 DEF Quiet
<1>6. OfSeq(st.responses) \subseteq Held /\ OfWatch(st.watch) \subseteq Held BY SMTT(40), ZenonT(40), <1>3, Holders
<1>7. WatchdogsOK' BY SMTT(40), ZenonT(40), <1>1 DEF IInv, WatchdogsOK, Known
<1> QED BY ZenonT(60), <1>1, <1>3, <1>4, <1>5, <1>6, <1>7, OneStream, Holders
-----------------------------------------------------------------------------
(* The agents                                                               *)

\* A group of a dataplane with its tags.
Arrived(g) == \E w \in Range(setup.worlds) : \E d \in w.dataplanes :
    g.source = subSourceName(assignmentName(d), 0) /\ TagsKept(d, g.labels)

\* The agent a becomes p, with the groups, and its stream s becomes st ...
Becomes(a, p, groups, s, st) ==
    /\ UNCHANGED <<setup, world, snapshot, watchdogs>>
    /\ agents' = [agents EXCEPT ![a] = p]
    /\ DOMAIN scraped' = setup.agents /\ scraped'[a] = groups
    /\ \A b \in setup.agents : b # a => scraped'[b] = scraped[b]
    /\ DOMAIN streams' = StreamIds /\ streams'[s] = st
    /\ \A i \in StreamIds : i # s => streams'[i] = streams[i]
    /\ AgentOK(a, p, groups, streams')

\* ... and this agrees with what there is.
Agrees(a, p, groups, s, st) ==
    /\ streams[s].state = "unused" \/ streams[s].agent = <<a>>
    /\ \A i \in StreamIds : i # s /\ streams[i].state = "open" => streams[i].agent # <<a>>
    /\ StreamOK(st) /\ st.agent = <<a>> /\ st.state # "unused"
    /\ st.state = "open" => p.pc # "start" /\ p.stream = <<s>> /\ st.watch.state = "none"
    /\ OfSeq(st.responses) \subseteq Held /\ OfWatch(st.watch) \subseteq Held
    /\ OfSeq(p.received) \subseteq Held
    /\ st.state = "open" /\ st.requests # << >> =>
          \A q \in Held : q[1] = st.requests[1].version => groups = ConvertAll(Collected(q[2]))
    /\ \A g \in groups : Arrived(g)

LEMMA OneAgent ==
    ASSUME IInv, NEW a \in setup.agents, NEW p, NEW groups, NEW s \in StreamIds, NEW st,
           Becomes(a, p, groups, s, st), Agrees(a, p, groups, s, st)
    PROVE  IInv'
<1> USE DEF Becomes, Agrees
<1>1. StoreOK' BY ZenonT(60), StoreKept DEF IInv, StoreOK
<1>2. WatchdogsOK' BY ZenonT(60) DEF IInv, WatchdogsOK, Known
<1>3. /\ DOMAIN agents' = setup.agents
      /\ agents'[a] = p /\ \A b \in setup.agents : b # a => agents'[b] = agents[b]
  BY ZenonT(60) DEF IInv, AgentsOK
<1>4. StreamsOK'
  <2>1. \A i \in StreamIds : StreamOK(streams'[i]) BY SMTT(40), ZenonT(40) DEF IInv, StreamsOK
  <2>2. ASSUME NEW i \in StreamIds, streams'[i].state = "open"
        PROVE  \E b \in setup.agents : /\ streams'[i].agent = <<b>>
                                       /\ agents'[b].pc # "start" /\ agents'[b].stream = <<i>>
    <3>1. CASE i = s
      <4>1. streams'[i] = st BY SMTT(40), ZenonT(40), <3>1
      <4>2. agents'[a].pc # "start" /\ agents'[a].stream = <<i>> BY ZenonT(60), <1>3, <2>2, <3>1, <4>1
      <4> QED BY ZenonT(60), <4>1, <4>2
    <3>2. CASE i # s
      <4>1. streams'[i] = streams[i] BY SMTT(40), ZenonT(40), <3>2
      <4>2. PICK b \in setup.agents : /\ streams[i].agent = <<b>>
                                      /\ agents[b].pc # "start" /\ agents[b].stream = <<i>>
        BY ZenonT(60), <2>2, <4>1 DEF IInv, StreamsOK
      <4>3. b # a BY ZenonT(60), <2>2, <3>2, <4>1, <4>2
      <4> QED BY ZenonT(60), <1>3, <4>1, <4>2, <4>3
    <3> QED BY ZenonT(60), <3>1, <3>2
  <2> QED BY ZenonT(60), <2>1, <2>2 DEF StreamsOK
<1>5. AgentsOK'
  <2> SUFFICES ASSUME NEW b \in setup.agents PROVE AgentOK(b, agents'[b], scraped'[b], streams')
    BY ZenonT(60), <1>3 DEF AgentsOK
  <2>1. CASE b = a BY ZenonT(60), <1>3, <2>1
  <2>2. CASE b # a
    <3>1. agents'[b] = agents[b] /\ scraped'[b] = scraped[b] BY ZenonT(60), <1>3, <2>2
    <3>2. AgentOK(b, agents[b], scraped[b], streams) BY ZenonT(60) DEF IInv, AgentsOK
    <3>3. ASSUME NEW i \in StreamIds, agents[b].stream = <<i>>, streams[i].state # "unused",
                 streams[i].agent = <<b>>
          PROVE  streams'[i] = streams[i]
      <4>1. <<a>> # <<b>> BY SMTT(40), ZenonT(40), <2>2
      <4>2. i # s BY ZenonT(60), <3>3, <4>1
      <4> QED BY ZenonT(60), <4>2
    <3>4. agents[b].pc # "start" =>
             \E i \in StreamIds : /\ agents[b].stream = <<i>> /\ streams[i].state # "unused"
                                  /\ streams[i].agent = <<b>> /\ streams'[i] = streams[i]
      BY ZenonT(60), <3>2, <3>3 DEF AgentOK
    <3>5. AgentOK(b, agents[b], scraped[b], streams')
      <4>1. agents[b].pc = "ack" =>
               streams'[agents[b].stream[1]] = streams[agents[b].stream[1]]
        <5> SUFFICES ASSUME agents[b].pc = "ack"
                     PROVE  streams'[agents[b].stream[1]] = streams[agents[b].stream[1]]
          OBVIOUS
        <5>1. PICK i \in StreamIds : agents[b].stream = <<i>> /\ streams'[i] = streams[i]
          BY ZenonT(60), <3>4
        <5>2. agents[b].stream[1] = i BY <5>1
        <5> QED BY ZenonT(60), <5>1, <5>2
      <4>2. agents[b].pc # "start" =>
               \E i \in StreamIds : /\ agents[b].stream = <<i>> /\ streams'[i].state # "unused"
                                    /\ streams'[i].agent = <<b>>
        BY ZenonT(60), <3>4
      <4> QED BY <3>2, <4>1, <4>2 DEF AgentOK
    <3> QED BY SMTT(40), ZenonT(40), <3>1, <3>5
  <2> QED BY ZenonT(60), <2>1, <2>2
<1>6. Held' \subseteq Held
  <2>1. \A i \in StreamIds : /\ OfSeq(streams'[i].responses) \subseteq Held
                             /\ OfWatch(streams'[i].watch) \subseteq Held
    BY ZenonT(60), Holders
  <2>2. \A b \in setup.agents : OfSeq(agents'[b].received) \subseteq Held BY ZenonT(60), <1>3, Holders
  <2> QED BY ZenonT(60), <2>1, <2>2, Holders, HeldBefore
<1>7. VersionsUnique' BY ZenonT(60), <1>6, UniqueKept DEF IInv
<1>8. VersionsScraped'
  <2> SUFFICES ASSUME NEW i \in StreamIds, NEW b \in setup.agents,
                      streams'[i].state = "open", streams'[i].agent = <<b>>
      PROVE  /\ streams'[i].requests # << >> =>
                   \A q \in Held' : q[1] = streams'[i].requests[1].version =>
                       scraped'[b] = ConvertAll(Collected(q[2]))
             /\ streams'[i].watch.state = "open" =>
                   /\ \A q \in Held' : q[1] = streams'[i].watch.request.version =>
                         scraped'[b] = ConvertAll(Collected(q[2]))
                   /\ snapshot # << >> =>
                         snapshot[1][Assignments].version = streams'[i].watch.request.version
    BY ZenonT(60) DEF VersionsScraped, Scrapes
  <2>1. CASE i = s
    <3>1. streams'[i] = st BY ZenonT(60), <2>1
    <3>2. <<a>> = <<b>> /\ st.watch.state = "none" /\ st.state = "open" BY ZenonT(60), <3>1
    <3>3. b = a /\ st.watch.state # "open" BY SMTT(40), ZenonT(40), <3>2
    <3> QED BY ZenonT(60), <1>6, <3>1, <3>2, <3>3
  <2>2. CASE i # s
    <3>1. streams'[i] = streams[i] BY SMTT(40), ZenonT(40), <2>2
    <3>2. scraped'[b] = scraped[b] BY ZenonT(60), <2>2, <3>1
    <3>3. /\ streams[i].requests # << >> => Scrapes(b, streams[i].requests[1].version)
          /\ streams[i].watch.state = "open" =>
                /\ Scrapes(b, streams[i].watch.request.version)
                /\ snapshot # << >> =>
                      snapshot[1][Assignments].version = streams[i].watch.request.version
      BY ZenonT(60), <3>1 DEF IInv, VersionsScraped
    <3> QED BY ZenonT(60), <1>6, <3>1, <3>2, <3>3 DEF Scrapes
  <2> QED BY ZenonT(60), <2>1, <2>2
<1>9. TagsArrive' BY ZenonT(60) DEF IInv, TagsArrive, Arrived
<1> QED BY ZenonT(60), <1>1, <1>2, <1>4, <1>5, <1>7, <1>8, <1>9 DEF IInv

\* Any other open stream is not the agent's.
LEMMA OnlyStream ==
    ASSUME IInv, NEW a \in setup.agents, NEW s, agents[a].pc = "start" \/ agents[a].stream = <<s>>
    PROVE  \A i \in StreamIds : i # s /\ streams[i].state = "open" => streams[i].agent # <<a>>
<1> SUFFICES ASSUME NEW i \in StreamIds, streams[i].state = "open", streams[i].agent = <<a>>, i # s
             PROVE  FALSE
  BY SMTT(40), ZenonT(40)
<1>1. PICK b \in setup.agents : /\ streams[i].agent = <<b>>
                                /\ agents[b].pc # "start" /\ agents[b].stream = <<i>>
  BY SMTT(40), ZenonT(40) DEF IInv, StreamsOK
<1>2. b = a BY <1>1
<1>3. <<i>> = <<s>> BY SMTT(40), ZenonT(40), <1>1, <1>2
<1> QED BY <1>3

\* The stream of an agent that has one.
LEMMA ItsStream ==
    ASSUME IInv, NEW a \in setup.agents, agents[a].pc # "start"
    PROVE  LET s == agents[a].stream[1] IN
           /\ s \in StreamIds /\ agents[a].stream = <<s>>
           /\ streams[s].state # "unused" /\ streams[s].agent = <<a>> /\ StreamOK(streams[s])
<1>1. AgentOK(a, agents[a], scraped[a], streams) BY SMTT(40), ZenonT(40) DEF IInv, AgentsOK
<1>2. PICK s \in StreamIds : /\ agents[a].stream = <<s>>
                             /\ streams[s].state # "unused" /\ streams[s].agent = <<a>>
  BY <1>1 DEF AgentOK
<1>3. agents[a].stream[1] = s BY <1>2
<1>4. StreamOK(streams[s]) BY DEF IInv, StreamsOK
<1> QED BY SMTT(40), ZenonT(40), <1>2, <1>3, <1>4

LEMMA StartStreamKeeps == ASSUME IInv, NEW a \in setup.agents, StartStream(a) PROVE IInv'
<1> DEFINE unused == {i \in StreamIds : streams[i].state = "unused"}
           s  == CHOOSE i \in unused : TRUE
           st == [streams[s] EXCEPT !.state = "open", !.agent = <<a>>, !.requests = <<Request(0, 0)>>]
           p  == [agents[a] EXCEPT !.pc = "wait", !.stream = <<s>>]
<1>1. /\ agents[a].pc = "start" /\ unused # {}
      /\ UNCHANGED <<setup, world, snapshot, watchdogs, scraped>>
      /\ streams' = [streams EXCEPT ![s] = st] /\ agents' = [agents EXCEPT ![a] = p]
  BY DEF StartStream
<1>2. s \in unused BY <1>1
<1> HIDE DEF s
<1>3. s \in StreamIds /\ streams[s].state = "unused" BY SMTT(40), ZenonT(40), <1>2
<1>4. streams[s] = NewStream BY <1>3 DEF IInv, StreamsOK, StreamOK
<1>5. /\ DOMAIN st = {"state", "agent", "requests", "responses", "watch", "nonce"}
      /\ st.state = "open" /\ st.agent = <<a>> /\ st.requests = <<Request(0, 0)>>
      /\ st.responses = << >> /\ st.watch = NoWatch
  BY <1>4 DEF NewStream
<1>6. AgentOK(a, agents[a], scraped[a], streams) BY DEF IInv, AgentsOK
<1>7. /\ DOMAIN p = DOMAIN agents[a] /\ p.pc = "wait" /\ p.stream = <<s>>
      /\ p.received = agents[a].received /\ p.oldSourceList = agents[a].oldSourceList
  BY SMTT(40), ZenonT(40), <1>6 DEF AgentOK
<1> HIDE DEF st, p
<1>8. DOMAIN streams' = StreamIds /\ streams'[s] = st /\ \A i \in StreamIds : i # s => streams'[i] = streams[i]
  BY SMTT(40), ZenonT(40), <1>1, <1>3 DEF IInv, StreamsOK
<1>9. AtMostOne(st.requests) /\ AtMostOne(st.responses) BY <1>5 DEF AtMostOne, Range
<1>10. st.watch.state = "none" BY <1>5 DEF NoWatch
<1>11. StreamOK(st) BY SMTT(40), ZenonT(40), <1>5, <1>9, <1>10 DEF StreamOK
<1>12. AgentOK(a, p, scraped[a], streams') BY SMTT(40), ZenonT(40), <1>3, <1>5, <1>6, <1>7, <1>8 DEF AgentOK
<1>13. /\ OfSeq(st.responses) \subseteq Held /\ OfWatch(st.watch) \subseteq Held
       /\ OfSeq(p.received) \subseteq Held
  BY SMTT(40), ZenonT(40), <1>5, <1>7, <1>10, Elements, Holders DEF OfWatch
<1>14. \A q \in Held : q[1] # st.requests[1].version
  <2>1. st.requests[1].version = 0 BY SMTT(40), ZenonT(40), <1>5 DEF Request
  <2> QED BY SMTT(40), ZenonT(40), <2>1 DEF IInv, VersionsUnique
<1>15. \A g \in scraped[a] : Arrived(g) BY SMTT(40), ZenonT(40) DEF IInv, TagsArrive, Arrived
<1>16. DOMAIN scraped = setup.agents BY SMTT(40), ZenonT(40) DEF IInv, AgentsOK
<1>17. \A i \in StreamIds : i # s /\ streams[i].state = "open" => streams[i].agent # <<a>>
  BY ZenonT(60), <1>1, OnlyStream
<1>18. /\ DOMAIN scraped' = setup.agents /\ scraped'[a] = scraped[a]
       /\ \A b \in setup.agents : b # a => scraped'[b] = scraped[b]
  BY <1>1, <1>16
<1>19. Agrees(a, p, scraped[a], s, st)
  BY <1>3, <1>5, <1>7, <1>10, <1>11, <1>13, <1>14, <1>15, <1>17 DEF Agrees
<1>20. Becomes(a, p, scraped[a], s, st) BY SMTT(40), ZenonT(40), <1>1, <1>8, <1>12, <1>18 DEF Becomes
<1> QED BY <1>3, <1>19, <1>20, OneAgent

\* What is converted from genuine assignments has their tags.
LEMMA ConvertedArrives ==
    ASSUME NEW assignments, \A x \in assignments : Genuine(x), NEW g \in ConvertAll(assignments)
    PROVE  Arrived(g)
<1>1. PICK x \in assignments : g \in Convert(x) BY DEF ConvertAll
<1>2. PICK d \in Known : x.name = assignmentName(d) /\ TagsKept(d, x.labels) BY SMTT(40), ZenonT(40) DEF Genuine
<1>3. PICK w \in Range(setup.worlds) : d \in w.dataplanes BY DEF Known
<1>4. g.source = subSourceName(assignmentName(d), 0) /\ g.labels = x.labels BY SMTT(40), ZenonT(40), <1>1, <1>2 DEF Convert
<1> QED BY <1>2, <1>3, <1>4 DEF Arrived

LEMMA WaitForAssignmentsKeeps == ASSUME IInv, NEW a \in setup.agents, WaitForAssignments(a) PROVE IInv'
<1> DEFINE s == agents[a].stream[1]
<1>1. agents[a].pc = "wait" /\ streams[s].responses # << >> BY ZenonT(60) DEF WaitForAssignments
<1>2. /\ s \in StreamIds /\ agents[a].stream = <<s>>
      /\ streams[s].state # "unused" /\ streams[s].agent = <<a>> /\ StreamOK(streams[s])
  BY SMTT(40), ZenonT(40), <1>1, ItsStream
<1>3. PICK x : streams[s].responses = <<x>> BY ZenonT(60), <1>1, <1>2, One DEF StreamOK
<1>4. Head(streams[s].responses) = x /\ Tail(streams[s].responses) = << >> BY SMTT(40), ZenonT(40), <1>3
<1> DEFINE groups == ConvertAll(Collected(x.items))
           new == buildSourceList(groups)
           st == [streams[s] EXCEPT !.responses = << >>]
           p  == [agents[a] EXCEPT !.oldSourceList = new, !.pc = "ack", !.received = <<x>>]
<1>5. AgentOK(a, agents[a], scraped[a], streams) BY DEF IInv, AgentsOK
<1>6. DOMAIN agents = setup.agents /\ DOMAIN scraped = setup.agents /\ DOMAIN streams = StreamIds
  BY SMTT(40), ZenonT(40) DEF IInv, AgentsOK, StreamsOK
<1>7. UNCHANGED <<setup, world, snapshot, watchdogs>> BY ZenonT(60) DEF WaitForAssignments
<1>8. streams' = [streams EXCEPT ![s] = st]
  <2>1. streams' = [streams EXCEPT ![s].responses = Tail(@)] BY ZenonT(60) DEF WaitForAssignments
  <2> QED BY ZenonT(60), <1>2, <1>4, <1>6, <2>1
<1>9. Handle(a, Collected(x.items)) BY ZenonT(60), <1>4 DEF WaitForAssignments, Collected
<1>10. agents' = [agents EXCEPT ![a] = p]
  <2>1. agents' = [agents EXCEPT ![a].oldSourceList = new, ![a].pc = "ack",
                                 ![a].received = <<Head(streams[s].responses)>>]
    BY SMTT(40), ZenonT(40), <1>9 DEF Handle
  <2> HIDE DEF new
  <2> QED BY ZenonT(60), <1>4, <1>6, <2>1
<1>11. scraped' = [scraped EXCEPT ![a] = groups]
  <2>1. scraped' = [scraped EXCEPT ![a] =
           Announced(@, groups \cup buildRemovedGroups(agents[a].oldSourceList, new))]
    BY <1>9 DEF Handle
  <2>2. \A g \in scraped[a] : g.source \in agents[a].oldSourceList BY <1>5 DEF AgentOK
  <2>3. Announced(scraped[a], groups \cup buildRemovedGroups(agents[a].oldSourceList, new)) = groups
    BY SMTT(40), ZenonT(40), <2>2, AnnouncedAll
  <2> HIDE DEF groups, new
  <2> QED BY ZenonT(60), <1>6, <2>1, <2>3
<1>12. \A g \in groups : g.source \in new BY SMTT(40), ZenonT(40) DEF buildSourceList
<1>13. <<x.version, x.items>> \in Held
  <2>1. OfSeq(streams[s].responses) = {<<x.version, x.items>>} BY SMTT(40), ZenonT(40), <1>3, Elements
  <2> QED BY SMTT(40), ZenonT(40), <1>2, <2>1, Holders
<1>14. \A g \in groups : Arrived(g)
  <2> DEFINE q == <<x.version, x.items>>
  <2>1. q[2] = x.items BY SMTT(40), ZenonT(40)
  <2>2. \A y \in Collected(q[2]) : Genuine(y) BY <1>13 DEF IInv, VersionsUnique
  <2> QED BY <2>1, <2>2, ConvertedArrives
<1> HIDE DEF groups, new, s
<1>15. /\ DOMAIN st = DOMAIN streams[s] /\ st.state = streams[s].state /\ st.agent = <<a>>
       /\ st.requests = streams[s].requests /\ st.responses = << >> /\ st.watch = streams[s].watch
  BY <1>2 DEF StreamOK
<1>16. /\ DOMAIN p = DOMAIN agents[a] /\ p.pc = "ack" /\ p.stream = <<s>> /\ p.received = <<x>>
       /\ p.oldSourceList = new
  BY SMTT(40), ZenonT(40), <1>2, <1>5 DEF AgentOK
<1> HIDE DEF st, p
<1>17. st.requests = << >> /\ st.watch.state = "none" BY SMTT(40), ZenonT(40), <1>1, <1>2, <1>15 DEF StreamOK
<1>18. AtMostOne(st.requests) /\ AtMostOne(st.responses) /\ AtMostOne(p.received) /\ x \in Range(p.received)
  BY SMTT(40), ZenonT(40), <1>15, <1>16, <1>17 DEF AtMostOne, Range
<1>19. StreamOK(st) BY SMTT(40), ZenonT(40), <1>2, <1>15, <1>17, <1>18 DEF StreamOK
<1>20. /\ DOMAIN streams' = StreamIds /\ streams'[s] = st
       /\ \A i \in StreamIds : i # s => streams'[i] = streams[i]
       /\ DOMAIN scraped' = setup.agents /\ scraped'[a] = groups
       /\ \A b \in setup.agents : b # a => scraped'[b] = scraped[b]
  BY SMTT(40), ZenonT(40), <1>2, <1>6, <1>8, <1>11
<1>21. AgentOK(a, p, groups, streams')
  <2>1. Quiet(streams'[p.stream[1]])
    <3>1. p.stream[1] = s BY <1>16
    <3>2. Quiet(st) BY <1>15, <1>17 DEF Quiet
    <3> QED BY <3>1, <3>2, <1>20
  <2>2. groups = ConvertAll(Collected(x.items)) BY DEF groups
  <2>3. streams'[s].state # "unused" /\ streams'[s].agent = <<a>> BY <1>2, <1>15, <1>20
  <2> QED BY ZenonT(60), <1>2, <1>5, <1>12, <1>16, <1>18, <2>1, <2>2, <2>3 DEF AgentOK
<1>22. Becomes(a, p, groups, s, st) BY <1>7, <1>10, <1>20, <1>21 DEF Becomes
<1>23. /\ OfSeq(st.responses) \subseteq Held /\ OfWatch(st.watch) \subseteq Held
       /\ OfSeq(p.received) \subseteq Held
  BY SMTT(40), ZenonT(40), <1>13, <1>15, <1>16, <1>17, Elements DEF OfWatch
<1>24. \A i \in StreamIds : i # s /\ streams[i].state = "open" => streams[i].agent # <<a>>
  BY SMTT(40), ZenonT(40), <1>2, OnlyStream
<1>25. Agrees(a, p, groups, s, st)
  BY ZenonT(60), <1>2, <1>14, <1>15, <1>16, <1>17, <1>19, <1>23, <1>24 DEF Agrees
<1> QED BY ZenonT(60), <1>2, <1>22, <1>25, OneAgent

\* An agent gives up its stream, which is not open.
LEMMA GivesUp ==
    ASSUME IInv, NEW a \in setup.agents, agents[a].pc # "start",
           streams[agents[a].stream[1]].state # "open",
           UNCHANGED <<setup, world, snapshot, watchdogs, scraped, streams>>,
           NEW p, agents' = [agents EXCEPT ![a] = p], DOMAIN p = DOMAIN agents[a], p.pc = "start",
           p.received \in {<< >>, agents[a].received}, p.oldSourceList = agents[a].oldSourceList
    PROVE  IInv'
<1> DEFINE s == agents[a].stream[1]
<1>1. /\ s \in StreamIds /\ agents[a].stream = <<s>>
      /\ streams[s].state # "unused" /\ streams[s].agent = <<a>> /\ StreamOK(streams[s])
  BY ZenonT(60), ItsStream
<1>2. AgentOK(a, agents[a], scraped[a], streams) BY ZenonT(60) DEF IInv, AgentsOK
<1>3. AtMostOne(p.received) BY SMTT(40), ZenonT(40), <1>2 DEF AgentOK, AtMostOne
<1>4. AgentOK(a, p, scraped[a], streams') BY ZenonT(60), <1>2, <1>3 DEF AgentOK
<1>5. DOMAIN scraped = setup.agents /\ DOMAIN streams = StreamIds BY ZenonT(60) DEF IInv, AgentsOK, StreamsOK
<1> HIDE DEF s
<1>6. Becomes(a, p, scraped[a], s, streams[s]) BY SMTT(40), ZenonT(40), <1>4, <1>5 DEF Becomes
<1>7. /\ OfSeq(streams[s].responses) \subseteq Held /\ OfWatch(streams[s].watch) \subseteq Held
      /\ OfSeq(p.received) \subseteq Held
  BY SMTT(40), ZenonT(40), <1>1, Elements, Holders
<1>8. \A g \in scraped[a] : Arrived(g) BY ZenonT(60) DEF IInv, TagsArrive, Arrived
<1>9. \A i \in StreamIds : i # s /\ streams[i].state = "open" => streams[i].agent # <<a>>
  BY SMTT(40), ZenonT(40), <1>1, OnlyStream
<1>10. streams[s].state # "open" BY DEF s
<1>11. Agrees(a, p, scraped[a], s, streams[s]) BY ZenonT(60), <1>1, <1>7, <1>8, <1>9, <1>10 DEF Agrees
<1> QED BY ZenonT(60), <1>1, <1>6, <1>11, OneAgent

LEMMA StreamEndsKeeps == ASSUME IInv, NEW a \in setup.agents, StreamEnds(a) PROVE IInv'
<1> DEFINE p == [agents[a] EXCEPT !.pc = "start", !.stream = << >>]
<1>1. /\ agents[a].pc = "wait" /\ streams[agents[a].stream[1]].state # "open"
      /\ UNCHANGED <<setup, world, snapshot, watchdogs, scraped, streams>>
      /\ agents' = [agents EXCEPT ![a].pc = "start", ![a].stream = << >>]
  BY DEF StreamEnds
<1>2. DOMAIN agents = setup.agents /\ AgentOK(a, agents[a], scraped[a], streams) BY DEF IInv, AgentsOK
<1>3. agents' = [agents EXCEPT ![a] = p] BY ZenonT(60), <1>1, <1>2
<1>4. /\ DOMAIN p = DOMAIN agents[a] /\ p.pc = "start" /\ p.received = agents[a].received
      /\ p.oldSourceList = agents[a].oldSourceList
  BY <1>2 DEF AgentOK
<1> HIDE DEF p
<1> QED BY ZenonT(60), <1>1, <1>3, <1>4, GivesUp

LEMMA ACKKeeps == ASSUME IInv, NEW a \in setup.agents, ACK(a) PROVE IInv'
<1> DEFINE s == agents[a].stream[1]
<1>1. agents[a].pc = "ack" /\ UNCHANGED <<setup, world, snapshot, watchdogs, scraped>> BY ZenonT(60) DEF ACK
<1>2. /\ s \in StreamIds /\ agents[a].stream = <<s>>
      /\ streams[s].state # "unused" /\ streams[s].agent = <<a>> /\ StreamOK(streams[s])
  BY ZenonT(60), <1>1, ItsStream
<1>3. DOMAIN agents = setup.agents /\ AgentOK(a, agents[a], scraped[a], streams) BY DEF IInv, AgentsOK
<1>4. DOMAIN scraped = setup.agents /\ DOMAIN streams = StreamIds BY DEF IInv, AgentsOK, StreamsOK
<1>5. CASE streams[s].state # "open"
  <2> DEFINE p == [agents[a] EXCEPT !.pc = "start", !.received = << >>, !.stream = << >>]
  <2>1. /\ UNCHANGED streams
        /\ agents' = [agents EXCEPT ![a].pc = "start", ![a].received = << >>, ![a].stream = << >>]
    BY <1>5 DEF ACK
  <2>2. agents' = [agents EXCEPT ![a] = p] BY ZenonT(60), <1>3, <2>1
  <2>3. /\ DOMAIN p = DOMAIN agents[a] /\ p.pc = "start" /\ p.received = << >>
        /\ p.oldSourceList = agents[a].oldSourceList
    BY <1>3 DEF AgentOK
  <2> HIDE DEF p
  <2> QED BY ZenonT(60), <1>1, <1>5, <2>1, <2>2, <2>3, GivesUp
<1>6. CASE streams[s].state = "open"
  <2>1. PICK r \in Range(agents[a].received) :
           agents[a].received = <<r>> /\ scraped[a] = ConvertAll(Collected(r.items))
    BY SMTT(40), ZenonT(40), <1>1, <1>3 DEF AgentOK
  <2>2. Quiet(streams[s]) BY SMTT(40), ZenonT(40), <1>1, <1>3 DEF AgentOK
  <2> DEFINE req == Request(r.version, r.nonce)
             st == [streams[s] EXCEPT !.requests = <<req>>]
             p  == [agents[a] EXCEPT !.pc = "wait", !.received = << >>]
  <2>3. agents[a].received[1] = r /\ Append(streams[s].requests, req) = <<req>>
    BY SMTT(40), ZenonT(40), <2>1, <2>2 DEF Quiet
  <2>4. /\ streams' = [streams EXCEPT ![s].requests = Append(@, req)]
        /\ agents' = [agents EXCEPT ![a].pc = "wait", ![a].received = << >>]
    BY <1>6, <2>3 DEF ACK
  <2>5. req.version = r.version BY SMTT(40), ZenonT(40) DEF Request
  <2> HIDE DEF req
  <2>6. streams' = [streams EXCEPT ![s] = st] BY SMTT(40), ZenonT(40), <1>2, <1>4, <2>3, <2>4
  <2>7. agents' = [agents EXCEPT ![a] = p] BY ZenonT(60), <1>3, <2>4
  <2> HIDE DEF s
  <2>8. /\ DOMAIN st = DOMAIN streams[s] /\ st.state = "open" /\ st.agent = <<a>>
        /\ st.requests = <<req>> /\ st.responses = << >> /\ st.watch = streams[s].watch
    BY <1>2, <1>6, <2>2 DEF StreamOK, Quiet
  <2>9. /\ DOMAIN p = DOMAIN agents[a] /\ p.pc = "wait" /\ p.stream = <<s>> /\ p.received = << >>
        /\ p.oldSourceList = agents[a].oldSourceList
    BY <1>2, <1>3 DEF AgentOK
  <2> HIDE DEF st, p
  <2>10. st.watch.state = "none" BY <2>2, <2>8 DEF Quiet
  <2>11. AtMostOne(st.requests) /\ AtMostOne(st.responses) /\ AtMostOne(p.received)
    BY SMTT(40), ZenonT(40), <2>8, <2>9 DEF AtMostOne, Range
  <2>12. StreamOK(st) BY SMTT(40), ZenonT(40), <1>2, <2>8, <2>10, <2>11 DEF StreamOK
  <2>13. /\ DOMAIN streams' = StreamIds /\ streams'[s] = st
         /\ \A i \in StreamIds : i # s => streams'[i] = streams[i]
    BY SMTT(40), ZenonT(40), <1>2, <1>4, <2>6
  <2>14. AgentOK(a, p, scraped[a], streams')
    <3>1. streams'[s].state # "unused" /\ streams'[s].agent = <<a>> BY SMTT(40), ZenonT(40), <2>8, <2>13
    <3> QED BY ZenonT(60), <1>2, <1>3, <2>9, <2>11, <3>1 DEF AgentOK
  <2>15. Becomes(a, p, scraped[a], s, st) BY SMTT(40), ZenonT(40), <1>1, <1>4, <2>7, <2>13, <2>14 DEF Becomes
  <2>16. ASSUME NEW q \in Held, q[1] = st.requests[1].version
         PROVE  scraped[a] = ConvertAll(Collected(q[2]))
    <3> DEFINE h == <<r.version, r.items>>
    <3>1. OfSeq(agents[a].received) = {h} BY SMTT(40), ZenonT(40), <2>1, Elements
    <3>2. h \in Held BY <3>1, Holders
    <3>3. h[1] = r.version /\ h[2] = r.items OBVIOUS
    <3>4. st.requests[1].version = r.version BY SMTT(40), ZenonT(40), <2>5, <2>8
    <3> HIDE DEF h
    <3>5. q[2] = h[2] BY SMTT(40), ZenonT(40), <2>16, <3>2, <3>3, <3>4 DEF IInv, VersionsUnique
    <3> QED BY SMTT(40), ZenonT(40), <2>1, <3>3, <3>5
  <2>17. /\ OfSeq(st.responses) \subseteq Held /\ OfWatch(st.watch) \subseteq Held
         /\ OfSeq(p.received) \subseteq Held
    BY SMTT(40), ZenonT(40), <2>8, <2>9, <2>10, Elements DEF OfWatch
  <2>18. \A i \in StreamIds : i # s /\ streams[i].state = "open" => streams[i].agent # <<a>>
    BY SMTT(40), ZenonT(40), <1>2, OnlyStream
  <2>19. \A g \in scraped[a] : Arrived(g) BY SMTT(40), ZenonT(40) DEF IInv, TagsArrive, Arrived
  <2>20. Agrees(a, p, scraped[a], s, st)
    BY ZenonT(60), <1>2, <2>8, <2>9, <2>10, <2>12, <2>16, <2>17, <2>18, <2>19 DEF Agrees
  <2> QED BY <1>2, <2>15, <2>20, OneAgent
<1> QED BY <1>5, <1>6
-----------------------------------------------------------------------------
(* The theorems                                                             *)

LEMMA Inductive == IInv /\ [Next]_vars => IInv'
<1> SUFFICES ASSUME IInv, [Next]_vars PROVE IInv' BY SMTT(40), ZenonT(40)
<1>1. CASE UNCHANGED vars
  <2>1. UNCHANGED <<setup, world, snapshot, streams, watchdogs, agents, scraped>> BY <1>1 DEF vars
  <2>2. StoreOK' BY SMTT(40), ZenonT(40), <2>1, StoreKept DEF IInv, StoreOK
  <2>3. WatchdogsOK' BY <2>1 DEF IInv, WatchdogsOK, Known
  <2> QED BY ZenonT(60), <2>1, <2>2, <2>3, Holders, OnlyWatchdogs
<1>2. CASE Change BY <1>2, ChangeKeeps
<1>3. ASSUME NEW s \in StreamIds, OnTick(s) PROVE IInv'
  BY SMTT(40), ZenonT(40), <1>3, getMeshesKeeps, getDataplanesKeeps, ReconcileKeeps, SetSnapshotKeeps DEF OnTick
<1>4. ASSUME NEW s \in StreamIds, OnError(s) \/ StopWatchdog(s) PROVE IInv'
  BY SMTT(40), ZenonT(40), <1>4, OnErrorKeeps, StopWatchdogKeeps
<1>5. ASSUME NEW s \in StreamIds, ServerStep(s) \/ Break(s) PROVE IInv'
  BY SMTT(40), ZenonT(40), <1>5, ProcessRequestKeeps, ProcessResponseKeeps, ProcessEndKeeps, BreakKeeps DEF ServerStep
<1>6. ASSUME NEW a \in setup.agents, AgentStep(a) PROVE IInv'
  BY <1>6, StartStreamKeeps, WaitForAssignmentsKeeps, ACKKeeps, StreamEndsKeeps DEF AgentStep
<1> QED BY ZenonT(60), <1>1, <1>2, <1>3, <1>4, <1>5, <1>6 DEF Next

\* Who holds which assignments under which version, at any time.
THEOREM Invariant == Spec => []IInv
BY Initially, Inductive, PTL DEF Spec

\* Tags arrive as labels, whatever other tags, names and meshes there are, and
\* however often versions, snapshots and streams are replaced on the way from
\* the generator to the file of the agent.
THEOREM TagsAlwaysArrive == Spec => []TagsArrive
<1>1. IInv => TagsArrive BY SMTT(40), ZenonT(40) DEF IInv
<1> QED BY <1>1, Invariant, PTL

\* An agent whose watch the server keeps open scrapes exactly the assignments of
\* the snapshot, for any number of agents, streams and watchdogs that replace it.
THEOREM WaitingAlwaysHasAll == Spec => []WaitingHasAll
<1>1. IInv => WaitingHasAll
  <2> SUFFICES ASSUME IInv, NEW s \in StreamIds, streams[s].state = "open",
                      streams[s].watch.state = "open", snapshot # << >>
               PROVE  scraped[streams[s].agent[1]] = ConvertAll(Collected(snapshot[1][Assignments].items))
    BY ZenonT(60) DEF WaitingHasAll, Collected
  <2>1. PICK a \in setup.agents : streams[s].agent = <<a>> BY DEF IInv, StreamsOK
  <2>2. streams[s].agent[1] = a BY <2>1
  <2>3. PICK x : snapshot = <<x>> BY One DEF IInv, StoreOK
  <2> DEFINE p == <<x[Assignments].version, x[Assignments].items>>
  <2>4. OfSnap(snapshot) = {p} BY SMTT(40), ZenonT(40), <2>3, Elements
  <2>5. p \in Held BY SMTT(40), ZenonT(40), <2>4, Holders
  <2>6. snapshot[1] = x BY SMTT(40), ZenonT(40), <2>3
  <2>7. /\ Scrapes(a, streams[s].watch.request.version)
        /\ x[Assignments].version = streams[s].watch.request.version
    BY SMTT(40), ZenonT(40), <2>1, <2>6 DEF IInv, VersionsScraped
  <2>8. p[1] = x[Assignments].version /\ p[2] = x[Assignments].items BY SMTT(40), ZenonT(40)
  <2> HIDE DEF p
  <2>9. scraped[a] = ConvertAll(Collected(p[2])) BY <2>5, <2>7, <2>8 DEF Scrapes
  <2> QED BY SMTT(40), ZenonT(40), <2>2, <2>6, <2>8, <2>9
<1> QED BY <1>1, Invariant, PTL
=============================================================================
