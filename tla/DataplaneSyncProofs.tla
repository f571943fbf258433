------------------------ MODULE DataplaneSyncProofs ------------------------
(***************************************************************************)
(* Proofs about DataplaneSync: type correctness, the consistency of        *)
(* versions under every interleaving of the watchdogs, and that the cache  *)
(* implements VersionedSnapshot.                                           *)
(***************************************************************************)
EXTENDS DataplaneSync, TLAPS

\* The inductive invariant: versions are consistent only among well-formed
\* snapshots, and these come from generators that ran on found resources.
IInv == TypeOK /\ GeneratesFromFound /\ VersionsConsistent

\* The empty snapshot and what Get() yields are snapshots.
LEMMA SnapshotTypes ==
    ASSUME TypeOK
    PROVE  /\ EmptySnapshot \in Snapshots
           /\ Current \in Snapshots
  BY NamesAssumption DEF TypeOK, EmptySnapshot, Current, Snapshots, Resources, Versions

\* newUUID returns a version string nobody holds, if there is one left.
LEMMA FreshVersion ==
    ASSUME NEW t \in Types, UUIDs \ InUse(t) # {}
    PROVE  newUUID(t) \in UUIDs /\ newUUID(t) \notin InUse(t)
  BY DEF newUUID

\* Every compared copy has a version that newUUID avoids.
LEMMA HoldersInUse ==
    ASSUME NEW t \in Types, NEW a \in Holders(t)
    PROVE  a.version \in InUse(t)
  BY DEF Holders, InUse

\* A versioned item set is well formed.
LEMMA ReuseVersionType ==
    ASSUME NEW t \in Types, NEW old \in Resources, NEW new \in Resources,
           UUIDs \ InUse(t) # {}
    PROVE  /\ reuseVersion(t, old, new) \in Resources
           /\ \/ reuseVersion(t, old, new) = old
              \/ /\ reuseVersion(t, old, new).version \in UUIDs
                 /\ reuseVersion(t, old, new).version \notin InUse(t)
<1>1. newUUID(t) \in UUIDs /\ newUUID(t) \notin InUse(t)
  BY FreshVersion
<1>2. newUUID(t) \in Versions
  BY <1>1 DEF Versions
<1>3. CASE old.items = new.items
  BY <1>3 DEF reuseVersion, Resources
<1>4. CASE old.items # new.items
  BY <1>1, <1>2, <1>4 DEF reuseVersion, Resources
<1> QED
  BY <1>3, <1>4

\* When the control plane starts nothing is cached, read or handed out.
LEMMA InitInvariant == Init => IInv
<1> SUFFICES ASSUME Init PROVE IInv
  OBVIOUS
<1>1. EmptySnapshot \in Snapshots
  BY NamesAssumption DEF EmptySnapshot, Snapshots, Resources, Versions
<1>2. TypeOK
  BY <1>1 DEF Init, TypeOK, Phases, PCs, NothingRead, Reads
<1>3. GeneratesFromFound
  BY ZenonT(60) DEF Init, GeneratesFromFound
<1>4. \A t \in Types : \A a \in Holders(t) : a = EmptySnapshot[t]
  BY DEF Init, Holders, Current
<1>5. \A t \in Types : EmptySnapshot[t].items = NoItems
  BY DEF EmptySnapshot
<1>6. VersionsConsistent
  BY <1>4, <1>5 DEF VersionsConsistent
<1> QED
  BY <1>2, <1>3, <1>6 DEF IInv

\* Type correctness is preserved by every step.
LEMMA NextTypeOK ==
    ASSUME TypeOK, GeneratesFromFound, Next
    PROVE  TypeOK'
<1>1. EmptySnapshot \in Snapshots /\ Current \in Snapshots
  BY SnapshotTypes
<1>2. CASE \/ \E d \in Dataplanes \cup {NotFound} : ChangeDataplane(d)
           \/ \E m \in Meshes \cup {NotFound} : ChangeMesh(m)
           \/ \E p \in Policies : ChangePolicies(p)
           \/ ToggleStore
  BY ZenonT(60), <1>2 DEF TypeOK, ChangeDataplane, ChangeMesh, ChangePolicies, ToggleStore,
              streamVars, watchdogVars
<1>3. ASSUME NEW s \in Streams,
             \/ OnStreamOpen(s)
             \/ \E n \in Metas \cup {None} : OnStreamRequest(s, n)
             \/ OnStreamClosedMetadata(s)
             \/ Callbacks(s)
      PROVE  TypeOK'
  <2>1. CASE OnStreamOpen(s) \/ OnStreamClosedMetadata(s)
    BY <2>1 DEF TypeOK, OnStreamOpen, OnStreamClosedMetadata, resourceVars, watchdogVars,
                Phases
  <2>2. ASSUME NEW n \in Metas \cup {None}, OnStreamRequest(s, n)
        PROVE  TypeOK'
    BY <2>2 DEF TypeOK, OnStreamRequest, resourceVars, Phases, PCs
  <2>3. CASE OnStreamRequestMetadata(s)
    BY <2>3 DEF TypeOK, OnStreamRequestMetadata, resourceVars, watchdogVars, Phases
  <2>4. CASE OnStreamClosed(s)
    <3>1. stopping' \in [Streams -> BOOLEAN]
      BY <2>4, ZenonT(60) DEF TypeOK, OnStreamClosed
    <3> QED
      BY <2>4, <3>1 DEF TypeOK, OnStreamClosed, resourceVars, watchdogVars, Phases
  <2> QED
    BY <1>3, <2>1, <2>2, <2>3, <2>4 DEF Callbacks
<1>4. ASSUME NEW s \in Streams, Tick(s)
      PROVE  TypeOK'
  <2>1. CASE GetDataplane(s) \/ GetMesh(s) \/ GetPolicies(s) \/ OnError(s)
    <3>1. NothingRead \in Reads
      BY DEF NothingRead, Reads
    <3>2. /\ [read[s] EXCEPT !.dataplane = dataplane] \in Reads
          /\ [read[s] EXCEPT !.mesh = mesh] \in Reads
          /\ [read[s] EXCEPT !.policies = policies] \in Reads
      BY DEF TypeOK, Reads
    <3>3. read' \in [Streams -> Reads]
      BY <2>1, <3>1, <3>2 DEF TypeOK, GetDataplane, GetMesh, GetPolicies, OnError, Abandon
    <3>4. pc' \in [Streams -> PCs]
      BY <2>1 DEF TypeOK, GetDataplane, GetMesh, GetPolicies, OnError, Abandon, PCs
    <3>5. UNCHANGED <<resourceVars, streamVars, fresh, snapshot, received>>
      BY <2>1 DEF GetDataplane, GetMesh, GetPolicies, OnError
    <3> QED
      BY <3>3, <3>4, <3>5 DEF TypeOK, resourceVars, streamVars
  <2>2. CASE Clear(s)
    BY <1>1, <2>2 DEF TypeOK, Clear, resourceVars, streamVars, PCs
  <2>3. CASE GenerateSnapshot(s)
    <3> DEFINE items == Generate(read[s].dataplane, read[s].mesh, read[s].policies,
                                 MetadataOf(s))
               new == [t \in Types |-> [version |-> EmptyVersion, items |-> items[t]]]
    <3>1. /\ read[s].dataplane \in Dataplanes
          /\ read[s].mesh \in Meshes
          /\ read[s].policies \in Policies
      BY <2>3 DEF TypeOK, Reads, GeneratesFromFound, GenerateSnapshot
    <3>2. MetadataOf(s) \in Metas \cup {EmptyMeta}
      BY DEF TypeOK, MetadataOf
    <3>3. items \in [Types -> Items] \cup {Error}
      BY <3>1, <3>2, GenerateAssumption
    <3>4. items # Error => new \in Snapshots
      BY <3>3 DEF Snapshots, Resources, Versions
    <3> HIDE DEF items, new
    <3>5. \/ Abandon(s) /\ UNCHANGED fresh
          \/ /\ items # Error
             /\ fresh' = [fresh EXCEPT ![s] = new]
             /\ read' = [read EXCEPT ![s] = NothingRead]
             /\ pc' = [pc EXCEPT ![s] = "version"]
      BY <2>3 DEF GenerateSnapshot, items, new
    <3>6. UNCHANGED <<resourceVars, streamVars, snapshot, received>>
      BY <2>3 DEF GenerateSnapshot
    <3>7. NothingRead \in Reads
      BY DEF NothingRead, Reads
    <3> QED
      BY <3>4, <3>5, <3>6, <3>7 DEF TypeOK, Abandon, resourceVars, streamVars, PCs
  <2>4. CASE autoVersion(s)
    <3> DEFINE new == [t \in Types |-> reuseVersion(t, Current[t], fresh[s][t])]
    <3>1. \A t \in Types : Current[t] \in Resources /\ fresh[s][t] \in Resources
      BY <1>1 DEF TypeOK, Snapshots
    <3>2. new \in Snapshots
      BY <2>4, <3>1, ReuseVersionType DEF autoVersion, Snapshots
    <3> HIDE DEF new
    <3>3. /\ fresh' = [fresh EXCEPT ![s] = new]
          /\ pc' = [pc EXCEPT ![s] = "cache"]
          /\ UNCHANGED <<resourceVars, streamVars, read, snapshot, received>>
      BY <2>4 DEF autoVersion, new
    <3> QED
      BY <3>2, <3>3 DEF TypeOK, resourceVars, streamVars, PCs
  <2>5. CASE Cache(s)
    BY <1>1, <2>5 DEF TypeOK, Cache, resourceVars, streamVars, PCs
  <2> QED
    BY <1>4, <2>1, <2>2, <2>3, <2>4, <2>5 DEF Tick
<1>5. ASSUME NEW s \in Streams, Stop(s)
      PROVE  TypeOK'
  BY <1>5 DEF TypeOK, Stop, resourceVars, PCs
<1>6. ASSUME NEW r \in Receivers, NEW t \in Types, Respond(r, t)
      PROVE  TypeOK'
  BY <1>6 DEF TypeOK, Respond, resourceVars, streamVars, watchdogVars, Snapshots
<1> QED
  BY <1>2, <1>3, <1>4, <1>5, <1>6 DEF Next

\* A tick reaches the generators only with resources it has found.
LEMMA NextGeneratesFromFound ==
    ASSUME TypeOK, GeneratesFromFound, Next
    PROVE  GeneratesFromFound'
<1>1. CASE \/ \E d \in Dataplanes \cup {NotFound} : ChangeDataplane(d)
           \/ \E m \in Meshes \cup {NotFound} : ChangeMesh(m)
           \/ \E p \in Policies : ChangePolicies(p)
           \/ ToggleStore
           \/ \E r \in Receivers, t \in Types : Respond(r, t)
  BY <1>1 DEF GeneratesFromFound, ChangeDataplane, ChangeMesh, ChangePolicies, ToggleStore,
              Respond, watchdogVars
<1>2. ASSUME NEW s \in Streams,
             \/ OnStreamOpen(s)
             \/ \E n \in Metas \cup {None} : OnStreamRequest(s, n)
             \/ OnStreamClosedMetadata(s)
             \/ Callbacks(s)
             \/ Stop(s)
      PROVE  GeneratesFromFound'
  BY <1>2 DEF TypeOK, GeneratesFromFound, OnStreamOpen, OnStreamRequest, Stop,
              OnStreamClosedMetadata, Callbacks, OnStreamRequestMetadata, OnStreamClosed,
              watchdogVars
<1>3. ASSUME NEW s \in Streams, Tick(s)
      PROVE  GeneratesFromFound'
  <2>1. CASE GetDataplane(s)
    BY <2>1 DEF TypeOK, Reads, GeneratesFromFound, GetDataplane
  <2>2. CASE GetMesh(s)
    BY <2>2 DEF TypeOK, Reads, GeneratesFromFound, GetMesh, Abandon
  <2>3. CASE GetPolicies(s)
    BY <2>3, NamesAssumption DEF TypeOK, Reads, GeneratesFromFound, GetPolicies
  <2>4. CASE OnError(s) \/ GenerateSnapshot(s)
    BY <2>4 DEF TypeOK, GeneratesFromFound, OnError, GenerateSnapshot, Abandon
  <2>5. CASE Clear(s) \/ autoVersion(s) \/ Cache(s)
    BY <2>5 DEF TypeOK, GeneratesFromFound, Clear, autoVersion, Cache
  <2> QED
    BY <1>3, <2>1, <2>2, <2>3, <2>4, <2>5 DEF Tick
<1> QED
  BY <1>1, <1>2, <1>3 DEF Next

\* A step after which every compared copy is one that was compared before
\* keeps the versions consistent.
LEMMA SameHolders ==
    ASSUME VersionsConsistent,
           \A t \in Types : \A a \in Holders(t)' : a \in Holders(t)
    PROVE  VersionsConsistent'
  BY DEF VersionsConsistent

\* Versions stay consistent under every step, whichever watchdogs are
\* between autoVersion and Cache.
LEMMA NextVersionsConsistent ==
    ASSUME TypeOK, VersionsConsistent, Next
    PROVE  VersionsConsistent'
<1>1. EmptySnapshot \in Snapshots /\ Current \in Snapshots
  BY SnapshotTypes
<1>2. CASE \/ \E d \in Dataplanes \cup {NotFound} : ChangeDataplane(d)
           \/ \E m \in Meshes \cup {NotFound} : ChangeMesh(m)
           \/ \E p \in Policies : ChangePolicies(p)
           \/ ToggleStore
  BY <1>2, SameHolders DEF ChangeDataplane, ChangeMesh, ChangePolicies, ToggleStore,
                           watchdogVars, Holders, Current
<1>3. ASSUME NEW s \in Streams,
             \/ OnStreamOpen(s)
             \/ \E n \in Metas \cup {None} : OnStreamRequest(s, n)
             \/ OnStreamClosedMetadata(s)
             \/ Callbacks(s)
             \/ Stop(s)
      PROVE  VersionsConsistent'
  <2>1. /\ fresh' = fresh /\ snapshot' = snapshot /\ received' = received
        /\ \A x \in Streams : pc'[x] = "cache" => pc[x] = "cache"
    BY <1>3 DEF TypeOK, OnStreamOpen, OnStreamRequest, OnStreamClosedMetadata, Callbacks,
                OnStreamRequestMetadata, OnStreamClosed, Stop, watchdogVars
  <2> QED
    BY <2>1, SameHolders DEF Holders, Current
<1>4. ASSUME NEW s \in Streams, Tick(s)
      PROVE  VersionsConsistent'
  <2>1. CASE \/ GetDataplane(s) \/ GetMesh(s) \/ GetPolicies(s) \/ OnError(s)
             \/ GenerateSnapshot(s)
    <3>1. /\ snapshot' = snapshot /\ received' = received
          /\ \A x \in Streams : pc'[x] = "cache" => pc[x] = "cache" /\ fresh'[x] = fresh[x]
      BY <2>1 DEF TypeOK, GetDataplane, GetMesh, GetPolicies, OnError, GenerateSnapshot,
                  Abandon
    <3> QED
      BY <3>1, SameHolders DEF Holders, Current
  <2>2. CASE Clear(s)
    <3>1. \A t \in Types : \A a \in Holders(t)' : a \in Holders(t) \cup {EmptySnapshot[t]}
      BY <2>2 DEF TypeOK, Clear, Holders, Current
    <3>2. \A t \in Types : /\ EmptySnapshot[t].version = EmptyVersion
                           /\ EmptySnapshot[t].items = NoItems
      BY DEF EmptySnapshot
    <3> QED
      BY <3>1, <3>2 DEF VersionsConsistent
  <2>3. CASE autoVersion(s)
    <3>1. ASSUME NEW t \in Types
          PROVE  /\ fresh'[s][t] = reuseVersion(t, Current[t], fresh[s][t])
                 /\ UUIDs \ InUse(t) # {}
                 /\ Current[t] \in Resources
                 /\ fresh[s][t] \in Resources
      BY <1>1, <2>3 DEF TypeOK, autoVersion, Snapshots
    <3>2. ASSUME NEW t \in Types
          PROVE  \/ fresh'[s][t] \in Holders(t)
                 \/ /\ fresh'[s][t].version \in UUIDs
                    /\ fresh'[s][t].version \notin InUse(t)
      BY <3>1, ReuseVersionType DEF Holders
    <3>3. ASSUME NEW t \in Types, NEW a \in Holders(t)'
          PROVE  a \in Holders(t) \/ a = fresh'[s][t]
      BY <2>3 DEF TypeOK, autoVersion, Holders, Current
    <3>4. ASSUME NEW t \in Types, NEW a \in Holders(t)', NEW b \in Holders(t)',
                 a.version = b.version
          PROVE  a.items = b.items
      BY <3>2, <3>3, <3>4, HoldersInUse DEF VersionsConsistent
    <3>5. ASSUME NEW t \in Types, NEW a \in Holders(t)', a.version = EmptyVersion
          PROVE  a.items = NoItems
      BY <3>2, <3>3, <3>5, NamesAssumption DEF VersionsConsistent
    <3> QED
      BY <3>4, <3>5 DEF VersionsConsistent
  <2>4. CASE Cache(s)
    <3>1. /\ pc[s] = "cache"
          /\ Current' = fresh[s]
          /\ received' = received
          /\ \A x \in Streams : pc'[x] = "cache" => pc[x] = "cache" /\ fresh'[x] = fresh[x]
      BY <2>4, NotFoundIsNoSnapshot DEF TypeOK, Cache, Current, Snapshots, Resources, Versions
    <3> QED
      BY <3>1, SameHolders DEF Holders
  <2> QED
    BY <1>4, <2>1, <2>2, <2>3, <2>4 DEF Tick
<1>5. ASSUME NEW r \in Receivers, NEW t \in Types, Respond(r, t)
      PROVE  VersionsConsistent'
  <2>1. /\ Current' = Current /\ fresh' = fresh /\ pc' = pc
        /\ \A x \in Receivers, u \in Types :
              received'[x][u] = received[x][u] \/ received'[x][u] = Current[u]
    BY <1>5 DEF TypeOK, Respond, Current, Snapshots, watchdogVars
  <2> QED
    BY <2>1, SameHolders DEF Holders
<1> QED
  BY <1>2, <1>3, <1>4, <1>5 DEF Next

\* The inductive invariant holds in every reachable state.
THEOREM Invariant == Spec => []IInv
<1>1. IInv /\ [Next]_vars => IInv'
  <2> SUFFICES ASSUME IInv, [Next]_vars PROVE IInv'
    OBVIOUS
  <2>1. CASE Next
    BY SMTT(40), ZenonT(40), <2>1, NextTypeOK, NextGeneratesFromFound, NextVersionsConsistent DEF IInv
  <2>2. CASE UNCHANGED vars
    BY <2>2 DEF vars, IInv, TypeOK, GeneratesFromFound, VersionsConsistent, Holders, Current
  <2> QED
    BY <2>1, <2>2
<1> QED
  BY InitInvariant, <1>1, PTL DEF Spec

\* Every variable keeps its type: streams, watchdogs, snapshots and copies
\* are what the Go types make them.
THEOREM TypeCorrect == Spec => []TypeOK
  BY Invariant, PTL DEF IInv

\* However many streams a dataplane has and however their watchdogs
\* interleave, two copies of a resource type under one version have the
\* same contents, snapshots versioned but not yet cached included.
THEOREM VersionsAreConsistent == Spec => []VersionsConsistent
  BY Invariant, PTL DEF IInv

\* The generators run only on resources the tick has found.
THEOREM GenerationIsSafe == Spec => []GeneratesFromFound
  BY Invariant, PTL DEF IInv

\* A receiver that holds the cached version holds the cached contents, so
\* comparing versions is enough for the cache to decide whom to answer.
THEOREM VersionsIdentifyContents == Spec => []VersionIdentifiesContents
<1>1. IInv => VersionIdentifiesContents
  BY DEF IInv, VersionsConsistent, VersionIdentifiesContents, Holders
<1> QED
  BY <1>1, Invariant, PTL

\* The cache and its consumers implement a versioned snapshot.
THEOREM Refinement == Spec => ImplementsVersionedSnapshot
<1>1. Init => VersionedCache!Init
  <2> SUFFICES ASSUME Init PROVE VersionedCache!Init
    OBVIOUS
  <2>1. Current = EmptySnapshot /\ EmptySnapshot \in Snapshots
    BY NamesAssumption DEF Init, Current, EmptySnapshot, Snapshots, Resources, Versions
  <2> QED
    BY <2>1 DEF Init, VersionedCache!Init, Snapshots, Resources, VersionedCache!Resources
<1>2. IInv /\ IInv' /\ [Next]_vars => [VersionedCache!Next]_<<Current, received>>
  <2> SUFFICES ASSUME IInv, IInv', Next
               PROVE  VersionedCache!Next \/ UNCHANGED <<Current, received>>
    BY DEF vars, Current
  <2>1. ASSUME received' = received
        PROVE  VersionedCache!Publish
    <3>1. Current' \in [Types -> VersionedCache!Resources]
      BY NamesAssumption DEF IInv, TypeOK, Current, EmptySnapshot, Snapshots, Resources,
                             Versions, VersionedCache!Resources
    <3>2. ASSUME NEW t \in Types, NEW r \in Receivers
          PROVE  VersionedCache!Compatible(received[r][t], Current'[t])
      BY <2>1 DEF IInv, VersionsConsistent, Holders, VersionedCache!Compatible
    <3> QED
      BY <2>1, <3>1, <3>2 DEF VersionedCache!Publish
  <2>2. ASSUME NEW r \in Receivers, NEW t \in Types, Respond(r, t)
        PROVE  VersionedCache!Receive(r, t)
    BY <2>2 DEF Respond, Current, VersionedCache!Receive
  <2>3. received' = received \/ \E r \in Receivers, t \in Types : Respond(r, t)
    BY DEF Next, ChangeDataplane, ChangeMesh, ChangePolicies, ToggleStore, OnStreamOpen,
           OnStreamRequest, OnStreamClosedMetadata, Callbacks, OnStreamRequestMetadata,
           OnStreamClosed, Tick, GetDataplane, Clear, GetMesh, OnError, GetPolicies,
           GenerateSnapshot, autoVersion, Cache, Stop
  <2> QED
    BY <2>1, <2>2, <2>3 DEF VersionedCache!Next
<1> QED
  BY <1>1, <1>2, Invariant, PTL DEF Spec, ImplementsVersionedSnapshot, VersionedCache!Spec
=============================================================================
