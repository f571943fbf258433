--------------------------- MODULE DataplaneSync ---------------------------
(***************************************************************************)
(* How the control plane keeps the configuration of one dataplane in the   *)
(* snapshot cache.                                                         *)
(*                                                                         *)
(* Every xDS stream of the dataplane gets a watchdog of its own, started   *)
(* by the first request whose node id parses and stopped when the stream   *)
(* closes.  On every tick the watchdog reads the resources, generates a    *)
(* snapshot, gives it versions by comparing it with the cached one, and    *)
(* caches it.  None of this is atomic: the old and the new stream of a     *)
(* reconnecting dataplane have watchdogs that interleave, and the          *)
(* callbacks of a stream run while its watchdog is between two steps.      *)
(*                                                                         *)
(* A stream id is recycled once its stream is closed and its watchdog has  *)
(* returned: nothing about it is left in any map, so a finite set of ids   *)
(* covers any number of reconnects.  Likewise a version may be drawn again *)
(* once nobody holds it, which cannot be told from a new UUID.             *)
(***************************************************************************)
CONSTANTS
    Streams,              \* ids of xDS streams of the dataplane
    Types,                \* xDS resource types
    Receivers,            \* places where a response, once made, is kept
    Dataplanes,           \* contents of the Dataplane resource
    Meshes,               \* contents of the Mesh resource
    Policies,             \* contents of the other resources a tick reads
    Metas,                \* node metadata a dataplane may send
    UUIDs,                \* version strings newUUID() may return
    Items,                \* contents of one resource type in a snapshot
    NoItems,              \* the empty contents
    EmptyMeta,            \* &xds.DataplaneMetadata{}
    EmptyVersion,         \* ""
    NotFound,             \* a resource or a cache entry is missing
    Error,                \* the generator fails
    StoreOutages,         \* whether reads of the store may fail
    None,                 \* an absent metadata entry or node
    Generate(_, _, _, _)  \* items of each type for a dataplane, mesh,
                          \* policies and metadata, or Error

ASSUME NamesAssumption ==
    /\ EmptyVersion \notin UUIDs
    /\ NoItems \in Items
    /\ None \notin Metas \cup {EmptyMeta}
    /\ NotFound \notin Dataplanes \cup Meshes \cup Policies

\* An absent cache entry is not a snapshot.
ASSUME NotFoundIsNoSnapshot ==
    NotFound \notin [Types -> [version : UUIDs \cup {EmptyVersion}, items : Items]]

ASSUME GenerateAssumption ==
    /\ Error \notin [Types -> Items]
    /\ \A d \in Dataplanes, m \in Meshes, p \in Policies, n \in Metas \cup {EmptyMeta} :
          Generate(d, m, p, n) \in [Types -> Items] \cup {Error}

VARIABLES
    dataplane,   \* the Dataplane resource, or NotFound
    mesh,        \* the Mesh resource, or NotFound
    policies,    \* routes, other dataplanes, permissions, logs...
    storeUp,     \* whether reads of the resource store succeed
    phase,       \* where each stream's process() is
    node,        \* the node of each stream, as process() remembers it
    metadata,    \* metadataForStream of the metadata tracker
    stopping,    \* whether a watchdog's stop channel is closed
    pc,          \* where each watchdog is in SimpleWatchdog.Start
    read,        \* the resources the current tick has read so far
    fresh,       \* the snapshot the current tick is about to cache
    snapshot,    \* the cache entry of the dataplane's node, or NotFound
    received     \* the copies handed out

resourceVars == <<dataplane, mesh, policies, storeUp>>
streamVars   == <<phase, node, metadata, stopping>>
watchdogVars == <<pc, read, fresh>>
vars == <<dataplane, mesh, policies, storeUp, phase, node, metadata, stopping,
          pc, read, fresh, snapshot, received>>

Versions  == UUIDs \cup {EmptyVersion}
Resources == [version : Versions, items : Items]
Snapshots == [Types -> Resources]

\* envoy_cache.Snapshot{}
EmptySnapshot == [t \in Types |-> [version |-> EmptyVersion, items |-> NoItems]]

\* What simpleSnapshotCacher.Get yields, an error read as Snapshot{}.
Current == IF snapshot = NotFound THEN EmptySnapshot ELSE snapshot

Phases == {"closed", "open", "request", "closing"}
PCs    == {"none", "idle", "clear", "mesh", "policies", "generate", "version", "cache"}

Reads  == [dataplane : Dataplanes \cup {NotFound},
           mesh : Meshes \cup {NotFound},
           policies : Policies \cup {NotFound}]

\* The variables hold what the fields and locals of the trackers, of the
\* watchdogs and of the cache can hold.
TypeOK ==
    /\ dataplane \in Dataplanes \cup {NotFound}
    /\ mesh \in Meshes \cup {NotFound}
    /\ policies \in Policies
    /\ storeUp \in BOOLEAN
    /\ phase \in [Streams -> Phases]
    /\ node \in [Streams -> Metas \cup {None}]
    /\ metadata \in [Streams -> Metas \cup {EmptyMeta, None}]
    /\ stopping \in [Streams -> BOOLEAN]
    /\ pc \in [Streams -> PCs]
    /\ read \in [Streams -> Reads]
    /\ fresh \in [Streams -> Snapshots]
    /\ snapshot \in Snapshots \cup {NotFound}
    /\ received \in [Receivers -> Snapshots]

NothingRead ==
    [dataplane |-> NotFound, mesh |-> NotFound, policies |-> NotFound]

Init ==
    /\ dataplane \in Dataplanes \cup {NotFound}
    /\ mesh \in Meshes \cup {NotFound}
    /\ policies \in Policies
    /\ storeUp = TRUE
    /\ phase = [s \in Streams |-> "closed"]
    /\ node = [s \in Streams |-> None]
    /\ metadata = [s \in Streams |-> None]
    /\ stopping = [s \in Streams |-> FALSE]
    /\ pc = [s \in Streams |-> "none"]
    /\ read = [s \in Streams |-> NothingRead]
    /\ fresh = [s \in Streams |-> EmptySnapshot]
    /\ snapshot = NotFound
    /\ received = [r \in Receivers |-> EmptySnapshot]
-----------------------------------------------------------------------------
(* The users of the control plane and the state of its store.              *)

ChangeDataplane(d) ==
    /\ d # dataplane
    /\ dataplane' = d
    /\ UNCHANGED <<mesh, policies, storeUp, streamVars, watchdogVars, snapshot, received>>

ChangeMesh(m) ==
    /\ m # mesh
    /\ mesh' = m
    /\ UNCHANGED <<dataplane, policies, storeUp, streamVars, watchdogVars, snapshot, received>>

ChangePolicies(p) ==
    /\ p # policies
    /\ policies' = p
    /\ UNCHANGED <<dataplane, mesh, storeUp, streamVars, watchdogVars, snapshot, received>>

ToggleStore ==
    /\ StoreOutages
    /\ storeUp' = ~storeUp
    /\ UNCHANGED <<dataplane, mesh, policies, streamVars, watchdogVars, snapshot, received>>
-----------------------------------------------------------------------------
(* The callbacks of a stream.  The chain calls the sync tracker before the *)
(* metadata tracker on a request, and after it when the stream closes; the *)
(* trackers have locks of their own, so each is a step of its own.         *)

OnStreamOpen(s) ==
    /\ phase[s] = "closed"
    /\ pc[s] = "none"
    /\ phase' = [phase EXCEPT ![s] = "open"]
    /\ UNCHANGED <<resourceVars, node, metadata, stopping, watchdogVars, snapshot, received>>

\* A request carries a node, or None: then process() fills in the remembered
\* one, which does not parse as a proxy id before a request has carried one.
OnStreamRequest(s, n) ==
    /\ phase[s] = "open"
    /\ phase' = [phase EXCEPT ![s] = "request"]
    /\ node' = [node EXCEPT ![s] = IF n = None THEN node[s] ELSE n]
    /\ pc' = [pc EXCEPT ![s] = IF pc[s] = "none" /\ node'[s] # None
                               THEN "idle" ELSE pc[s]]
    /\ UNCHANGED <<resourceVars, metadata, stopping, read, fresh, snapshot, received>>

\* Mutant: only the first node of a stream is recorded.
OnStreamRequestMetadataOnce(s) ==
    /\ phase[s] = "request"
    /\ phase' = [phase EXCEPT ![s] = "open"]
    /\ metadata' = [metadata EXCEPT ![s] =
                        IF metadata[s] # None THEN metadata[s]
                        ELSE IF node[s] = None THEN EmptyMeta ELSE node[s]]
    /\ UNCHANGED <<resourceVars, node, stopping, watchdogVars, snapshot, received>>

OnStreamRequestMetadata(s) ==
    /\ phase[s] = "request"
    /\ phase' = [phase EXCEPT ![s] = "open"]
    /\ metadata' = [metadata EXCEPT ![s] =
                        IF node[s] = None THEN EmptyMeta ELSE node[s]]
    /\ UNCHANGED <<resourceVars, node, stopping, watchdogVars, snapshot, received>>

OnStreamClosedMetadata(s) ==
    /\ phase[s] = "open"
    /\ phase' = [phase EXCEPT ![s] = "closing"]
    /\ metadata' = [metadata EXCEPT ![s] = None]
    /\ UNCHANGED <<resourceVars, node, stopping, watchdogVars, snapshot, received>>

\* Mutant: the stream is forgotten without stopping its watchdog.
OnStreamClosedNoStop(s) ==
    /\ phase[s] = "closing"
    /\ phase' = [phase EXCEPT ![s] = "closed"]
    /\ node' = [node EXCEPT ![s] = None]
    /\ UNCHANGED <<resourceVars, metadata, stopping, watchdogVars, snapshot, received>>

OnStreamClosed(s) ==
    /\ phase[s] = "closing"
    /\ phase' = [phase EXCEPT ![s] = "closed"]
    /\ stopping' = [stopping EXCEPT ![s] = pc[s] # "none"]
    /\ node' = [node EXCEPT ![s] = None]
    /\ UNCHANGED <<resourceVars, metadata, watchdogVars, snapshot, received>>
-----------------------------------------------------------------------------
(* A tick of the watchdog of stream s, one action per access to shared     *)
(* state.  When both the ticker and the stop channel are ready the select  *)
(* of SimpleWatchdog.Start may take either.                                *)

GetDataplane(s) ==
    /\ pc[s] = "idle"
    /\ storeUp
    /\ \/ /\ dataplane = NotFound
          /\ pc' = [pc EXCEPT ![s] = "clear"]
          /\ UNCHANGED read
       \/ /\ dataplane # NotFound
          /\ pc' = [pc EXCEPT ![s] = "mesh"]
          /\ read' = [read EXCEPT ![s].dataplane = dataplane]
    /\ UNCHANGED <<resourceVars, streamVars, fresh, snapshot, received>>

\* reconciler.Clear
Clear(s) ==
    /\ pc[s] = "clear"
    /\ snapshot' = EmptySnapshot
    /\ pc' = [pc EXCEPT ![s] = "idle"]
    /\ UNCHANGED <<resourceVars, streamVars, read, fresh, received>>

\* OnTick gives up: nothing is cached and the next tick starts again.
Abandon(s) ==
    /\ pc' = [pc EXCEPT ![s] = "idle"]
    /\ read' = [read EXCEPT ![s] = NothingRead]

GetMesh(s) ==
    /\ pc[s] = "mesh"
    /\ storeUp
    /\ \/ /\ mesh = NotFound
          /\ Abandon(s)
       \/ /\ mesh # NotFound
          /\ pc' = [pc EXCEPT ![s] = "policies"]
          /\ read' = [read EXCEPT ![s].mesh = mesh]
    /\ UNCHANGED <<resourceVars, streamVars, fresh, snapshot, received>>

GetPolicies(s) ==
    /\ pc[s] = "policies"
    /\ storeUp
    /\ pc' = [pc EXCEPT ![s] = "generate"]
    /\ read' = [read EXCEPT ![s].policies = policies]
    /\ UNCHANGED <<resourceVars, streamVars, fresh, snapshot, received>>

\* A read of the tick fails.
OnError(s) ==
    /\ pc[s] \in {"mesh", "policies"}
    /\ ~storeUp
    /\ Abandon(s)
    /\ UNCHANGED <<resourceVars, streamVars, fresh, snapshot, received>>

\* DataplaneMetadataTracker.Metadata
MetadataOf(s) == IF metadata[s] = None THEN EmptyMeta ELSE metadata[s]

\* Reads the metadata of the stream and runs the generators.
GenerateSnapshot(s) ==
    LET items == Generate(read[s].dataplane, read[s].mesh, read[s].policies, MetadataOf(s))
    IN  /\ pc[s] = "generate"
        /\ \/ /\ items = Error
              /\ Abandon(s)
              /\ UNCHANGED fresh
           \/ /\ items # Error
              /\ fresh' = [fresh EXCEPT ![s] =
                     [t \in Types |-> [version |-> EmptyVersion, items |-> items[t]]]]
              /\ read' = [read EXCEPT ![s] = NothingRead]
              /\ pc' = [pc EXCEPT ![s] = "version"]
        /\ UNCHANGED <<resourceVars, streamVars, snapshot, received>>

\* Versions of type t held anywhere: in the cache, by a tick about to cache
\* its snapshot, or in a copy handed out.
InUse(t) == {Current[t].version}
              \cup {fresh[s][t].version : s \in Streams}
              \cup {received[r][t].version : r \in Receivers}

newUUID(t) == CHOOSE v \in UUIDs : v \notin InUse(t)

\* Mutants: the version is always kept; it is always new.
KeepVersion(t, old, new) == [new EXCEPT !.version = old.version]
AlwaysNewVersion(t, old, new) == [new EXCEPT !.version = newUUID(t)]

reuseVersion(t, old, new) ==
    [new EXCEPT !.version = IF old.items = new.items THEN old.version ELSE newUUID(t)]

\* Mutant: the generated snapshot is cached without versions.
NoAutoVersion(s) ==
    /\ pc[s] = "version"
    /\ pc' = [pc EXCEPT ![s] = "cache"]
    /\ UNCHANGED <<resourceVars, streamVars, read, fresh, snapshot, received>>

\* Reads the cached snapshot and versions the new one against it.
autoVersion(s) ==
    /\ pc[s] = "version"
    /\ \A t \in Types : UUIDs \ InUse(t) # {}
    /\ fresh' = [fresh EXCEPT ![s] =
                    [t \in Types |-> reuseVersion(t, Current[t], fresh[s][t])]]
    /\ pc' = [pc EXCEPT ![s] = "cache"]
    /\ UNCHANGED <<resourceVars, streamVars, read, snapshot, received>>

Cache(s) ==
    /\ pc[s] = "cache"
    /\ snapshot' = fresh[s]
    /\ fresh' = [fresh EXCEPT ![s] = EmptySnapshot]
    /\ pc' = [pc EXCEPT ![s] = "idle"]
    /\ UNCHANGED <<resourceVars, streamVars, read, received>>

Stop(s) ==
    /\ pc[s] = "idle"
    /\ stopping[s]
    /\ pc' = [pc EXCEPT ![s] = "none"]
    /\ stopping' = [stopping EXCEPT ![s] = FALSE]
    /\ UNCHANGED <<resourceVars, phase, node, metadata, read, fresh, snapshot, received>>
-----------------------------------------------------------------------------
\* The cache answers a watch whose version differs from the cached one.
Respond(r, t) ==
    /\ snapshot # NotFound
    /\ received[r][t].version # snapshot[t].version
    /\ received' = [received EXCEPT ![r][t] = snapshot[t]]
    /\ UNCHANGED <<resourceVars, streamVars, watchdogVars, snapshot>>

Tick(s) == \/ GetDataplane(s) \/ Clear(s) \/ GetMesh(s) \/ OnError(s)
           \/ GetPolicies(s) \/ GenerateSnapshot(s) \/ autoVersion(s) \/ Cache(s)

Callbacks(s) == \/ OnStreamRequestMetadata(s) \/ OnStreamClosed(s)

Next ==
    \/ \E d \in Dataplanes \cup {NotFound} : ChangeDataplane(d)
    \/ \E m \in Meshes \cup {NotFound} : ChangeMesh(m)
    \/ \E p \in Policies : ChangePolicies(p)
    \/ ToggleStore
    \/ \E s \in Streams :
          \/ OnStreamOpen(s)
          \/ \E n \in Metas \cup {None} : OnStreamRequest(s, n)
          \/ OnStreamClosedMetadata(s)
          \/ Callbacks(s)
          \/ Tick(s)
          \/ Stop(s)
    \/ \E r \in Receivers, t \in Types : Respond(r, t)

Fairness == \A s \in Streams :
    /\ WF_vars(Callbacks(s))
    /\ WF_vars(Tick(s))
    /\ SF_vars(Stop(s))

Spec == Init /\ [][Next]_vars /\ Fairness
-----------------------------------------------------------------------------
(* Properties.                                                             *)

\* A version stands for one content: whoever compares version strings, as
\* the cache does before it answers a watch, never takes stale items for
\* the cached ones (reuseVersion, whatever the watchdogs' interleaving).
VersionIdentifiesContents ==
    \A r \in Receivers, t \in Types :
        received[r][t].version = Current[t].version =>
            received[r][t].items = Current[t].items

\* The copies of type t of which a version is compared: the cached one, the
\* ones handed out, and the ones versioned and about to be cached.
Holders(t) == {Current[t]} \cup {received[r][t] : r \in Receivers}
                \cup {fresh[s][t] : s \in {x \in Streams : pc[x] = "cache"}}

\* The inductive form of VersionIdentifiesContents: it holds between any
\* two copies, a snapshot that a watchdog has versioned and not yet cached
\* included, and the empty version stands for the empty contents.
VersionsConsistent ==
    \A t \in Types :
        /\ \A a, b \in Holders(t) : a.version = b.version => a.items = b.items
        /\ \A a \in Holders(t) : a.version = EmptyVersion => a.items = NoItems

\* A tick runs the generators only on resources it has found: whatever is
\* deleted meanwhile, an early return of OnTick never leaves a nil resource
\* in the proxy it passes to Reconcile.
GeneratesFromFound ==
    \A s \in Streams :
        /\ pc[s] \in {"mesh", "policies", "generate"} => read[s].dataplane # NotFound
        /\ pc[s] \in {"policies", "generate"} => read[s].mesh # NotFound
        /\ pc[s] = "generate" => read[s].policies # NotFound

\* The cache and the copies handed out behave as a versioned snapshot: a
\* new snapshot never reuses, for other contents, a version somebody holds.
VersionedCache == INSTANCE VersionedSnapshot WITH current <- Current

ImplementsVersionedSnapshot == VersionedCache!Spec

Live(s) == phase[s] \in {"open", "request"}

\* What the configuration of the dataplane is computed from.
inputs == <<dataplane, mesh, policies, storeUp, node, [s \in Streams |-> Live(s)]>>

InputsSettle == <>[][FALSE]_inputs

\* The cached snapshot is the one for the current resources and the current
\* metadata of stream s.  Without a mesh, or when the generator fails, the
\* cache is left as it is.
Serves(s) ==
    IF dataplane = NotFound THEN snapshot = EmptySnapshot
    ELSE mesh # NotFound =>
            LET items == Generate(dataplane, mesh, policies, node[s])
            IN  items # Error =>
                    /\ snapshot # NotFound
                    /\ \A t \in Types : snapshot[t].items = items[t]

\* Once the resources stop changing and one stream of the dataplane is left,
\* the cache ends up, for good, with the configuration for the resources and
\* the metadata of that stream: neither a late tick of the watchdog of an
\* earlier stream, nor a tick that ran before the metadata were stored, has
\* the last word (OnTick, Metadata, OnStreamClosed of the trackers).
EventuallyServes ==
    InputsSettle =>
        <>[](\A s \in Streams :
                /\ storeUp
                /\ Live(s) /\ node[s] # None
                /\ \A o \in Streams \ {s} : ~Live(o)
                => Serves(s))

\* Once the inputs stop changing the snapshot does too, unless two streams
\* of the dataplane stay open: ticks do not draw new versions for the same
\* contents, so Envoy is not sent the same configuration again and again.
SnapshotSettles ==
    InputsSettle => \/ <>[][FALSE]_snapshot
                    \/ []<>(\E s, o \in Streams : s # o /\ Live(s) /\ Live(o))

\* The watchdog of a closed stream returns, although its select may take the
\* ticker when the stop channel is ready too: a dataplane that keeps
\* reconnecting does not accumulate goroutines.
WatchdogStops ==
    \A s \in Streams : phase[s] = "closed" ~> pc[s] = "none"
=============================================================================
