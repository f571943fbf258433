--------------------------- MODULE SnapshotCache ---------------------------
(***************************************************************************)
(* The snapshot cache as seen from one node: the decision, for a request   *)
(* or an open watch, between answering, waiting and dropping the watch.    *)
(* The xDS server uses the cache of go-control-plane with ADS = TRUE, the  *)
(* monitoring assignment server the copy of it in pkg/util/xds with        *)
(* ADS = FALSE.                                                            *)
(***************************************************************************)
EXTENDS Functions

CONSTANT ADS   \* responses are held until all resources are named

\* A snapshot maps a type to [version, items]; items map names to values.
\* A request is [type, version, names, current]; no names means all of them.

Superset(names, items) == DOMAIN items \subseteq names

\* Whether respond() sends anything at all.
Answers(request, resources) ==
    request.names = {} \/ ~ADS \/ Superset(request.names, resources.items)

createResponse(request, resources) ==
    [type |-> request.type,
     version |-> resources.version,
     items |-> IF request.names = {} THEN resources.items
               ELSE Restrict(resources.items, DOMAIN resources.items \cap request.names)]

\* What becomes of a watch: it is open, its channel holds a response, or it
\* is gone, its channel empty for ever.
NoWatch          == [state |-> "none"]
OpenWatch(req)   == [state |-> "open", request |-> req]
Responded(resp)  == [state |-> "responded", response |-> resp]

respond(request, resources) ==
    IF Answers(request, resources)
    THEN Responded(createResponse(request, resources))
    ELSE NoWatch

\* CreateWatch, for a node whose snapshot exists or does not.
CreateWatch(request, exists, snapshot) ==
    IF ~exists \/ snapshot[request.type].version = request.version
    THEN OpenWatch(request)
    ELSE respond(request, snapshot[request.type])

\* Mutant: open watches are left alone.
TriggerNever(watch, snapshot) == watch

\* What SetSnapshot does to a watch.
Trigger(watch, snapshot) ==
    IF watch.state = "open" /\ snapshot[watch.request.type].version # watch.request.version
    THEN respond(watch.request, snapshot[watch.request.type])
    ELSE watch

\* Fetch answers with whatever part of the snapshot is named.
FetchSkips(request, exists, snapshot) ==
    ~exists \/ snapshot[request.type].version = request.version
=============================================================================
