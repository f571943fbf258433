------------------------- MODULE VersionedSnapshot -------------------------
(***************************************************************************)
(* What the snapshot cache promises to the consumers of one node's         *)
(* configuration, without saying how the configuration is produced.        *)
(*                                                                         *)
(* A snapshot gives each xDS resource type a version and a set of items.   *)
(* A consumer (a pending response, an Envoy, a client that kept what it    *)
(* last accepted across a reconnect) is sent a resource type again only if *)
(* its version differs from the cached one.  So the producer must never    *)
(* publish, under a version that somebody still holds, items other than    *)
(* the ones that holder has.                                               *)
(***************************************************************************)
CONSTANTS Types,       \* xDS resource types
          Receivers,   \* places where a copy of a resource type may live
          Versions,    \* version strings
          Items        \* the possible contents of a resource type

VARIABLES current,     \* [Types -> Resources], the published snapshot
          received     \* [Receivers -> [Types -> Resources]], the copies

Resources == [version : Versions, items : Items]

Compatible(a, b) == a.version = b.version => a.items = b.items

Init == /\ current \in [Types -> Resources]
        /\ received = [r \in Receivers |-> current]

Publish ==
    /\ current' \in [Types -> Resources]
    /\ \A t \in Types, r \in Receivers : Compatible(received[r][t], current'[t])
    /\ UNCHANGED received

Receive(r, t) ==
    /\ received[r][t].version # current[t].version
    /\ received' = [received EXCEPT ![r][t] = current[t]]
    /\ UNCHANGED current

Next == \/ Publish
        \/ \E r \in Receivers, t \in Types : Receive(r, t)

Spec == Init /\ [][Next]_<<current, received>>
=============================================================================
