----------------------------- MODULE Dataplanes -----------------------------
(***************************************************************************)
(* Tags, selectors and the networking section of a Dataplane: the helpers  *)
(* of api/mesh/v1alpha1 that matching, topology and generation share.      *)
(*                                                                         *)
(* Strings are compared and sorted but never taken apart: Alphabet lists   *)
(* the ones of an instance in the order Go sorts them.  A tag set or a     *)
(* selector is a function from tag names to values.  The text of a legacy  *)
(* `interface` is the tuple of its colon-separated parts, <<>> when the    *)
(* field is empty.                                                         *)
(***************************************************************************)
EXTENDS Integers, FiniteSets, SequencesExt

CONSTANT Alphabet   \* the strings that are sorted, in ascending order

ServiceTag == "service"
ProtocolTag == "protocol"
MatchAllTag == "*"
Loopback == "127.0.0.1"
Unspecified == "0.0.0.0"

Position(s) == CHOOSE i \in DOMAIN Alphabet : Alphabet[i] = s
Less(s, t) == Position(s) < Position(t)

\* The value of a tag, "" if it is missing, as indexing a Go map gives it.
Tag(tags, name) == IF name \in DOMAIN tags THEN tags[name] ELSE ""

(***************************************************************************)
(* Selectors and how specific they are.                                    *)
(***************************************************************************)
MatchService(service) == [t \in {ServiceTag} |-> service]

MatchAnyService == MatchService(MatchAllTag)

Matches(selector, tags) ==
    \A t \in DOMAIN selector : t \in DOMAIN tags /\ selector[t] \in {tags[t], MatchAllTag}

Rank(selector) ==
    LET wild == {t \in DOMAIN selector : selector[t] = MatchAllTag}
    IN  [exact |-> Cardinality(DOMAIN selector \ wild), wildcard |-> Cardinality(wild)]

NoRank == [exact |-> 0, wildcard |-> 0]

CombinedWith(r, q) == [exact |-> r.exact + q.exact, wildcard |-> r.wildcard + q.wildcard]

\* Mutant: wildcards count as much as exact values.
CompareTotals(r, q) == r.exact + r.wildcard - (q.exact + q.wildcard)

\* The total number of tags decides, then the number of exact ones.
CompareTo(r, q) ==
    LET total == r.exact + r.wildcard
        otherTotal == q.exact + q.wildcard
    IN  IF total = otherTotal THEN r.exact - q.exact ELSE total - otherTotal

(***************************************************************************)
(* Addresses and ports.                                                    *)
(***************************************************************************)
IsIP(address) == address \notin {"", "not-an-ip"}

IsPort(port) == port \in 1..65535

\* What the parsers return along with an error.
BadInterface == <<>>

ParseInboundInterface(text) ==
    IF Len(text) = 3 /\ IsIP(text[1]) /\ IsPort(text[2]) /\ IsPort(text[3])
    THEN text ELSE BadInterface

\* A text that starts with the colon stands for the loopback address.
ParseOutboundInterface(text) ==
    LET ip == IF Len(text) = 2 /\ text[1] = "" THEN Loopback ELSE text[1]
    IN  IF Len(text) = 2 /\ IsIP(ip) /\ IsPort(text[2]) THEN <<ip, text[2]>> ELSE BadInterface

GetInboundInterfaceByIdx(n, i) ==
    LET inbound == n.inbound[i]
    IN  IF inbound.interface # <<>> THEN ParseInboundInterface(inbound.interface)
        ELSE << IF inbound.address # "" THEN inbound.address ELSE n.address,
                inbound.port,
                IF inbound.servicePort # 0 THEN inbound.servicePort ELSE inbound.port >>

\* The first interface that does not parse fails the whole call.
GetInboundInterfaces(n) ==
    LET ifaces == [i \in DOMAIN n.inbound |-> GetInboundInterfaceByIdx(n, i)]
    IN  [err |-> \E i \in DOMAIN ifaces : ifaces[i] = BadInterface, ifaces |-> ifaces]

GetOutboundInterfaces(n) ==
    LET oface(o) == IF o.interface # <<>> THEN ParseOutboundInterface(o.interface)
                    ELSE <<IF o.address # "" THEN o.address ELSE Loopback, o.port>>
        ofaces == [i \in DOMAIN n.outbound |-> oface(n.outbound[i])]
    IN  [err |-> \E i \in DOMAIN ofaces : ofaces[i] = BadInterface, ifaces |-> ofaces]

(***************************************************************************)
(* The dataplane as a whole.  `gateway` is <<>> or the tags of the gateway *)
(* in a sequence of one.                                                   *)
(***************************************************************************)
TagSets(n) == {n.inbound[i].tags : i \in DOMAIN n.inbound} \cup ToSet(n.gateway)

\* One inbound, or the gateway, has all the tags of the selector.
MatchTags(n, selector) == \E tags \in TagSets(n) : Matches(selector, tags)

\* Every value a tag has on some inbound or on the gateway.
Tags(n) ==
    [t \in UNION {DOMAIN tags : tags \in TagSets(n)} |->
        {tags[t] : tags \in {u \in TagSets(n) : t \in DOMAIN u}}]

GetIdentifyingService(n) ==
    LET services == IF ServiceTag \in DOMAIN Tags(n) THEN Tags(n)[ServiceTag] ELSE {}
    IN  IF services = {} THEN "unknown"
        ELSE CHOOSE s \in services : \A t \in services : t = s \/ Less(s, t)

GetIP(n) ==
    CASE n.address # ""      -> n.address
      [] n.inbound = <<>>    -> ""
      [] OTHER -> LET iface == GetInboundInterfaceByIdx(n, 1)
                  IN  IF iface = BadInterface THEN "" ELSE iface[1]

overlap(a, b) == Unspecified \in {a, b} \/ a = b

\* Mutant: the port of the application is forgotten.
UsesInboundInterfacePublic(n, address, port) ==
    LET in == GetInboundInterfaces(n)
    IN  ~in.err /\ \E iface \in ToSet(in.ifaces) : port = iface[2] /\ overlap(address, iface[1])

\* An interface that cannot be parsed makes the whole list count as unused.
UsesInboundInterface(n, address, port) ==
    LET in == GetInboundInterfaces(n)
    IN  ~in.err /\ \E iface \in ToSet(in.ifaces) :
            \/ port = iface[2] /\ overlap(address, iface[1])
            \/ port = iface[3] /\ overlap(address, Loopback)

UsesOutboundInterface(n, address, port) ==
    LET out == GetOutboundInterfaces(n)
    IN  ~out.err /\ \E oface \in ToSet(out.ifaces) : port = oface[2] /\ overlap(address, oface[1])

UsesInterface(n, address, port) ==
    UsesInboundInterface(n, address, port) \/ UsesOutboundInterface(n, address, port)

\* Case does not matter.
ParseProtocol(tag) ==
    CASE tag \in {"http", "HTTP"} -> "http"
      [] tag \in {"tcp", "TCP"}   -> "tcp"
      [] OTHER                    -> "<unknown>"
=============================================================================
