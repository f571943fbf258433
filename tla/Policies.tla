------------------------------ MODULE Policies ------------------------------
(***************************************************************************)
(* Which policy applies to a connection or to a dataplane (pkg/core/policy *)
(* and the matchers built on it).                                          *)
(*                                                                         *)
(* A policy is [name, created, sources, destinations, conf]; the policies  *)
(* of one kind have names of their own.  The loops of the code are folds   *)
(* over the policies in the order of their names.                          *)
(***************************************************************************)
EXTENDS Validators

CONSTANTS
    None,    \* no policy
    Panic    \* a nil policy is dereferenced

PassThroughService == "pass_through"

ByName(policies) == SetToSortSeq(policies, LAMBDA p, q : Less(p.name, q.name))

(***************************************************************************)
(* Connections to destination services.                                    *)
(***************************************************************************)
\* The outbounds' services and, implicitly, the pass-through one.
OutboundServices(n) == {n.outbound[i].service : i \in DOMAIN n.outbound} \cup {PassThroughService}

\* The ranks of the policy's source selectors that match the dataplane.
SourceRanks(n, p) == {Rank(s) : s \in {t \in ToSet(p.sources) : MatchTags(n, t)}}

Best(ranks) == CHOOSE r \in ranks : \A q \in ranks : CompareTo(r, q) >= 0

\* A candidate replaces the best one if it is more specific, or as specific
\* and created later.
Improves(best, p, rank) ==
    \/ CompareTo(rank, best.rank) > 0
    \/ CompareTo(rank, best.rank) = 0 /\ p.created > best.policy.created

SelectFor(n, service, policies) ==
    LET tags == MatchService(service)
        candidates == SelectSeq(ByName(policies), LAMBDA p : SourceRanks(n, p) # {})
        Consider(p, best, destination) ==
            LET rank == CombinedWith(Rank(destination), Best(SourceRanks(n, p)))
            IN  IF Matches(destination, tags) /\ (best.policy = None \/ Improves(best, p, rank))
                THEN [policy |-> p, rank |-> rank] ELSE best
        Step(best, p) == FoldLeft(LAMBDA b, d : Consider(p, b, d), best, p.destinations)
    IN  FoldLeft(Step, [policy |-> None, rank |-> NoRank], candidates).policy

\* The services a policy applies to, and the policy.
SelectConnectionPolicies(n, services, policies) ==
    LET selected == [s \in services |-> SelectFor(n, s, policies)]
    IN  [s \in {t \in services : selected[t] # None} |-> selected[s]]

SelectOutboundConnectionPolicies(n, policies) ==
    SelectConnectionPolicies(n, OutboundServices(n), policies)

(***************************************************************************)
(* Connections to an inbound.  The best rank starts at zero with no policy, *)
(* so a selector of rank zero makes sameRankCreatedLater dereference nil.  *)
(***************************************************************************)
Later(best, p, rank) ==
    CASE CompareTo(rank, best.rank) > 0 -> [policy |-> p, rank |-> rank]
      [] CompareTo(rank, best.rank) < 0 -> best
      [] best.policy = None             -> [best EXCEPT !.policy = Panic]
      [] p.created > best.policy.created -> [policy |-> p, rank |-> rank]
      [] OTHER                          -> best

SelectForInbound(tags, policies) ==
    LET Consider(p, best, selector) ==
            IF best.policy # Panic /\ Matches(selector, tags) THEN Later(best, p, Rank(selector)) ELSE best
        Step(best, p) == FoldLeft(LAMBDA b, s : Consider(p, b, s), best, p.destinations)
    IN  FoldLeft(Step, [policy |-> None, rank |-> NoRank], ByName(policies)).policy

\* Two inbounds with the same interface share an entry; the later one sets it.
SelectInboundConnectionPolicies(n, policies) ==
    LET ifaces == GetInboundInterfaces(n).ifaces
        selected == [i \in DOMAIN n.inbound |-> SelectForInbound(n.inbound[i].tags, policies)]
        found == {i \in DOMAIN n.inbound : selected[i] # None}
        Of(iface) == {i \in found : ifaces[i] = iface}
    IN  [iface \in {ifaces[i] : i \in found} |->
            selected[CHOOSE i \in Of(iface) : \A j \in Of(iface) : j <= i]]

(***************************************************************************)
(* The dataplane as a whole.  No selectors, or a selector without tags,    *)
(* match every dataplane with rank zero.                                   *)
(***************************************************************************)
SelectDataplanePolicy(n, policies) ==
    LET MatchAll(best, p) ==
            IF best.policy = None THEN [best EXCEPT !.policy = p]
            ELSE IF CompareTo(NoRank, best.rank) = 0 /\ p.created > best.policy.created
            THEN [best EXCEPT !.policy = p] ELSE best
        Consider(p, best, selector) ==
            CASE DOMAIN selector = {}    -> MatchAll(best, p)
              [] MatchTags(n, selector)  -> Later(best, p, Rank(selector))
              [] OTHER                   -> best
        Step(best, p) ==
            IF p.sources = <<>> THEN MatchAll(best, p)
            ELSE FoldLeft(LAMBDA b, s : Consider(p, b, s), best, p.sources)
    IN  FoldLeft(Step, [policy |-> None, rank |-> NoRank], ByName(policies)).policy
=============================================================================
