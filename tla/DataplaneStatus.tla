-------------------------- MODULE DataplaneStatus --------------------------
(***************************************************************************)
(* How the status of the xDS streams of one dataplane gets into its        *)
(* DataplaneInsight.  Each stream has a subscription, updated by the       *)
(* callbacks of its stream, and, once its node id is known, a sink: a      *)
(* goroutine that copies the subscription, reads the insight, replaces its *)
(* own entry and writes the insight back under the store's version check.  *)
(* The sinks of the streams of a dataplane, on one control plane instance  *)
(* or on several, race for the same resource.                              *)
(***************************************************************************)
EXTENDS Naturals

CONSTANTS
    Streams,        \* streams of the dataplane, over all instances
    NotFound,       \* no insight, no entry
    Plans           \* what happens around the sinks: for each stream a bound on
                    \* the sum of its counters, a bound on how often the
                    \* insight is deleted, whether calls of the store may fail

ASSUME BoundsAssumption ==
    Plans \subseteq [counts : [Streams -> Nat], deletes : Nat, outages : BOOLEAN]

VARIABLES
    plan,           \* the plan that is followed
    phase,          \* of each stream: "new", "open", "closed"
    subscription,   \* streamState.subscription
    pc,             \* where each sink is
    stopped,        \* the sink flushes for the last time
    status,         \* the copy of the subscription being flushed
    got,            \* the insight read by Upsert
    lastStored,     \* lastStoredState
    insight,        \* the DataplaneInsight in the store, or NotFound
    storeUp, deletes

streamVars == <<plan, phase, subscription>>
sinkVars   == <<pc, stopped, status, got, lastStored>>
storeVars  == <<insight, storeUp, deletes>>
vars == <<plan, phase, subscription, pc, stopped, status, got, lastStored, insight, storeUp, deletes>>

Subscriptions == [disconnected : BOOLEAN, sent : Nat, acknowledged : Nat, rejected : Nat]

NewSubscription == [disconnected |-> FALSE, sent |-> 0, acknowledged |-> 0, rejected |-> 0]

\* An insight has a version, for the check on Update, and entries by id.
Insights == [version : Nat, entries : [Streams -> Subscriptions \cup {NotFound}]]

\* No insight is not an insight.
ASSUME NamesAssumption == NotFound \notin Subscriptions \cup Insights

Init ==
    /\ plan \in Plans
    /\ phase = [s \in Streams |-> "new"]
    /\ subscription = [s \in Streams |-> NewSubscription]
    /\ pc = [s \in Streams |-> "none"]
    /\ stopped = [s \in Streams |-> FALSE]
    /\ status = [s \in Streams |-> NotFound]
    /\ got = [s \in Streams |-> NotFound]
    /\ lastStored = [s \in Streams |-> NotFound]
    /\ insight = NotFound
    /\ storeUp = TRUE
    /\ deletes = 0
-----------------------------------------------------------------------------
(* Callbacks of the stream; each holds the lock of the stream's state.      *)

OnStreamOpen(s) ==
    /\ phase[s] = "new"
    /\ phase' = [phase EXCEPT ![s] = "open"]
    /\ UNCHANGED <<plan, subscription, sinkVars, storeVars>>

\* The first request whose node id parses starts the sink.
StartSink(s, identified) ==
    pc' = [pc EXCEPT ![s] = IF pc[s] = "none" /\ identified THEN "idle" ELSE pc[s]]

\* A request without a nonce only asks for resources.
OnStreamRequest(s, identified) ==
    /\ phase[s] = "open"
    /\ StartSink(s, identified)
    /\ UNCHANGED <<plan, phase, subscription, stopped, status, got, lastStored, storeVars>>

MayCount(s) ==
    LET sub == subscription[s] IN sub.sent + sub.acknowledged + sub.rejected < plan.counts[s]

\* A request with a nonce answers a response, or asks for other endpoints
\* with the nonce of a response already answered.  A response needs a
\* snapshot, which only an identified node has.
OnStreamAck(s) ==
    /\ phase[s] = "open"
    /\ subscription[s].sent > 0
    /\ MayCount(s)
    /\ StartSink(s, TRUE)
    /\ subscription' = [subscription EXCEPT ![s].acknowledged = @ + 1]
    /\ UNCHANGED <<plan, phase, stopped, status, got, lastStored, storeVars>>

OnStreamNack(s) ==
    /\ phase[s] = "open"
    /\ subscription[s].sent > 0
    /\ MayCount(s)
    /\ StartSink(s, TRUE)
    /\ subscription' = [subscription EXCEPT ![s].rejected = @ + 1]
    /\ UNCHANGED <<plan, phase, stopped, status, got, lastStored, storeVars>>

OnStreamResponse(s) ==
    /\ phase[s] = "open"
    /\ MayCount(s)
    /\ subscription' = [subscription EXCEPT ![s].sent = @ + 1]
    /\ UNCHANGED <<plan, phase, sinkVars, storeVars>>

OnStreamClosed(s) ==
    /\ phase[s] = "open"
    /\ phase' = [phase EXCEPT ![s] = "closed"]
    /\ subscription' = [subscription EXCEPT ![s].disconnected = TRUE]
    /\ UNCHANGED <<plan, sinkVars, storeVars>>
-----------------------------------------------------------------------------
(* The sink.  The tick and the stop case of its select differ in what       *)
(* follows the flush.                                                       *)

\* GetStatus, when there is something to store.
Flush(s, last) ==
    /\ pc[s] = "idle"
    /\ last => phase[s] = "closed"
    /\ subscription[s] # lastStored[s]
    /\ status' = [status EXCEPT ![s] = subscription[s]]
    /\ stopped' = [stopped EXCEPT ![s] = last]
    /\ pc' = [pc EXCEPT ![s] = "get"]
    /\ UNCHANGED <<streamVars, got, lastStored, storeVars>>

\* The final flush has nothing to store.
FlushNothing(s) ==
    /\ pc[s] = "idle"
    /\ phase[s] = "closed"
    /\ subscription[s] = lastStored[s]
    /\ pc' = [pc EXCEPT ![s] = "done"]
    /\ UNCHANGED <<streamVars, stopped, status, got, lastStored, storeVars>>

\* Mutant: the state counts as stored although the store refused it.
FlushedAlways(s, stored) ==
    /\ pc' = [pc EXCEPT ![s] = IF stopped[s] THEN "done" ELSE "idle"]
    /\ lastStored' = [lastStored EXCEPT ![s] = status[s]]
    /\ status' = [status EXCEPT ![s] = NotFound]
    /\ got' = [got EXCEPT ![s] = NotFound]
    /\ UNCHANGED <<streamVars, stopped>>

\* Mutant: the loop goes on after the final flush.
FlushedGoesOn(s, stored) ==
    /\ pc' = [pc EXCEPT ![s] = "idle"]
    /\ lastStored' = [lastStored EXCEPT ![s] = IF stored THEN status[s] ELSE lastStored[s]]
    /\ status' = [status EXCEPT ![s] = NotFound]
    /\ got' = [got EXCEPT ![s] = NotFound]
    /\ UNCHANGED <<streamVars, stopped>>

\* The end of a flush, successful or not.
Flushed(s, stored) ==
    /\ pc' = [pc EXCEPT ![s] = IF stopped[s] THEN "done" ELSE "idle"]
    /\ lastStored' = [lastStored EXCEPT ![s] = IF stored THEN status[s] ELSE lastStored[s]]
    /\ status' = [status EXCEPT ![s] = NotFound]
    /\ got' = [got EXCEPT ![s] = NotFound]
    /\ UNCHANGED <<streamVars, stopped>>

\* Upsert reads the insight.
GetInsight(s) ==
    /\ pc[s] = "get"
    /\ \/ /\ storeUp
          /\ got' = [got EXCEPT ![s] = insight]
          /\ pc' = [pc EXCEPT ![s] = "put"]
          /\ UNCHANGED <<streamVars, stopped, status, lastStored>>
       \/ /\ ~storeUp
          /\ Flushed(s, FALSE)
    /\ UNCHANGED storeVars

NoEntries == [x \in Streams |-> NotFound]

\* Mutant: the id is not compared, so the entry found is any other's.
UpdateAnySubscription(entries, s) ==
    LET present == {x \in Streams : entries[x] # NotFound}
    IN  [entries EXCEPT ![IF present = {} THEN s ELSE CHOOSE x \in present : TRUE] = status[s]]

UpdateSubscription(entries, s) == [entries EXCEPT ![s] = status[s]]

\* Create fails if the insight exists.
CreateInsight(s) ==
    /\ pc[s] = "put"
    /\ got[s] = NotFound
    /\ \/ /\ storeUp /\ insight = NotFound
          /\ insight' = [version |-> 0, entries |-> UpdateSubscription(NoEntries, s)]
          /\ Flushed(s, TRUE)
       \/ /\ ~storeUp \/ insight # NotFound
          /\ Flushed(s, FALSE)
          /\ UNCHANGED insight
    /\ UNCHANGED <<storeUp, deletes>>

\* Mutant: the version is not compared.
SameVersionAlways(s) == insight # NotFound

SameVersion(s) == insight # NotFound /\ insight.version = got[s].version

\* Update fails if the insight is gone or has another version.
UpdateInsight(s) ==
    /\ pc[s] = "put"
    /\ got[s] # NotFound
    /\ \/ /\ storeUp /\ SameVersion(s)
          /\ insight' = [version |-> insight.version + 1,
                         entries |-> UpdateSubscription(got[s].entries, s)]
          /\ Flushed(s, TRUE)
       \/ /\ ~storeUp \/ ~SameVersion(s)
          /\ Flushed(s, FALSE)
          /\ UNCHANGED insight
    /\ UNCHANGED <<storeUp, deletes>>
-----------------------------------------------------------------------------
(* The rest of the world.                                                   *)

\* The insight goes with its mesh.
DeleteInsight ==
    /\ insight # NotFound
    /\ storeUp
    /\ deletes < plan.deletes
    /\ deletes' = deletes + 1
    /\ insight' = NotFound
    /\ UNCHANGED <<streamVars, sinkVars, storeUp>>

ToggleStore ==
    /\ plan.outages
    /\ storeUp' = ~storeUp
    /\ UNCHANGED <<streamVars, sinkVars, insight, deletes>>

Sink(s) == \/ \E last \in BOOLEAN : Flush(s, last)
           \/ FlushNothing(s) \/ GetInsight(s) \/ CreateInsight(s) \/ UpdateInsight(s)

Next ==
    \/ \E s \in Streams :
          \/ OnStreamOpen(s)
          \/ \E identified \in BOOLEAN : OnStreamRequest(s, identified)
          \/ OnStreamAck(s) \/ OnStreamNack(s)
          \/ OnStreamResponse(s)
          \/ OnStreamClosed(s)
          \/ Sink(s)
    \/ DeleteInsight
    \/ ToggleStore

\* The ticker fires again and again, the calls of the store return, and a
\* select with two ready cases does not for ever choose the tick.
Fairness == \A s \in Streams :
    /\ WF_vars(Sink(s))
    /\ SF_vars(Flush(s, TRUE) \/ FlushNothing(s))

Spec == Init /\ [][Next]_vars /\ Fairness
-----------------------------------------------------------------------------
(* Properties.                                                             *)

\* The types, and a subscription has a disconnect time once its stream is
\* closed and not before.
TypeOK ==
    /\ plan \in Plans
    /\ phase \in [Streams -> {"new", "open", "closed"}]
    /\ subscription \in [Streams -> Subscriptions]
    /\ pc \in [Streams -> {"none", "idle", "get", "put", "done"}]
    /\ stopped \in [Streams -> BOOLEAN]
    /\ status \in [Streams -> Subscriptions \cup {NotFound}]
    /\ got \in [Streams -> Insights \cup {NotFound}]
    /\ lastStored \in [Streams -> Subscriptions \cup {NotFound}]
    /\ insight \in Insights \cup {NotFound}
    /\ storeUp \in BOOLEAN
    /\ deletes \in 0 .. plan.deletes
    /\ \A s \in Streams : subscription[s].disconnected = (phase[s] = "closed")

Entry(i, s) == IF i = NotFound THEN NotFound ELSE i.entries[s]

\* One state of a subscription may follow another.
NotBefore(new, old) ==
    \/ old = NotFound
    \/ /\ new # NotFound
       /\ old.disconnected => new.disconnected
       /\ new.sent >= old.sent
       /\ new.acknowledged >= old.acknowledged
       /\ new.rejected >= old.rejected

\* What the insight says of a subscription never goes back in time, and no
\* entry vanishes, as long as nobody deletes the insight: a sink that writes
\* the entries it read a while ago does not undo those of another sink.
\* (After a deletion it may: the insight is created again with the first
\* version, which the sink may have read before.)
NeverRegresses ==
    [][deletes' = 0 =>
          \A s \in Streams : NotBefore(Entry(insight', s), Entry(insight, s))]_insight

\* An insight never runs ahead of the streams it describes: it reports only
\* responses that were sent, ACKed or NACKed, and only real disconnects.
NeverAhead ==
    \A s \in Streams : Entry(insight, s) # NotFound =>
                           NotBefore(subscription[s], Entry(insight, s))

InputsSettle == <>[][FALSE]_<<phase, subscription, storeUp, deletes>>

\* When nothing changes any more, the insight ends up with the status of
\* every stream that is open: a sink whose write lost a race tries again.
EventuallyRecorded ==
    InputsSettle =>
        <>[](storeUp /\ deletes = 0 =>
                \A s \in Streams : phase[s] = "open" /\ pc[s] # "none" =>
                                       Entry(insight, s) = subscription[s])

\* The sink of a closed stream returns.
SinkStops ==
    \A s \in Streams : phase[s] = "closed" /\ pc[s] # "none" ~> pc[s] = "done"
=============================================================================
