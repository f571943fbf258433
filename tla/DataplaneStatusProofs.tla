----------------------- MODULE DataplaneStatusProofs -----------------------
(***************************************************************************)
(* Proofs about DataplaneStatus, for any number of sinks: what is stored   *)
(* in the insight neither runs ahead of the streams nor goes back.         *)
(***************************************************************************)
EXTENDS DataplaneStatus, TLAPS

\* A value a sink has read or copied, or that is stored, is one the stream of
\* the subscription has been through.
Past(entries) ==
    \A s \in Streams : entries[s] # NotFound => NotBefore(subscription[s], entries[s])

\* All copies of subscriptions are of the past: those being flushed, those read
\* from the store and those stored.
CopiesArePast ==
    /\ Past(status) /\ Past(lastStored)
    /\ insight # NotFound => Past(insight.entries)
    /\ \A s \in Streams : got[s] # NotFound => Past(got[s].entries)

\* While the insight has not been deleted: a sink knows what it stored last, it
\* has not begun to flush anything older, and what a sink has read is the
\* insight of today if the versions say so.
SinksAgree ==
    deletes = 0 =>
        /\ \A s \in Streams : Entry(insight, s) = lastStored[s]
        /\ \A s \in Streams : status[s] # NotFound => NotBefore(status[s], lastStored[s])
        /\ \A s \in Streams : got[s] # NotFound =>
              /\ insight # NotFound
              /\ got[s].version <= insight.version
              /\ got[s].version = insight.version => got[s].entries = insight.entries

\* A sink between its first and its last step holds what it flushes.
Flushing == \A s \in Streams : (pc[s] \in {"get", "put"}) = (status[s] # NotFound)

IInv == TypeOK /\ Flushing /\ CopiesArePast /\ SinksAgree
-----------------------------------------------------------------------------
\* Subscriptions only go forward, step after step.
LEMMA NotBeforeTransitive ==
    ASSUME NEW a \in Subscriptions, NEW b \in Subscriptions,
           NEW c \in Subscriptions \cup {NotFound},
           NotBefore(a, b), NotBefore(b, c)
    PROVE  NotBefore(a, c)
  BY NamesAssumption DEF NotBefore, Subscriptions

LEMMA NotBeforeReflexive ==
    ASSUME NEW a \in Subscriptions
    PROVE  NotBefore(a, a)
  BY NamesAssumption DEF NotBefore, Subscriptions

\* Counting and disconnecting take a subscription forward.
LEMMA SubscriptionAdvances ==
    ASSUME NEW a \in Subscriptions
    PROVE  /\ \A b \in {[a EXCEPT !.sent = @ + 1], [a EXCEPT !.acknowledged = @ + 1],
                        [a EXCEPT !.rejected = @ + 1]} :
                 b \in Subscriptions /\ NotBefore(b, a) /\ b.disconnected = a.disconnected
           /\ [a EXCEPT !.disconnected = TRUE] \in Subscriptions
           /\ NotBefore([a EXCEPT !.disconnected = TRUE], a)
<1>1. [a EXCEPT !.sent = @ + 1] \in Subscriptions
  BY DEF Subscriptions
<1>2. [a EXCEPT !.acknowledged = @ + 1] \in Subscriptions
  BY DEF Subscriptions
<1>3. [a EXCEPT !.rejected = @ + 1] \in Subscriptions
  BY DEF Subscriptions
<1>4. [a EXCEPT !.disconnected = TRUE] \in Subscriptions
  BY ZenonT(60) DEF Subscriptions
<1>5. \A b \in Subscriptions : b # NotFound
  BY NamesAssumption
<1>6. NotBefore([a EXCEPT !.sent = @ + 1], a) /\ [a EXCEPT !.sent = @ + 1].disconnected = a.disconnected
  BY <1>1, <1>5 DEF NotBefore, Subscriptions
<1>7. NotBefore([a EXCEPT !.acknowledged = @ + 1], a)
      /\ [a EXCEPT !.acknowledged = @ + 1].disconnected = a.disconnected
  BY <1>2, <1>5 DEF NotBefore, Subscriptions
<1>8. NotBefore([a EXCEPT !.rejected = @ + 1], a)
      /\ [a EXCEPT !.rejected = @ + 1].disconnected = a.disconnected
  BY <1>3, <1>5 DEF NotBefore, Subscriptions
<1>9. NotBefore([a EXCEPT !.disconnected = TRUE], a)
  <2> DEFINE b == [a EXCEPT !.disconnected = TRUE]
  <2>1. b.disconnected
    BY DEF Subscriptions
  <2>2. b.sent = a.sent /\ b.acknowledged = a.acknowledged /\ b.rejected = a.rejected
    BY DEF Subscriptions
  <2>3. b \in Subscriptions
    BY <1>4
  <2> HIDE DEF b
  <2>4. NotBefore(b, a)
    BY <1>5, <2>1, <2>2, <2>3 DEF NotBefore, Subscriptions
  <2> QED
    BY <2>4 DEF b
<1> QED
  BY <1>1, <1>2, <1>3, <1>4, <1>6, <1>7, <1>8, <1>9

\* The streams of the sinks that run: nothing else happens to the insight.
Callback(s) ==
    \/ OnStreamOpen(s)
    \/ \E identified \in BOOLEAN : OnStreamRequest(s, identified)
    \/ OnStreamAck(s) \/ OnStreamNack(s) \/ OnStreamResponse(s) \/ OnStreamClosed(s)

\* A callback changes the subscription of its own stream only, and only
\* forward.
LEMMA CallbackAdvances ==
    ASSUME TypeOK, NEW s \in Streams, Callback(s)
    PROVE  /\ subscription' \in [Streams -> Subscriptions]
           /\ \A x \in Streams : NotBefore(subscription'[x], subscription[x])
           /\ \A x \in Streams : subscription'[x].disconnected = (phase'[x] = "closed")
           /\ phase' \in [Streams -> {"new", "open", "closed"}]
           /\ pc' \in [Streams -> {"none", "idle", "get", "put", "done"}]
           /\ \A x \in Streams : pc'[x] = pc[x] \/ (pc[x] = "none" /\ pc'[x] = "idle")
           /\ UNCHANGED <<plan, stopped, status, got, lastStored, storeVars>>
<1>1. \A x \in Streams : NotBefore(subscription[x], subscription[x])
  BY NotBeforeReflexive DEF TypeOK
<1>2. CASE OnStreamOpen(s)
  BY <1>1, <1>2 DEF TypeOK, OnStreamOpen, sinkVars, storeVars
<1>3. ASSUME NEW identified \in BOOLEAN, OnStreamRequest(s, identified)
      PROVE  /\ UNCHANGED <<phase, subscription>>
             /\ pc' \in [Streams -> {"none", "idle", "get", "put", "done"}]
             /\ \A x \in Streams : pc'[x] = pc[x] \/ (pc[x] = "none" /\ pc'[x] = "idle")
             /\ UNCHANGED <<plan, stopped, status, got, lastStored, storeVars>>
  BY <1>3 DEF TypeOK, OnStreamRequest, StartSink
<1>4. CASE OnStreamAck(s) \/ OnStreamNack(s)
  <2>1. /\ pc' \in [Streams -> {"none", "idle", "get", "put", "done"}]
        /\ \A x \in Streams : pc'[x] = pc[x] \/ (pc[x] = "none" /\ pc'[x] = "idle")
    BY <1>4 DEF TypeOK, OnStreamAck, OnStreamNack, StartSink
  <2>2. /\ subscription' \in [Streams -> Subscriptions]
        /\ \A x \in Streams : NotBefore(subscription'[x], subscription[x])
        /\ \A x \in Streams : subscription'[x].disconnected = subscription[x].disconnected
    <3> DEFINE b == IF OnStreamAck(s) THEN [subscription[s] EXCEPT !.acknowledged = @ + 1]
                    ELSE [subscription[s] EXCEPT !.rejected = @ + 1]
    <3>1. subscription' = [subscription EXCEPT ![s] = b]
      BY ZenonT(60), <1>4 DEF OnStreamAck, OnStreamNack
    <3>2. b \in Subscriptions /\ NotBefore(b, subscription[s])
          /\ b.disconnected = subscription[s].disconnected
      BY ZenonT(60), SubscriptionAdvances DEF TypeOK
    <3> HIDE DEF b
    <3> QED
      BY <1>1, <3>1, <3>2 DEF TypeOK
  <2>3. UNCHANGED <<plan, phase, stopped, status, got, lastStored, storeVars>>
    BY ZenonT(60), <1>4 DEF OnStreamAck, OnStreamNack
  <2>4. \A x \in Streams : subscription'[x].disconnected = (phase'[x] = "closed")
    <3>1. \A x \in Streams : subscription[x].disconnected = (phase[x] = "closed")
      BY DEF TypeOK
    <3>2. phase' = phase
      BY <2>3
    <3> QED
      BY <2>2, <3>1, <3>2, ZenonT(60)
  <2> QED
    BY <2>1, <2>2, <2>3, <2>4 DEF TypeOK
<1>5. CASE OnStreamResponse(s)
  <2>1. /\ subscription' \in [Streams -> Subscriptions]
        /\ \A x \in Streams : NotBefore(subscription'[x], subscription[x])
        /\ \A x \in Streams : subscription'[x].disconnected = subscription[x].disconnected
    BY ZenonT(60), <1>1, <1>5, SubscriptionAdvances DEF TypeOK, OnStreamResponse
  <2> QED
    BY <1>5, <2>1 DEF TypeOK, OnStreamResponse, sinkVars
<1>6. CASE OnStreamClosed(s)
  <2>1. /\ subscription' \in [Streams -> Subscriptions]
        /\ \A x \in Streams : NotBefore(subscription'[x], subscription[x])
    BY ZenonT(60), <1>1, <1>6, SubscriptionAdvances DEF TypeOK, OnStreamClosed
  <2> QED
    <3>1. \A x \in Streams : subscription'[x].disconnected = (phase'[x] = "closed")
      <4> SUFFICES ASSUME NEW x \in Streams
                   PROVE  subscription'[x].disconnected = (phase'[x] = "closed")
        OBVIOUS
      <4>1. CASE x = s
        <5>1. phase'[x] = "closed"
          BY <1>6, <4>1 DEF TypeOK, OnStreamClosed
        <5>2. subscription'[x] = [subscription[s] EXCEPT !.disconnected = TRUE]
          BY <1>6, <4>1 DEF TypeOK, OnStreamClosed
        <5>3. subscription'[x].disconnected = TRUE
          BY <5>2 DEF TypeOK, Subscriptions
        <5> QED
          BY <5>1, <5>3, ZenonT(60)
      <4>2. CASE x # s
        <5>1. phase'[x] = phase[x] /\ subscription'[x] = subscription[x]
          BY <1>6, <4>2 DEF TypeOK, OnStreamClosed
        <5>2. subscription[x].disconnected = (phase[x] = "closed")
          BY DEF TypeOK
        <5> QED
          BY <5>1, <5>2, ZenonT(60)
      <4> QED
        BY <4>1, <4>2
    <3> QED
      BY ZenonT(60), <1>6, <2>1, <3>1 DEF TypeOK, OnStreamClosed, sinkVars
<1> QED
  BY <1>1, <1>2, <1>3, <1>4, <1>5, <1>6 DEF Callback, TypeOK

\* When the control plane starts there is no insight and no sink.
LEMMA InitInvariant == Init => IInv
<1> SUFFICES ASSUME Init PROVE IInv
  OBVIOUS
<1>1. NewSubscription \in Subscriptions /\ ~NewSubscription.disconnected
  BY DEF NewSubscription, Subscriptions
<1>2. plan.deletes \in Nat
  BY BoundsAssumption DEF Init
<1>3. TypeOK
  <2>1. \A s \in Streams : subscription[s].disconnected = (phase[s] = "closed")
    BY ZenonT(60), <1>1 DEF Init, NewSubscription
  <2> QED
    BY <1>1, <1>2, <2>1 DEF Init, TypeOK
<1>4. Flushing /\ CopiesArePast
  BY DEF Init, Flushing, CopiesArePast, Past
<1>5. SinksAgree
  BY DEF Init, SinksAgree, Entry
<1> QED
  BY <1>3, <1>4, <1>5 DEF IInv

\* Callbacks leave copies where they are, and copies of the past stay so.
LEMMA CallbackInvariant ==
    ASSUME IInv, NEW s \in Streams, Callback(s)
    PROVE  IInv'
<1> USE DEF IInv
<1>1. TypeOK'
  BY CallbackAdvances DEF TypeOK, storeVars
<1>2. Flushing'
  BY CallbackAdvances DEF Flushing
<1>3. ASSUME NEW e \in [Streams -> Subscriptions \cup {NotFound}], Past(e)
      PROVE  \A x \in Streams : e[x] # NotFound => NotBefore(subscription'[x], e[x])
  BY <1>3, CallbackAdvances, NotBeforeTransitive DEF Past, TypeOK
<1>4. CopiesArePast'
  <2>1. UNCHANGED <<status, lastStored, insight, got>>
    BY CallbackAdvances DEF storeVars
  <2>2. insight # NotFound => insight.entries \in [Streams -> Subscriptions \cup {NotFound}]
    BY DEF TypeOK, Insights
  <2>3. \A x \in Streams : got[x] # NotFound => got[x].entries \in [Streams -> Subscriptions \cup {NotFound}]
    BY DEF TypeOK, Insights
  <2> QED
    BY SMTT(40), ZenonT(40), <1>3, <2>1, <2>2, <2>3 DEF CopiesArePast, Past, TypeOK
<1>5. SinksAgree'
  BY CallbackAdvances DEF SinksAgree, Entry, storeVars
<1> QED
  BY <1>1, <1>2, <1>4, <1>5

\* A flush begins with a copy of the subscription.
LEMMA FlushInvariant ==
    ASSUME IInv, NEW s \in Streams,
           FlushNothing(s) \/ \E last \in BOOLEAN : Flush(s, last)
    PROVE  IInv'
<1> USE DEF IInv
<1>1. CASE FlushNothing(s)
  BY <1>1 DEF FlushNothing, TypeOK, Flushing, CopiesArePast, Past, SinksAgree, Entry, streamVars, storeVars
<1>2. ASSUME NEW last \in BOOLEAN, Flush(s, last)
      PROVE  IInv'
  <2>1. TypeOK'
    <3>1. stopped' \in [Streams -> BOOLEAN]
      BY <1>2, ZenonT(60) DEF Flush, TypeOK
    <3> QED
      BY <1>2, <3>1 DEF Flush, TypeOK, streamVars, storeVars
  <2>2. Flushing'
    BY <1>2, NamesAssumption DEF Flush, TypeOK, Flushing
  <2>3. Past(status)'
    BY <1>2, NotBeforeReflexive DEF Flush, CopiesArePast, Past, TypeOK, streamVars
  <2>4. CopiesArePast'
    BY <1>2, <2>3 DEF Flush, CopiesArePast, Past, streamVars, storeVars
  <2>5. NotBefore(subscription[s], lastStored[s])
    BY DEF CopiesArePast, Past, NotBefore
  <2>6. SinksAgree'
    BY <1>2, <2>5 DEF Flush, SinksAgree, Entry, TypeOK, streamVars, storeVars
  <2> QED
    BY <2>1, <2>2, <2>4, <2>6
<1> QED
  BY <1>1, <1>2

\* A flush that stores nothing only forgets.
LEMMA FlushedInvariant ==
    ASSUME IInv, NEW s \in Streams, pc[s] \in {"get", "put"}, Flushed(s, FALSE), UNCHANGED storeVars
    PROVE  IInv'
<1> USE DEF IInv
<1>1. TypeOK'
  BY DEF Flushed, TypeOK, streamVars, storeVars
<1>2. Flushing'
  BY DEF Flushed, Flushing, TypeOK
<1>3. CopiesArePast'
  BY DEF Flushed, CopiesArePast, Past, TypeOK, streamVars, storeVars
<1>4. SinksAgree'
  BY DEF Flushed, SinksAgree, Entry, TypeOK, streamVars, storeVars
<1> QED
  BY <1>1, <1>2, <1>3, <1>4

\* What is read is what is stored.
LEMMA GetInvariant ==
    ASSUME IInv, NEW s \in Streams, GetInsight(s)
    PROVE  IInv'
<1> USE DEF IInv
<1>1. CASE Flushed(s, FALSE)
  BY ZenonT(60), <1>1, FlushedInvariant DEF GetInsight
<1>2. CASE /\ got' = [got EXCEPT ![s] = insight]
           /\ pc' = [pc EXCEPT ![s] = "put"]
           /\ UNCHANGED <<streamVars, stopped, status, lastStored>>
  <2>1. UNCHANGED storeVars
    BY DEF GetInsight
  <2>2. TypeOK'
    BY <1>2, <2>1 DEF TypeOK, streamVars, storeVars
  <2>3. Flushing'
    BY <1>2 DEF GetInsight, Flushing, TypeOK
  <2>4. CopiesArePast'
    BY <1>2, <2>1 DEF CopiesArePast, Past, TypeOK, streamVars, storeVars
  <2>5. SinksAgree'
    BY <1>2, <2>1 DEF SinksAgree, Entry, TypeOK, Insights, streamVars, storeVars
  <2> QED
    BY <2>2, <2>3, <2>4, <2>5
<1> QED
  BY ZenonT(60), <1>1, <1>2 DEF GetInsight

\* A write that succeeds: under the version that was read the insight is what
\* was read, so only the entry of the sink changes, and to something newer.
LEMMA StoreInvariant ==
    ASSUME IInv, NEW s \in Streams, pc[s] = "put", Flushed(s, TRUE), UNCHANGED <<storeUp, deletes>>,
           NEW entries \in [Streams -> Subscriptions \cup {NotFound}], Past(entries),
           NEW version \in Nat,
           insight' = [version |-> version, entries |-> [entries EXCEPT ![s] = status[s]]],
           insight = NotFound => entries = NoEntries,
           insight # NotFound => version = insight.version + 1,
           deletes = 0 /\ insight # NotFound => entries = insight.entries
    PROVE  /\ IInv'
           /\ deletes = 0 => \A x \in Streams : NotBefore(Entry(insight', x), Entry(insight, x))
<1> USE DEF IInv
<1>1. status[s] \in Subscriptions /\ status[s] # NotFound
  BY DEF Flushing, TypeOK
<1>2. /\ insight' \in Insights
      /\ insight'.version = version
      /\ insight'.entries = [entries EXCEPT ![s] = status[s]]
      /\ insight' # NotFound
  BY <1>1, NamesAssumption DEF Insights
<1>3. TypeOK'
  BY <1>1, <1>2 DEF Flushed, TypeOK, streamVars
<1>4. Flushing'
  BY DEF Flushed, Flushing, TypeOK
<1>5. CopiesArePast'
  <2>1. UNCHANGED subscription
    BY DEF Flushed, streamVars
  <2>2. Past(insight.entries)'
    BY <1>1, <1>2, <2>1 DEF CopiesArePast, Past
  <2>3. Past(status)' /\ Past(lastStored)'
    BY <2>1 DEF Flushed, CopiesArePast, Past, TypeOK
  <2>4. \A x \in Streams : got'[x] # NotFound => got'[x] = got[x]
    BY SMTT(40), ZenonT(40) DEF Flushed, TypeOK
  <2> QED
    BY <2>1, <2>2, <2>3, <2>4 DEF CopiesArePast, Past
<1>6. SinksAgree'
  <2> SUFFICES ASSUME deletes = 0 PROVE SinksAgree'
    BY ZenonT(60) DEF SinksAgree
  <2>1. \A x \in Streams : entries[x] = lastStored[x]
    BY DEF SinksAgree, Entry, NoEntries
  <2>2. \A x \in Streams : Entry(insight, x)' = lastStored'[x]
    BY <1>2, <2>1 DEF Entry, Flushed, TypeOK
  <2>3. \A x \in Streams : status'[x] # NotFound => x # s /\ status'[x] = status[x] /\ lastStored'[x] = lastStored[x]
    BY DEF Flushed, TypeOK
  <2>4. \A x \in Streams : got'[x] # NotFound => /\ got'[x] = got[x]
                                                /\ insight # NotFound
                                                /\ got[x].version <= insight.version
                                                /\ got[x].version \in Nat /\ insight.version \in Nat
    BY DEF Flushed, TypeOK, SinksAgree, Insights
  <2>5. \A x \in Streams : got'[x] # NotFound => got'[x].version < version
    BY <2>4
  <2> QED
    BY SMTT(40), ZenonT(40), <1>2, <2>2, <2>3, <2>4, <2>5 DEF SinksAgree, TypeOK, Insights
<1>7. ASSUME deletes = 0, NEW x \in Streams
      PROVE  NotBefore(Entry(insight', x), Entry(insight, x))
  <2>1. Entry(insight, x) = lastStored[x] /\ lastStored[x] = entries[x]
    BY <1>7 DEF SinksAgree, Entry, NoEntries
  <2>2. Entry(insight', x) = IF x = s THEN status[s] ELSE entries[x]
    BY <1>2 DEF Entry
  <2>3. CASE x = s
    BY <1>1, <1>7, <2>1, <2>2, <2>3 DEF SinksAgree
  <2>4. CASE x # s
    <3>1. entries[x] = NotFound \/ NotBefore(entries[x], entries[x])
      BY NotBeforeReflexive
    <3> QED
      BY <2>1, <2>2, <2>4, <3>1 DEF NotBefore
  <2> QED
    BY <2>3, <2>4
<1> QED
  BY <1>3, <1>4, <1>5, <1>6, <1>7

\* Create and Update, successful or not.
LEMMA PutInvariant ==
    ASSUME IInv, NEW s \in Streams, CreateInsight(s) \/ UpdateInsight(s)
    PROVE  /\ IInv'
           /\ deletes = 0 /\ insight' # insight =>
                 \A x \in Streams : NotBefore(Entry(insight', x), Entry(insight, x))
<1> USE DEF IInv
<1>1. CASE UNCHANGED insight /\ Flushed(s, FALSE)
  BY ZenonT(60), <1>1, FlushedInvariant DEF CreateInsight, UpdateInsight, storeVars
<1>2. CASE /\ pc[s] = "put" /\ insight = NotFound
           /\ insight' = [version |-> 0, entries |-> UpdateSubscription(NoEntries, s)]
           /\ Flushed(s, TRUE)
           /\ UNCHANGED <<storeUp, deletes>>
  <2>1. NoEntries \in [Streams -> Subscriptions \cup {NotFound}] /\ Past(NoEntries)
    BY DEF NoEntries, Past
  <2>2. insight' = [version |-> 0, entries |-> [NoEntries EXCEPT ![s] = status[s]]]
    BY <1>2 DEF UpdateSubscription
  <2> QED
    BY ZenonT(60), <1>2, <2>1, <2>2, StoreInvariant
<1>3. CASE /\ pc[s] = "put" /\ got[s] # NotFound /\ SameVersion(s)
           /\ insight' = [version |-> insight.version + 1,
                          entries |-> UpdateSubscription(got[s].entries, s)]
           /\ Flushed(s, TRUE)
           /\ UNCHANGED <<storeUp, deletes>>
  <2>1. /\ got[s].entries \in [Streams -> Subscriptions \cup {NotFound}]
        /\ Past(got[s].entries)
        /\ insight # NotFound /\ insight.version + 1 \in Nat
    BY <1>3 DEF TypeOK, Insights, CopiesArePast, SameVersion
  <2>2. insight' = [version |-> insight.version + 1, entries |-> [got[s].entries EXCEPT ![s] = status[s]]]
    BY <1>3 DEF UpdateSubscription
  <2>3. deletes = 0 => got[s].entries = insight.entries
    BY <1>3 DEF SinksAgree, SameVersion
  <2> QED
    BY ZenonT(60), <1>3, <2>1, <2>2, <2>3, StoreInvariant
<1> QED
  BY ZenonT(60), <1>1, <1>2, <1>3 DEF CreateInsight, UpdateInsight

\* The rest of the world: what a deletion leaves of SinksAgree is nothing.
LEMMA WorldInvariant ==
    ASSUME IInv, DeleteInsight \/ ToggleStore \/ UNCHANGED vars
    PROVE  IInv'
<1> USE DEF IInv
<1>1. CASE DeleteInsight
  <2>1. TypeOK'
    BY <1>1, BoundsAssumption DEF DeleteInsight, TypeOK, streamVars, sinkVars
  <2>2. deletes' # 0
    BY <1>1, BoundsAssumption DEF DeleteInsight, TypeOK
  <2> QED
    BY <1>1, <2>1, <2>2 DEF DeleteInsight, Flushing, CopiesArePast, Past, SinksAgree, streamVars, sinkVars
<1>2. CASE ToggleStore
  BY <1>2 DEF ToggleStore, TypeOK, Flushing, CopiesArePast, Past, SinksAgree, Entry, streamVars, sinkVars
<1>3. CASE UNCHANGED vars
  BY <1>3 DEF vars, TypeOK, Flushing, CopiesArePast, Past, SinksAgree, Entry
<1> QED
  BY <1>1, <1>2, <1>3
-----------------------------------------------------------------------------
\* Every step keeps the invariant, and none but a deletion takes the insight
\* back.
LEMMA NextInvariant ==
    ASSUME IInv, [Next]_vars
    PROVE  /\ IInv'
           /\ deletes' = 0 /\ insight' # insight =>
                 \A s \in Streams : NotBefore(Entry(insight', s), Entry(insight, s))
<1>1. CASE DeleteInsight \/ ToggleStore \/ UNCHANGED vars
  <2>1. IInv'
    BY <1>1, WorldInvariant
  <2>2. deletes' = 0 => UNCHANGED insight
    BY <1>1, BoundsAssumption DEF IInv, TypeOK, DeleteInsight, ToggleStore, vars
  <2> QED
    BY <2>1, <2>2
<1>2. ASSUME NEW s \in Streams, Callback(s)
      PROVE  IInv' /\ UNCHANGED insight
  BY <1>2, CallbackInvariant, CallbackAdvances DEF IInv, storeVars
<1>3. ASSUME NEW s \in Streams, FlushNothing(s) \/ \E last \in BOOLEAN : Flush(s, last)
      PROVE  IInv' /\ UNCHANGED insight
  BY <1>3, FlushInvariant DEF FlushNothing, Flush, storeVars
<1>4. ASSUME NEW s \in Streams, GetInsight(s)
      PROVE  IInv' /\ UNCHANGED insight
  BY ZenonT(60), <1>4, GetInvariant DEF GetInsight, storeVars
<1>5. ASSUME NEW s \in Streams, CreateInsight(s) \/ UpdateInsight(s)
      PROVE  /\ IInv' /\ deletes' = deletes
             /\ deletes = 0 /\ insight' # insight =>
                   \A x \in Streams : NotBefore(Entry(insight', x), Entry(insight, x))
  BY ZenonT(60), <1>5, PutInvariant DEF CreateInsight, UpdateInsight
<1> QED
  BY <1>1, <1>2, <1>3, <1>4, <1>5 DEF Next, Sink, Callback

\* The types of streams, sinks and store, and a disconnect time in the
\* subscription exactly when the stream is closed (OnStreamClosed).
THEOREM TypeCorrect == Spec => []TypeOK
<1>1. IInv => TypeOK
  BY DEF IInv
<1> QED
  BY <1>1, InitInvariant, NextInvariant, PTL DEF Spec

\* The insight never runs ahead of the streams (Flush, Upsert), whatever sinks
\* race for it.
THEOREM InsightNeverAhead == Spec => []NeverAhead
<1>1. IInv => NeverAhead
  BY DEF IInv, CopiesArePast, Past, NeverAhead, Entry
<1> QED
  BY <1>1, InitInvariant, NextInvariant, PTL DEF Spec

\* No sink takes back what another, or it itself, has stored, as long as the
\* insight is not deleted: the check of versions in Update is enough.
THEOREM InsightNeverRegresses == Spec => NeverRegresses
<1>1. IInv /\ [Next]_vars =>
         [deletes' = 0 => \A s \in Streams : NotBefore(Entry(insight', s), Entry(insight, s))]_insight
  BY NextInvariant
<1> QED
  BY <1>1, InitInvariant, NextInvariant, PTL DEF Spec, NeverRegresses
=============================================================================
