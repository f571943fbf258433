------------------------- MODULE ResourceApiProofs -------------------------
(***************************************************************************)
(* What the caching manager hands out is never older than an expiration    *)
(* time and a read of the store, for every number of readers, of keys and  *)
(* of clients, every store, and every expiration time.  The operations of  *)
(* the store stay closed: nothing of what it holds matters to the bound.   *)
(***************************************************************************)
EXTENDS ResourceApi, WellFoundedInduction, TLAPS

\* The store held the value v under the key h at the time t or later.
HeldSince(h, v, t) == \E l \in lastHeld : l.held = <<h, v>> /\ t <= l.at

\* The history: nothing of it lies in the future, and what the store holds
\* now is part of it.
HistoryOK ==
    /\ now \in Nat
    /\ \A l \in lastHeld : l.at \in Nat /\ l.at <= now
    /\ \A h \in Held(store) : \E l \in lastHeld : l.held = h /\ l.at = now

\* An entry was in the store at most one read before it was set, and expires
\* an expiration time after that.
EntriesHeld ==
    /\ DOMAIN cache = {HashCode(k) : k \in env.cached}
    /\ \A h \in DOMAIN cache : cache[h] # << >> =>
          /\ cache[h][1].expires \in Nat
          /\ HeldSince(h, cache[h][1].value,
                       cache[h][1].expires - (ExpirationTime + MaxFetch))

\* A reader between its read and its write holds what the store held when it
\* read; one that returns a value holds what the theorem is about.
ReadersHold ==
    /\ DOMAIN readers = Readers
    /\ \A r \in Readers :
          /\ DOMAIN readers[r] = {"pc", "key", "value", "since"}
          /\ readers[r].pc # "rest" => \E k \in env.cached : readers[r].key = <<k>>
          /\ readers[r].pc = "set" =>
                /\ readers[r].since \in Nat /\ now - readers[r].since <= MaxFetch
                /\ HeldSince(HashCode(readers[r].key[1]), readers[r].value, readers[r].since)
          /\ readers[r].pc = "hit" =>
                HeldSince(HashCode(readers[r].key[1]), readers[r].value,
                          now - (ExpirationTime + MaxFetch))

IInv == HistoryOK /\ EntriesHeld /\ ReadersHold
-----------------------------------------------------------------------------
(* The history of the store                                                 *)

\* Everything that was held is held still, or was held until later.
Renewed == \A l \in lastHeld : \E m \in lastHeld' : m.held = l.held /\ l.at <= m.at

\* Nobody changes how the control plane is deployed.
LEMMA EnvFixed == [Next]_allVars => env' = env
<1>1. ASSUME Client PROVE env' = env
  BY ZenonT(60), <1>1 DEF Client, Start, Load, Answer, Timeout, Truncate, Save, Killed, Kubectl
<1>2. ASSUME Server PROVE env' = env
  BY <1>2 DEF Server, ServerStep, Abandoned
<1>3. ASSUME Reading \/ Done \/ UNCHANGED allVars PROVE env' = env
  BY <1>3 DEF Reading, Done, allVars, vars
<1> QED BY SMTT(40), ZenonT(40), <1>1, <1>2, <1>3 DEF Next

\* What the new store holds is what is held next.
LEMMA HeldNext == ASSUME env' = env PROVE (Held(store))' = Held(store')
<1>1. backend' = backend BY DEF backend
<1>2. \A k : (Fetched(store, k))' = Fetched(store', k)
  BY <1>1 DEF Fetched, StoreList, StoreGet, KubeSecret
<1> QED BY <1>2 DEF Held

\* A step that changes the store, and a tick, keep the history.
LEMMA HistoryKept == HistoryOK /\ [Next]_allVars => HistoryOK' /\ Renewed
<1> SUFFICES ASSUME HistoryOK, [Next]_allVars PROVE HistoryOK' /\ Renewed OBVIOUS
<1> DEFINE H == Held(store)
           N == Held(store')
<1>0. (Held(store))' = N BY EnvFixed, HeldNext
<1>1. /\ now \in Nat
      /\ \A l \in lastHeld : l.at \in Nat /\ l.at <= now
      /\ \A h \in H : \E l \in lastHeld : l.held = h /\ l.at = now
  BY DEF HistoryOK
<1>2. CASE Elsewhere
  <2>1. /\ now' = now
        /\ lastHeld' = {l \in lastHeld : l.held \notin (H \cup N)} \cup
                       {[held |-> h, at |-> now] : h \in H \cup N}
    BY <1>2 DEF Elsewhere, Remember
  <2> HIDE DEF H, N
  <2>2. \A l \in lastHeld' : l.at \in Nat /\ l.at <= now'
    <3> TAKE l \in lastHeld'
    <3>1. l \in lastHeld \/ \E h \in H \cup N : l = [held |-> h, at |-> now] BY <2>1
    <3>2. l \in lastHeld \/ l.at = now BY <3>1
    <3> QED BY <1>1, <2>1, <3>2
  <2>3. \A h \in N : \E l \in lastHeld' : l.held = h /\ l.at = now'
    <3> TAKE h \in N
    <3>1. [held |-> h, at |-> now] \in lastHeld' BY <2>1
    <3>2. now' = now BY <2>1
    <3> QED BY <3>1, <3>2
  <2>4. \A l \in lastHeld : \E m \in lastHeld' : m.held = l.held /\ l.at <= m.at
    <3> TAKE l \in lastHeld
    <3>1. CASE l.held \in H \cup N
      <4>1. [held |-> l.held, at |-> now] \in lastHeld' BY <2>1, <3>1
      <4> QED BY <4>1, <1>1
    <3>2. CASE l.held \notin H \cup N
      <4>1. l \in lastHeld' BY <2>1, <3>2
      <4> QED BY <4>1, <1>1
    <3> QED BY <3>1, <3>2
  <2> QED BY <1>0, <1>1, <2>1, <2>2, <2>3, <2>4 DEF HistoryOK, Renewed
<1>3. CASE UNCHANGED vars /\ Tick
  <2>1. /\ now' = now + 1
        /\ lastHeld' = {l \in lastHeld : \A c \in Current : l.held # c.held} \cup
                       {[held |-> h, at |-> now + 1] : h \in H}
    BY <1>3 DEF Tick
  <2>2. Current = {[held |-> h, at |-> now] : h \in H} BY DEF Current
  <2>3. N = H BY <1>3 DEF vars
  <2> HIDE DEF H, N
  <2>4. \A l \in lastHeld' : l.at \in Nat /\ l.at <= now'
    <3> TAKE l \in lastHeld'
    <3>1. l \in lastHeld \/ \E h \in H : l = [held |-> h, at |-> now + 1] BY <2>1
    <3>2. l \in lastHeld \/ l.at = now + 1 BY <3>1
    <3>3. now' = now + 1 BY <2>1
    <3>4. CASE l \in lastHeld
      <4>1. l.at \in Nat /\ l.at <= now BY <1>1, <3>4
      <4> QED BY <1>1, <3>3, <4>1
    <3>5. CASE l.at = now + 1 BY <1>1, <3>3, <3>5
    <3> QED BY <3>2, <3>4, <3>5
  <2>5. \A h \in N : \E l \in lastHeld' : l.held = h /\ l.at = now'
    <3> TAKE h \in N
    <3>1. [held |-> h, at |-> now + 1] \in lastHeld' BY <2>1, <2>3
    <3>2. now' = now + 1 BY <2>1
    <3> QED BY <3>1, <3>2
  <2>6. \A l \in lastHeld : \E m \in lastHeld' : m.held = l.held /\ l.at <= m.at
    <3> TAKE l \in lastHeld
    <3>1. CASE l.held \in H
      <4>1. [held |-> l.held, at |-> now + 1] \in lastHeld' BY <2>1, <3>1
      <4> QED BY <4>1, <1>1
    <3>2. CASE l.held \notin H
      <4>1. l \in lastHeld' BY <2>1, <2>2, <3>2
      <4> QED BY <4>1, <1>1
    <3> QED BY <3>1, <3>2
  <2> QED BY <1>0, <1>1, <2>1, <2>4, <2>5, <2>6 DEF HistoryOK, Renewed
<1>4. CASE UNCHANGED <<store, now, lastHeld>>
  <2>1. N = H BY SMTT(40), ZenonT(40), <1>4
  <2> QED BY <1>0, <1>1, <1>4, <2>1 DEF HistoryOK, Renewed
<1>5. Elsewhere \/ (UNCHANGED vars /\ Tick) \/ UNCHANGED <<store, now, lastHeld>>
  BY ZenonT(60) DEF Next, Reading, Done, allVars, vars, cacheVars, Lookup, Fetch, SetDefault, Return
<1> QED BY <1>2, <1>3, <1>4, <1>5
-----------------------------------------------------------------------------
(* The entries and the readers                                              *)

\* What was held since a time was held since that time in the next state.
LEMMA HeldOn ==
    ASSUME HistoryOK, HistoryOK', Renewed, NEW h, NEW v, NEW t \in Int, HeldSince(h, v, t),
           NEW u \in Int, u <= t
    PROVE  \E l \in lastHeld' : l.held = <<h, v>> /\ u <= l.at
<1>1. PICK l \in lastHeld : l.held = <<h, v>> /\ t <= l.at BY DEF HeldSince
<1>2. PICK m \in lastHeld' : m.held = l.held /\ l.at <= m.at BY DEF Renewed
<1>3. l.at \in Nat /\ m.at \in Nat BY DEF HistoryOK
<1> QED BY <1>1, <1>2, <1>3

\* A step that leaves the entries and the readers alone.
LEMMA OthersKeep ==
    ASSUME IInv, HistoryOK', Renewed, env' = env, UNCHANGED <<cache, readers>>,
           now' = now \/ (/\ now' = now + 1
                          /\ \A r \in Readers :
                                /\ readers[r].pc # "hit"
                                /\ readers[r].pc # "rest" => now - readers[r].since < MaxFetch)
    PROVE  (EntriesHeld /\ ReadersHold)'
<1> USE TimesAssumption
<1>0. HistoryOK /\ now \in Nat BY DEF IInv, HistoryOK
<1>1. EntriesHeld'
  <2>1. DOMAIN cache' = {HashCode(k) : k \in env'.cached} BY DEF IInv, EntriesHeld
  <2>2. ASSUME NEW h \in DOMAIN cache, cache[h] # << >>
        PROVE  /\ cache[h][1].expires \in Nat
               /\ \E l \in lastHeld' : /\ l.held = <<h, cache[h][1].value>>
                                       /\ cache[h][1].expires - (ExpirationTime + MaxFetch) <= l.at
    <3> DEFINE t == cache[h][1].expires - (ExpirationTime + MaxFetch)
    <3>1. cache[h][1].expires \in Nat /\ HeldSince(h, cache[h][1].value, t)
      BY <2>2 DEF IInv, EntriesHeld
    <3>2. t \in Int BY <3>1
    <3> HIDE DEF t
    <3>3. t <= t BY <3>2
    <3>4. \E l \in lastHeld' : l.held = <<h, cache[h][1].value>> /\ t <= l.at
      BY ZenonT(60), <1>0, <3>1, <3>2, <3>3, HeldOn
    <3> QED BY <3>1, <3>4 DEF t
  <2> QED BY ZenonT(60), <2>1, <2>2 DEF EntriesHeld, HeldSince
<1>2. ReadersHold'
  <2>1. DOMAIN readers' = Readers BY DEF IInv, ReadersHold
  <2> SUFFICES ASSUME NEW r \in Readers
      PROVE  /\ DOMAIN readers[r] = {"pc", "key", "value", "since"}
             /\ readers[r].pc # "rest" => \E k \in env.cached : readers[r].key = <<k>>
             /\ readers[r].pc = "set" =>
                  /\ readers[r].since \in Nat /\ now' - readers[r].since <= MaxFetch
                  /\ \E l \in lastHeld' :
                        /\ l.held = <<HashCode(readers[r].key[1]), readers[r].value>>
                        /\ readers[r].since <= l.at
             /\ readers[r].pc = "hit" =>
                  \E l \in lastHeld' :
                      /\ l.held = <<HashCode(readers[r].key[1]), readers[r].value>>
                      /\ now' - (ExpirationTime + MaxFetch) <= l.at
    BY ZenonT(60), <2>1 DEF ReadersHold, HeldSince
  <2>2. /\ DOMAIN readers[r] = {"pc", "key", "value", "since"}
        /\ readers[r].pc # "rest" => \E k \in env.cached : readers[r].key = <<k>>
    BY DEF IInv, ReadersHold
  <2>3. ASSUME readers[r].pc = "set"
        PROVE  /\ readers[r].since \in Nat /\ now' - readers[r].since <= MaxFetch
               /\ \E l \in lastHeld' :
                     /\ l.held = <<HashCode(readers[r].key[1]), readers[r].value>>
                     /\ readers[r].since <= l.at
    <3>1. /\ readers[r].since \in Nat /\ now - readers[r].since <= MaxFetch
          /\ HeldSince(HashCode(readers[r].key[1]), readers[r].value, readers[r].since)
      BY <2>3 DEF IInv, ReadersHold
    <3>2. now' - readers[r].since <= MaxFetch BY <1>0, <2>3, <3>1
    <3>3. readers[r].since \in Int /\ readers[r].since <= readers[r].since BY <3>1
    <3> QED BY ZenonT(60), <1>0, <3>1, <3>2, <3>3, HeldOn
  <2>4. ASSUME readers[r].pc = "hit"
        PROVE  \E l \in lastHeld' :
                   /\ l.held = <<HashCode(readers[r].key[1]), readers[r].value>>
                   /\ now' - (ExpirationTime + MaxFetch) <= l.at
    <3> DEFINE t == now - (ExpirationTime + MaxFetch)
    <3>1. HeldSince(HashCode(readers[r].key[1]), readers[r].value, t) BY <2>4 DEF IInv, ReadersHold
    <3>2. t \in Int /\ now' = now BY <1>0, <2>4
    <3> HIDE DEF t
    <3>3. t <= t BY <3>2
    <3>4. \E l \in lastHeld' :
              l.held = <<HashCode(readers[r].key[1]), readers[r].value>> /\ t <= l.at
      BY SMTT(40), ZenonT(40), <1>0, <3>1, <3>2, <3>3, HeldOn
    <3> QED BY SMTT(40), ZenonT(40), <3>2, <3>4 DEF t
  <2> QED BY <2>2, <2>3, <2>4
<1> QED BY <1>1, <1>2

\* The reader r goes on, and the entry of the key h may be set; the others
\* are as they were.
LEMMA ReaderKeeps ==
    ASSUME IInv, HistoryOK', env' = env, UNCHANGED <<now, lastHeld>>,
           NEW r \in Readers, NEW p, readers' = [readers EXCEPT ![r] = p],
           DOMAIN p = {"pc", "key", "value", "since"},
           p.pc # "rest" => \E k \in env.cached : p.key = <<k>>,
           p.pc = "set" => /\ p.since \in Nat /\ now - p.since <= MaxFetch
                           /\ HeldSince(HashCode(p.key[1]), p.value, p.since),
           p.pc = "hit" => HeldSince(HashCode(p.key[1]), p.value, now - (ExpirationTime + MaxFetch))
    PROVE  ReadersHold'
<1>1. DOMAIN readers = Readers BY DEF IInv, ReadersHold
<1>2. /\ DOMAIN readers' = Readers
      /\ readers'[r] = p
      /\ \A i \in Readers : i # r => readers'[i] = readers[i]
  BY <1>1
<1>3. \A h, v, t : HeldSince(h, v, t) => \E l \in lastHeld' : l.held = <<h, v>> /\ t <= l.at
  BY SMTT(40), ZenonT(40) DEF HeldSince
<1> SUFFICES ASSUME NEW i \in Readers
    PROVE  /\ DOMAIN readers'[i] = {"pc", "key", "value", "since"}
           /\ readers'[i].pc # "rest" => \E k \in env.cached : readers'[i].key = <<k>>
           /\ readers'[i].pc = "set" =>
                 /\ readers'[i].since \in Nat /\ now - readers'[i].since <= MaxFetch
                 /\ \E l \in lastHeld' :
                       /\ l.held = <<HashCode(readers'[i].key[1]), readers'[i].value>>
                       /\ readers'[i].since <= l.at
           /\ readers'[i].pc = "hit" =>
                 \E l \in lastHeld' :
                     /\ l.held = <<HashCode(readers'[i].key[1]), readers'[i].value>>
                     /\ now - (ExpirationTime + MaxFetch) <= l.at
  BY ZenonT(60), <1>2 DEF ReadersHold, HeldSince
<1>4. CASE i = r
  <2>1. readers'[i] = p BY <1>2, <1>4
  <2>2. /\ DOMAIN readers'[i] = {"pc", "key", "value", "since"}
        /\ readers'[i].pc # "rest" => \E k \in env.cached : readers'[i].key = <<k>> BY <2>1
  <2>3. readers'[i].pc = "set" =>
          /\ readers'[i].since \in Nat /\ now - readers'[i].since <= MaxFetch
          /\ \E l \in lastHeld' :
                /\ l.held = <<HashCode(readers'[i].key[1]), readers'[i].value>>
                /\ readers'[i].since <= l.at
    BY SMTT(40), ZenonT(40), <1>3, <2>1
  <2>4. readers'[i].pc = "hit" =>
          \E l \in lastHeld' :
              /\ l.held = <<HashCode(readers'[i].key[1]), readers'[i].value>>
              /\ now - (ExpirationTime + MaxFetch) <= l.at
    BY <1>3, <2>1
  <2> QED BY <2>2, <2>3, <2>4
<1>5. CASE i # r
  <2>1. readers'[i] = readers[i] BY SMTT(40), ZenonT(40), <1>2, <1>5
  <2>2. /\ DOMAIN readers[i] = {"pc", "key", "value", "since"}
        /\ readers[i].pc # "rest" => \E k \in env.cached : readers[i].key = <<k>>
    BY DEF IInv, ReadersHold
  <2>3. readers[i].pc = "set" =>
          /\ readers[i].since \in Nat /\ now - readers[i].since <= MaxFetch
          /\ HeldSince(HashCode(readers[i].key[1]), readers[i].value, readers[i].since)
    BY DEF IInv, ReadersHold
  <2>4. readers[i].pc = "hit" =>
          HeldSince(HashCode(readers[i].key[1]), readers[i].value, now - (ExpirationTime + MaxFetch))
    BY DEF IInv, ReadersHold
  <2>5. readers[i].pc = "set" =>
          \E l \in lastHeld' : /\ l.held = <<HashCode(readers[i].key[1]), readers[i].value>>
                               /\ readers[i].since <= l.at
    BY <2>3 DEF HeldSince
  <2>6. readers[i].pc = "hit" =>
          \E l \in lastHeld' : /\ l.held = <<HashCode(readers[i].key[1]), readers[i].value>>
                               /\ now - (ExpirationTime + MaxFetch) <= l.at
    BY <2>4 DEF HeldSince
  <2> QED BY <2>1, <2>2, <2>3, <2>5, <2>6
<1> QED BY SMTT(40), ZenonT(40), <1>4, <1>5

\* The entries, when none of them changes.
LEMMA EntriesKept ==
    ASSUME EntriesHeld, env' = env, UNCHANGED <<cache, lastHeld>>
    PROVE  EntriesHeld'
BY DEF EntriesHeld, HeldSince

\* A value that is found has not expired: it was in the store an expiration
\* time and a read ago, or later.
LEMMA LookupKeeps ==
    ASSUME IInv, HistoryOK', env' = env, NEW r \in Readers, NEW k \in env.cached, Lookup(r, k)
    PROVE  (EntriesHeld /\ ReadersHold)'
<1> USE TimesAssumption
<1> DEFINE h == HashCode(k)
           p == [pc |-> IF Found(h) THEN "hit" ELSE "miss", key |-> <<k>>,
                 value |-> IF Found(h) THEN cache[h][1].value ELSE << >>, since |-> now]
<1>1. /\ readers' = [readers EXCEPT ![r] = p]
      /\ UNCHANGED <<cache, now, lastHeld>>
  BY SMTT(40), ZenonT(40) DEF Lookup
<1>2. /\ DOMAIN p = {"pc", "key", "value", "since"}
      /\ p.key = <<k>> /\ p.key[1] = k /\ p.pc # "set"
  OBVIOUS
<1>3. p.pc = "hit" => HeldSince(HashCode(p.key[1]), p.value, now - (ExpirationTime + MaxFetch))
  <2> SUFFICES ASSUME Found(h)
      PROVE  HeldSince(h, cache[h][1].value, now - (ExpirationTime + MaxFetch))
    BY <1>2
  <2>1. cache[h] # << >> /\ now <= cache[h][1].expires BY DEF Found
  <2>2. h \in DOMAIN cache BY DEF IInv, EntriesHeld
  <2>3. /\ cache[h][1].expires \in Nat
        /\ HeldSince(h, cache[h][1].value, cache[h][1].expires - (ExpirationTime + MaxFetch))
    BY <2>1, <2>2 DEF IInv, EntriesHeld
  <2>4. PICK l \in lastHeld : /\ l.held = <<h, cache[h][1].value>>
                              /\ cache[h][1].expires - (ExpirationTime + MaxFetch) <= l.at
    BY <2>3 DEF HeldSince
  <2>5. l.at \in Nat /\ now \in Nat BY DEF IInv, HistoryOK
  <2>6. now - (ExpirationTime + MaxFetch) <= l.at BY SMTT(40), ZenonT(40), <2>1, <2>3, <2>4, <2>5
  <2> QED BY SMTT(40), ZenonT(40), <2>4, <2>6 DEF HeldSince
<1> HIDE DEF p
<1>4. ReadersHold' BY ZenonT(60), <1>1, <1>2, <1>3, ReaderKeeps
<1> QED BY SMTT(40), ZenonT(40), <1>1, <1>4, EntriesKept DEF IInv

\* What the store answers now is held now.
LEMMA FetchKeeps ==
    ASSUME IInv, HistoryOK', env' = env, NEW r \in Readers, Fetch(r)
    PROVE  (EntriesHeld /\ ReadersHold)'
<1> USE TimesAssumption
<1> DEFINE f == Fetched(store, readers[r].key[1])
           p == IF f.err # "none" THEN Resting
                ELSE [readers[r] EXCEPT !.pc = "set", !.value = f.items, !.since = now]
<1>1. /\ readers[r].pc = "miss"
      /\ readers' = [readers EXCEPT ![r] = p]
      /\ UNCHANGED <<cache, now, lastHeld>>
  BY DEF Fetch
<1>2. now \in Nat /\ DOMAIN readers[r] = {"pc", "key", "value", "since"}
  BY DEF IInv, HistoryOK, ReadersHold
<1>3. PICK k \in env.cached : readers[r].key = <<k>> BY <1>1 DEF IInv, ReadersHold
<1>4. CASE f.err # "none"
  <2>1. p = Resting BY <1>4
  <2>2. p.pc = "rest" /\ DOMAIN p = {"pc", "key", "value", "since"} BY ZenonT(60), <2>1 DEF Resting
  <2> HIDE DEF p
  <2>3. ReadersHold' BY ZenonT(60), <1>1, <2>2, ReaderKeeps
  <2> QED BY <1>1, <2>3, EntriesKept DEF IInv
<1>5. CASE f.err = "none"
  <2>1. /\ DOMAIN p = {"pc", "key", "value", "since"}
        /\ p.pc = "set" /\ p.key = <<k>> /\ p.value = f.items /\ p.since = now
    BY <1>2, <1>3, <1>5
  <2>2. <<HashCode(k), Fetched(store, k).items>> \in Held(store) BY DEF Held
  <2>3. PICK l \in lastHeld : l.held = <<HashCode(k), Fetched(store, k).items>> /\ l.at = now
    BY <2>2 DEF IInv, HistoryOK
  <2>4. f.items = Fetched(store, k).items /\ p.key[1] = k BY SMTT(40), ZenonT(40), <1>3, <2>1
  <2>5. HeldSince(HashCode(p.key[1]), p.value, p.since)
    BY SMTT(40), ZenonT(40), <1>2, <2>1, <2>3, <2>4 DEF HeldSince
  <2>6. now - p.since <= MaxFetch BY SMTT(40), ZenonT(40), <1>2, <2>1
  <2> HIDE DEF p, f
  <2>7. ReadersHold' BY ZenonT(60), <1>1, <1>2, <2>1, <2>5, <2>6, ReaderKeeps
  <2> QED BY <1>1, <2>7, EntriesKept DEF IInv
<1> QED BY <1>4, <1>5

\* The entry that is set expires an expiration time from now, and was read at
\* most one read ago, over whatever another reader has set meanwhile.
LEMMA SetDefaultKeeps ==
    ASSUME IInv, HistoryOK', env' = env, NEW r \in Readers, SetDefault(r)
    PROVE  (EntriesHeld /\ ReadersHold)'
<1> USE TimesAssumption
<1> DEFINE h == HashCode(readers[r].key[1])
           e == [value |-> readers[r].value, expires |-> now + ExpirationTime]
           p == [readers[r] EXCEPT !.pc = "hit"]
<1>1. /\ readers[r].pc = "set"
      /\ cache' = [cache EXCEPT ![h] = <<e>>]
      /\ readers' = [readers EXCEPT ![r] = p]
      /\ UNCHANGED <<now, lastHeld>>
  BY DEF SetDefault
<1>2. now \in Nat /\ DOMAIN readers[r] = {"pc", "key", "value", "since"}
  BY DEF IInv, HistoryOK, ReadersHold
<1>3. PICK k \in env.cached : readers[r].key = <<k>> BY <1>1 DEF IInv, ReadersHold
<1>4. /\ readers[r].since \in Nat /\ now - readers[r].since <= MaxFetch
      /\ HeldSince(h, readers[r].value, readers[r].since)
  BY <1>1 DEF IInv, ReadersHold
<1>5. PICK l \in lastHeld : l.held = <<h, readers[r].value>> /\ readers[r].since <= l.at
  BY <1>4 DEF HeldSince
<1>6. l.at \in Nat BY DEF IInv, HistoryOK
<1>7. EntriesHeld'
  <2>1. DOMAIN cache = {HashCode(x) : x \in env.cached} BY DEF IInv, EntriesHeld
  <2>2. e.value = readers[r].value /\ e.expires = now + ExpirationTime OBVIOUS
  <2> HIDE DEF h, e
  <2>3. /\ DOMAIN cache' = DOMAIN cache
        /\ h \in DOMAIN cache => cache'[h] = <<e>>
        /\ \A x \in DOMAIN cache : x # h => cache'[x] = cache[x]
    BY <1>1
  <2> SUFFICES ASSUME NEW x \in DOMAIN cache, cache'[x] # << >>
      PROVE  /\ cache'[x][1].expires \in Nat
             /\ \E m \in lastHeld :
                   /\ m.held = <<x, cache'[x][1].value>>
                   /\ cache'[x][1].expires - (ExpirationTime + MaxFetch) <= m.at
    BY ZenonT(60), <1>1, <2>1, <2>3 DEF EntriesHeld, HeldSince
  <2>4. CASE x = h
    <3>1. cache'[x][1] = e BY <2>3, <2>4
    <3>2. now + ExpirationTime \in Nat BY <1>2
    <3>3. cache'[x][1].expires = now + ExpirationTime /\ cache'[x][1].value = readers[r].value
      BY <2>2, <3>1
    <3>4. l.held = <<x, cache'[x][1].value>> BY SMTT(40), ZenonT(40), <1>5, <2>4, <3>3
    <3>5. \A t \in Nat : t = now + ExpirationTime => t - (ExpirationTime + MaxFetch) <= l.at
      BY <1>2, <1>4, <1>5, <1>6
    <3>6. cache'[x][1].expires \in Nat BY <3>2, <3>3
    <3>7. cache'[x][1].expires - (ExpirationTime + MaxFetch) <= l.at BY <3>3, <3>5, <3>6
    <3> QED BY <3>4, <3>6, <3>7
  <2>5. CASE x # h
    <3>1. cache'[x] = cache[x] BY SMTT(40), ZenonT(40), <2>3, <2>5
    <3>2. /\ cache[x][1].expires \in Nat
          /\ HeldSince(x, cache[x][1].value, cache[x][1].expires - (ExpirationTime + MaxFetch))
      BY SMTT(40), ZenonT(40), <3>1 DEF IInv, EntriesHeld
    <3> QED BY <3>1, <3>2 DEF HeldSince
  <2> QED BY <2>4, <2>5
<1>8. ReadersHold'
  <2>1. /\ DOMAIN p = {"pc", "key", "value", "since"}
        /\ p.pc = "hit" /\ p.key = <<k>> /\ p.key = readers[r].key /\ p.value = readers[r].value
    BY <1>2, <1>3
  <2>2. now - (ExpirationTime + MaxFetch) <= l.at BY <1>2, <1>4, <1>5, <1>6
  <2>3. HeldSince(HashCode(p.key[1]), p.value, now - (ExpirationTime + MaxFetch))
    BY <1>5, <2>1, <2>2 DEF HeldSince
  <2> HIDE DEF p, h, e
  <2> QED BY ZenonT(60), <1>1, <2>1, <2>3, ReaderKeeps
<1> QED BY <1>7, <1>8

LEMMA ReturnKeeps ==
    ASSUME IInv, HistoryOK', env' = env, NEW r \in Readers, Return(r)
    PROVE  (EntriesHeld /\ ReadersHold)'
<1>1. readers' = [readers EXCEPT ![r] = Resting] /\ UNCHANGED <<cache, now, lastHeld>>
  BY DEF Return
<1>2. Resting.pc = "rest" /\ DOMAIN Resting = {"pc", "key", "value", "since"} BY SMTT(40), ZenonT(40) DEF Resting
<1>3. ReadersHold' BY ZenonT(60), <1>1, <1>2, ReaderKeeps
<1> QED BY <1>1, <1>3, EntriesKept DEF IInv
-----------------------------------------------------------------------------
LEMMA Initially == Init => IInv
<1> SUFFICES ASSUME Init PROVE IInv OBVIOUS
<1>1. CacheInit BY DEF Init
<1>2. HistoryOK
  <2>1. now = 0 /\ lastHeld = {[held |-> h, at |-> 0] : h \in Held(store)} BY <1>1 DEF CacheInit
  <2> DEFINE H == Held(store)
  <2> HIDE DEF H
  <2>2. \A h \in H : [held |-> h, at |-> 0] \in lastHeld BY <2>1 DEF H
  <2>3. \A h \in H : \E l \in lastHeld : l.held = h /\ l.at = now BY ZenonT(60), <2>1, <2>2
  <2>4. \A l \in lastHeld : l.at = 0 BY <2>1
  <2> QED BY <2>1, <2>3, <2>4 DEF HistoryOK, H
<1>3. EntriesHeld BY <1>1 DEF CacheInit, NewCachedManager, EntriesHeld
<1>4. ReadersHold BY <1>1 DEF CacheInit, Resting, ReadersHold
<1> QED BY <1>2, <1>3, <1>4 DEF IInv

LEMMA Inductive == IInv /\ [Next]_allVars => IInv'
<1> SUFFICES ASSUME IInv, [Next]_allVars PROVE IInv' OBVIOUS
<1>1. env' = env BY EnvFixed
<1>2. HistoryOK' /\ Renewed BY HistoryKept DEF IInv
<1>3. CASE Elsewhere
  BY SMTT(40), ZenonT(40), <1>1, <1>2, <1>3, OthersKeep DEF Elsewhere, IInv
<1>4. CASE Tick
  BY SMTT(40), ZenonT(40), <1>1, <1>2, <1>4, OthersKeep DEF Tick, IInv
<1>5. CASE UNCHANGED allVars
  BY SMTT(40), ZenonT(40), <1>1, <1>2, <1>5, OthersKeep DEF allVars, cacheVars, IInv
<1>6. ASSUME NEW r \in Readers,
             (\E k \in env.cached : Lookup(r, k)) \/ Fetch(r) \/ SetDefault(r) \/ Return(r)
      PROVE  IInv'
  BY <1>1, <1>2, <1>6, LookupKeeps, FetchKeeps, SetDefaultKeeps, ReturnKeeps DEF IInv
<1> QED BY <1>3, <1>4, <1>5, <1>6 DEF Next, Reading, Done

\* However the readers of the cache, the users and the clock interleave, a
\* value that the caching manager hands out was in the store at most the
\* expiration time and one read ago: a slow reader that sets an old value
\* over a newer one delays a change by no more than that (cache.go).
THEOREM CacheAlwaysBounded == Spec => []CacheBounded
<1>1. IInv => CacheBounded
  <2> SUFFICES ASSUME IInv, NEW r \in Readers, readers[r].pc = "hit"
      PROVE  \E l \in lastHeld : /\ l.held = <<HashCode(readers[r].key[1]), readers[r].value>>
                                 /\ now - l.at <= ExpirationTime + MaxFetch
    BY DEF CacheBounded
  <2>1. HeldSince(HashCode(readers[r].key[1]), readers[r].value,
                  now - (ExpirationTime + MaxFetch))
    BY DEF IInv, ReadersHold
  <2>2. PICK l \in lastHeld : /\ l.held = <<HashCode(readers[r].key[1]), readers[r].value>>
                              /\ now - (ExpirationTime + MaxFetch) <= l.at
    BY <2>1 DEF HeldSince
  <2>3. l.at \in Nat /\ now \in Nat BY DEF IInv, HistoryOK
  <2>4. now - l.at <= ExpirationTime + MaxFetch BY <2>2, <2>3, TimesAssumption
  <2> QED BY <2>2, <2>4
<1> QED BY <1>1, Initially, Inductive, PTL DEF Spec
-----------------------------------------------------------------------------
(* The configuration of kumactl                                             *)

\* Induction: what holds for 0 and goes on to the next holds for all.
LEMMA NatInd ==
    ASSUME NEW S, 0 \in S, \A n \in Nat : n \in S => n + 1 \in S
    PROVE  Nat \subseteq S
<1> SUFFICES ASSUME ~(Nat \subseteq S) PROVE FALSE OBVIOUS
<1> DEFINE T == Nat \ S
           R == OpToRel(<, Nat)
<1>1. T \subseteq Nat /\ T # {} OBVIOUS
<1>2. PICK x \in T : \A y \in T : ~(<<y, x>> \in R)
  <2>1. IsWellFoundedOn(R, Nat) BY ZenonT(60), NatLessThanWellFounded
  <2> HIDE DEF T, R
  <2> QED BY ZenonT(60), <1>1, <2>1, WFMin
<1>3. \A y \in T : ~(y < x) BY ZenonT(60), <1>2 DEF OpToRel
<1> QED BY <1>3

\* A set of positions has a first one.
LEMMA MinIn ==
    ASSUME NEW S, S \subseteq Nat, S # {}
    PROVE  Min(S) \in S
<1> DEFINE R == OpToRel(<, Nat)
<1>1. PICK x \in S : \A y \in S : ~(<<y, x>> \in R)
  <2>1. IsWellFoundedOn(R, Nat) BY ZenonT(60), NatLessThanWellFounded
  <2> HIDE DEF R
  <2> QED BY ZenonT(60), <2>1, WFMin
<1>2. \A y \in S : ~(y < x)
  <2> TAKE y \in S
  <2>1. <<y, x>> \in Nat \X Nat OBVIOUS
  <2> QED BY <1>1, <2>1 DEF OpToRel
<1>3. \A y \in S : x <= y BY <1>2
<1> QED BY ZenonT(60), <1>3 DEF Min

\* What is left of a sequence without one of its elements.
LEMMA WithoutSeq ==
    ASSUME NEW X, NEW s \in Seq(X), NEW k \in 1..Len(s)
    PROVE  /\ Without(s, k) \in Seq(X)
           /\ Len(Without(s, k)) = Len(s) - 1
           /\ \A j \in 1..(Len(s) - 1) : Without(s, k)[j] = s[IF j < k THEN j ELSE j + 1]
<1>1. Len(s) \in Nat /\ Len(s) - 1 \in Nat OBVIOUS
<1>2. \A j \in 1..(Len(s) - 1) : s[IF j < k THEN j ELSE j + 1] \in X OBVIOUS
<1>3. Without(s, k) = [j \in 1..(Len(s) - 1) |-> s[IF j < k THEN j ELSE j + 1]] BY DEF Without
<1> QED BY <1>1, <1>2, <1>3

\* A sequence is one of its elements.
LEMMA SeqOfRange ==
    ASSUME NEW X, NEW s \in Seq(X)
    PROVE  s \in Seq(Range(s)) /\ DOMAIN s = 1..Len(s) /\ Len(s) \in Nat
<1>1. DOMAIN s = 1..Len(s) /\ Len(s) \in Nat OBVIOUS
<1>2. \A i \in 1..Len(s) : s[i] \in Range(s) BY <1>1 DEF Range
<1>3. s = [i \in 1..Len(s) |-> s[i]] BY <1>1
<1> QED BY <1>1, <1>2, <1>3

\* ConfigOK, of the fields of the configuration.
Fits(planes, contexts, current) ==
    /\ planes \in Seq(Range(planes)) /\ contexts \in Seq(Range(contexts))
    /\ \A i \in DOMAIN contexts :
          /\ contexts[i].controlPlane = contexts[i].name
          /\ \E p \in DOMAIN planes : planes[p] = contexts[i].name
          /\ \A j \in DOMAIN contexts : contexts[j].name = contexts[i].name => j = i
    /\ current # 0 => \E i \in DOMAIN contexts : contexts[i].name = current

IsConfig(cfg) == DOMAIN cfg = {"controlPlanes", "contexts", "currentContext"}

LEMMA ConfigFits ==
    ASSUME NEW cfg
    PROVE  ConfigOK(cfg) <=> /\ IsConfig(cfg)
                             /\ Fits(cfg.controlPlanes, cfg.contexts, cfg.currentContext)
<1>1. ASSUME ConfigOK(cfg)
      PROVE  IsConfig(cfg) /\ Fits(cfg.controlPlanes, cfg.contexts, cfg.currentContext)
  BY SMTT(40), ZenonT(40), <1>1 DEF ConfigOK, IsConfig, Fits, GetControlPlane, GetContext
<1>2. ASSUME IsConfig(cfg), Fits(cfg.controlPlanes, cfg.contexts, cfg.currentContext)
      PROVE  ConfigOK(cfg)
  BY <1>2 DEF ConfigOK, IsConfig, Fits, GetControlPlane, GetContext
<1> QED BY SMTT(40), ZenonT(40), <1>1, <1>2

\* switch
LEMMA SwitchFits ==
    ASSUME NEW cfg, ConfigOK(cfg), NEW name, SwitchContext(cfg, name) # << >>
    PROVE  ConfigOK(SwitchContext(cfg, name)[1])
<1> DEFINE new == [cfg EXCEPT !.currentContext = name]
<1>1. IsConfig(cfg) /\ Fits(cfg.controlPlanes, cfg.contexts, cfg.currentContext) BY ConfigFits
<1>2. GetContext(cfg, name) # {} /\ SwitchContext(cfg, name) = <<new>> BY DEF SwitchContext
<1>3. /\ IsConfig(new) /\ new.currentContext = name
      /\ new.controlPlanes = cfg.controlPlanes /\ new.contexts = cfg.contexts
  BY SMTT(40), ZenonT(40), <1>1 DEF IsConfig
<1> HIDE DEF new
<1>4. Fits(new.controlPlanes, new.contexts, new.currentContext)
  BY <1>1, <1>2, <1>3 DEF Fits, GetContext
<1>5. ConfigOK(new) BY <1>3, <1>4, ConfigFits
<1> QED BY <1>2, <1>5

\* add: the control plane is there, and so is its context.
LEMMA AddFits ==
    ASSUME NEW cfg, ConfigOK(cfg), NEW c, addControlPlane(cfg, c) # << >>
    PROVE  ConfigOK(addControlPlane(cfg, c)[1])
<1> DEFINE added == AddControlPlane(cfg, c.name, c.overwrite)
           ctx == NewContext(c.name, c.cert)
           context == AddContext(added[1], ctx, c.overwrite)
           planes == added[1].controlPlanes
           old == GetContext(added[1], c.name)
           new == [context[1] EXCEPT !.currentContext = c.name]
<1>1. IsConfig(cfg) /\ Fits(cfg.controlPlanes, cfg.contexts, cfg.currentContext) BY SMTT(40), ZenonT(40), ConfigFits
<1>2. added # << >> /\ context # << >> /\ addControlPlane(cfg, c) = <<new>>
  BY DEF addControlPlane
<1>3. /\ IsConfig(added[1]) /\ added[1].contexts = cfg.contexts
      /\ \/ added[1].controlPlanes = cfg.controlPlanes /\ GetControlPlane(cfg, c.name) # {}
         \/ added[1].controlPlanes = Append(cfg.controlPlanes, c.name)
  BY SMTT(40), ZenonT(40), <1>1, <1>2 DEF AddControlPlane, IsConfig
<1>4. /\ planes \in Seq(Range(planes))
      /\ \E p \in DOMAIN planes : planes[p] = c.name
      /\ \A p \in DOMAIN cfg.controlPlanes : p \in DOMAIN planes /\ planes[p] = cfg.controlPlanes[p]
  <2>1. CASE added[1].controlPlanes = cfg.controlPlanes /\ GetControlPlane(cfg, c.name) # {}
    BY <1>1, <2>1 DEF Fits, GetControlPlane
  <2>2. CASE added[1].controlPlanes = Append(cfg.controlPlanes, c.name)
    <3> DEFINE R == Range(cfg.controlPlanes) \cup {c.name}
               s == cfg.controlPlanes
    <3>1. s \in Seq(Range(cfg.controlPlanes)) BY <1>1 DEF Fits
    <3>2. s \in Seq(R) BY <3>1
    <3> HIDE DEF R, s
    <3>3. Append(s, c.name) \in Seq(R) BY <3>2 DEF R
    <3>4. planes = Append(s, c.name) BY <2>2 DEF s
    <3>5. /\ Len(s) + 1 \in DOMAIN Append(s, c.name) /\ Append(s, c.name)[Len(s) + 1] = c.name
          /\ \A p \in DOMAIN s : p \in DOMAIN Append(s, c.name) /\ Append(s, c.name)[p] = s[p]
      BY <3>2
    <3> HIDE DEF planes
    <3>6. planes \in Seq(Range(planes)) BY ZenonT(60), <3>3, <3>4, SeqOfRange
    <3> QED BY SMTT(40), ZenonT(40), <3>4, <3>5, <3>6 DEF s
  <2> QED BY ZenonT(60), <1>3, <2>1, <2>2
<1>5. ctx.name = c.name /\ ctx.controlPlane = c.name BY DEF NewContext
<1> HIDE DEF added, ctx
<1>6. /\ IsConfig(context[1]) /\ context[1].controlPlanes = planes
      /\ \/ old = {} /\ context[1].contexts = Append(cfg.contexts, ctx)
         \/ old # {} /\ context[1].contexts = [cfg.contexts EXCEPT ![Min(old)] = ctx]
  BY <1>2, <1>3, <1>5 DEF AddContext, IsConfig
<1> HIDE DEF context, planes
<1>7. /\ IsConfig(new) /\ new.currentContext = c.name
      /\ new.controlPlanes = planes /\ new.contexts = context[1].contexts
  BY <1>6 DEF IsConfig
<1> HIDE DEF new
<1>8. Fits(planes, new.contexts, c.name)
  <2> DEFINE s == cfg.contexts
  <2>1. s \in Seq(Range(s)) BY SMTT(40), ZenonT(40), <1>1 DEF Fits
  <2>2. \A i \in DOMAIN s : /\ s[i].controlPlane = s[i].name
                            /\ \E p \in DOMAIN planes : planes[p] = s[i].name
                            /\ \A j \in DOMAIN s : s[j].name = s[i].name => j = i
    BY SMTT(40), ZenonT(40), <1>1, <1>4 DEF Fits
  <2>3. old = {i \in DOMAIN s : s[i].name = c.name} BY SMTT(40), ZenonT(40), <1>3 DEF GetContext
  <2> HIDE DEF s, old
  <2>4. CASE old = {} /\ new.contexts = Append(s, ctx)
    <3> DEFINE R == Range(s) \cup {ctx}
               t == Append(s, ctx)
    <3>1. s \in Seq(R) BY <2>1
    <3> HIDE DEF R
    <3>2. ctx \in R BY DEF R
    <3>3. t \in Seq(R) BY <3>1, <3>2
    <3>4. /\ DOMAIN t = 1..(Len(s) + 1) /\ t[Len(s) + 1] = ctx /\ DOMAIN s = 1..Len(s)
          /\ Len(s) \in Nat /\ \A i \in 1..Len(s) : t[i] = s[i]
      BY <3>1
    <3> HIDE DEF t
    <3>5. t \in Seq(Range(t)) BY <3>3, SeqOfRange
    <3>6. \A i \in DOMAIN t : i \in DOMAIN s \/ i = Len(s) + 1 BY SMTT(40), ZenonT(40), <3>4
    <3>7. \A i \in DOMAIN t : /\ t[i].controlPlane = t[i].name
                              /\ \E p \in DOMAIN planes : planes[p] = t[i].name
      BY SMTT(40), ZenonT(40), <1>4, <1>5, <2>2, <3>4, <3>6
    <3>8. \A i, j \in DOMAIN t : t[j].name = t[i].name => j = i
      BY SMTT(40), ZenonT(40), <1>5, <2>2, <2>3, <2>4, <3>4, <3>6
    <3>9. \E i \in DOMAIN t : t[i].name = c.name
      <4>1. Len(s) + 1 \in DOMAIN t BY SMTT(40), ZenonT(40), <3>4
      <4> QED BY <1>5, <3>4, <4>1
    <3> QED BY SMTT(40), ZenonT(40), <1>4, <2>4, <3>5, <3>7, <3>8, <3>9 DEF Fits, t
  <2>5. CASE old # {} /\ new.contexts = [s EXCEPT ![Min(old)] = ctx]
    <3> DEFINE k == Min(old)
               t == [s EXCEPT ![k] = ctx]
               R == Range(s) \cup {ctx}
    <3>1. DOMAIN s = 1..Len(s) /\ Len(s) \in Nat BY <2>1
    <3>2. k \in DOMAIN s /\ s[k].name = c.name
      <4>1. old \subseteq Nat BY <2>3, <3>1
      <4>2. k \in old BY <2>5, <4>1, MinIn
      <4> QED BY <2>3, <4>2
    <3> HIDE DEF k, R
    <3>3. s \in Seq(R) /\ ctx \in R BY <2>1 DEF R
    <3>4. t \in Seq(R) BY <3>1, <3>2, <3>3
    <3>5. DOMAIN t = DOMAIN s /\ t[k] = ctx /\ \A i \in DOMAIN s : i # k => t[i] = s[i] BY <3>2
    <3> HIDE DEF t
    <3>6. t \in Seq(Range(t)) BY SMTT(40), ZenonT(40), <3>4, SeqOfRange
    <3>7. \A i \in DOMAIN t : t[i].name = s[i].name /\ t[i].controlPlane = s[i].controlPlane
      <4> TAKE i \in DOMAIN t
      <4>1. CASE i = k BY SMTT(40), ZenonT(40), <1>5, <2>2, <3>2, <3>5, <4>1
      <4>2. CASE i # k BY SMTT(40), ZenonT(40), <3>5, <4>2
      <4> QED BY <4>1, <4>2
    <3> QED BY SMTT(40), ZenonT(40), <1>4, <2>2, <2>5, <3>2, <3>5, <3>6, <3>7 DEF Fits, t, k
  <2> QED BY SMTT(40), ZenonT(40), <1>6, <1>7, <2>4, <2>5 DEF s
<1>9. ConfigOK(new) BY SMTT(40), ZenonT(40), <1>7, <1>8, ConfigFits
<1> QED BY <1>2, <1>9

\* The context of a name is removed, and with it the current context when it
\* was that one; the others stay, in their order.
LEMMA RemoveContextFits ==
    ASSUME NEW cfg, ConfigOK(cfg), NEW name, NEW k \in DOMAIN cfg.contexts,
           cfg.contexts[k].name = name
    PROVE  LET next == RemoveContext(cfg, name) IN
           /\ IsConfig(next) /\ next.controlPlanes = cfg.controlPlanes
           /\ next.contexts = Without(cfg.contexts, k)
           /\ Fits(next.controlPlanes, next.contexts, next.currentContext)
<1> DEFINE s == cfg.contexts
           rest == Without(s, k)
           next == RemoveContext(cfg, name)
<1>1. IsConfig(cfg) /\ Fits(cfg.controlPlanes, s, cfg.currentContext) BY SMTT(40), ZenonT(40), ConfigFits
<1>2. GetContext(cfg, name) = {k} BY <1>1 DEF GetContext, Fits
<1>3. Min({k}) = k
  <2>1. s \in Seq(Range(s)) BY <1>1 DEF Fits
  <2>2. k \in Nat BY <2>1
  <2> HIDE DEF s
  <2>3. Min({k}) \in {k} BY <2>2, MinIn
  <2> QED BY SMTT(40), ZenonT(40), <2>3
<1>4. /\ IsConfig(next) /\ next.controlPlanes = cfg.controlPlanes /\ next.contexts = rest
      /\ next.currentContext = IF cfg.currentContext # name THEN cfg.currentContext
                               ELSE IF rest = << >> THEN 0 ELSE rest[1].name
  <2>1. next = [cfg EXCEPT !.contexts = rest,
                           !.currentContext = IF @ # name THEN @
                                              ELSE IF rest = << >> THEN 0 ELSE rest[1].name]
    BY ZenonT(60), <1>2, <1>3 DEF RemoveContext
  <2> HIDE DEF rest, next
  <2> QED BY <1>1, <2>1 DEF IsConfig
<1> HIDE DEF next
<1>5. s \in Seq(Range(s)) /\ DOMAIN s = 1..Len(s) /\ Len(s) \in Nat BY <1>1 DEF Fits
<1>6. /\ rest \in Seq(Range(s)) /\ Len(rest) = Len(s) - 1
      /\ \A j \in 1..(Len(s) - 1) : rest[j] = s[IF j < k THEN j ELSE j + 1]
  <2> HIDE DEF s
  <2> QED BY ZenonT(60), <1>5, WithoutSeq DEF s
<1>7. \A i \in DOMAIN s : /\ s[i].controlPlane = s[i].name
                          /\ \E p \in DOMAIN cfg.controlPlanes : cfg.controlPlanes[p] = s[i].name
                          /\ \A j \in DOMAIN s : s[j].name = s[i].name => j = i
  BY <1>1 DEF Fits
<1>8. cfg.currentContext # 0 => \E i \in DOMAIN s : s[i].name = cfg.currentContext
  BY <1>1 DEF Fits
<1>9. k \in DOMAIN s /\ s[k].name = name OBVIOUS
<1> HIDE DEF s, rest
<1>10. rest \in Seq(Range(rest)) /\ DOMAIN rest = 1..(Len(s) - 1) BY <1>5, <1>6, SeqOfRange
<1>11. \A j \in DOMAIN rest : \E i \in DOMAIN s : i # k /\ rest[j] = s[i]
  <2> TAKE j \in DOMAIN rest
  <2> DEFINE i == IF j < k THEN j ELSE j + 1
  <2>1. i \in DOMAIN s /\ i # k BY <1>5, <1>9, <1>10
  <2>2. rest[j] = s[i] BY SMTT(40), ZenonT(40), <1>6, <1>10
  <2> QED BY <2>1, <2>2
<1>12. \A i, j \in DOMAIN rest : rest[j].name = rest[i].name => j = i
  <2> SUFFICES ASSUME NEW i \in DOMAIN rest, NEW j \in DOMAIN rest, rest[j].name = rest[i].name
               PROVE  j = i
    OBVIOUS
  <2> DEFINE I == IF i < k THEN i ELSE i + 1
             J == IF j < k THEN j ELSE j + 1
  <2>1. I \in DOMAIN s /\ J \in DOMAIN s /\ (I = J => i = j) BY SMTT(40), ZenonT(40), <1>5, <1>9, <1>10
  <2>2. rest[i] = s[I] /\ rest[j] = s[J] BY <1>6, <1>10
  <2> HIDE DEF I, J
  <2> QED BY <1>7, <2>1, <2>2
<1>13. \A i \in DOMAIN s : i # k => \E j \in DOMAIN rest : rest[j] = s[i]
  <2> SUFFICES ASSUME NEW i \in DOMAIN s, i # k PROVE \E j \in DOMAIN rest : rest[j] = s[i] OBVIOUS
  <2>1. CASE i < k
    <3>1. i \in DOMAIN rest /\ rest[i] = s[i] BY SMTT(40), ZenonT(40), <1>5, <1>6, <1>9, <1>10, <2>1
    <3> QED BY SMTT(40), ZenonT(40), <3>1
  <2>2. CASE i > k
    <3>1. i - 1 \in DOMAIN rest /\ rest[i - 1] = s[(i - 1) + 1] BY SMTT(40), ZenonT(40), <1>5, <1>6, <1>9, <1>10, <2>2
    <3>2. (i - 1) + 1 = i BY SMTT(40), ZenonT(40), <1>5
    <3> QED BY SMTT(40), ZenonT(40), <3>1, <3>2
  <2> QED BY SMTT(40), ZenonT(40), <1>5, <1>9, <2>1, <2>2
<1>14. next.currentContext # 0 => \E i \in DOMAIN rest : rest[i].name = next.currentContext
  <2>1. CASE cfg.currentContext # name
    <3> SUFFICES ASSUME cfg.currentContext # 0
                 PROVE  \E i \in DOMAIN rest : rest[i].name = cfg.currentContext
      BY SMTT(40), ZenonT(40), <1>4, <2>1
    <3>1. PICK i \in DOMAIN s : s[i].name = cfg.currentContext BY <1>8
    <3> QED BY SMTT(40), ZenonT(40), <1>9, <1>13, <2>1, <3>1
  <2>2. CASE cfg.currentContext = name /\ rest # << >>
    <3>1. 1 \in DOMAIN rest BY SMTT(40), ZenonT(40), <1>10, <2>2
    <3> QED BY <1>4, <2>2, <3>1
  <2> QED BY SMTT(40), ZenonT(40), <1>4, <2>1, <2>2
<1>15. Fits(next.controlPlanes, next.contexts, next.currentContext)
  <2>1. cfg.controlPlanes \in Seq(Range(cfg.controlPlanes)) BY <1>1 DEF Fits
  <2> QED BY SMTT(40), ZenonT(40), <1>4, <1>7, <1>10, <1>11, <1>12, <1>14, <2>1 DEF Fits
<1> QED BY <1>4, <1>15 DEF s, rest, next

\* RemoveControlPlane iterates over the slice from which RemoveContext takes
\* the context: as every control plane has one context, what has moved up
\* into the cells ahead is not removed by mistake, and nothing is left.
LEMMA LoopRemoves ==
    ASSUME NEW cfg, ConfigOK(cfg), NEW name, GetControlPlane(cfg, name) # {}
    PROVE  RemoveControlPlane(cfg, name) =
             <<[RemoveContext(cfg, name) EXCEPT
                    !.controlPlanes = Without(@, Min(GetControlPlane(cfg, name)))]>>
<1> DEFINE s == cfg.contexts
           n == Len(s)
           next == RemoveContext(cfg, name)
           base == [cfg |-> cfg, array |-> s]
           after == [cfg |-> next, array |-> Shifted(s, next.contexts)]
           Past(i) == \E j \in 1..i : s[j].controlPlane = name
           E(f, i) == IF i = 0 THEN base ELSE Visit(f[i - 1], i, name)
           visited == CHOOSE f : f = [i \in 0..n |-> E(f, i)]
           h == [i \in 0..n |-> IF Past(i) THEN after ELSE base]
<1>1. RemoveControlPlane(cfg, name) =
        <<[visited[n].cfg EXCEPT !.controlPlanes = Without(@, Min(GetControlPlane(cfg, name)))]>>
  BY ZenonT(60) DEF RemoveControlPlane
<1>2. Fits(cfg.controlPlanes, s, cfg.currentContext) BY SMTT(40), ZenonT(40), ConfigFits
<1>3. /\ s \in Seq(Range(s)) /\ DOMAIN s = 1..n /\ n \in Nat
      /\ \A i \in 1..n : /\ s[i].controlPlane = s[i].name
                         /\ \A j \in 1..n : s[j].name = s[i].name => j = i
  BY SMTT(40), ZenonT(40), <1>2 DEF Fits
<1>4. base.cfg = cfg /\ base.array = s /\ after.cfg = next
      /\ after.array = Shifted(s, next.contexts)
  BY SMTT(40), ZenonT(40)
<1>5. \A k \in 1..n : s[k].name = name => next.contexts = Without(s, k)
  BY SMTT(40), ZenonT(40), <1>3, RemoveContextFits
<1> HIDE DEF s, next, base, after
<1>6. ASSUME NEW i \in 1..n PROVE Visit(h[i - 1], i, name) = h[i]
  <2>0. i - 1 \in 0..n /\ i \in 0..n BY SMTT(40), ZenonT(40), <1>3
  <2>1. CASE s[i].controlPlane = name
    <3>1. ~Past(i - 1) BY <1>3, <2>1
    <3>2. Past(i) BY <2>1, <1>3
    <3>3. h[i - 1] = base /\ h[i] = after BY SMTT(40), ZenonT(40), <2>0, <3>1, <3>2
    <3>4. s[i].name = name BY SMTT(40), ZenonT(40), <1>3, <2>1
    <3> HIDE DEF h
    <3> QED BY SMTT(40), ZenonT(40), <1>4, <2>1, <3>3, <3>4 DEF Visit, after, next
  <2>2. CASE s[i].controlPlane # name /\ Past(i - 1)
    <3>1. PICK k \in 1..(i - 1) : s[k].controlPlane = name BY <2>2
    <3>2. k \in 1..n /\ s[k].name = name /\ k < i BY SMTT(40), ZenonT(40), <1>3, <3>1
    <3>3. Past(i) BY <1>3, <3>1
    <3>4. h[i - 1] = after /\ h[i] = after BY SMTT(40), ZenonT(40), <2>0, <2>2, <3>3
    <3>5. /\ next.contexts = Without(s, k) /\ Len(next.contexts) = n - 1
          /\ \A j \in 1..(n - 1) : next.contexts[j] = s[IF j < k THEN j ELSE j + 1]
      <4>1. next.contexts = Without(s, k) BY SMTT(40), ZenonT(40), <1>5, <3>2
      <4>2. /\ Len(Without(s, k)) = Len(s) - 1
            /\ \A j \in 1..(Len(s) - 1) : Without(s, k)[j] = s[IF j < k THEN j ELSE j + 1]
        <5> DEFINE X == Range(s)
        <5>1. s \in Seq(X) /\ k \in 1..Len(s) BY SMTT(40), ZenonT(40), <1>3, <3>2
        <5> HIDE DEF X, n
        <5> QED BY <5>1, WithoutSeq
      <4> QED BY <4>1, <4>2
    <3>6. after.array[i] = IF i <= n - 1 THEN s[i + 1] ELSE s[i]
      BY SMTT(40), ZenonT(40), <1>3, <1>4, <3>2, <3>5 DEF Shifted
    <3>7. after.array[i].controlPlane # name
      <4>1. CASE i <= n - 1
        <5>1. i + 1 \in 1..n /\ i + 1 # k BY <1>3, <3>2, <4>1
        <5> QED BY SMTT(40), ZenonT(40), <1>3, <3>2, <3>6, <4>1, <5>1
      <4>2. CASE ~(i <= n - 1) BY SMTT(40), ZenonT(40), <2>2, <3>6, <4>2
      <4> QED BY SMTT(40), ZenonT(40), <4>1, <4>2
    <3> HIDE DEF h
    <3> QED BY <3>4, <3>7 DEF Visit
  <2>3. CASE s[i].controlPlane # name /\ ~Past(i - 1)
    <3>1. ~Past(i)
      <4>1. \A j \in 1..i : j \in 1..(i - 1) \/ j = i BY <1>3
      <4> QED BY <2>3, <4>1
    <3>2. h[i - 1] = base /\ h[i] = base BY SMTT(40), ZenonT(40), <2>0, <2>3, <3>1
    <3> HIDE DEF h
    <3> QED BY <1>4, <2>3, <3>2 DEF Visit
  <2> QED BY <2>1, <2>2, <2>3
<1>7. h[0] = base BY <1>3
<1>8. h = [i \in 0..n |-> E(h, i)]
  <2>1. \A i \in 0..n : h[i] = E(h, i)
    <3> TAKE i \in 0..n
    <3>1. CASE i = 0 BY <1>7, <3>1
    <3>2. CASE i # 0
      <4>1. i \in 1..n BY <1>3, <3>2
      <4> HIDE DEF h
      <4> QED BY <1>6, <3>2, <4>1
    <3> QED BY SMTT(40), ZenonT(40), <3>1, <3>2
  <2>2. h = [i \in 0..n |-> h[i]] OBVIOUS
  <2> HIDE DEF h, E
  <2> QED BY SMTT(40), ZenonT(40), <2>1, <2>2
<1> HIDE DEF h
<1>9. visited = [i \in 0..n |-> E(visited, i)]
  <2> HIDE DEF E
  <2> QED BY SMTT(40), ZenonT(40), <1>8
<1>10. \A i \in 0..n : visited[i] = E(visited, i)
  <2> HIDE DEF E, visited
  <2> QED BY <1>9
<1> HIDE DEF visited
<1>11. \A i \in Nat : i \in 0..n => visited[i] = h[i]
  <2> DEFINE S == {i \in Nat : i \in 0..n => visited[i] = h[i]}
  <2>1. 0 \in S
    <3>1. 0 \in 0..n BY <1>3
    <3>2. visited[0] = E(visited, 0) BY SMTT(40), ZenonT(40), <1>10, <3>1
    <3> QED BY <1>7, <3>2
  <2>2. ASSUME NEW i \in Nat, i \in S PROVE i + 1 \in S
    <3> SUFFICES ASSUME i + 1 \in 0..n PROVE visited[i + 1] = h[i + 1] OBVIOUS
    <3>1. visited[i + 1] = E(visited, i + 1) BY <1>10
    <3>2. (i + 1) - 1 = i /\ i + 1 # 0 /\ i + 1 \in 1..n /\ i \in 0..n BY <1>3
    <3>3. visited[i] = h[i] BY <2>2, <3>2
    <3>4. Visit(h[i], i + 1, name) = h[i + 1] BY <1>6, <3>2
    <3> QED BY <3>1, <3>2, <3>3, <3>4
  <2> HIDE DEF S
  <2>3. Nat \subseteq S BY <2>1, <2>2, NatInd
  <2> QED BY <2>3 DEF S
<1>12. visited[n].cfg = next
  <2>1. n \in 0..n BY <1>3
  <2>2. visited[n] = h[n] BY SMTT(40), ZenonT(40), <1>3, <1>11, <2>1
  <2>3. CASE Past(n)
    <3>1. h[n] = after BY SMTT(40), ZenonT(40), <2>1, <2>3 DEF h
    <3> QED BY <1>4, <2>2, <3>1
  <2>4. CASE ~Past(n)
    <3>1. h[n] = base BY SMTT(40), ZenonT(40), <2>1, <2>4 DEF h
    <3>2. GetContext(cfg, name) = {} BY <1>3, <2>4 DEF GetContext, s
    <3>3. next = cfg BY <3>2 DEF RemoveContext, next
    <3> QED BY <1>4, <2>2, <3>1, <3>3
  <2> QED BY <2>3, <2>4
<1> QED BY SMTT(40), ZenonT(40), <1>1, <1>12 DEF next

LEMMA RemoveFits ==
    ASSUME NEW cfg, ConfigOK(cfg), NEW name, RemoveControlPlane(cfg, name) # << >>
    PROVE  ConfigOK(RemoveControlPlane(cfg, name)[1])
<1> DEFINE planes == cfg.controlPlanes
           old == GetControlPlane(cfg, name)
           m == Min(old)
           next == RemoveContext(cfg, name)
           rest == Without(planes, m)
           new == [next EXCEPT !.controlPlanes = Without(@, m)]
<1>1. IsConfig(cfg) /\ Fits(planes, cfg.contexts, cfg.currentContext) BY ConfigFits
<1>2. old # {} BY DEF RemoveControlPlane
<1>3. RemoveControlPlane(cfg, name) = <<new>> BY SMTT(40), ZenonT(40), <1>2, LoopRemoves
<1>4. planes \in Seq(Range(planes)) BY <1>1 DEF Fits
<1>5. m \in DOMAIN planes /\ planes[m] = name
  <2>1. old \subseteq Nat BY <1>4 DEF GetControlPlane
  <2>2. m \in old
    <3> HIDE DEF old
    <3> QED BY ZenonT(60), <1>2, <2>1, MinIn
  <2> HIDE DEF m
  <2> QED BY <2>2 DEF GetControlPlane
<1>6. /\ IsConfig(next) /\ next.controlPlanes = planes
      /\ Fits(planes, next.contexts, next.currentContext)
      /\ \A i \in DOMAIN next.contexts : next.contexts[i].name # name
  <2>1. CASE \E k \in DOMAIN cfg.contexts : cfg.contexts[k].name = name
    <3>1. PICK k \in DOMAIN cfg.contexts : cfg.contexts[k].name = name BY SMTT(40), ZenonT(40), <2>1
    <3>2. /\ IsConfig(next) /\ next.controlPlanes = planes
          /\ next.contexts = Without(cfg.contexts, k)
          /\ Fits(next.controlPlanes, next.contexts, next.currentContext)
      BY SMTT(40), ZenonT(40), <3>1, RemoveContextFits
    <3> DEFINE s == cfg.contexts
    <3>3. s \in Seq(Range(s)) /\ \A j \in DOMAIN s : s[j].name = name => j = k
      BY <1>1, <3>1 DEF Fits
    <3>4. s[k].name = name /\ k \in 1..Len(s) BY SMTT(40), ZenonT(40), <3>1, <3>3
    <3> HIDE DEF s, next
    <3>5. /\ Len(Without(s, k)) = Len(s) - 1 /\ Without(s, k) \in Seq(Range(s))
          /\ \A j \in 1..(Len(s) - 1) : Without(s, k)[j] = s[IF j < k THEN j ELSE j + 1]
      BY ZenonT(60), <3>3, <3>4, WithoutSeq
    <3>6. \A j \in DOMAIN Without(s, k) : Without(s, k)[j].name # name
      <4> TAKE j \in DOMAIN Without(s, k)
      <4> DEFINE i == IF j < k THEN j ELSE j + 1
      <4>1. DOMAIN Without(s, k) = 1..(Len(s) - 1) BY <3>5
      <4>2. i \in DOMAIN s /\ i # k BY <3>3, <3>4, <4>1
      <4>3. Without(s, k)[j] = s[i] BY <3>5, <4>1
      <4> QED BY <3>3, <4>2, <4>3
    <3> QED BY <3>2, <3>6 DEF s
  <2>2. CASE ~\E k \in DOMAIN cfg.contexts : cfg.contexts[k].name = name
    <3>1. next = cfg BY <2>2 DEF RemoveContext, GetContext
    <3> QED BY <1>1, <2>2, <3>1
  <2> QED BY <2>1, <2>2
<1> HIDE DEF next, m, planes
<1>7. /\ rest \in Seq(Range(planes)) /\ Len(rest) = Len(planes) - 1
      /\ \A j \in 1..(Len(planes) - 1) : rest[j] = planes[IF j < m THEN j ELSE j + 1]
  <2>1. m \in 1..Len(planes) BY <1>4, <1>5
  <2> QED BY <1>4, <2>1, WithoutSeq
<1>8. IsConfig(new) /\ new.controlPlanes = rest /\ new.contexts = next.contexts
      /\ new.currentContext = next.currentContext
  <2> HIDE DEF rest
  <2> QED BY <1>6 DEF IsConfig, rest
<1> HIDE DEF rest, new
<1>9. rest \in Seq(Range(rest)) /\ DOMAIN rest = 1..(Len(planes) - 1) BY SMTT(40), ZenonT(40), <1>4, <1>7, SeqOfRange
<1>10. ASSUME NEW p \in DOMAIN planes, p # m PROVE \E q \in DOMAIN rest : rest[q] = planes[p]
  <2>0. DOMAIN planes = 1..Len(planes) /\ Len(planes) \in Nat BY <1>4
  <2>1. CASE p < m
    <3>1. p \in DOMAIN rest /\ rest[p] = planes[p] BY SMTT(40), ZenonT(40), <1>5, <1>7, <1>9, <2>0, <2>1
    <3> QED BY <3>1
  <2>2. CASE p > m
    <3>1. p - 1 \in DOMAIN rest /\ rest[p - 1] = planes[(p - 1) + 1]
      BY <1>5, <1>7, <1>9, <2>0, <2>2
    <3>2. (p - 1) + 1 = p BY <2>0
    <3> QED BY <3>1, <3>2
  <2> QED BY <1>5, <1>10, <2>0, <2>1, <2>2
<1>11. \A i \in DOMAIN next.contexts : \E q \in DOMAIN rest : rest[q] = next.contexts[i].name
  <2> TAKE i \in DOMAIN next.contexts
  <2>1. PICK p \in DOMAIN planes : planes[p] = next.contexts[i].name BY SMTT(40), ZenonT(40), <1>6 DEF Fits
  <2>2. p # m BY SMTT(40), ZenonT(40), <1>5, <1>6, <2>1
  <2> QED BY <1>10, <2>1, <2>2
<1>12. Fits(rest, next.contexts, next.currentContext) BY SMTT(40), ZenonT(40), <1>6, <1>9, <1>11 DEF Fits
<1>13. ConfigOK(new) BY <1>8, <1>12, ConfigFits
<1> QED BY <1>3, <1>13

\* Every edit of a configuration as kumactl writes it leaves one.
LEMMA EditFits ==
    ASSUME NEW cfg, ConfigOK(cfg), NEW c, IsEdit(c), Edit(cfg, c) # << >>
    PROVE  ConfigOK(Edit(cfg, c)[1])
<1>1. CASE c.kind = "add"
  <2>1. Edit(cfg, c) = addControlPlane(cfg, c) BY <1>1 DEF Edit
  <2> QED BY <2>1, AddFits
<1>2. CASE c.kind = "remove"
  <2>1. Edit(cfg, c) = RemoveControlPlane(cfg, c.name) BY <1>2 DEF Edit, removeControlPlane
  <2> QED BY <2>1, RemoveFits
<1>3. CASE c.kind = "switch"
  <2>1. Edit(cfg, c) = SwitchContext(cfg, c.name) BY <1>3 DEF Edit, switchControlPlane
  <2> QED BY <2>1, SwitchFits
<1> QED BY <1>1, <1>2, <1>3 DEF IsEdit

\* Every process holds a configuration as kumactl writes it while it edits
\* one, and so does the file.
ConfigsFit ==
    /\ ConfigOK(configFile)
    /\ DOMAIN users = Users
    /\ \A u \in Users :
          /\ DOMAIN users[u] = {"pc", "left", "cmd", "slot", "cfg", "shown", "outcome"}
          /\ users[u].pc \in {"edit", "save"} => ConfigOK(users[u].cfg)
          /\ users[u].pc = "edit" => \E c : users[u].cmd = <<c>> /\ IsEdit(c)

\* One process goes on.
LEMMA UserKeepsConfig ==
    ASSUME ConfigsFit, ConfigOK(configFile'), NEW u \in Users, NEW p,
           users' = [users EXCEPT ![u] = p],
           DOMAIN p = {"pc", "left", "cmd", "slot", "cfg", "shown", "outcome"},
           p.pc \in {"edit", "save"} => ConfigOK(p.cfg),
           p.pc = "edit" => \E c : p.cmd = <<c>> /\ IsEdit(c)
    PROVE  ConfigsFit'
<1>1. DOMAIN users = Users BY DEF ConfigsFit
<1>2. DOMAIN users' = Users /\ users'[u] = p /\ \A v \in Users : v # u => users'[v] = users[v]
  BY SMTT(40), ZenonT(40), <1>1
<1>3. ASSUME NEW v \in Users
      PROVE  /\ DOMAIN users'[v] = {"pc", "left", "cmd", "slot", "cfg", "shown", "outcome"}
             /\ users'[v].pc \in {"edit", "save"} => ConfigOK(users'[v].cfg)
             /\ users'[v].pc = "edit" => \E c : users'[v].cmd = <<c>> /\ IsEdit(c)
  <2>1. CASE v = u BY ZenonT(60), <1>2, <2>1
  <2>2. CASE v # u
    <3>1. users'[v] = users[v] BY <1>2, <2>2
    <3> QED BY ZenonT(60), <3>1 DEF ConfigsFit
  <2> QED BY <2>1, <2>2
<1> QED BY ZenonT(60), <1>2, <1>3 DEF ConfigsFit

LEMMA EndedFields ==
    ASSUME NEW p, NEW o,
           DOMAIN p = {"pc", "left", "cmd", "slot", "cfg", "shown", "outcome"}
    PROVE  /\ DOMAIN Ended(p, o) = {"pc", "left", "cmd", "slot", "cfg", "shown", "outcome"}
           /\ Ended(p, o).pc = "ready"
BY DEF Ended

LEMMA ConfigsStay ==
    ASSUME ConfigsFit, UNCHANGED <<users, configFile>>
    PROVE  ConfigsFit'
BY SMTT(40), ZenonT(40) DEF ConfigsFit

LEMMA UsersKeepConfig ==
    ASSUME ConfigsFit, NEW u \in Users,
           \/ \E c \in env.commands[u] : Start(u, c) \/ Load(u, c)
           \/ Answer(u) \/ Timeout(u) \/ Truncate(u) \/ Save(u) \/ Killed(u)
    PROVE  ConfigsFit'
<1> DEFINE fields == {"pc", "left", "cmd", "slot", "cfg", "shown", "outcome"}
<1>0. /\ ConfigOK(configFile) /\ DOMAIN users[u] = fields
      /\ users[u].pc \in {"edit", "save"} => ConfigOK(users[u].cfg)
      /\ users[u].pc = "edit" => \E c : users[u].cmd = <<c>> /\ IsEdit(c)
  BY SMTT(40), ZenonT(40) DEF ConfigsFit
<1>1. ASSUME NEW c, Start(u, c) PROVE ConfigsFit'
  <2> DEFINE p == [users[u] EXCEPT !.left = @ - 1, !.cmd = <<c>>, !.cfg = configFile,
                                   !.shown = {}, !.outcome = "none"]
  <2>1. DOMAIN p = fields BY SMTT(40), ZenonT(40), <1>0
  <2>2. configFile' = configFile BY ZenonT(60), <1>1 DEF Start
  <2>3. CASE EndsEarly(c, configFile) = "no"
    <3>1. Send(u, p, FirstRequest(c)) BY ZenonT(60), <1>1, <2>3 DEF Start
    <3> HIDE DEF p
    <3>2. PICK slot : users' = [users EXCEPT ![u] = [p EXCEPT !.pc = "wait", !.slot = <<slot>>]]
      BY ZenonT(60), <3>1 DEF Send
    <3> DEFINE q == [p EXCEPT !.pc = "wait", !.slot = <<slot>>]
    <3>3. DOMAIN q = fields /\ q.pc = "wait" BY <2>1
    <3>4. users' = [users EXCEPT ![u] = q] BY SMTT(40), ZenonT(40), <3>2
    <3> HIDE DEF q
    <3> QED BY ZenonT(60), <1>0, <2>2, <3>3, <3>4, UserKeepsConfig
  <2>4. CASE EndsEarly(c, configFile) # "no"
    <3>1. users' = [users EXCEPT ![u] = Ended(p, EndsEarly(c, configFile))]
      BY ZenonT(60), <1>1, <2>4 DEF Start
    <3> HIDE DEF p
    <3> QED BY ZenonT(60), <1>0, <2>1, <2>2, <3>1, EndedFields, UserKeepsConfig
  <2> QED BY <2>3, <2>4
<1>2. ASSUME NEW c, Load(u, c) PROVE ConfigsFit'
  <2> DEFINE p == [users[u] EXCEPT !.pc = "edit", !.left = @ - 1, !.cmd = <<c>>,
                                   !.cfg = configFile, !.outcome = "none"]
  <2>1. configFile' = configFile /\ IsEdit(c) BY ZenonT(60), <1>2 DEF Load
  <2>2. users' = [users EXCEPT ![u] = p] BY ZenonT(60), <1>2 DEF Load
  <2>3. DOMAIN p = fields /\ p.cfg = configFile /\ p.cmd = <<c>> BY SMTT(40), ZenonT(40), <1>0
  <2> HIDE DEF p
  <2> QED BY ZenonT(60), <1>0, <2>1, <2>2, <2>3, UserKeepsConfig
<1>3. ASSUME Answer(u) PROVE ConfigsFit'
  <2> DEFINE c == users[u].cmd[1]
             q == requests[users[u].slot[1]]
             told == [users[u] EXCEPT !.shown = @ \cup Shown(c, q)]
             p == IF NextRequest(c, q) = << >> THEN Ended(told, LastAnswer(c, q)) ELSE told
  <2>1. configFile' = configFile /\ users[u].pc = "wait" BY <1>3 DEF Answer
  <2>2. users' = [users EXCEPT ![u] = p] BY <1>3 DEF Answer
  <2>3. DOMAIN told = fields /\ told.pc = "wait" BY SMTT(40), ZenonT(40), <1>0, <2>1
  <2> HIDE DEF told
  <2>4. DOMAIN p = fields /\ p.pc \in {"wait", "ready"} BY ZenonT(60), <2>3, EndedFields
  <2> HIDE DEF p
  <2> QED BY ZenonT(60), <1>0, <2>1, <2>2, <2>4, UserKeepsConfig
<1>4. ASSUME Timeout(u) \/ Killed(u) PROVE ConfigsFit'
  <2>1. /\ configFile' = configFile
        /\ \E o : users' = [users EXCEPT ![u] = Ended(users[u], o)]
    BY SMTT(40), ZenonT(40), <1>4 DEF Timeout, Killed
  <2>2. PICK o : users' = [users EXCEPT ![u] = Ended(users[u], o)] BY ZenonT(60), <2>1
  <2>3. DOMAIN Ended(users[u], o) = fields /\ Ended(users[u], o).pc = "ready"
    BY <1>0, EndedFields
  <2> QED BY ZenonT(60), <1>0, <2>1, <2>2, <2>3, UserKeepsConfig
<1>5. ASSUME Truncate(u) PROVE ConfigsFit'
  <2> DEFINE p == users[u]
             edited == Edit(p.cfg, p.cmd[1])
  <2>1. p.pc = "edit" BY SMTT(40), ZenonT(40), <1>5 DEF Truncate
  <2>2. CASE edited = << >>
    <3>1. configFile' = configFile /\ users' = [users EXCEPT ![u] = Ended(p, "error")]
      BY <1>5, <2>2 DEF Truncate
    <3> QED BY ZenonT(60), <1>0, <3>1, EndedFields, UserKeepsConfig
  <2>3. CASE edited # << >>
    <3> DEFINE r == [p EXCEPT !.pc = "save", !.cfg = edited[1]]
    <3>1. configFile' = DefaultConfiguration /\ users' = [users EXCEPT ![u] = r]
      BY <1>5, <2>3 DEF Truncate
    <3>2. ConfigOK(p.cfg) /\ IsEdit(p.cmd[1]) BY <1>0, <2>1
    <3>3. ConfigOK(edited[1]) BY <2>3, <3>2, EditFits
    <3> HIDE DEF edited
    <3>4. DOMAIN r = fields /\ r.pc = "save" /\ r.cfg = edited[1] BY SMTT(40), ZenonT(40), <1>0
    <3>5. ConfigOK(DefaultConfiguration) BY SMTT(40), ZenonT(40) DEF ConfigOK, DefaultConfiguration
    <3> HIDE DEF r
    <3> QED BY ZenonT(60), <3>1, <3>3, <3>4, <3>5, UserKeepsConfig
  <2> QED BY <2>2, <2>3
<1>6. ASSUME Save(u) PROVE ConfigsFit'
  <2>1. /\ users[u].pc = "save" /\ configFile' = users[u].cfg
        /\ users' = [users EXCEPT ![u] = Ended(users[u], "ok")]
    BY SMTT(40), ZenonT(40), <1>6 DEF Save
  <2>2. ConfigOK(configFile') BY <1>0, <2>1
  <2> QED BY ZenonT(60), <1>0, <2>1, <2>2, EndedFields, UserKeepsConfig
<1> QED BY SMTT(40), ZenonT(40), <1>1, <1>2, <1>3, <1>4, <1>5, <1>6

\* Whatever config commands any number of kumactl processes run at the same
\* time, and wherever they are killed, the configuration file never has a
\* current context that kumactl cannot resolve ("apparently, configuration is
\* broken", root_context.go): processes overwrite what others have added, but
\* each writes the whole of a configuration that fits together.
THEOREM ConfigAlwaysUsable == Spec => []ConfigUsable
<1>1. Init => ConfigsFit
  <2> SUFFICES ASSUME Init PROVE ConfigsFit OBVIOUS
  <2>1. ConfigOK(configFile) BY ConfigAssumption DEF Init
  <2>2. users = [u \in Users |-> Ready(env.budget[u])] BY DEF Init
  <2> QED BY SMTT(40), ZenonT(40), <2>1, <2>2 DEF ConfigsFit, Ready
<1>2. ConfigsFit /\ [Next]_allVars => ConfigsFit'
  <2> SUFFICES ASSUME ConfigsFit, [Next]_allVars PROVE ConfigsFit' OBVIOUS
  <2>1. ASSUME Client PROVE ConfigsFit'
    <3>1. ASSUME Kubectl PROVE UNCHANGED <<users, configFile>> BY <3>1 DEF Kubectl
    <3> QED BY <2>1, <3>1, ConfigsStay, UsersKeepConfig DEF Client
  <2>2. ASSUME Server PROVE ConfigsFit'
    <3>1. UNCHANGED <<users, configFile>> BY SMTT(40), ZenonT(40), <2>2 DEF Server, ServerStep, Abandoned
    <3> QED BY SMTT(40), ZenonT(40), <3>1, ConfigsStay
  <2>3. ASSUME Reading \/ Done \/ UNCHANGED allVars PROVE ConfigsFit'
    <3>1. UNCHANGED <<users, configFile>> BY <2>3 DEF Reading, Done, allVars, vars
    <3> QED BY <3>1, ConfigsStay
  <2> QED BY SMTT(40), ZenonT(40), <2>1, <2>2, <2>3 DEF Next
<1>3. ConfigsFit => ConfigUsable
  <2> SUFFICES ASSUME ConfigsFit, configFile.currentContext # 0
               PROVE  /\ CurrentControlPlane(configFile) # {}
                      /\ \E p \in listControlPlanes(configFile) : p.active
    BY SMTT(40), ZenonT(40) DEF ConfigUsable
  <2> DEFINE planes == configFile.controlPlanes
             s == configFile.contexts
  <2>1. Fits(planes, s, configFile.currentContext) BY ConfigFits DEF ConfigsFit
  <2>2. PICK i \in DOMAIN s : s[i].name = configFile.currentContext BY <2>1 DEF Fits
  <2>3. PICK p \in DOMAIN planes : planes[p] = s[i].controlPlane BY <2>1 DEF Fits
  <2>4. s[i] \in CurrentContext(configFile) BY <2>2 DEF CurrentContext, GetContext
  <2>5. GetControlPlane(configFile, s[i].controlPlane) # {} BY SMTT(40), ZenonT(40), <2>3 DEF GetControlPlane
  <2>6. planes[p] \in CurrentControlPlane(configFile)
    BY SMTT(40), ZenonT(40), <2>3, <2>4, <2>5 DEF CurrentControlPlane
  <2>7. [name |-> planes[p], active |-> planes[p] \in CurrentControlPlane(configFile)]
           \in listControlPlanes(configFile)
    BY DEF listControlPlanes
  <2>8. [name |-> planes[p], active |-> planes[p] \in CurrentControlPlane(configFile)].active
    BY ZenonT(60), <2>6
  <2> QED BY <2>6, <2>7, <2>8
<1> QED BY <1>1, <1>2, <1>3, PTL DEF Spec
=============================================================================
