---------------------------- MODULE CachedManager ----------------------------
(***************************************************************************)
(* The caching resource manager, the read-only manager that generates the  *)
(* configurations of the proxies.  Readers run concurrently and the cache  *)
(* takes no lock: a reader that misses reads the store and writes what it  *)
(* read into the cache later, over whatever another reader wrote.          *)
(***************************************************************************)
EXTENDS ApiServer

CONSTANTS Readers,
          ExpirationTime,   \* how long an entry is valid, in ticks
          MaxFetch,         \* a read of the store takes at most that many ticks
          MaxTime           \* bound: the clock

\* The expiration time is a duration of the configuration.
ASSUME TimesAssumption == ExpirationTime \in Nat /\ MaxFetch \in Nat

VARIABLES cache,            \* per key: no entry, or the value and its expiration
          readers,
          now,
          lastHeld          \* history: when the store last held a value

cacheVars == <<cache, readers, now, lastHeld>>

\* The key of the cache: LIST with the mesh, GET with the name and the mesh.
HashCode(k) == IF k.kind = "LIST" THEN <<k.type, k.mesh>> ELSE <<k.type, k.mesh, k.name>>

Fetched(s, k) ==
    IF k.kind = "LIST" THEN StoreList(s, k.type, k.mesh, 0, NoOffset)
    ELSE StoreGet(s, k.type, k.name, k.mesh)

\* What the store holds under a key, as a reader would be handed it.
Held(s) == {<<HashCode(k), Fetched(s, k).items>> : k \in env.cached}

NewCachedManager == [k \in {HashCode(k) : k \in env.cached} |-> << >>]
Resting == [pc |-> "rest", key |-> << >>, value |-> << >>, since |-> 0]

CacheInit ==
    /\ cache = NewCachedManager
    /\ readers = [r \in Readers |-> Resting]
    /\ now = 0
    /\ lastHeld = {[held |-> h, at |-> 0] : h \in Held(store)}

Current == {[held |-> h, at |-> now] : h \in Held(store)}

\* An expired entry is a miss.
Found(k) == cache[k] # << >> /\ now <= cache[k][1].expires

\* Mutant: a value that was found is put into the cache again.
LookupAndSet(r, k) ==
    /\ readers[r].pc = "rest"
    /\ readers' = [readers EXCEPT ![r] =
           [pc    |-> IF Found(HashCode(k)) THEN "set" ELSE "miss", key |-> <<k>>,
            value |-> IF Found(HashCode(k)) THEN cache[HashCode(k)][1].value ELSE << >>,
            since |-> now]]
    /\ UNCHANGED <<cache, now, lastHeld>>

\* Get and List: the lookup; a hit is returned, a miss goes to the store.
Lookup(r, k) ==
    /\ readers[r].pc = "rest"
    /\ readers' = [readers EXCEPT ![r] =
           [pc    |-> IF Found(HashCode(k)) THEN "hit" ELSE "miss", key |-> <<k>>,
            value |-> IF Found(HashCode(k)) THEN cache[HashCode(k)][1].value ELSE << >>,
            since |-> now]]
    /\ UNCHANGED <<cache, now, lastHeld>>

\* The delegate answers; an error is handed on and not cached.
Fetch(r) ==
    LET f == Fetched(store, readers[r].key[1]) IN
    /\ readers[r].pc = "miss"
    /\ readers' = [readers EXCEPT ![r] =
           IF f.err # "none" THEN Resting
           ELSE [@ EXCEPT !.pc = "set", !.value = f.items, !.since = now]]
    /\ UNCHANGED <<cache, now, lastHeld>>

SetDefault(r) ==
    /\ readers[r].pc = "set"
    /\ cache' = [cache EXCEPT ![HashCode(readers[r].key[1])] =
                     <<[value |-> readers[r].value, expires |-> now + ExpirationTime]>>]
    /\ readers' = [readers EXCEPT ![r].pc = "hit"]
    /\ UNCHANGED <<now, lastHeld>>

\* The value goes to the generator, in the same tick.
Return(r) ==
    /\ readers[r].pc = "hit"
    /\ readers' = [readers EXCEPT ![r] = Resting]
    /\ UNCHANGED <<cache, now, lastHeld>>

Tick ==
    /\ env.cached # {} /\ now < MaxTime
    /\ \A r \in Readers : /\ readers[r].pc # "hit"
                          /\ readers[r].pc # "rest" => now - readers[r].since < MaxFetch
    /\ now' = now + 1
    /\ lastHeld' = {l \in lastHeld : \A c \in Current : l.held # c.held} \cup
                   {[held |-> h, at |-> now + 1] : h \in Held(store)}
    /\ UNCHANGED <<cache, readers>>

\* A change of the store: what it held until now and what it holds.
Remember ==
    lastHeld' = {l \in lastHeld : l.held \notin (Held(store) \cup Held(store'))} \cup
                {[held |-> h, at |-> now] : h \in Held(store) \cup Held(store')}
=============================================================================
