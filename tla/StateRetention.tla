--------------------------- MODULE StateRetention ---------------------------
(***************************************************************************)
(* The bounded caches of lib/state-retention.js: stores whose entries are  *)
(* dropped by age, by number and, over all stores together, by bytes, the  *)
(* longest accounted first.  Values of a mutable store are handed out as   *)
(* proxies that account for what is written through them, also by a        *)
(* request that holds one while its entry is dropped or replaced.          *)
(***************************************************************************)
EXTENDS Naturals, Sequences, SequencesExt, FiniteSets, FiniteSetsExt

CONSTANTS
  Stores, Keys,
  Sizes,        \* bytes a value and its key may have
  MaxBytes,     \* config.maxBytes, of all stores
  MaxEntries,   \* config.maxEntries, of each store
  MaxKnown      \* bound: entries in a store or held at a time

ASSUME RetentionAssumption ==
  /\ Sizes \subseteq Nat /\ MaxBytes \in Nat /\ MaxEntries \in Nat
  /\ MaxKnown \in Nat

VARIABLES
  cache,        \* the entries, their order in each store, the leases, the bytes
  held          \* entries whose value some request holds

retentionVars == <<cache, held>>

NoEntry == [store |-> "none", key |-> "none", bytes |-> 0, old |-> FALSE]

RetentionInit ==
  /\ cache = [entry |-> [e \in 1..MaxKnown |-> NoEntry],
              entries |-> [s \in Stores |-> <<>>],  \* in the order of insertion
              leases |-> <<>>,                      \* the oldest account first
              bytes |-> 0]
  /\ held = {}

At(s, k) == {e \in ToSet(cache.entries[s]) : cache.entry[e].key = k}
Alive    == UNION {ToSet(cache.entries[s]) : s \in Stores}

Without(seq, S) ==
  FoldLeft(LAMBDA kept, e : IF e \in S THEN kept ELSE Append(kept, e), <<>>, seq)

BytesOf(c, S) == SumFunctionOnSet([e \in 1..MaxKnown |-> c.entry[e].bytes], S)

(* an entry that no store has and nobody holds is forgotten *)
Forgotten(c, S) ==
  [c EXCEPT !.entry = [e \in 1..MaxKnown |-> IF e \in S THEN NoEntry ELSE c.entry[e]]]

(* remove, for every entry of S: its lease, its bytes and its place *)
Dropped(c, S) ==
  Forgotten([c EXCEPT
    !.entries = [s \in Stores |-> Without(c.entries[s], S)],
    !.leases  = Without(@, S),
    !.bytes   = @ - BytesOf(c, S \intersect ToSet(c.leases))], S \ held)

(* reserve: an entry that is too large goes; for another, those that were
   accounted for first make room, and its account is the latest *)
Reserved(c, e, amount) ==
  LET freed    == [c EXCEPT !.leases = Without(@, {e}),
                     !.bytes = @ - BytesOf(c, {e} \intersect ToSet(c.leases))]
      first(n) == ToSet(SubSeq(freed.leases, 1, n))
      room(n)  == freed.bytes - BytesOf(freed, first(n)) + amount <= MaxBytes IN
  IF amount > MaxBytes THEN Dropped(freed, {e})
  ELSE LET n == Min({m \in 0..Len(freed.leases) : room(m)}) IN
       [Dropped(freed, first(n)) EXCEPT
          !.entry[e].bytes = amount, !.leases = Append(@, e), !.bytes = @ + amount]

(* set: the key's entry goes first, even if the new value is too large, and
   the oldest one of a store that has too many after it *)
set(s, k, amount) ==
  IF amount > MaxBytes THEN cache' = Dropped(cache, At(s, k)) /\ UNCHANGED held
  ELSE \E e \in 1..MaxKnown :
    /\ e \notin Alive \union held /\ \A f \in 1..(e - 1) : f \in Alive \union held
    /\ LET added == [Dropped(cache, At(s, k)) EXCEPT
                       !.entries[s] = Append(@, e),
                       !.entry[e] = [store |-> s, key |-> k, bytes |-> 0, old |-> FALSE]]
           roomy == Reserved(added, e, amount) IN
       cache' = IF Len(roomy.entries[s]) > MaxEntries
                THEN Dropped(roomy, {Head(roomy.entries[s])}) ELSE roomy
    /\ UNCHANGED held

(* get: an entry whose time is over is a miss and goes *)
get(s, k) ==
  \E e \in At(s, k) :
    IF cache.entry[e].old THEN cache' = Dropped(cache, {e}) /\ UNCHANGED held
    ELSE held' = held \union {e} /\ UNCHANGED cache

(* account: a write through a held value counts if its entry is still there *)
(* mutant: the entry is not looked up again *)
AccountedAnyway(e, amount) == Reserved(cache, e, amount)

Accounted(e, amount) ==
  IF e \in Alive THEN Reserved(cache, e, amount) ELSE cache

Write(e, amount) ==
  e \in held /\ cache' = Accounted(e, amount) /\ UNCHANGED held

delete(s, k) ==
  At(s, k) # {} /\ cache' = Dropped(cache, At(s, k)) /\ UNCHANGED held

(* the timer of start, and every listing of a store's keys *)
clearExpired(s) ==
  LET S == {e \in ToSet(cache.entries[s]) : cache.entry[e].old} IN
  S # {} /\ cache' = Dropped(cache, S) /\ UNCHANGED held

Age(e) ==
  /\ e \in Alive /\ ~cache.entry[e].old
  /\ cache' = [cache EXCEPT !.entry[e].old = TRUE] /\ UNCHANGED held

LetGo(e) ==
  /\ e \in held /\ held' = held \ {e}
  /\ cache' = Forgotten(cache, {e} \ Alive)

RetentionNext ==
  \/ \E s \in Stores, k \in Keys :
       \/ \E amount \in Sizes : set(s, k, amount)
       \/ get(s, k) \/ delete(s, k)
  \/ \E s \in Stores : clearExpired(s)
  \/ \E e \in 1..MaxKnown : Age(e) \/ LetGo(e)
                              \/ \E amount \in Sizes : Write(e, amount)

RetentionSpec == RetentionInit /\ [][RetentionNext]_retentionVars

(***************************************************************************)
(* The bytes are those of the entries the stores hold, each counted once,  *)
(* and within the limit: also when a request goes on writing to a value    *)
(* whose entry was evicted, has expired or was replaced under its key, and *)
(* when making room for one store drops entries of another.                *)
(***************************************************************************)
BytesExact ==
  /\ ToSet(cache.leases) = Alive /\ Cardinality(Alive) = Len(cache.leases)
  /\ cache.bytes = BytesOf(cache, Alive) /\ cache.bytes <= MaxBytes
=============================================================================
