----------------------------- MODULE ResidentCache -----------------------------
(***************************************************************************)
(* The global byte-budgeted LRU cache of materialized experts              *)
(* (cache/resident.py).  One thread calls it, so every method is atomic    *)
(* and is one action here, its eviction loop included.                     *)
(*                                                                         *)
(* The OrderedDict is the pair <<entries, older>>: the keys it holds and   *)
(* the strict total order in which it iterates over them, least recently   *)
(* used first.  Every move_to_end comes with an assignment of              *)
(* last_used_step from the growing step counter, so the same order is also *)
(* the order of last_used_step; the counter, and the hit, miss and         *)
(* eviction statistics that steer nothing, are left out.                   *)
(***************************************************************************)
EXTENDS Integers, FiniteSets

CONSTANTS
  Keys,          \* the (layer, expert) pairs of the manifest
  Size,          \* the bytes of each key's bundle (manifest total_bytes)
  InitCapacity,  \* the byte budget the cache is built with
  Amounts,       \* the byte amounts callers of reserve, evict_* and resize use
  MaxPins        \* bound of the model on the nesting of pins of one key

ASSUME CacheAssumption ==
  /\ IsFiniteSet(Keys)
  /\ Size \in [Keys -> Nat \ {0}]
  /\ InitCapacity \in Nat \ {0}
  /\ Amounts \subseteq Nat
  /\ MaxPins \in Nat

VARIABLES
  capacity,       \* capacity_bytes
  entries,        \* the keys of _entries
  older,          \* <<j, k>>: _entries iterates over j before k
  pins,           \* the pin_count of each entry; 0 for a key that is not resident
  residentBytes,  \* _resident_bytes, maintained incrementally
  raised          \* whether the last call raised MemoryBudgetError

cacheVars == <<capacity, entries, older, pins, residentBytes, raised>>

(***************************************************************************)
(* The bytes of a set of bundles, as a set of <<key, offset>> pairs, so    *)
(* that a sum of sizes is a cardinality.                                   *)
(***************************************************************************)
BundleBytes(k) == {k} \X (1 .. Size[k])
BytesOf(S) == Cardinality(UNION {BundleBytes(k) : k \in S})

\* What an eviction loop may pop.  Faulty variant: the pins are ignored.
UnpinnedOrNot == entries
Unpinned == {k \in entries : pins[k] = 0}

\* What is left of the iteration order when only the keys of S stay.
OrderOn(S) == older \cap (S \X S)

\* The order after move_to_end(k), or after inserting k, in a dict with keys S.
MovedToEnd(S, k) == OrderOn(S \ {k}) \cup ((S \ {k}) \X {k})

\* The loop condition is over: without V the resident bytes are within limit.
\* Faulty variant: off by one.
FitsWithSpare(V, limit) == residentBytes - BytesOf(V) < limit
Fits(V, limit) == residentBytes - BytesOf(V) <= limit

\* The sets of keys that popping "the first unpinned entry" some number of
\* times can remove: the unpinned entries up to some point of the order.  Faulty
\* variant: any unpinned entries.
AnyVictims == SUBSET Unpinned
VictimPrefixes ==
  {V \in SUBSET Unpinned :
     \A v \in V, k \in Unpinned : <<k, v>> \in older => k \in V}

\* V is what the loop "while resident bytes > limit: pop the first unpinned
\* entry" removes: it stops as soon as it fits, or when nothing is evictable.
Pops(V, limit) ==
  /\ V \in VictimPrefixes
  /\ Fits(V, limit) \/ V = Unpinned
  /\ \A W \in VictimPrefixes : W \subseteq V /\ W # V => ~Fits(W, limit)

\* The loop's effect on the dict and on its byte count.
Discard(V) ==
  /\ entries' = entries \ V
  /\ older' = OrderOn(entries \ V)
  /\ residentBytes' = residentBytes - BytesOf(V)

CacheInit ==
  /\ capacity = InitCapacity
  /\ entries = {}
  /\ older = {}
  /\ pins = [k \in Keys |-> 0]
  /\ residentBytes = 0
  /\ raised = FALSE
--------------------------------------------------------------------------------
\* get: a hit becomes the most recent entry, a miss only counts.
Get(k) ==
  /\ older' = IF k \in entries THEN MovedToEnd(entries, k) ELSE older
  /\ raised' = FALSE
  /\ UNCHANGED <<capacity, entries, pins, residentBytes>>

\* evict_until: make room for n bytes; when everything left is pinned it raises,
\* with the entries already popped gone.
EvictUntil(n) ==
  \E V \in SUBSET Unpinned :
    /\ Pops(V, capacity - n)
    /\ Discard(V)
    /\ raised' = ~Fits(V, capacity - n)
    /\ UNCHANGED <<capacity, pins>>

\* reserve: as evict_until, but a bundle larger than the whole budget is
\* refused before anything is evicted.  Faulty variant: only that is looked at.
CheckOnly(n) ==
  raised' = (n > capacity) /\ UNCHANGED <<capacity, entries, older, pins, residentBytes>>
Reserve(n) ==
  /\ n > 0
  /\ \/ /\ n > capacity
        /\ raised' = TRUE
        /\ UNCHANGED <<capacity, entries, older, pins, residentBytes>>
     \/ /\ n <= capacity
        /\ EvictUntil(n)

\* The insertion that ends admit: the new entry is the most recent one.
Insert(k, V) ==
  LET kept == entries \ V IN
  /\ entries' = kept \cup {k}
  /\ older' = MovedToEnd(kept \cup {k}, k)
  /\ residentBytes' = residentBytes - BytesOf(V) + Size[k]

\* admit: a resident key is returned as it is (its recency does not change); a
\* new one is inserted after reserve made room for it.
Admit(k) ==
  \/ /\ k \in entries
     /\ raised' = FALSE
     /\ UNCHANGED <<capacity, entries, older, pins, residentBytes>>
  \/ /\ k \notin entries
     /\ Size[k] <= capacity
     /\ \E V \in SUBSET Unpinned :
          /\ Pops(V, capacity - Size[k])
          /\ Fits(V, capacity - Size[k])
          /\ Insert(k, V)
     /\ raised' = FALSE
     /\ UNCHANGED <<capacity, pins>>
  \/ /\ k \notin entries
     /\ Reserve(Size[k])
     /\ raised'

Pin(k) ==
  /\ k \in entries
  /\ pins[k] < MaxPins
  /\ pins' = [pins EXCEPT ![k] = @ + 1]
  /\ older' = MovedToEnd(entries, k)
  /\ raised' = FALSE
  /\ UNCHANGED <<capacity, entries, residentBytes>>

\* Faulty variant of unpin: a pin is a flag.
UnpinFully(k) ==
  /\ pins[k] > 0
  /\ pins' = [pins EXCEPT ![k] = 0]
  /\ raised' = FALSE
  /\ UNCHANGED <<capacity, entries, older, residentBytes>>
Unpin(k) ==
  /\ k \in entries
  /\ pins[k] > 0
  /\ pins' = [pins EXCEPT ![k] = @ - 1]
  /\ raised' = FALSE
  /\ UNCHANGED <<capacity, entries, older, residentBytes>>

\* evict_to: bring the resident bytes down to target, capacity unchanged.
EvictTo(target) ==
  \E V \in SUBSET Unpinned :
    /\ Pops(V, target)
    /\ Discard(V)
    /\ raised' = ~Fits(V, target)
    /\ UNCHANGED <<capacity, pins>>

\* The capacity after a resize to c that popped V: the new one is kept only when the
\* entries were brought under it.  Faulty variant: it is not restored.
ResizedAnyway(V, c) == c
Resized(V, c) == IF Fits(V, c) THEN c ELSE capacity

\* resize: it may raise, with the popped entries gone.
Resize(c) ==
  /\ c > 0
  /\ \E V \in SUBSET Unpinned :
       /\ Pops(V, c)
       /\ Discard(V)
       /\ raised' = ~Fits(V, c)
       /\ capacity' = Resized(V, c)
       /\ UNCHANGED pins

CacheNext ==
  \/ \E k \in Keys : Get(k) \/ Admit(k) \/ Pin(k) \/ Unpin(k)
  \/ \E n \in Amounts : Reserve(n) \/ EvictUntil(n) \/ EvictTo(n) \/ Resize(n)

CacheSpec == CacheInit /\ [][CacheNext]_cacheVars
--------------------------------------------------------------------------------
\* Types of the cache's state, and a pin only on a resident key.
CacheTypeOK ==
  /\ capacity \in Nat \ {0}
  /\ entries \in SUBSET Keys
  /\ older \in SUBSET (entries \X entries)
  /\ pins \in [Keys -> Nat]
  /\ residentBytes \in Nat
  /\ raised \in BOOLEAN

\* The incrementally kept byte count is the sum of the resident bundles and never
\* exceeds the budget, also after an eviction loop or a resize that raised half
\* way (_assert_invariant, resident.py:243).
ByteBudget ==
  /\ residentBytes = BytesOf(entries)
  /\ residentBytes <= capacity

\* A pinned key is resident: no method ever drops an entry some GPU work still
\* uses (pin, resident.py:154, and both eviction loops).
PinnedAreResident == \A k \in Keys : pins[k] > 0 => k \in entries

\* An entry leaves the cache only when every unpinned entry that stays is more
\* recent: a hit or a pin always protects from the next evictions.
EvictsOldestFirst ==
  [][\A v \in entries \ entries', k \in entries \cap entries' :
       pins[k] = 0 => <<v, k>> \in older]_cacheVars
--------------------------------------------------------------------------------
\* The promise the cache makes, with the byte counter and the order abstracted.
Store == INSTANCE BoundedStore
           WITH Bytes <- BytesOf, budget <- capacity, store <- entries, held <- pins

\* The cache implements the promise of BoundedStore: every call, a raising one
\* included, drops only unpinned bundles and keeps the rest inside the budget.
ImplementsStore == Store!StoreSpec
================================================================================
