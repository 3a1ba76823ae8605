-------------------------- MODULE ResidentCacheProofs --------------------------
(***************************************************************************)
(* Theorems about ResidentCache for every manifest, budget and sequence of *)
(* calls.                                                                  *)
(***************************************************************************)
EXTENDS ResidentCache, FiniteSetTheorems, TLAPS

--------------------------------------------------------------------------------
(* Bytes of sets of bundles.                                                *)

\* A bundle has exactly Size[k] bytes.
LEMMA BundleSize ==
  ASSUME NEW k \in Keys
  PROVE  /\ IsFiniteSet(BundleBytes(k))
         /\ Cardinality(BundleBytes(k)) = Size[k]
<1>1. Size[k] \in Nat \ {0}
  BY CacheAssumption
<1>2. IsFiniteSet({k}) /\ Cardinality({k}) = 1
  BY FS_Singleton
<1>3. IsFiniteSet(1 .. Size[k]) /\ Cardinality(1 .. Size[k]) = Size[k]
  BY <1>1, FS_Interval
<1>4. IsFiniteSet({k} \X (1 .. Size[k]))
      /\ Cardinality({k} \X (1 .. Size[k])) = 1 * Size[k]
  BY <1>2, <1>3, FS_Product
<1> QED
  BY <1>1, <1>4 DEF BundleBytes

\* The bytes of a set of bundles are finitely many.
LEMMA BytesFinite ==
  ASSUME NEW S \in SUBSET Keys
  PROVE  /\ IsFiniteSet(UNION {BundleBytes(k) : k \in S})
         /\ BytesOf(S) \in Nat
<1> DEFINE Parts == {BundleBytes(k) : k \in S}
<1> DEFINE part == [k \in S |-> BundleBytes(k)]
<1>1. IsFiniteSet(S)
  BY CacheAssumption, FS_Subset
<1>2. part \in Surjection(S, Parts)
  BY DEF Surjection
<1>3. IsFiniteSet(Parts)
  BY <1>1, <1>2, FS_Surjection
<1>4. \A T \in Parts : IsFiniteSet(T)
  BY BundleSize
<1>5. IsFiniteSet(UNION Parts)
  BY <1>3, <1>4, FS_UNION
<1> QED
  BY <1>5, FS_CardinalityType DEF BytesOf

\* The bytes of disjoint sets of bundles add up.
LEMMA BytesOfUnion ==
  ASSUME NEW S \in SUBSET Keys, NEW T \in SUBSET Keys, S \cap T = {}
  PROVE  BytesOf(S \cup T) = BytesOf(S) + BytesOf(T)
<1> DEFINE B(U) == UNION {BundleBytes(k) : k \in U}
<1>1. IsFiniteSet(B(S)) /\ IsFiniteSet(B(T))
  BY BytesFinite
<1>2. B(S \cup T) = B(S) \cup B(T)
  OBVIOUS
<1>3. B(S) \cap B(T) = {}
  BY DEF BundleBytes
<1>4. Cardinality(B(S) \cup B(T)) = Cardinality(B(S)) + Cardinality(B(T)) - Cardinality(B(S) \cap B(T))
  BY <1>1, FS_Union
<1>5. Cardinality(B(S) \cap B(T)) = 0
  BY <1>3, FS_EmptySet
<1>6. Cardinality(B(S)) \in Nat /\ Cardinality(B(T)) \in Nat
  BY <1>1, FS_CardinalityType
<1>7. Cardinality(B(S) \cup B(T)) = Cardinality(B(S)) + Cardinality(B(T))
  <2>1. \A x, y, z \in Nat : z = 0 => x + y - z = x + y
    OBVIOUS
  <2>2. Cardinality(B(S) \cap B(T)) \in Nat
    BY <1>5
  <2> HIDE DEF B
  <2> QED
    BY <1>4, <1>5, <1>6, <2>1, <2>2
<1> QED
  BY <1>2, <1>7 DEF BytesOf

\* Removing bundles subtracts their bytes.
LEMMA BytesOfDifference ==
  ASSUME NEW S \in SUBSET Keys, NEW V \in SUBSET S
  PROVE  BytesOf(S \ V) = BytesOf(S) - BytesOf(V)
<1>1. BytesOf((S \ V) \cup V) = BytesOf(S \ V) + BytesOf(V)
  BY BytesOfUnion
<1>2. (S \ V) \cup V = S
  OBVIOUS
<1>3. BytesOf(S \ V) \in Nat /\ BytesOf(V) \in Nat
  BY BytesFinite
<1>4. BytesOf(S) = BytesOf(S \ V) + BytesOf(V)
  BY <1>1, <1>2, Zenon
<1> QED
  BY <1>3, <1>4

\* Adding a bundle adds its size.
LEMMA BytesOfInsert ==
  ASSUME NEW S \in SUBSET Keys, NEW k \in Keys, k \notin S
  PROVE  BytesOf(S \cup {k}) = BytesOf(S) + Size[k]
<1>1. BytesOf(S \cup {k}) = BytesOf(S) + BytesOf({k})
  BY BytesOfUnion
<1>2. UNION {BundleBytes(j) : j \in {k}} = BundleBytes(k)
  OBVIOUS
<1>3. BytesOf({k}) = Size[k]
  BY <1>2, BundleSize DEF BytesOf
<1> QED
  BY <1>1, <1>3

\* No bundles, no bytes.
LEMMA BytesOfNothing == BytesOf({}) = 0
<1>1. UNION {BundleBytes(k) : k \in {}} = {}
  OBVIOUS
<1> QED
  BY <1>1, FS_EmptySet DEF BytesOf
--------------------------------------------------------------------------------
(* The inductive invariant of the cache.                                     *)

CacheInv == CacheTypeOK /\ ByteBudget /\ PinnedAreResident

\* Popping entries in the eviction loop keeps the types and the byte count, drops
\* nothing pinned, and fits the limit when it says so.
LEMMA DiscardKeepsAccounts ==
  ASSUME CacheInv, NEW V \in SUBSET Unpinned, Discard(V)
  PROVE  /\ entries' \in SUBSET Keys
         /\ older' \in SUBSET (entries' \X entries')
         /\ residentBytes' \in Nat
         /\ residentBytes' = BytesOf(entries')
         /\ residentBytes' <= residentBytes
         /\ \A k \in Keys : pins[k] > 0 => k \in entries'
<1> USE DEF CacheInv, CacheTypeOK
<1>1. V \in SUBSET entries /\ V \in SUBSET Keys /\ entries \in SUBSET Keys
  BY DEF Unpinned
<1>2. BytesOf(entries \ V) = BytesOf(entries) - BytesOf(V)
  BY <1>1, BytesOfDifference
<1>3. BytesOf(entries \ V) \in Nat /\ BytesOf(V) \in Nat
  BY <1>1, BytesFinite
<1>4. residentBytes' = BytesOf(entries) - BytesOf(V)
  BY DEF Discard, ByteBudget
<1>5. residentBytes' = BytesOf(entries')
  BY <1>2, <1>4, Zenon DEF Discard
<1>6. residentBytes' \in Nat
  BY <1>2, <1>3, <1>4, Zenon
<1>7. residentBytes' <= residentBytes
  BY <1>3 DEF Discard
<1>8. entries' \in SUBSET Keys /\ older' \in SUBSET (entries' \X entries')
  BY <1>1 DEF Discard, OrderOn
<1>9. \A k \in Keys : pins[k] > 0 => k \in entries'
  BY DEF Discard, Unpinned, PinnedAreResident
<1> QED
  BY <1>5, <1>6, <1>7, <1>8, <1>9

\* Eviction down to a limit, which may raise, keeps the invariant.
LEMMA EvictUntilKeepsInv ==
  ASSUME CacheInv, NEW n \in Nat, EvictUntil(n)
  PROVE  CacheInv'
<1>1. PICK V \in SUBSET Unpinned : Discard(V) /\ raised' = ~Fits(V, capacity - n)
  BY DEF EvictUntil
<1>2. capacity' = capacity /\ pins' = pins
  BY DEF EvictUntil
<1>3. raised' \in BOOLEAN
  BY <1>1 DEF Fits
<1> QED
  BY <1>1, <1>2, <1>3, DiscardKeepsAccounts
  DEF CacheInv, CacheTypeOK, ByteBudget, PinnedAreResident

\* Reserving keeps the invariant.
LEMMA ReserveKeepsInv ==
  ASSUME CacheInv, NEW n \in Nat, Reserve(n)
  PROVE  CacheInv'
<1>1. CASE EvictUntil(n)
  BY <1>1, EvictUntilKeepsInv
<1>2. CASE raised' = TRUE /\ UNCHANGED <<capacity, entries, older, pins, residentBytes>>
  BY <1>2 DEF CacheInv, CacheTypeOK, ByteBudget, PinnedAreResident
<1> QED
  BY <1>1, <1>2 DEF Reserve

\* Inserting a new bundle after enough was evicted keeps the accounts and the
\* budget.
LEMMA InsertKeepsAccounts ==
  ASSUME CacheInv, NEW k \in Keys, k \notin entries,
         NEW V \in SUBSET Unpinned, Fits(V, capacity - Size[k]), Insert(k, V)
  PROVE  /\ entries' \in SUBSET Keys
         /\ older' \in SUBSET (entries' \X entries')
         /\ residentBytes' \in Nat
         /\ residentBytes' = BytesOf(entries')
         /\ residentBytes' <= capacity
         /\ \A j \in Keys : pins[j] > 0 => j \in entries'
<1> USE DEF CacheInv, CacheTypeOK
<1> DEFINE kept == entries \ V
<1>1. V \in SUBSET entries /\ V \in SUBSET Keys /\ entries \in SUBSET Keys
  BY DEF Unpinned
<1>2. BytesOf(kept) = BytesOf(entries) - BytesOf(V)
  BY <1>1, BytesOfDifference
<1>3. kept \in SUBSET Keys /\ k \notin kept
  BY <1>1
<1>4. BytesOf(kept \cup {k}) = BytesOf(kept) + Size[k]
  BY <1>3, BytesOfInsert
<1>5. BytesOf(kept) \in Nat /\ BytesOf(V) \in Nat /\ BytesOf(entries) \in Nat
  BY <1>1, <1>3, BytesFinite
<1>6. Size[k] \in Nat /\ capacity \in Nat
  BY CacheAssumption
<1>7. residentBytes' = BytesOf(entries) - BytesOf(V) + Size[k]
  BY DEF Insert, ByteBudget
<1>8. residentBytes' = BytesOf(kept) + Size[k]
  BY <1>2, <1>7, Zenon
<1>9. residentBytes' = BytesOf(entries')
  BY <1>4, <1>8, Zenon DEF Insert
<1>10. residentBytes' \in Nat
  <2>1. \A x, y \in Nat : x + y \in Nat
    OBVIOUS
  <2> QED
    BY <1>5, <1>6, <1>8, <2>1, Zenon
<1>11. residentBytes' <= capacity
  BY <1>5, <1>6 DEF Insert, Fits
<1>12. entries' \in SUBSET Keys /\ older' \in SUBSET (entries' \X entries')
  BY <1>1 DEF Insert, MovedToEnd, OrderOn
<1>13. \A j \in Keys : pins[j] > 0 => j \in entries'
  BY DEF Insert, Unpinned, PinnedAreResident
<1> QED
  BY <1>9, <1>10, <1>11, <1>12, <1>13

\* Admission, refused or not, keeps the invariant.
LEMMA AdmitKeepsInv ==
  ASSUME CacheInv, NEW k \in Keys, Admit(k)
  PROVE  CacheInv'
<1>1. CASE k \in entries
  BY <1>1 DEF Admit, CacheInv, CacheTypeOK, ByteBudget, PinnedAreResident
<1>2. CASE k \notin entries /\ Reserve(Size[k])
  BY <1>2, ReserveKeepsInv, CacheAssumption
<1>3. ASSUME k \notin entries, NEW V \in SUBSET Unpinned,
             Fits(V, capacity - Size[k]), Insert(k, V),
             raised' = FALSE, UNCHANGED <<capacity, pins>>
      PROVE  CacheInv'
  BY <1>3, InsertKeepsAccounts
  DEF CacheInv, CacheTypeOK, ByteBudget, PinnedAreResident
<1> QED
  BY <1>1, <1>2, <1>3 DEF Admit

\* Explicit eviction keeps the invariant.
LEMMA EvictToKeepsInv ==
  ASSUME CacheInv, NEW target \in Nat, EvictTo(target)
  PROVE  CacheInv'
<1>1. PICK V \in SUBSET Unpinned : Discard(V) /\ raised' = ~Fits(V, target)
  BY DEF EvictTo
<1>2. capacity' = capacity /\ pins' = pins
  BY DEF EvictTo
<1>3. raised' \in BOOLEAN
  BY <1>1 DEF Fits
<1> QED
  BY <1>1, <1>2, <1>3, DiscardKeepsAccounts
  DEF CacheInv, CacheTypeOK, ByteBudget, PinnedAreResident

\* A resize keeps the invariant because the new capacity stays only when it was
\* reached.
LEMMA ResizeKeepsInv ==
  ASSUME CacheInv, NEW c \in Nat, Resize(c)
  PROVE  CacheInv'
<1>1. PICK V \in SUBSET Unpinned :
         /\ Discard(V)
         /\ raised' = ~Fits(V, c)
         /\ capacity' = IF Fits(V, c) THEN c ELSE capacity
  BY DEF Resize, Resized
<1>2. pins' = pins /\ c > 0
  BY DEF Resize
<1>3. raised' \in BOOLEAN
  BY <1>1 DEF Fits
<1>4. capacity' \in Nat \ {0}
  BY <1>1, <1>2 DEF CacheInv, CacheTypeOK
<1>5. Fits(V, c) => residentBytes' <= c
  BY <1>1 DEF Fits, Discard
<1>6. residentBytes' <= capacity'
  <2>1. CASE Fits(V, c)
    BY <1>1, <1>5, <2>1
  <2>2. CASE ~Fits(V, c)
    BY <1>1, <2>2, DiscardKeepsAccounts DEF CacheInv, CacheTypeOK, ByteBudget
  <2> QED
    BY <2>1, <2>2
<1> QED
  BY <1>1, <1>2, <1>3, <1>4, <1>6, DiscardKeepsAccounts
  DEF CacheInv, CacheTypeOK, ByteBudget, PinnedAreResident

\* Every call keeps the invariant.
LEMMA CacheStepKeepsInv ==
  ASSUME CacheInv, [CacheNext]_cacheVars
  PROVE  CacheInv'
<1> USE DEF CacheInv, CacheTypeOK, ByteBudget, PinnedAreResident
<1>1. ASSUME NEW k \in Keys, Get(k)
      PROVE  CacheInv'
  BY <1>1 DEF Get, MovedToEnd, OrderOn
<1>2. ASSUME NEW k \in Keys, Admit(k)
      PROVE  CacheInv'
  BY <1>2, AdmitKeepsInv
<1>3. ASSUME NEW k \in Keys, Pin(k)
      PROVE  CacheInv'
  <2>1. pins[k] + 1 \in Nat
    BY <1>3
  <2>2. pins' \in [Keys -> Nat] /\ \A j \in Keys : pins'[j] > 0 => j \in entries
    BY <1>3, <2>1 DEF Pin
  <2>3. older' \in SUBSET (entries \X entries)
    BY <1>3 DEF Pin, MovedToEnd, OrderOn
  <2>4. raised' \in BOOLEAN /\ UNCHANGED <<capacity, entries, residentBytes>>
    BY <1>3 DEF Pin
  <2> QED
    BY <2>2, <2>3, <2>4
<1>4. ASSUME NEW k \in Keys, Unpin(k)
      PROVE  CacheInv'
  <2>1. pins[k] - 1 \in Nat
    BY <1>4 DEF Unpin
  <2>2. pins' \in [Keys -> Nat] /\ \A j \in Keys : pins'[j] > 0 => j \in entries
    BY <1>4, <2>1 DEF Unpin
  <2>3. raised' \in BOOLEAN /\ UNCHANGED <<capacity, entries, older, residentBytes>>
    BY <1>4 DEF Unpin
  <2> QED
    BY <2>2, <2>3
<1>5. ASSUME NEW n \in Amounts, Reserve(n) \/ EvictUntil(n)
      PROVE  CacheInv'
  BY <1>5, ReserveKeepsInv, EvictUntilKeepsInv, CacheAssumption
<1>6. ASSUME NEW n \in Amounts, EvictTo(n) \/ Resize(n)
      PROVE  CacheInv'
  BY <1>6, EvictToKeepsInv, ResizeKeepsInv, CacheAssumption
<1>7. CASE UNCHANGED cacheVars
  BY <1>7 DEF cacheVars
<1> QED
  BY <1>1, <1>2, <1>3, <1>4, <1>5, <1>6, <1>7 DEF CacheNext

\* The cache starts in the invariant.
LEMMA CacheStartsInInv == CacheInit => CacheInv
<1> SUFFICES ASSUME CacheInit
             PROVE  CacheInv
  OBVIOUS
<1>1. CacheTypeOK /\ PinnedAreResident
  <2>1. pins \in [Keys -> Nat] /\ \A k \in Keys : pins[k] = 0
    BY DEF CacheInit
  <2>2. entries \in SUBSET Keys /\ older \in SUBSET (entries \X entries)
    BY DEF CacheInit
  <2>3. capacity \in Nat \ {0} /\ residentBytes \in Nat /\ raised \in BOOLEAN
    BY CacheAssumption DEF CacheInit
  <2>4. PinnedAreResident
    BY <2>1 DEF PinnedAreResident
  <2> QED
    BY <2>1, <2>2, <2>3, <2>4 DEF CacheTypeOK
<1>2. residentBytes = BytesOf(entries)
  BY BytesOfNothing, Zenon DEF CacheInit
<1>3. residentBytes <= capacity
  BY CacheAssumption DEF CacheInit
<1> QED
  BY <1>1, <1>2, <1>3 DEF CacheInv, ByteBudget

\* The types, the exact byte accounting within the budget, and the residency of
\* every pinned expert hold for every manifest, budget and sequence of calls
\* (resident.py:243, ARCHITECTURE.md section 11.1).
THEOREM CacheStaysWithinBudget == CacheSpec => [](CacheTypeOK /\ ByteBudget /\ PinnedAreResident)
<1>1. CacheInv /\ [CacheNext]_cacheVars => CacheInv'
  BY CacheStepKeepsInv
<1>2. CacheInv => CacheTypeOK /\ ByteBudget /\ PinnedAreResident
  BY DEF CacheInv
<1> QED
  BY CacheStartsInInv, <1>1, <1>2, PTL DEF CacheSpec
--------------------------------------------------------------------------------
(* The order of the entries.                                                   *)

\* older is a strict total order of the resident keys.
OrderInv ==
  /\ \A j, k \in entries : j = k \/ <<j, k>> \in older \/ <<k, j>> \in older
  /\ \A j, k \in entries : <<j, k>> \in older => <<k, j>> \notin older
  /\ \A i, j, k \in entries : <<i, j>> \in older /\ <<j, k>> \in older => <<i, k>> \in older

\* What an eviction leaves, and what a move to the end makes of a part of the entries.
LEMMA OrderOfTheRest ==
  ASSUME OrderInv, NEW V, entries' = entries \ V, older' = OrderOn(entries \ V)
  PROVE  OrderInv'
<1>1. \A j, k \in entries' : j \in entries /\ k \in entries
                             /\ (<<j, k>> \in older' <=> <<j, k>> \in older)
  BY DEF OrderOn
<1> QED
  BY <1>1 DEF OrderInv

LEMMA OrderAfterAMove ==
  ASSUME OrderInv, NEW S \in SUBSET entries, NEW k,
         entries' = S \cup {k}, older' = MovedToEnd(S \cup {k}, k)
  PROVE  OrderInv'
<1> DEFINE R == (S \cup {k}) \ {k}
<1>1. R \in SUBSET entries /\ entries' = R \cup {k} /\ k \notin R
  OBVIOUS
<1>2. older' = (older \cap (R \X R)) \cup (R \X {k})
  BY DEF MovedToEnd, OrderOn
<1>3. \A i, j \in R : <<i, j>> \in older' <=> <<i, j>> \in older
  BY <1>1, <1>2
<1>4. /\ \A j \in R : <<j, k>> \in older' /\ <<k, j>> \notin older'
      /\ <<k, k>> \notin older'
  BY <1>1, <1>2
<1> HIDE DEF R
<1>5. \A i, j \in entries' : i = j \/ <<i, j>> \in older' \/ <<j, i>> \in older'
  BY <1>1, <1>3, <1>4 DEF OrderInv
<1>6. \A i, j \in entries' : <<i, j>> \in older' => <<j, i>> \notin older'
  BY <1>1, <1>3, <1>4 DEF OrderInv
<1>7. ASSUME NEW i \in entries', NEW j \in entries', NEW l \in entries',
             <<i, j>> \in older', <<j, l>> \in older'
      PROVE  <<i, l>> \in older'
  <2>1. i \in R /\ j \in R
    BY <1>1, <1>4, <1>7
  <2>2. CASE l = k
    BY <1>4, <2>1, <2>2
  <2>3. CASE l \in R
    BY <1>1, <1>3, <1>7, <2>1, <2>3 DEF OrderInv
  <2> QED
    BY <1>1, <2>2, <2>3
<1> QED
  BY <1>5, <1>6, <1>7 DEF OrderInv

LEMMA OrderStepKeepsInv ==
  ASSUME CacheInv, OrderInv, [CacheNext]_cacheVars
  PROVE  OrderInv'
<1>1. ASSUME UNCHANGED <<entries, older>>
      PROVE  OrderInv'
  BY <1>1 DEF OrderInv
<1>2. ASSUME NEW V \in SUBSET Unpinned, Discard(V)
      PROVE  OrderInv'
  BY <1>2, OrderOfTheRest DEF Discard
<1>3. ASSUME NEW n, Reserve(n)
      PROVE  OrderInv'
  BY <1>1, <1>2, <1>3 DEF Reserve, EvictUntil
<1>4. ASSUME NEW k \in Keys, Get(k) \/ Pin(k)
      PROVE  OrderInv'
  <2>1. CASE k \in entries
    <3>1. entries' = entries \cup {k} /\ older' = MovedToEnd(entries \cup {k}, k)
      <4>1. entries \cup {k} = entries
        BY <2>1
      <4> QED
        BY <1>4, <2>1, <4>1 DEF Get, Pin
    <3> QED
      BY <3>1, OrderAfterAMove
  <2>2. CASE k \notin entries
    BY <1>1, <1>4, <2>2 DEF Get, Pin
  <2> QED
    BY <2>1, <2>2
<1>5. ASSUME NEW k \in Keys, Admit(k)
      PROVE  OrderInv'
  <2>1. ASSUME NEW V \in SUBSET Unpinned, Insert(k, V)
        PROVE  OrderInv'
    <3>1. entries' = (entries \ V) \cup {k} /\ older' = MovedToEnd((entries \ V) \cup {k}, k)
      BY <2>1 DEF Insert
    <3> QED
      BY <3>1, OrderAfterAMove
  <2> QED
    BY <1>1, <1>3, <1>5, <2>1 DEF Admit
<1>6. ASSUME NEW n \in Amounts, EvictUntil(n) \/ EvictTo(n) \/ Resize(n)
      PROVE  OrderInv'
  BY <1>2, <1>6 DEF EvictUntil, EvictTo, Resize
<1>7. ASSUME NEW k \in Keys, Unpin(k)
      PROVE  OrderInv'
  BY <1>1, <1>7 DEF Unpin
<1> QED
  BY <1>1, <1>3, <1>4, <1>5, <1>6, <1>7 DEF CacheNext, cacheVars

LEMMA OrderStartsInInv == CacheInit => OrderInv
  BY DEF CacheInit, OrderInv

\* What an eviction loop drops is older than every unpinned entry it leaves.
LEMMA VictimsAreOldest ==
  ASSUME CacheInv, OrderInv, NEW V \in VictimPrefixes, NEW v \in V,
         NEW k \in entries \ V, pins[k] = 0
  PROVE  <<v, k>> \in older
<1>1. v \in entries /\ k \in Unpinned /\ v # k
  BY DEF VictimPrefixes, Unpinned
<1> QED
  BY <1>1 DEF VictimPrefixes, OrderInv

\* The cache evicts the least recently used first: an unpinned entry never outlives a
\* more recent one, in any call that evicts, a raising one included (resident.py, both
\* eviction loops and move_to_end).
THEOREM OldestIsEvictedFirst == CacheSpec => EvictsOldestFirst
<1> DEFINE Oldest == \A v \in entries \ entries', k \in entries \cap entries' :
                       pins[k] = 0 => <<v, k>> \in older
<1>1. CacheInv /\ OrderInv /\ [CacheNext]_cacheVars => [Oldest]_cacheVars
  <2> SUFFICES ASSUME CacheInv, OrderInv, CacheNext
               PROVE  Oldest
    OBVIOUS
  <2>1. ASSUME NEW V \in VictimPrefixes, entries \ entries' \subseteq V, V \cap entries' = {}
        PROVE  Oldest
    BY <2>1, VictimsAreOldest
  <2>2. ASSUME entries \subseteq entries'
        PROVE  Oldest
    BY <2>2
  <2>3. ASSUME NEW V, Discard(V), NEW limit, Pops(V, limit)
        PROVE  Oldest
    BY <2>1, <2>3 DEF Discard, Pops
  <2>4. ASSUME NEW n, Reserve(n)
        PROVE  Oldest
    BY <2>2, <2>3, <2>4 DEF Reserve, EvictUntil
  <2>5. ASSUME NEW k \in Keys, Admit(k)
        PROVE  Oldest
    <3>1. ASSUME k \notin entries, NEW V \in SUBSET Unpinned, Insert(k, V),
                 Pops(V, capacity - Size[k])
          PROVE  Oldest
      <4>1. V \subseteq entries /\ entries' = (entries \ V) \cup {k}
        BY <3>1 DEF Insert, Unpinned
      <4>2. entries \ entries' \subseteq V /\ V \cap entries' = {}
        BY <3>1, <4>1
      <4>3. V \in VictimPrefixes
        BY <3>1 DEF Pops
      <4> QED
        BY <2>1, <4>2, <4>3
    <3> QED
      BY <2>2, <2>4, <2>5, <3>1 DEF Admit
  <2>6. ASSUME NEW n \in Amounts, EvictUntil(n) \/ EvictTo(n) \/ Resize(n)
        PROVE  Oldest
    BY <2>3, <2>6 DEF EvictUntil, EvictTo, Resize
  <2>7. ASSUME NEW k \in Keys, Get(k) \/ Pin(k) \/ Unpin(k)
        PROVE  Oldest
    BY <2>2, <2>7 DEF Get, Pin, Unpin
  <2> QED
    BY <2>4, <2>5, <2>6, <2>7 DEF CacheNext
<1>2. CacheInv /\ OrderInv /\ [CacheNext]_cacheVars => CacheInv' /\ OrderInv'
  BY CacheStepKeepsInv, OrderStepKeepsInv
<1> QED
  BY CacheStartsInInv, OrderStartsInInv, <1>1, <1>2, PTL DEF CacheSpec, EvictsOldestFirst
--------------------------------------------------------------------------------
(* The cache implements BoundedStore.                                        *)

\* Dropping unpinned entries, and nothing else, is a Replace of the store.
LEMMA DropIsReplace ==
  ASSUME CacheInv, CacheInv', NEW V \in SUBSET Unpinned,
         entries' = entries \ V, UNCHANGED <<capacity, pins>>
  PROVE  Store!Replace
<1>1. V \in SUBSET entries /\ \A k \in V : pins[k] = 0
  BY DEF Unpinned
<1>2. entries' = (entries \ V) \cup {}
  OBVIOUS
<1>3. BytesOf(entries') <= capacity
  BY DEF CacheInv, ByteBudget
<1> QED
  BY <1>1, <1>2, <1>3 DEF Store!Replace

\* Admitting a new key after evicting unpinned ones is a Replace of the store.
LEMMA InsertIsReplace ==
  ASSUME CacheInv, CacheInv', NEW V \in SUBSET Unpinned, NEW k \in Keys,
         Insert(k, V), UNCHANGED <<capacity, pins>>
  PROVE  Store!Replace
<1>1. V \in SUBSET entries /\ \A j \in V : pins[j] = 0
  BY DEF Unpinned
<1>2. entries' = (entries \ V) \cup {k}
  BY DEF Insert
<1>3. BytesOf(entries') <= capacity
  BY DEF CacheInv, ByteBudget
<1>4. {k} \in {{}} \cup {{j} : j \in Keys}
  OBVIOUS
<1> QED
  BY <1>1, <1>2, <1>3, <1>4 DEF Store!Replace

\* The steps that can evict.
LEMMA EvictionRefines ==
  ASSUME CacheInv, CacheInv', NEW n \in Nat,
         Reserve(n) \/ EvictUntil(n) \/ EvictTo(n)
  PROVE  Store!Replace \/ UNCHANGED <<capacity, entries, pins>>
<1>1. CASE EvictUntil(n) \/ EvictTo(n)
  <2>1. PICK V \in SUBSET Unpinned : entries' = entries \ V
    BY <1>1 DEF EvictUntil, EvictTo, Discard
  <2>2. UNCHANGED <<capacity, pins>>
    BY <1>1 DEF EvictUntil, EvictTo
  <2> QED
    BY <2>1, <2>2, DropIsReplace
<1>2. CASE UNCHANGED <<capacity, entries, older, pins, residentBytes>>
  BY <1>2
<1> QED
  BY <1>1, <1>2 DEF Reserve

\* A resize is a change of the budget when it succeeds, a Replace when it raises.
LEMMA ResizeRefines ==
  ASSUME CacheInv, CacheInv', NEW c \in Nat, Resize(c)
  PROVE  Store!SetBudget
<1>1. PICK V \in SUBSET Unpinned : entries' = entries \ V
  BY DEF Resize, Discard
<1>2. V \in SUBSET entries /\ \A k \in V : pins[k] = 0
  BY DEF Unpinned
<1>3. BytesOf(entries') <= capacity' /\ capacity' \in Nat \ {0}
  BY DEF CacheInv, CacheTypeOK, ByteBudget
<1>4. UNCHANGED pins
  BY DEF Resize
<1> QED
  BY <1>1, <1>2, <1>3, <1>4 DEF Store!SetBudget

\* Every call of the cache is a step of the store, or changes nothing of it.
LEMMA CacheStepRefines ==
  ASSUME CacheInv, CacheInv', [CacheNext]_cacheVars
  PROVE  [Store!StoreNext]_(Store!storeVars)
<1> USE DEF Store!StoreNext, Store!storeVars
<1>1. ASSUME NEW k \in Keys, Get(k)
      PROVE  UNCHANGED <<capacity, entries, pins>>
  BY <1>1 DEF Get
<1>2. ASSUME NEW k \in Keys, Admit(k)
      PROVE  Store!Replace \/ UNCHANGED <<capacity, entries, pins>>
  <2>1. CASE \E V \in SUBSET Unpinned : Insert(k, V) /\ UNCHANGED <<capacity, pins>>
    BY <2>1, InsertIsReplace
  <2>2. CASE Reserve(Size[k])
    BY <2>2, EvictionRefines, CacheAssumption
  <2>3. CASE UNCHANGED <<capacity, entries, pins>>
    BY <2>3
  <2> QED
    BY <1>2, <2>1, <2>2, <2>3 DEF Admit
<1>3. ASSUME NEW k \in Keys, Pin(k)
      PROVE  Store!Hold(k)
  BY <1>3 DEF Pin, Store!Hold
<1>4. ASSUME NEW k \in Keys, Unpin(k)
      PROVE  Store!Release(k)
  BY <1>4 DEF Unpin, Store!Release
<1>5. ASSUME NEW n \in Amounts, Reserve(n) \/ EvictUntil(n) \/ EvictTo(n)
      PROVE  Store!Replace \/ UNCHANGED <<capacity, entries, pins>>
  BY <1>5, EvictionRefines, CacheAssumption
<1>6. ASSUME NEW n \in Amounts, Resize(n)
      PROVE  Store!SetBudget
  BY <1>6, ResizeRefines, CacheAssumption
<1>7. CASE UNCHANGED cacheVars
  BY <1>7 DEF cacheVars
<1> QED
  BY <1>1, <1>2, <1>3, <1>4, <1>5, <1>6, <1>7 DEF CacheNext

\* The detailed cache, with its order, its byte counter and its eviction loops,
\* implements the store it promises (ARCHITECTURE.md section 11.1).
THEOREM CacheImplementsStore == CacheSpec => ImplementsStore
<1>1. CacheInit => Store!StoreInit
  BY DEF CacheInit, Store!StoreInit
<1>2. CacheInv /\ CacheInv' /\ [CacheNext]_cacheVars => [Store!StoreNext]_(Store!storeVars)
  BY CacheStepRefines
<1>3. CacheInv /\ [CacheNext]_cacheVars => CacheInv'
  BY CacheStepKeepsInv
<1> QED
  BY CacheStartsInInv, <1>1, <1>2, <1>3, PTL DEF CacheSpec, ImplementsStore, Store!StoreSpec
================================================================================
