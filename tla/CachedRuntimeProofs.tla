-------------------------- MODULE CachedRuntimeProofs --------------------------
(***************************************************************************)
(* Theorems about CachedRuntime for every manifest, budget, routing,       *)
(* interleaving with the I/O workers and course of memory pressure.        *)
(***************************************************************************)
EXTENDS CachedRuntime, ResidentCacheProofs

--------------------------------------------------------------------------------
(* The inductive invariant: the cache's own one, the agreement of the pin      *)
(* counts with the running layer, and the bytes promised to the bundle on its  *)
(* way.                                                                        *)

Places == {"idle", "layer", "waiting", "direct", "resolved", "syncing", "aborting"}

RuntimeTypes ==
  /\ pc \in Places
  /\ batch \in [Keys -> Nat]
  /\ futures \in [Keys -> {"none", "reading", "ready", "failed"}]

Coming == pc \in {"waiting", "direct"} => \E k \in Keys : Routed("execute", k)

\* The model thread reads by itself only what has no request, and nobody else makes one.
DirectIsUnregistered ==
  pc = "direct" => \A k \in Keys : Routed("execute", k) => futures[k] = "none"

RuntimeInv ==
  /\ CacheInv
  /\ RuntimeTypes
  /\ PinsMatchBatch
  /\ NoReadOfResident
  /\ Coming
  /\ DirectIsUnregistered
  /\ RoomStaysReserved

\* The capacity a shrink asks for is positive and never above the current one.
LEMMA ShrinkTarget ==
  ASSUME CacheInv, NEW excess \in Nat, NEW m, IsMinimumCapacity(m)
  PROVE  /\ Target(excess) \in Nat
         /\ Larger(m, Target(excess)) \in Nat
         /\ Larger(m, Target(excess)) <= capacity
<1>1. capacity \in Nat \ {0} /\ residentBytes \in Nat /\ residentBytes <= capacity
      /\ entries \in SUBSET Keys
  BY DEF CacheInv, CacheTypeOK, ByteBudget
<1>2. Target(excess) \in Nat /\ Target(excess) <= capacity
  BY <1>1 DEF Target
<1>3. m \in Nat /\ m <= capacity
  <2>1. CASE m = 1
    BY <1>1, <2>1
  <2>2. ASSUME NEW k \in entries, m = Size[k]
        PROVE  m \in Nat /\ m <= capacity
    <3>1. BytesOf((entries \ {k}) \cup {k}) = BytesOf(entries \ {k}) + Size[k]
      BY <1>1, BytesOfInsert
    <3>2. (entries \ {k}) \cup {k} = entries
      OBVIOUS
    <3>3. residentBytes = BytesOf(entries \ {k}) + Size[k]
      BY <3>1, <3>2, Zenon DEF CacheInv, ByteBudget
    <3>4. BytesOf(entries \ {k}) \in Nat /\ Size[k] \in Nat
      BY <1>1, BytesFinite, CacheAssumption
    <3> QED
      BY <1>1, <2>2, <3>3, <3>4
  <2> QED
    BY <2>1, <2>2 DEF IsMinimumCapacity
<1> QED
  BY <1>2, <1>3 DEF Larger

--------------------------------------------------------------------------------
(* What each step does to the part of the state the invariant is about.       *)

\* Evictions never bring an expert in.
LEMMA EvictionOnlyRemoves ==
  ASSUME NEW n, Reserve(n) \/ EvictTo(n) \/ Resize(n)
  PROVE  entries' \subseteq entries /\ UNCHANGED pins
  BY DEF Reserve, EvictUntil, EvictTo, Resize, Discard

\* A reservation that does not raise leaves room for the bytes it was asked for.
LEMMA ReservedRoom ==
  ASSUME CacheInv, NEW n \in Nat, Reserve(n), ~raised'
  PROVE  residentBytes' + n <= capacity'
<1>1. EvictUntil(n)
  BY DEF Reserve
<1>2. PICK V \in SUBSET Unpinned : Discard(V) /\ raised' = ~Fits(V, capacity - n)
  BY <1>1 DEF EvictUntil
<1>3. residentBytes' <= capacity - n
  BY <1>2 DEF Fits, Discard
<1>4. capacity' = capacity
  BY <1>1 DEF EvictUntil
<1>5. residentBytes' \in Nat /\ capacity \in Nat
  BY <1>2, DiscardKeepsAccounts DEF CacheInv, CacheTypeOK
<1>6. \A x, y, z \in Nat : x <= y - z => x + z <= y
  OBVIOUS
<1> QED
  BY <1>3, <1>4, <1>5, <1>6, Zenon

\* The capacity does not grow in any step.
LEMMA StepKeepsCapacityDown ==
  ASSUME RuntimeInv, [Next]_vars
  PROVE  capacity' <= capacity
<1>1. capacity \in Nat /\ CacheInv
  BY DEF RuntimeInv, CacheInv, CacheTypeOK
<1>2. ASSUME NEW k \in Keys, ResolveMiss(k) \/ Admission(k)
      PROVE  capacity' = capacity
  BY <1>2 DEF ResolveMiss, Admission, Admit, Reserve, EvictUntil
<1>3. ASSUME NEW excess \in Excesses, Enforce(excess)
      PROVE  capacity' <= capacity
  <2>1. CASE UNCHANGED cacheVars \/ EvictTo(Target(excess))
    BY <1>1, <2>1 DEF EvictTo, cacheVars
  <2>2. ASSUME NEW m, IsMinimumCapacity(m), Resize(Larger(m, Target(excess)))
        PROVE  capacity' <= capacity
    BY <1>1, <2>2, ShrinkTarget, RuntimeAssumption DEF Resize, Resized
  <2> QED
    BY <1>3, <2>1, <2>2 DEF Enforce
<1>4. CASE \E k \in Keys : Prefetch(k) \/ ResolveHit(k) \/ LoadRaises(k) \/ Compute(k)
                            \/ ComputeRaises(k) \/ Release(k) \/ ReadEnds(k)
  BY <1>1, <1>4
  DEF Prefetch, ResolveHit, LoadRaises, Compute, ComputeRaises, Release, ReadEnds,
      Get, Pin, Unpin, cacheVars
<1>5. CASE BeginLayer \/ Synchronize \/ Aborted \/ UNCHANGED vars
  BY <1>1, <1>5 DEF BeginLayer, Synchronize, Aborted, vars, cacheVars
<1> QED
  BY <1>2, <1>3, <1>4, <1>5, <1>1 DEF Next, ModelThread

\* Every step of the runtime is at most one call of the cache.
LEMMA StepKeepsCacheInv ==
  ASSUME RuntimeInv, [Next]_vars
  PROVE  CacheInv'
<1>1. CacheInv
  BY DEF RuntimeInv
<1>2. ASSUME NEW k \in Keys, ResolveHit(k) \/ Compute(k) \/ ComputeRaises(k)
                             \/ Release(k) \/ Admission(k)
      PROVE  CacheInv'
  <2>1. CacheNext
    BY <1>2 DEF ResolveHit, Compute, ComputeRaises, Release, Admission, CacheNext
  <2> QED
    BY <1>1, <2>1, CacheStepKeepsInv
<1>3. ASSUME NEW k \in Keys, ResolveMiss(k)
      PROVE  CacheInv'
  BY <1>1, <1>3, ReserveKeepsInv, CacheAssumption DEF ResolveMiss
<1>4. CASE UNCHANGED cacheVars
  BY <1>1, <1>4, CacheStepKeepsInv
<1>5. ASSUME NEW excess \in Excesses, Enforce(excess)
      PROVE  CacheInv'
  <2>1. excess \in Nat
    BY RuntimeAssumption
  <2>2. CASE EvictTo(Target(excess))
    <3>1. Target(excess) \in Nat
      BY <1>1, <2>1 DEF Target, CacheInv, CacheTypeOK
    <3> QED
      BY <1>1, <2>2, <3>1, EvictToKeepsInv
  <2>3. ASSUME NEW m, IsMinimumCapacity(m), Resize(Larger(m, Target(excess)))
        PROVE  CacheInv'
    BY <1>1, <2>1, <2>3, ShrinkTarget, ResizeKeepsInv
  <2> QED
    BY <1>4, <1>5, <2>2, <2>3 DEF Enforce
<1>6. CASE \E k \in Keys : Prefetch(k) \/ LoadRaises(k) \/ ReadEnds(k)
  BY <1>4, <1>6 DEF Prefetch, LoadRaises, ReadEnds
<1>7. CASE BeginLayer \/ Synchronize \/ Aborted \/ UNCHANGED vars
  BY <1>4, <1>7 DEF BeginLayer, Synchronize, Aborted, vars
<1> QED
  BY <1>2, <1>3, <1>5, <1>6, <1>7 DEF Next, ModelThread

\* The pin counts follow the batch through every step.
LEMMA StepKeepsPinsMatchBatch ==
  ASSUME RuntimeInv, [Next]_vars
  PROVE  PinsMatchBatch' /\ batch' \in [Keys -> Nat]
<1> USE DEF PinsMatchBatch, Released
<1>1. /\ \A k \in Keys : pins[k] = batch[k]
      /\ pc = "idle" => Released
      /\ batch \in [Keys -> Nat]
      /\ pins \in [Keys -> Nat]
  BY DEF RuntimeInv, RuntimeTypes, CacheInv, CacheTypeOK
<1>2. ASSUME NEW k \in Keys, Compute(k)
      PROVE  PinsMatchBatch' /\ batch' \in [Keys -> Nat]
  BY <1>1, <1>2 DEF Compute, Pin
<1>3. ASSUME NEW k \in Keys, Release(k)
      PROVE  PinsMatchBatch' /\ batch' \in [Keys -> Nat]
  <2>1. batch[k] - 1 \in Nat
    BY <1>1, <1>3 DEF Release
  <2>2. /\ batch' = [batch EXCEPT ![k] = batch[k] - 1]
        /\ pins' = [pins EXCEPT ![k] = pins[k] - 1]
        /\ pc' # "idle"
    BY <1>3 DEF Release, Unpin
  <2> QED
    BY <1>1, <2>1, <2>2
<1>4. ASSUME NEW k \in Keys, ResolveMiss(k)
      PROVE  PinsMatchBatch' /\ batch' \in [Keys -> Nat]
  BY <1>1, <1>4, EvictionOnlyRemoves DEF ResolveMiss
<1>5. ASSUME NEW excess \in Excesses, Enforce(excess)
      PROVE  PinsMatchBatch' /\ batch' \in [Keys -> Nat]
  <2>1. UNCHANGED <<batch, pins>> /\ Released
    BY <1>5, EvictionOnlyRemoves DEF Enforce, cacheVars
  <2> QED
    BY <1>1, <2>1
<1>6. ASSUME NEW k \in Keys, Prefetch(k) \/ ResolveHit(k) \/ LoadRaises(k)
                             \/ ComputeRaises(k) \/ ReadEnds(k)
      PROVE  PinsMatchBatch' /\ batch' \in [Keys -> Nat]
  <2>1. UNCHANGED <<batch, pins>> /\ (pc' = "idle" => pc = "idle")
    BY <1>6
    DEF Prefetch, ResolveHit, LoadRaises, ComputeRaises, ReadEnds, Get, cacheVars, modelVars
  <2> QED
    BY <1>1, <2>1
<1>7. ASSUME NEW k \in Keys, Admission(k)
      PROVE  PinsMatchBatch' /\ batch' \in [Keys -> Nat]
  <2>1. UNCHANGED <<batch, pins>> /\ pc' # "idle"
    BY <1>7 DEF Admission, Admit, Reserve, EvictUntil
  <2> QED
    BY <1>1, <2>1
<1>8. CASE BeginLayer \/ Synchronize \/ Aborted \/ UNCHANGED vars
  BY <1>1, <1>8 DEF BeginLayer, Synchronize, Aborted, vars, cacheVars, modelVars
<1> QED
  BY <1>2, <1>3, <1>4, <1>5, <1>6, <1>7, <1>8 DEF Next, ModelThread

\* Where the model thread is, and the bundle it waits for.
LEMMA StepKeepsPlaces ==
  ASSUME RuntimeInv, [Next]_vars
  PROVE  pc' \in Places /\ Coming'
<1> USE DEF Places, Coming, Routed
<1>1. pc \in Places /\ Coming
  BY DEF RuntimeInv, RuntimeTypes
<1>2. ASSUME NEW k \in Keys, ResolveMiss(k)
      PROVE  pc' \in Places /\ Coming'
  BY <1>2 DEF ResolveMiss
<1>3. ASSUME NEW k \in Keys, ReadEnds(k)
      PROVE  pc' \in Places /\ Coming'
  BY <1>1, <1>3 DEF ReadEnds, modelVars
<1>4. ASSUME NEW k \in Keys, Prefetch(k) \/ ResolveHit(k) \/ Compute(k) \/ ComputeRaises(k)
                             \/ Release(k) \/ Admission(k) \/ LoadRaises(k)
      PROVE  pc' \in Places /\ Coming'
  BY <1>1, <1>4
  DEF Prefetch, ResolveHit, Compute, ComputeRaises, Release, Admission, LoadRaises
<1>5. CASE \E excess \in Excesses : Enforce(excess)
  BY <1>5 DEF Enforce
<1>6. CASE BeginLayer \/ Synchronize \/ Aborted
  BY <1>6 DEF BeginLayer, Synchronize, Aborted
<1>7. CASE UNCHANGED vars
  BY <1>1, <1>7 DEF vars, modelVars
<1> QED
  BY <1>2, <1>3, <1>4, <1>5, <1>6, <1>7 DEF Next, ModelThread

\* Admission brings in the admitted expert and nothing else.
LEMMA AdmitBringsOne ==
  ASSUME NEW k \in Keys, Admit(k)
  PROVE  entries' \subseteq entries \cup {k}
  BY EvictionOnlyRemoves DEF Admit, Insert

\* A request is registered for an expert that is not resident, and forgotten in the
\* step that makes it resident.
LEMMA StepKeepsNoReadOfResident ==
  ASSUME RuntimeInv, [Next]_vars
  PROVE  NoReadOfResident' /\ futures' \in [Keys -> {"none", "reading", "ready", "failed"}]
<1> DEFINE States == {"none", "reading", "ready", "failed"}
<1> USE DEF NoReadOfResident, Requested
<1>1. futures \in [Keys -> States] /\ (\A k \in Keys : futures[k] # "none" => k \notin entries)
  BY DEF RuntimeInv, RuntimeTypes
<1>2. ASSUME NEW k \in Keys, Prefetch(k)
      PROVE  NoReadOfResident' /\ futures' \in [Keys -> States]
  BY <1>1, <1>2 DEF Prefetch, Submits, cacheVars
<1>3. ASSUME NEW k \in Keys, ResolveMiss(k)
      PROVE  NoReadOfResident' /\ futures' \in [Keys -> States]
  <2>1. entries' \subseteq entries /\ k \notin entries
    BY <1>3, EvictionOnlyRemoves DEF ResolveMiss
  <2>2. futures' = futures \/ futures' = [futures EXCEPT ![k] = "reading"]
    BY <1>3 DEF ResolveMiss
  <2> QED
    BY <1>1, <2>1, <2>2
<1>4. ASSUME NEW k \in Keys, Admission(k)
      PROVE  NoReadOfResident' /\ futures' \in [Keys -> States]
  <2>1. entries' \subseteq entries \cup {k}
    BY <1>4, AdmitBringsOne DEF Admission
  <2>2. futures' = [futures EXCEPT ![k] = "none"]
    BY <1>4 DEF Admission
  <2> QED
    BY <1>1, <2>1, <2>2
<1>5. ASSUME NEW k \in Keys, LoadRaises(k) \/ ReadEnds(k)
      PROVE  NoReadOfResident' /\ futures' \in [Keys -> States]
  BY <1>1, <1>5 DEF LoadRaises, ReadEnds, cacheVars
<1>6. ASSUME NEW excess \in Excesses, Enforce(excess)
      PROVE  NoReadOfResident' /\ futures' \in [Keys -> States]
  <2>1. entries' \subseteq entries /\ UNCHANGED futures
    BY <1>6, EvictionOnlyRemoves DEF Enforce, cacheVars
  <2> QED
    BY <1>1, <2>1
<1>7. ASSUME NEW k \in Keys, ResolveHit(k) \/ Compute(k) \/ ComputeRaises(k) \/ Release(k)
      PROVE  NoReadOfResident' /\ futures' \in [Keys -> States]
  BY <1>1, <1>7 DEF ResolveHit, Compute, ComputeRaises, Release, Get, Pin, Unpin
<1>8. CASE BeginLayer \/ Synchronize \/ Aborted \/ UNCHANGED vars
  BY <1>1, <1>8 DEF BeginLayer, Synchronize, Aborted, vars, cacheVars
<1> QED
  BY <1>2, <1>3, <1>4, <1>5, <1>6, <1>7, <1>8 DEF Next, ModelThread

\* Nothing uses the room reserved for a bundle before the bundle arrives.
LEMMA StepKeepsRoom ==
  ASSUME RuntimeInv, [Next]_vars
  PROVE  RoomStaysReserved'
<1> USE DEF RoomStaysReserved
<1>1. RoomStaysReserved
  BY DEF RuntimeInv
<1>2. ASSUME NEW k \in Keys, ResolveMiss(k)
      PROVE  RoomStaysReserved'
  <2>1. Head(script')[2] = k
    BY <1>2 DEF ResolveMiss, Routed
  <2>2. pc' \in {"waiting", "direct"} => ~raised'
    BY <1>2 DEF ResolveMiss
  <2>3. ~raised' => residentBytes' + Size[k] <= capacity'
    BY <1>2, ReservedRoom, CacheAssumption DEF ResolveMiss, RuntimeInv
  <2> QED
    BY <2>1, <2>2, <2>3
<1>3. ASSUME NEW k \in Keys, ReadEnds(k)
      PROVE  RoomStaysReserved'
  BY <1>1, <1>3 DEF ReadEnds, cacheVars, modelVars
<1>4. ASSUME NEW k \in Keys, Prefetch(k) \/ ResolveHit(k) \/ Compute(k) \/ ComputeRaises(k)
                             \/ Release(k) \/ Admission(k) \/ LoadRaises(k)
      PROVE  RoomStaysReserved'
  BY <1>4
  DEF Prefetch, ResolveHit, Compute, ComputeRaises, Release, Admission, LoadRaises
<1>5. CASE \E excess \in Excesses : Enforce(excess)
  BY <1>5 DEF Enforce
<1>6. CASE BeginLayer \/ Synchronize \/ Aborted
  BY <1>6 DEF BeginLayer, Synchronize, Aborted
<1>7. CASE UNCHANGED vars
  BY <1>1, <1>7 DEF vars, cacheVars, modelVars
<1> QED
  BY <1>2, <1>3, <1>4, <1>5, <1>6, <1>7 DEF Next, ModelThread

\* While the model thread reads by itself, the workers only end other reads.
LEMMA StepKeepsDirectUnregistered ==
  ASSUME RuntimeInv, [Next]_vars
  PROVE  DirectIsUnregistered'
<1> USE DEF DirectIsUnregistered, Routed
<1>1. DirectIsUnregistered /\ futures \in [Keys -> {"none", "reading", "ready", "failed"}]
  BY DEF RuntimeInv, RuntimeTypes
<1>2. ASSUME NEW k \in Keys, ResolveMiss(k)
      PROVE  DirectIsUnregistered'
  <2>1. script' = script /\ Head(script) = <<"execute", k>>
        /\ (pc' = "direct" => futures[k] = "none" /\ futures' = futures)
    BY <1>2 DEF ResolveMiss
  <2> QED
    BY <2>1
<1>3. ASSUME NEW k \in Keys, ReadEnds(k)
      PROVE  DirectIsUnregistered'
  BY <1>1, <1>3 DEF ReadEnds, modelVars
<1>4. ASSUME NEW k \in Keys, Prefetch(k) \/ ResolveHit(k) \/ Compute(k) \/ ComputeRaises(k)
                             \/ Release(k) \/ Admission(k) \/ LoadRaises(k)
      PROVE  pc' # "direct"
  BY <1>4
  DEF Prefetch, ResolveHit, Compute, ComputeRaises, Release, Admission, LoadRaises
<1>5. CASE BeginLayer \/ Synchronize \/ Aborted \/ \E excess \in Excesses : Enforce(excess)
  BY <1>5 DEF BeginLayer, Synchronize, Aborted, Enforce
<1>6. CASE UNCHANGED vars
  BY <1>1, <1>6 DEF vars, modelVars
<1> QED
  BY <1>2, <1>3, <1>4, <1>5, <1>6 DEF Next, ModelThread

LEMMA RuntimeStartsInInv == Init => RuntimeInv
<1> SUFFICES ASSUME Init
             PROVE  RuntimeInv
  OBVIOUS
<1>1. CacheInv
  BY CacheStartsInInv DEF Init
<1>2. /\ RuntimeTypes
      /\ PinsMatchBatch
      /\ NoReadOfResident
      /\ Coming
      /\ DirectIsUnregistered
      /\ RoomStaysReserved
  BY DEF Init, CacheInit, RuntimeTypes, Places, PinsMatchBatch, Released,
         NoReadOfResident, Requested, Coming, DirectIsUnregistered, RoomStaysReserved
<1> QED
  BY <1>1, <1>2 DEF RuntimeInv

LEMMA RuntimeStepKeepsInv == RuntimeInv /\ [Next]_vars => RuntimeInv'
  BY StepKeepsCacheInv, StepKeepsPinsMatchBatch, StepKeepsPlaces,
     StepKeepsNoReadOfResident, StepKeepsDirectUnregistered, StepKeepsRoom
  DEF RuntimeInv, RuntimeTypes

--------------------------------------------------------------------------------
\* The runtime's safety: the budget, the pins, the registry of reads and the room
\* reserved across the I/O are right in every reachable state (runtime.py:353-643,
\* async_loader.py:113-153, memory.py:291-330).
THEOREM RuntimeIsSafe ==
  Spec => [](/\ ByteBudget
             /\ PinnedAreResident
             /\ PinsMatchBatch
             /\ NoReadOfResident
             /\ RoomStaysReserved)
<1>1. RuntimeInv => /\ ByteBudget
                    /\ PinnedAreResident
                    /\ PinsMatchBatch
                    /\ NoReadOfResident
                    /\ RoomStaysReserved
  BY DEF RuntimeInv, CacheInv
<1> QED
  BY <1>1, RuntimeStartsInInv, RuntimeStepKeepsInv, PTL DEF Spec

\* No expert is read that is already resident (runtime.py:443-455).
THEOREM NothingResidentIsRead == Spec => []NoReadOfResident
  BY RuntimeIsSafe, PTL

\* Admission after the read has the room that was reserved before it (runtime.py:621-633).
THEOREM ReservationsLast == Spec => []RoomStaysReserved
  BY RuntimeIsSafe, PTL

--------------------------------------------------------------------------------
(* What a refusal means: an eviction loop gives up only with everything that   *)
(* can be evicted gone.                                                        *)

LEMMA BytesUnpinned ==
  ASSUME CacheInv
  PROVE  /\ BytesOf(Unpinned) \in Nat
         /\ residentBytes - BytesOf(Unpinned) = BytesOf({j \in Keys : pins[j] > 0})
         /\ BytesOf({j \in Keys : pins[j] > 0}) \in Nat
<1>1. Unpinned \in SUBSET entries /\ entries \in SUBSET Keys
  BY DEF Unpinned, CacheInv, CacheTypeOK
<1>2. entries \ Unpinned = {j \in Keys : pins[j] > 0}
  BY DEF Unpinned, CacheInv, CacheTypeOK, PinnedAreResident
<1>3. BytesOf(entries \ Unpinned) = BytesOf(entries) - BytesOf(Unpinned)
  BY <1>1, BytesOfDifference
<1>4. BytesOf(entries \ Unpinned) \in Nat /\ BytesOf(Unpinned) \in Nat
  BY <1>1, BytesFinite
<1> QED
  BY <1>2, <1>3, <1>4, Zenon DEF CacheInv, ByteBudget

LEMMA GivesUpWithoutVictims ==
  ASSUME NEW V \in SUBSET Unpinned, NEW limit, Pops(V, limit), ~Fits(V, limit)
  PROVE  ~(residentBytes - BytesOf(Unpinned) <= limit)
  BY DEF Pops, Fits

\* A reservation raises only for a bundle that does not fit beside what is pinned.
LEMMA ReserveRaisesForPins ==
  ASSUME CacheInv, NEW n \in Nat, Reserve(n), raised'
  PROVE  n + BytesOf({j \in Keys : pins[j] > 0}) > capacity
<1>1. capacity \in Nat
  BY DEF CacheInv, CacheTypeOK
<1>2. CASE n > capacity
  BY <1>1, <1>2, BytesUnpinned
<1>3. CASE EvictUntil(n)
  <2>1. PICK V \in SUBSET Unpinned : Pops(V, capacity - n) /\ raised' = ~Fits(V, capacity - n)
    BY <1>3 DEF EvictUntil
  <2>2. ~(residentBytes - BytesOf(Unpinned) <= capacity - n)
    BY <2>1, GivesUpWithoutVictims
  <2>3. ~(BytesOf({j \in Keys : pins[j] > 0}) <= capacity - n)
    BY <2>2, BytesUnpinned
  <2> QED
    BY <1>1, <2>3, BytesUnpinned
<1> QED
  BY <1>2, <1>3 DEF Reserve

\* A layer fails for lack of budget only when its own pinned experts and the next one do
\* not fit together, never because of what an eviction could have removed
\* (runtime.py:621-623, resident.py reserve).
THEOREM RefusalsAreJustified == Spec => RefusalIsJustified
<1> DEFINE Justified ==
      \A k \in Keys :
        pc = "layer" /\ pc' = "aborting" /\ Routed("execute", k)
          => Size[k] + BytesOf({j \in Keys : pins[j] > 0}) > capacity
<1>1. RuntimeInv /\ [Next]_vars => [Justified]_vars
  <2> SUFFICES ASSUME RuntimeInv, Next, NEW k \in Keys,
                      pc = "layer", pc' = "aborting", Routed("execute", k)
               PROVE  Size[k] + BytesOf({j \in Keys : pins[j] > 0}) > capacity
    OBVIOUS
  <2>1. CASE ResolveMiss(k)
    <3>1. Reserve(Size[k]) /\ raised'
      BY <2>1 DEF ResolveMiss
    <3> QED
      BY <3>1, ReserveRaisesForPins, CacheAssumption DEF RuntimeInv
  <2>2. ASSUME NEW j \in Keys, ResolveMiss(j)
        PROVE  ResolveMiss(k)
    <3>1. Head(script) = <<"execute", j>> /\ Head(script) = <<"execute", k>>
      BY <2>2 DEF ResolveMiss, Routed
    <3>2. j = k
      BY <3>1
    <3> QED
      BY <2>2, <3>2
  <2>3. ASSUME NEW j \in Keys, Prefetch(j) \/ ResolveHit(j) \/ ReadEnds(j)
        PROVE  FALSE
    BY <2>3 DEF Prefetch, ResolveHit, ReadEnds, modelVars
  <2>4. ASSUME NEW j \in Keys, Admission(j) \/ LoadRaises(j) \/ Compute(j)
                                \/ ComputeRaises(j) \/ Release(j)
        PROVE  FALSE
    BY <2>4 DEF Admission, LoadRaises, Answered, Compute, ComputeRaises, Release
  <2>5. CASE BeginLayer \/ Aborted \/ \E excess \in Excesses : Enforce(excess)
    BY <2>5 DEF BeginLayer, Aborted, Enforce
  <2>6. CASE Synchronize
    BY <2>6 DEF Synchronize, Routed
  <2> QED
    BY <2>1, <2>2, <2>3, <2>4, <2>5, <2>6 DEF Next, ModelThread
<1> QED
  BY <1>1, RuntimeStartsInInv, RuntimeStepKeepsInv, PTL DEF Spec, RefusalIsJustified

\* With nothing pinned an eviction loop reaches any target.
LEMMA UnpinnedCacheYields ==
  ASSUME CacheInv, \A k \in Keys : pins[k] = 0, NEW limit \in Nat,
         NEW V \in SUBSET Unpinned, Pops(V, limit)
  PROVE  Fits(V, limit)
<1>1. {j \in Keys : pins[j] > 0} = {}
  OBVIOUS
<1>2. residentBytes - BytesOf(Unpinned) = 0
  BY <1>1, BytesUnpinned, BytesOfNothing
<1> QED
  BY <1>2, GivesUpWithoutVictims

\* Eviction and shrinking at a safe point always reach their target; only the last
\* level of pressure fails a layer (memory.py:309-321).
THEOREM PressureReliefAlwaysSucceeds == Spec => PressureReliefSucceeds
<1>1. RuntimeInv /\ [Next]_vars => [pc = "syncing" /\ pc' = "aborting" => level' = 4]_vars
  <2> SUFFICES ASSUME RuntimeInv, Next, pc = "syncing", pc' = "aborting"
               PROVE  level' = 4
    OBVIOUS
  <2>1. ASSUME NEW excess \in Excesses, Enforce(excess)
        PROVE  level' = 4
    <3>1. CacheInv /\ \A k \in Keys : pins[k] = 0
      BY <2>1 DEF RuntimeInv, PinsMatchBatch, Enforce, Released
    <3>2. excess \in Nat
      BY RuntimeAssumption
    <3>3. CASE level' = 2 /\ EvictTo(Target(excess))
      <4>1. Target(excess) \in Nat
        BY <3>1, <3>2 DEF Target, CacheInv, CacheTypeOK
      <4>2. ~raised'
        BY <3>1, <3>3, <4>1, UnpinnedCacheYields DEF EvictTo
      <4> QED
        BY <2>1, <3>3, <4>2 DEF Enforce
    <3>4. ASSUME NEW m, IsMinimumCapacity(m), Resize(Larger(m, Target(excess))), level' = 3
          PROVE  FALSE
      <4>1. Larger(m, Target(excess)) \in Nat
        BY <3>1, <3>2, <3>4, ShrinkTarget
      <4>2. ~raised'
        BY <3>1, <3>4, <4>1, UnpinnedCacheYields DEF Resize
      <4> QED
        BY <2>1, <3>4, <4>2 DEF Enforce
    <3> QED
      BY <2>1, <3>3, <3>4 DEF Enforce
  <2>2. ASSUME NEW k \in Keys, Prefetch(k) \/ ResolveHit(k) \/ ResolveMiss(k) \/ Compute(k)
                                \/ ComputeRaises(k) \/ Release(k) \/ ReadEnds(k)
        PROVE  FALSE
    BY <2>2 DEF Prefetch, ResolveHit, ResolveMiss, Compute, ComputeRaises, Release, ReadEnds,
                modelVars
  <2>3. ASSUME NEW k \in Keys, Admission(k) \/ LoadRaises(k)
        PROVE  FALSE
    BY <2>3 DEF Admission, LoadRaises, Answered
  <2>4. CASE BeginLayer \/ Aborted \/ Synchronize
    BY <2>4 DEF BeginLayer, Aborted, Synchronize
  <2> QED
    BY <2>1, <2>2, <2>3, <2>4 DEF Next, ModelThread
<1> QED
  BY <1>1, RuntimeStartsInInv, RuntimeStepKeepsInv, PTL DEF Spec, PressureReliefSucceeds

\* Memory pressure never raises the capacity (memory.py:316-321).
THEOREM PressureOnlyShrinks == Spec => CapacityNeverGrows
<1>1. RuntimeInv /\ [Next]_vars => [capacity' <= capacity]_vars
  BY StepKeepsCapacityDown
<1> QED
  BY <1>1, RuntimeStartsInInv, RuntimeStepKeepsInv, PTL DEF Spec, CapacityNeverGrows

--------------------------------------------------------------------------------
\* A step of the runtime is at most one step of the registry of reads.
LEMMA StepRefinesRegistry ==
  ASSUME RuntimeInv, [Next]_vars
  PROVE  [Registry!RegistryNext]_futures
<1> USE DEF Registry!RegistryNext, Registry!Submit, Registry!End, Registry!Forget
<1>1. futures \in [Keys -> {"none", "reading", "ready", "failed"}]
  BY DEF RuntimeInv, RuntimeTypes
<1>2. SlotFree <=> RoomBeside(Registry!Registered)
  BY DEF SlotFree, RoomBeside, Registry!Registered, Requested
<1>3. ASSUME NEW k \in Keys, Prefetch(k) \/ ResolveMiss(k)
      PROVE  [Registry!RegistryNext]_futures
  BY <1>2, <1>3 DEF Prefetch, ResolveMiss, Submits
<1>4. ASSUME NEW k \in Keys, Admission(k) \/ LoadRaises(k)
      PROVE  [Registry!RegistryNext]_futures
  <2>1. futures' = [futures EXCEPT ![k] = "none"]
    BY <1>4 DEF Admission, LoadRaises
  <2>2. futures[k] # "reading"
    <3>1. Routed("execute", k) /\ Answered(k)
      BY <1>4 DEF Admission, LoadRaises
    <3>2. pc = "direct" => futures[k] = "none"
      BY <3>1 DEF RuntimeInv, DirectIsUnregistered
    <3> QED
      BY <3>1, <3>2 DEF Answered
  <2>3. CASE futures[k] = "none"
    BY <1>1, <2>1, <2>3
  <2>4. CASE futures[k] \in {"ready", "failed"}
    BY <2>1, <2>4
  <2> QED
    BY <1>1, <2>2, <2>3, <2>4
<1>5. ASSUME NEW k \in Keys, ReadEnds(k)
      PROVE  [Registry!RegistryNext]_futures
  BY <1>5 DEF ReadEnds
<1>6. ASSUME NEW k \in Keys, ResolveHit(k) \/ Compute(k) \/ ComputeRaises(k) \/ Release(k)
      PROVE  UNCHANGED futures
  BY <1>6 DEF ResolveHit, Compute, ComputeRaises, Release
<1>7. CASE BeginLayer \/ Synchronize \/ Aborted \/ (\E excess \in Excesses : Enforce(excess))
           \/ UNCHANGED vars
  BY <1>7 DEF BeginLayer, Synchronize, Aborted, Enforce, vars
<1> QED
  BY <1>3, <1>4, <1>5, <1>6, <1>7 DEF Next, ModelThread

\* The runtime uses the loader as ReadRegistry says: one registered read per expert,
\* max_inflight of them, none forgotten early (runtime.py:443-643).
THEOREM RuntimeImplementsRegistry == Spec => ImplementsRegistry
<1>1. Init => Registry!RegistryInit
  BY DEF Init, Registry!RegistryInit
<1>2. RuntimeInv /\ [Next]_vars => [Registry!RegistryNext]_futures
  BY StepRefinesRegistry
<1> QED
  BY <1>1, <1>2, RuntimeStartsInInv, RuntimeStepKeepsInv, PTL
  DEF Spec, ImplementsRegistry, Registry!RegistrySpec
================================================================================
