----------------------------- MODULE CachedRuntime -----------------------------
(***************************************************************************)
(* The cached expert runtime (runtime.py) driven by a streamed sparse MoE  *)
(* layer (models/qwen3_moe.py): the model thread resolves the routed       *)
(* experts of one layer through the resident cache, pins each until the    *)
(* layer is synchronized, and then lets the memory manager (memory.py)     *)
(* react to pressure.  I/O workers serve the reads; of the loader only the *)
(* registry of futures is kept here, its queue is AsyncLoader's subject.   *)
(*                                                                         *)
(* Tensors are left out: computing an expert either succeeds or raises.    *)
(***************************************************************************)
EXTENDS ResidentCache, Sequences

LOCAL INSTANCE SequencesExt

CONSTANTS
  Batches,      \* the calls of a layer: [predicted |-> keys, rows |-> key sequences]
  InitDepth,    \* the prefetch depth the runtime is built with
  MaxInflight,  \* the loader's bound on registered requests
  Excesses      \* by how much the active memory can exceed the safe working set,
                \* with a quarter of the safety margin already added; 0: no pressure

ASSUME RuntimeAssumption ==
  /\ InitDepth \in Nat
  /\ MaxInflight \in Nat \ {0}
  /\ Excesses \subseteq Nat

VARIABLES
  pc,       \* where the model thread is
  script,   \* the calls the layer still has to make, in order
  batch,    \* _batch_pins, as the number of times each key is in it
  futures,  \* the loader's _requests and the state of each future
  depth,    \* _prefetch_depth
  level     \* the memory manager's _pressure_level

modelVars == <<pc, script, batch, depth, level>>
vars == <<cacheVars, modelVars, futures>>

(***************************************************************************)
(* The calls a layer makes on the runtime.  A row of experts is executed   *)
(* in order, each execution preceded by the prefetch of the expert depth   *)
(* places ahead; with depth 0 nothing is prefetched.  A decode step has    *)
(* one row, a token-major prefill one per token, an expert-major prefill   *)
(* one row with every expert of the layer once.  The predictions for the   *)
(* next layer are submitted first, whatever the depth.                     *)
(***************************************************************************)
Calls(op, keys) == [i \in 1 .. Len(keys) |-> <<op, keys[i]>>]

StepCalls(row, d, i) ==
  (IF d > 0 /\ i + d <= Len(row) THEN << <<"prefetch", row[i + d]>> >> ELSE <<>>)
  \o << <<"execute", row[i]>> >>

RowCalls(row, d) ==
  Calls("prefetch", SubSeq(row, 1, IF d < Len(row) THEN d ELSE Len(row)))
  \o FlattenSeq([i \in 1 .. Len(row) |-> StepCalls(row, d, i)])

LayerCalls(b, d) ==
  Calls("predict", b.predicted)
  \o FlattenSeq([i \in 1 .. Len(b.rows) |-> RowCalls(b.rows[i], d)])

\* The keys with a registered request.
Requested == {k \in Keys : futures[k] # "none"}

\* A request can be registered.  Faulty variant: off by one.
SlotLeftOver == Cardinality(Requested) <= MaxInflight
SlotFree == Cardinality(Requested) < MaxInflight

\* A prefetch of k is submitted.  Faulty variant: residency is not looked at.
Unregistered(k) == futures[k] = "none" /\ SlotFree
Submits(k) == k \notin entries /\ futures[k] = "none" /\ SlotFree

\* The result of the demanded read of k is there.
Answered(k) == pc = "direct" \/ (pc = "waiting" /\ futures[k] \in {"ready", "failed"})

\* Every pin of the layer is given back.
Released == \A k \in Keys : batch[k] = 0
\* The next call of the layer is op on k.
Routed(op, k) == script # <<>> /\ Head(script) = <<op, k>>

Init ==
  /\ CacheInit
  /\ pc = "idle"
  /\ script = <<>>
  /\ batch = [k \in Keys |-> 0]
  /\ futures = [k \in Keys |-> "none"]
  /\ depth = InitDepth
  /\ level = 0
--------------------------------------------------------------------------------
\* The layer is called: its routes are recorded and fix the calls to come.
BeginLayer ==
  /\ pc = "idle"
  /\ \E b \in Batches : script' = LayerCalls(b, depth)
  /\ pc' = "layer"
  /\ UNCHANGED <<cacheVars, batch, futures, depth, level>>

\* prefetch: skipped for a resident key; the loader coalesces it with a registered
\* request and skips it when no slot is free.
Prefetch(k) ==
  /\ pc = "layer"
  /\ Routed("prefetch", k) \/ Routed("predict", k)
  /\ script' = Tail(script)
  /\ futures' = IF Submits(k) THEN [futures EXCEPT ![k] = "reading"] ELSE futures
  /\ UNCHANGED <<cacheVars, pc, batch, depth, level>>

\* _resolve_resident, hit.
ResolveHit(k) ==
  /\ pc = "layer"
  /\ Routed("execute", k)
  /\ k \in entries
  /\ Get(k)
  /\ pc' = "resolved"
  /\ UNCHANGED <<script, batch, futures, depth, level>>

\* _resolve_resident, miss: room is reserved before any I/O; a refusal aborts the
\* layer.  Otherwise the bytes are demanded: from a registered request, through a
\* new one, or, when no slot is free, read by the model thread itself.
ResolveMiss(k) ==
  /\ pc = "layer"
  /\ Routed("execute", k)
  /\ k \notin entries
  /\ Reserve(Size[k])
  /\ \/ /\ raised'
        /\ pc' = "aborting"
        /\ UNCHANGED futures
     \/ /\ ~raised'
        /\ futures[k] # "none"
        /\ pc' = "waiting"
        /\ UNCHANGED futures
     \/ /\ ~raised'
        /\ futures[k] = "none"
        /\ SlotFree
        /\ pc' = "waiting"
        /\ futures' = [futures EXCEPT ![k] = "reading"]
     \/ /\ ~raised'
        /\ futures[k] = "none"
        /\ ~SlotFree
        /\ pc' = "direct"
        /\ UNCHANGED futures
  /\ UNCHANGED <<script, batch, depth, level>>

\* The bytes are there: the request is forgotten, the arrays are materialized and
\* admitted.
Admission(k) ==
  /\ Routed("execute", k)
  /\ Answered(k)
  /\ futures[k] # "failed"
  /\ futures' = [futures EXCEPT ![k] = "none"]
  /\ Admit(k)
  /\ pc' = IF raised' THEN "aborting" ELSE "resolved"
  /\ UNCHANGED <<script, batch, depth, level>>

\* The read or the materialization raised.  The request is forgotten all the same.
\* Faulty variant: the result is asked for again.
LoadRetried(k) == Routed("execute", k) /\ Answered(k) /\ UNCHANGED vars
LoadRaises(k) ==
  /\ Routed("execute", k)
  /\ Answered(k)
  /\ futures' = [futures EXCEPT ![k] = "none"]
  /\ pc' = "aborting"
  /\ UNCHANGED <<cacheVars, script, batch, depth, level>>

\* execute, execute_group: the expert is pinned until the end of the layer.
Compute(k) ==
  /\ pc = "resolved"
  /\ Routed("execute", k)
  /\ Pin(k)
  /\ batch' = [batch EXCEPT ![k] = @ + 1]
  /\ script' = Tail(script)
  /\ pc' = "layer"
  /\ UNCHANGED <<futures, depth, level>>

\* The backend raised after the pin, which is taken back; its recency stays.
ComputeRaises(k) ==
  /\ pc = "resolved"
  /\ Routed("execute", k)
  /\ Get(k)
  /\ pc' = "aborting"
  /\ UNCHANGED <<script, batch, futures, depth, level>>

\* synchronize_batch: the whole layer is evaluated, which may raise.
Synchronize ==
  /\ pc = "layer"
  /\ script = <<>>
  /\ pc' \in {"syncing", "aborting"}
  /\ UNCHANGED <<cacheVars, script, batch, futures, depth, level>>

\* One turn of the loop of _release_batch_pins.
Release(k) ==
  /\ pc \in {"syncing", "aborting"}
  /\ batch[k] > 0
  /\ batch' = [batch EXCEPT ![k] = @ - 1]
  /\ Unpin(k)
  /\ UNCHANGED <<pc, script, futures, depth, level>>

\* abort_batch is done and the exception leaves the layer.
Aborted ==
  /\ pc = "aborting"
  /\ Released
  /\ pc' = "idle"
  /\ script' = <<>>
  /\ UNCHANGED <<cacheVars, batch, futures, depth, level>>

\* m is the least capacity a shrink leaves: the smallest resident bundle.
IsMinimumCapacity(m) ==
  \/ entries = {} /\ m = 1
  \/ \E k \in entries : m = Size[k] /\ \A j \in entries : m <= Size[j]

\* The resident bytes to come down to.  Faulty variant: it can be negative.
RawTarget(excess) == residentBytes - excess
Target(excess) == IF residentBytes < excess THEN 0 ELSE residentBytes - excess
Larger(m, n) == IF m < n THEN n ELSE m

\* enforce at the safe point of a layer: one more drastic reaction each time the
\* pressure is still there, and a fresh start when it is gone.
Enforce(excess) ==
  /\ pc = "syncing"
  /\ Released
  /\ \/ /\ excess = 0
        /\ level' = 0
        /\ UNCHANGED <<cacheVars, depth>>
     \/ /\ excess > 0
        /\ level = 0
        /\ level' = 1
        /\ depth' = 0
        /\ UNCHANGED cacheVars
     \/ /\ excess > 0
        /\ level = 1
        /\ level' = 2
        /\ EvictTo(Target(excess))
        /\ UNCHANGED depth
     \/ /\ excess > 0
        /\ level = 2
        /\ level' = 3
        /\ \E m \in {1} \cup {Size[k] : k \in Keys} :
             /\ IsMinimumCapacity(m)
             /\ Resize(Larger(m, Target(excess)))
        /\ UNCHANGED depth
     \/ /\ excess > 0
        /\ level >= 3
        /\ level' = 4
        /\ UNCHANGED <<cacheVars, depth>>
  /\ pc' = IF level' = 4 \/ (level' \in {2, 3} /\ raised') THEN "aborting" ELSE "idle"
  /\ UNCHANGED <<script, batch, futures>>

\* A worker finishes the read of a registered request.
ReadEnds(k) ==
  /\ futures[k] = "reading"
  /\ \E result \in {"ready", "failed"} : futures' = [futures EXCEPT ![k] = result]
  /\ UNCHANGED <<cacheVars, modelVars>>

ModelThread ==
  \/ Synchronize
  \/ Aborted
  \/ \E k \in Keys :
       \/ Prefetch(k)
       \/ ResolveHit(k)
       \/ ResolveMiss(k)
       \/ Admission(k)
       \/ LoadRaises(k)
       \/ Compute(k)
       \/ ComputeRaises(k)
       \/ Release(k)
  \/ \E excess \in Excesses : Enforce(excess)

Next == BeginLayer \/ ModelThread \/ \E k \in Keys : ReadEnds(k)

\* A layer once called runs on, and a read the model thread waits for ends (DemandsReturn
\* of AsyncLoader); nothing forces a next layer, and a prefetch may wait for ever.
Fairness ==
  /\ WF_vars(ModelThread)
  /\ \A k \in Keys : WF_vars(pc = "waiting" /\ Routed("execute", k) /\ ReadEnds(k))

Spec == Init /\ [][Next]_vars /\ Fairness
--------------------------------------------------------------------------------
\* Types of the runtime's own state.
TypeOK ==
  /\ CacheTypeOK
  /\ pc \in {"idle", "layer", "waiting", "direct", "resolved", "syncing", "aborting"}
  /\ script \in Seq({"predict", "prefetch", "execute"} \X Keys)
  /\ batch \in [Keys -> Nat]
  /\ futures \in [Keys -> {"none", "reading", "ready", "failed"}]
  /\ depth \in 0 .. InitDepth
  /\ level \in 0 .. 4

\* Each entry's pin count is the number of its uses in the running layer, on every
\* path through hits, refusals, failed reads, failed kernels and failed
\* evaluations; so no failed layer leaves an expert pinned, and none is released
\* while the layer still uses it (_batch_pins, runtime.py:343-415).
PinsMatchBatch ==
  /\ \A k \in Keys : pins[k] = batch[k]
  /\ pc = "idle" => Released

\* A registered read is never for an expert that is already resident: whatever was
\* read ahead will still be needed from disk (prefetch, runtime.py:443-455, against
\* demand, async_loader.py:146-148).
NoReadOfResident == \A k \in Requested : k \notin entries

\* The room made before the I/O is still there when the bytes arrive, so that
\* admission after the read never evicts nor raises (runtime.py:621-633).
RoomStaysReserved ==
  pc \in {"waiting", "direct"} =>
    residentBytes + Size[Head(script)[2]] <= capacity

\* A layer is refused for lack of budget only when the pinned experts of that same
\* layer and the next one really do not fit together (runtime.py:621-623).
RefusalIsJustified ==
  [][\A k \in Keys :
       pc = "layer" /\ pc' = "aborting" /\ Routed("execute", k)
         => Size[k] + BytesOf({j \in Keys : pins[j] > 0}) > capacity]_vars

\* Memory pressure only ever takes budget away: the capacity chosen under pressure,
\* a minimum over the residents or a target, is never above the current one
\* (memory.py:316-321).
CapacityNeverGrows == [][capacity' <= capacity]_vars

\* At a safe point nothing is pinned, so the staged eviction and the shrink always
\* reach their target instead of failing the layer (memory.py:309-321).
PressureReliefSucceeds ==
  [][pc = "syncing" /\ pc' = "aborting" => level' = 4]_vars

\* Every layer that is called ends, with its result or with an exception.
LayerEnds == pc # "idle" ~> pc = "idle"
--------------------------------------------------------------------------------
RoomBeside(S) == Cardinality(S) < MaxInflight

Registry == INSTANCE ReadRegistry WITH HasRoom <- RoomBeside

\* The reads the runtime relies on are those AsyncLoader provides: one per expert at a
\* time, at most max_inflight of them, none forgotten before it has ended.
ImplementsRegistry == Registry!RegistrySpec
--------------------------------------------------------------------------------
\* ARCHITECTURE.md:876 lists "stop speculative prefetch" as the first reaction to
\* memory pressure.
PressureStopsSpeculation ==
  [][\A k \in Keys :
       level > 0 /\ futures[k] = "none" /\ futures'[k] = "reading"
         => Routed("execute", k)]_vars
================================================================================
