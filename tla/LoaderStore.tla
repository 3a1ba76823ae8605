------------------------------ MODULE LoaderStore ------------------------------
(***************************************************************************)
(* The loader on its store (storage/safetensors_store.py): the threads     *)
(* that read share one descriptor per shard, which is looked up under the  *)
(* store's lock and read from outside it, and the close of a runtime       *)
(* (runtime.py) joins the loader before it closes the store.               *)
(*                                                                         *)
(* Every bundle has spans in every shard; the merging of the spans of one  *)
(* shard is ExpertLayout's.  A runtime is closed once: the registry of     *)
(* engines forgets an engine before it closes it.                          *)
(***************************************************************************)
EXTENDS AsyncLoader

CONSTANT Shards  \* the files of the checkpoint

\* The threads that read, and the descriptors the process can need for the store.
Threads == Workers \cup Clients
Descriptors == 1 .. Cardinality(Shards)

ASSUME StoreAssumption ==
  /\ IsFiniteSet(Shards)
  /\ None \notin Shards \cup Descriptors
  /\ Workers \cap Clients = {}

VARIABLES
  descriptors,  \* _descriptors: the descriptor of each shard, if any
  opened,       \* the shard each descriptor of the process refers to, if any
  left,         \* the shards each thread still has to read of its bundle
  held          \* the shard a thread is reading and the descriptor it has looked up

storeVars == <<descriptors, opened, left, held>>
vars == <<loaderVars, storeVars>>

Nothing == [shard |-> None, fd |-> 0]

StoreInit ==
  /\ Init
  /\ descriptors = [s \in Shards |-> None]
  /\ opened = [d \in Descriptors |-> None]
  /\ left = [t \in Threads |-> {}]
  /\ held = [t \in Threads |-> Nothing]
--------------------------------------------------------------------------------
\* read_bundle begins on thread t, with the spans grouped by shard.
BeginRead(t) ==
  /\ left' = [left EXCEPT ![t] = Shards]
  /\ UNCHANGED <<descriptors, opened, held>>

\* read_bundle has returned or raised.
EndRead(t) ==
  /\ left' = [left EXCEPT ![t] = {}]
  /\ held' = [held EXCEPT ![t] = Nothing]
  /\ UNCHANGED <<descriptors, opened>>

\* What the system gives an open: the least descriptor that is not in use.
IsFreed(d) == opened[d] = None /\ \A e \in 1 .. d - 1 : opened[e] # None

\* _pread, the critical section: the shard's descriptor is looked up, or opened.
Lookup(t) ==
  /\ held[t] = Nothing
  /\ \E s \in left[t] :
       \/ /\ descriptors[s] # None
          /\ held' = [held EXCEPT ![t] = [shard |-> s, fd |-> descriptors[s]]]
          /\ UNCHANGED <<descriptors, opened>>
       \/ /\ descriptors[s] = None
          /\ \E d \in Descriptors :
               /\ IsFreed(d)
               /\ opened' = [opened EXCEPT ![d] = s]
               /\ descriptors' = [descriptors EXCEPT ![s] = d]
               /\ held' = [held EXCEPT ![t] = [shard |-> s, fd |-> d]]
  /\ UNCHANGED <<loaderVars, left>>

\* _pread, the read itself; on a descriptor of another state it would fail or return
\* the bytes of something else.
Pread(t) ==
  /\ held[t] # Nothing
  /\ opened[held[t].fd] = held[t].shard
  /\ left' = [left EXCEPT ![t] = @ \ {held[t].shard}]
  /\ held' = [held EXCEPT ![t] = Nothing]
  /\ UNCHANGED <<loaderVars, descriptors, opened>>

TakeBundle(w) == Take(w) /\ BeginRead(w)

\* A bundle is ready once every span has been read; a read may fail anywhere.
BundleEnds(w) ==
  /\ ReadEnds(w)
  /\ future'[reading[w]] = "ready" => left[w] = {}
  /\ EndRead(w)

DemandBundle(c, k) ==
  /\ Demand(c, k)
  /\ IF doing'[c] = "direct" THEN BeginRead(c) ELSE UNCHANGED storeVars

DirectBundleEnds(c) == DirectReadEnds(c) /\ EndRead(c)

\* store.close: every descriptor is closed and forgotten.
CloseStore ==
  /\ opened' =
       [d \in Descriptors |-> IF \E s \in Shards : descriptors[s] = d THEN None ELSE opened[d]]
  /\ descriptors' = [s \in Shards |-> None]
  /\ UNCHANGED <<left, held>>

\* CachedExpertRuntime.close, from the return of loader.close on.  Faulty variant: the
\* workers are told to stop and not joined.
CloseUnjoined(c) ==
  /\ doing[c] = "closing"
  /\ Returns(c)
  /\ CloseStore
  /\ UNCHANGED <<registry, asked, future, pool, closed>>
CloseRuntime(c) == CloseReturns(c) /\ CloseStore

StoreNext ==
  \/ \E t \in Threads : Lookup(t) \/ Pread(t)
  \/ \E w \in Workers : TakeBundle(w) \/ BundleEnds(w) \/ (Stop(w) /\ UNCHANGED storeVars)
  \/ \E c \in Clients, k \in Keys : (Prefetch(c, k) /\ UNCHANGED storeVars) \/ DemandBundle(c, k)
  \/ \E c \in Clients :
       \/ DirectBundleEnds(c)
       \/ DemandReturns(c) /\ UNCHANGED storeVars
       \/ Close(c) /\ UNCHANGED storeVars
       \/ CloseRuntime(c)

StoreSpec == StoreInit /\ [][StoreNext]_vars
--------------------------------------------------------------------------------
\* A worker always reads from the shard it means to, however its lookup and its read
\* fall around other threads' opens and the close of the runtime
\* (safetensors_store.py:182-209, runtime.py:347-351); and while the store is in use no
\* shard is open twice.  A client that reads by itself while another one closes the
\* runtime would not be safe: the program has one thread for both.
StoreOutlivesItsReads ==
  /\ \A w \in Workers : held[w] # Nothing => opened[held[w].fd] = held[w].shard
  /\ \A d, e \in Descriptors : opened[d] = opened[e] /\ opened[d] # None => d = e

\* When the close of the runtime returns no worker is left that could touch the store,
\* no read waits for one, and no descriptor is open, however the prefetches and demands
\* of other threads fell around it (runtime.py:347-351, async_loader.py:107, :178).
QuietOnceClosed ==
  [][\A c \in Clients :
       doing[c] = "closing" /\ doing'[c] = "out"
         => /\ \A w \in Workers : left[w] = {} /\ reading[w] = None
            /\ \A r \in Requests : ~InQueue(r)
            /\ \A d \in Descriptors : opened'[d] = None]_vars
================================================================================
