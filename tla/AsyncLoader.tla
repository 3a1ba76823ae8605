------------------------------ MODULE AsyncLoader ------------------------------
(***************************************************************************)
(* The expert loader (prefetch/async_loader.py): client threads submit     *)
(* speculative and demanded reads, a pool of workers serves them through a *)
(* priority queue, and the calls for one expert coalesce on one future.    *)
(*                                                                         *)
(* The steps are the critical sections of _lock, the pops of the queue and *)
(* the ends of the blocking calls.  Bytes, statistics and the timeline are *)
(* left out.                                                               *)
(***************************************************************************)
EXTENDS Integers, Sequences, FiniteSets

CONSTANTS
  Keys,         \* the (layer, expert) pairs
  Clients,      \* the threads that call the loader
  Workers,      \* its worker threads
  Requests,     \* identities of _LoadRequest objects, reused once nothing refers to them
  MaxInflight,  \* max_inflight
  None          \* no request, no key

ASSUME LoaderAssumption ==
  /\ IsFiniteSet(Keys)
  /\ IsFiniteSet(Workers)
  /\ Workers # {}
  /\ None \notin Keys \cup Requests
  /\ MaxInflight \in Nat
  /\ MaxInflight >= Cardinality(Workers)

VARIABLES
  registry,  \* _requests: the registered request of each key
  asked,     \* the key each request is for
  future,    \* the state of each request's future
  queue,     \* the requests in _queue, per priority, in the order of their submission
  stops,     \* how many _STOP items are in _queue
  closed,    \* _closed
  reading,   \* what each worker is reading
  stopped,   \* the workers that have returned
  doing,     \* what call each client is in
  wanted,    \* the key of a client's demand
  awaited    \* the request a client's demand waits for

pool == <<queue, stops, reading, stopped>>
calls == <<doing, wanted, awaited>>
loaderVars == <<registry, asked, future, pool, closed, calls>>

Demanded == 0
Speculative == 1
Priorities == {Demanded, Speculative}

Registered == {k \in Keys : registry[k] # None}
\* Faulty variant: off by one.
SlotLeftOver == Cardinality(Registered) <= MaxInflight
SlotFree == Cardinality(Registered) < MaxInflight

InQueue(r) == \E p \in Priorities : \E i \in 1 .. Len(queue[p]) : queue[p][i] = r
BeingRead(r) == \E w \in Workers : reading[w] = r

\* Nothing refers to r any more.
Unused(r) ==
  /\ \A k \in Keys : registry[k] # r
  /\ \A c \in Clients : awaited[c] # r
  /\ ~InQueue(r)
  /\ ~BeingRead(r)

Init ==
  /\ registry = [k \in Keys |-> None]
  /\ asked = [r \in Requests |-> None]
  /\ future = [r \in Requests |-> "reading"]
  /\ queue = [p \in Priorities |-> <<>>]
  /\ stops = 0
  /\ closed = FALSE
  /\ reading = [w \in Workers |-> None]
  /\ stopped = {}
  /\ doing = [c \in Clients |-> "out"]
  /\ wanted = [c \in Clients |-> None]
  /\ awaited = [c \in Clients |-> None]
--------------------------------------------------------------------------------
\* _submit_locked, with r the new request.
Submit(k, r, priority) ==
  /\ r \in Requests
  /\ Unused(r)
  /\ registry' = [registry EXCEPT ![k] = r]
  /\ asked' = [asked EXCEPT ![r] = k]
  /\ future' = [future EXCEPT ![r] = "reading"]
  /\ queue' = [queue EXCEPT ![priority] = Append(@, r)]

NewRequest == CHOOSE r \in Requests : Unused(r)

\* prefetch, when it changes anything; a registered key, a closed loader and a full
\* registry only count in the statistics.  Faulty variant: _closed is not looked at.
PrefetchAfterClose(c, k) ==
  /\ doing[c] = "out"
  /\ registry[k] = None
  /\ SlotFree
  /\ Submit(k, NewRequest, Speculative)
  /\ UNCHANGED <<stops, closed, reading, stopped, calls>>
Prefetch(c, k) ==
  /\ doing[c] = "out"
  /\ registry[k] = None
  /\ ~closed
  /\ SlotFree
  /\ Submit(k, NewRequest, Speculative)
  /\ UNCHANGED <<stops, closed, reading, stopped, calls>>

\* demand, its first critical section: the client waits for the registered request of
\* the key, for a new one, or reads by itself when no slot is free; on a closed loader
\* an unregistered key raises, which changes nothing.
Demand(c, k) ==
  /\ doing[c] = "out"
  /\ wanted' = [wanted EXCEPT ![c] = k]
  /\ \/ /\ registry[k] # None
        /\ doing' = [doing EXCEPT ![c] = "waiting"]
        /\ awaited' = [awaited EXCEPT ![c] = registry[k]]
        /\ UNCHANGED <<registry, asked, future, queue>>
     \/ /\ registry[k] = None
        /\ ~closed
        /\ SlotFree
        /\ Submit(k, NewRequest, Demanded)
        /\ doing' = [doing EXCEPT ![c] = "waiting"]
        /\ awaited' = [awaited EXCEPT ![c] = NewRequest]
     \/ /\ registry[k] = None
        /\ ~closed
        /\ ~SlotFree
        /\ doing' = [doing EXCEPT ![c] = "direct"]
        /\ UNCHANGED <<registry, asked, future, queue, awaited>>
  /\ UNCHANGED <<stops, closed, reading, stopped>>

Returns(c) ==
  /\ doing' = [doing EXCEPT ![c] = "out"]
  /\ wanted' = [wanted EXCEPT ![c] = None]
  /\ awaited' = [awaited EXCEPT ![c] = None]

\* The read of the client itself ends, with the bytes or an exception.
DirectReadEnds(c) ==
  /\ doing[c] = "direct"
  /\ Returns(c)
  /\ UNCHANGED <<registry, asked, future, pool, closed>>

\* The registry after a demand of k that waited for r.
Forgotten(k, r) == IF registry[k] = r THEN [registry EXCEPT ![k] = None] ELSE registry

\* future.result() returned or raised; the demand's last critical section follows.
DemandReturns(c) ==
  /\ doing[c] = "waiting"
  /\ future[awaited[c]] # "reading"
  /\ registry' = Forgotten(wanted[c], awaited[c])
  /\ Returns(c)
  /\ UNCHANGED <<asked, future, pool, closed>>

\* How many _STOP items a close puts in the queue.  Faulty variant: one for the pool.
SingleStop == 1
StopItems == Cardinality(Workers)

\* close: the first call queues a stop for every worker and joins them; any later one
\* returns at once, which changes nothing.
Close(c) ==
  /\ doing[c] = "out"
  /\ ~closed
  /\ closed' = TRUE
  /\ stops' = stops + StopItems
  /\ doing' = [doing EXCEPT ![c] = "closing"]
  /\ UNCHANGED <<registry, asked, future, queue, reading, stopped, wanted, awaited>>

CloseReturns(c) ==
  /\ doing[c] = "closing"
  /\ stopped = Workers
  /\ Returns(c)
  /\ UNCHANGED <<registry, asked, future, pool, closed>>

\* Worker w is in _queue.get().
Idle(w) == reading[w] = None /\ w \notin stopped

\* The items of priority p are the next ones.
IsNext(p) == \A q \in Priorities : q < p => queue[q] = <<>>

Take(w) ==
  /\ Idle(w)
  /\ \E p \in Priorities :
       /\ queue[p] # <<>>
       /\ IsNext(p)
       /\ reading' = [reading EXCEPT ![w] = Head(queue[p])]
       /\ queue' = [queue EXCEPT ![p] = Tail(@)]
  /\ UNCHANGED <<registry, asked, future, stops, stopped, closed, calls>>

\* A _STOP item is taken, which has the last priority.  Faulty variant: the first.
StopsFirst == stops > 0
StopIsNext == stops > 0 /\ \A p \in Priorities : queue[p] = <<>>

Stop(w) ==
  /\ Idle(w)
  /\ StopIsNext
  /\ stops' = stops - 1
  /\ stopped' = stopped \cup {w}
  /\ UNCHANGED <<registry, asked, future, queue, reading, closed, calls>>

\* The read of the worker ends and the future is resolved.
ReadEnds(w) ==
  /\ reading[w] # None
  /\ \E result \in {"ready", "failed"} : future' = [future EXCEPT ![reading[w]] = result]
  /\ reading' = [reading EXCEPT ![w] = None]
  /\ UNCHANGED <<registry, asked, queue, stops, stopped, closed, calls>>

ClientReturns(c) == DirectReadEnds(c) \/ DemandReturns(c) \/ CloseReturns(c)
WorkerStep(w) == Take(w) \/ Stop(w) \/ ReadEnds(w)

Next ==
  \/ \E c \in Clients : Close(c) \/ ClientReturns(c)
  \/ \E c \in Clients, k \in Keys : Prefetch(c, k) \/ Demand(c, k)
  \/ \E w \in Workers : WorkerStep(w)

\* Threads run on, and reads end; nothing makes a client call.
Fairness ==
  /\ \A c \in Clients : WF_loaderVars(ClientReturns(c))
  /\ \A w \in Workers : WF_loaderVars(WorkerStep(w))

Spec == Init /\ [][Next]_loaderVars /\ Fairness
--------------------------------------------------------------------------------
\* Types of the loader's state.
LoaderTypeOK ==
  /\ registry \in [Keys -> Requests \cup {None}]
  /\ asked \in [Requests -> Keys \cup {None}]
  /\ future \in [Requests -> {"reading", "ready", "failed"}]
  /\ queue \in [Priorities -> Seq(Requests)]
  /\ stops \in Nat
  /\ closed \in BOOLEAN
  /\ reading \in [Workers -> Requests \cup {None}]
  /\ stopped \in SUBSET Workers
  /\ doing \in [Clients -> {"out", "waiting", "direct", "closing"}]
  /\ wanted \in [Clients -> Keys \cup {None}]
  /\ awaited \in [Clients -> Requests \cup {None}]

\* A request that is queued or being read is the registered one of its key, so that
\* every other call for that key finds it and the pool never has two reads of one
\* expert, also when a slow client comes late to forget an old request
\* (async_loader.py:104, :117 and the identity test of :146).
PendingIsRegistered ==
  \A r \in Requests : InQueue(r) \/ BeingRead(r) => registry[asked[r]] = r

\* A client never waits for a future nobody is going to resolve: its request is with a
\* worker, or queued before the stops of workers that are still there, whatever the
\* order of close and the other calls (async_loader.py:178-213).
NobodyIsStranded ==
  \A c \in Clients :
    doing[c] = "waiting" /\ future[awaited[c]] = "reading"
      => \/ BeingRead(awaited[c])
         \/ InQueue(awaited[c]) /\ stopped # Workers

\* close returns.
CloseTerminates == \A c \in Clients : doing[c] = "closing" ~> doing[c] = "out"

\* A demand returns once the other clients stop demanding: also the one that coalesced
\* with a queued prefetch, and however many prefetches there still are.  The runtime's
\* model thread is the only client.
DemandsReturn ==
  \A c \in Clients :
    <>[](\A d \in Clients \ {c} : doing[d] = "out")
      => (doing[c] \in {"waiting", "direct"} ~> doing[c] = "out")
--------------------------------------------------------------------------------
\* The registry as the runtime sees it.
RegistryState ==
  [k \in Keys |-> IF registry[k] = None THEN "none" ELSE future[registry[k]]]

RoomBeside(S) == Cardinality(S) < MaxInflight

Registry == INSTANCE ReadRegistry WITH HasRoom <- RoomBeside, futures <- RegistryState

\* The loader implements the registry of reads that CachedRuntime relies on: at most
\* one per expert, at most max_inflight, and none forgotten before it has ended.
ImplementsRegistry == Registry!RegistrySpec
================================================================================
