------------------------------ MODULE LoaderProofs -----------------------------
(***************************************************************************)
(* Theorems about the expert loader and the store it reads from, for all   *)
(* sets of experts, clients and workers, all checkpoints and every         *)
(* interleaving of their critical sections: nobody waits for a read that   *)
(* does not come, the loader keeps the promises its runtime relies on, a   *)
(* worker reads from the shard it means to, and nothing is left to read    *)
(* when the close of the runtime returns.                                  *)
(***************************************************************************)
EXTENDS LoaderStore, FiniteSetTheorems, TLAPS

Pending == {r \in Requests : InQueue(r) \/ BeingRead(r)}

\* A request is in one place: once in one queue, or with one worker.
OnePlace ==
  /\ \A p, q \in Priorities : \A i \in 1 .. Len(queue[p]), j \in 1 .. Len(queue[q]) :
       queue[p][i] = queue[q][j] => p = q /\ i = j
  /\ \A w, v \in Workers : reading[w] = reading[v] /\ reading[w] # None => w = v
  /\ \A w \in Workers : reading[w] # None => ~InQueue(reading[w])

\* Workers stop once the loader is closed, behind everything that is queued.
StopsComeLast ==
  /\ stops > 0 \/ stopped # {} => closed
  /\ stopped # {} => \A p \in Priorities : queue[p] = <<>>

PlacesInv == LoaderTypeOK /\ OnePlace /\ StopsComeLast

\* Pending requests are registered and unresolved; registered ones are unresolved only
\* while they are pending; and the client of a demand waits for a request of its key.
RegistryInv ==
  /\ \A r \in Pending : asked[r] \in Keys /\ registry[asked[r]] = r /\ future[r] = "reading"
  /\ \A k \in Keys : registry[k] # None =>
       /\ asked[registry[k]] = k
       /\ future[registry[k]] = "reading" => registry[k] \in Pending
  /\ \A c \in Clients : doing[c] = "waiting" =>
       /\ awaited[c] \in Requests
       /\ future[awaited[c]] = "reading" => awaited[c] \in Pending

LoaderInv == PlacesInv /\ RegistryInv
--------------------------------------------------------------------------------
(***************************************************************************)
(* The places a request can be in.                                         *)
(***************************************************************************)

LEMMA SubmittingQueues ==
  ASSUME LoaderTypeOK, NEW r \in Requests, NEW p \in Priorities, UNCHANGED reading,
         queue' = [queue EXCEPT ![p] = Append(@, r)]
  PROVE  /\ queue' \in [Priorities -> Seq(Requests)]
         /\ \A x \in Requests : InQueue(x)' <=> InQueue(x) \/ x = r
         /\ Pending' = Pending \cup {r}
<1>1. queue \in [Priorities -> Seq(Requests)]
  BY DEF LoaderTypeOK
<1>2. queue' \in [Priorities -> Seq(Requests)]
  BY <1>1
<1>3. ASSUME NEW x \in Requests
      PROVE  InQueue(x)' <=> InQueue(x) \/ x = r
  <2>1. queue'[p] = Append(queue[p], r) /\ queue[p] \in Seq(Requests)
    BY <1>1
  <2>2. \A q \in Priorities : q # p => queue'[q] = queue[q]
    BY <1>1
  <2>3. Len(queue'[p]) = Len(queue[p]) + 1 /\ queue'[p][Len(queue[p]) + 1] = r
        /\ \A i \in 1 .. Len(queue[p]) : queue'[p][i] = queue[p][i]
    BY <2>1
  <2>4. Len(queue[p]) \in Nat
    BY <2>1
  <2>5. (\E i \in 1 .. Len(queue'[p]) : queue'[p][i] = x)
          <=> (\E i \in 1 .. Len(queue[p]) : queue[p][i] = x) \/ x = r
    BY <2>3, <2>4
  <2> QED
    BY <2>2, <2>5 DEF InQueue
<1>4. \A x \in Requests : BeingRead(x)' <=> BeingRead(x)
  BY DEF BeingRead
<1> QED
  BY <1>2, <1>3, <1>4 DEF Pending

LEMMA TakingUnqueues ==
  ASSUME LoaderTypeOK, OnePlace, NEW p \in Priorities, queue[p] # <<>>,
         queue' = [queue EXCEPT ![p] = Tail(@)]
  PROVE  /\ queue' \in [Priorities -> Seq(Requests)]
         /\ Head(queue[p]) \in Requests
         /\ InQueue(Head(queue[p]))
         /\ \A x \in Requests : InQueue(x)' <=> InQueue(x) /\ x # Head(queue[p])
<1>1. queue \in [Priorities -> Seq(Requests)]
  BY DEF LoaderTypeOK
<1>2. /\ queue[p] \in Seq(Requests) /\ Len(queue[p]) \in Nat \ {0}
      /\ Head(queue[p]) = queue[p][1] /\ Head(queue[p]) \in Requests
  BY <1>1
<1>3. /\ queue'[p] = Tail(queue[p]) /\ Len(queue'[p]) = Len(queue[p]) - 1
      /\ \A i \in 1 .. Len(queue[p]) - 1 : queue'[p][i] = queue[p][i + 1]
  BY <1>1, <1>2
<1>4. \A q \in Priorities : q # p => queue'[q] = queue[q]
  BY <1>1
<1>5. queue' \in [Priorities -> Seq(Requests)]
  BY <1>1, <1>2
<1>6. InQueue(Head(queue[p]))
  BY <1>2 DEF InQueue
<1>7. ASSUME NEW x \in Requests
      PROVE  InQueue(x)' <=> InQueue(x) /\ x # Head(queue[p])
  <2>1. (\E i \in 1 .. Len(queue'[p]) : queue'[p][i] = x)
          <=> (\E i \in 2 .. Len(queue[p]) : queue[p][i] = x)
    <3>1. ASSUME NEW i \in 1 .. Len(queue'[p]), queue'[p][i] = x
          PROVE  \E j \in 2 .. Len(queue[p]) : queue[p][j] = x
      <4>1. i + 1 \in 2 .. Len(queue[p]) /\ queue[p][i + 1] = x
        BY <1>2, <1>3, <3>1
      <4> QED
        BY <4>1
    <3>2. ASSUME NEW i \in 2 .. Len(queue[p]), queue[p][i] = x
          PROVE  \E j \in 1 .. Len(queue'[p]) : queue'[p][j] = x
      <4>1. i - 1 \in 1 .. Len(queue'[p]) /\ queue'[p][i - 1] = x
        BY <1>2, <1>3, <3>2
      <4> QED
        BY <4>1
    <3> QED
      BY <3>1, <3>2
  <2>2. \A q \in Priorities : \A i \in 1 .. Len(queue[q]) :
          queue[q][i] = Head(queue[p]) => q = p /\ i = 1
    BY <1>2 DEF OnePlace
  <2>3. ASSUME InQueue(x)'
        PROVE  InQueue(x) /\ x # Head(queue[p])
    <3>1. PICK q \in Priorities : \E i \in 1 .. Len(queue'[q]) : queue'[q][i] = x
      BY <2>3 DEF InQueue
    <3>2. CASE q = p
      <4>1. PICK i \in 2 .. Len(queue[p]) : queue[p][i] = x
        BY <3>1, <3>2, <2>1
      <4>2. i \in 1 .. Len(queue[p]) /\ i # 1
        BY <1>2
      <4> QED
        BY <4>1, <4>2, <2>2 DEF InQueue
    <3>3. CASE q # p
      BY <3>1, <3>3, <1>4, <2>2 DEF InQueue
    <3> QED
      BY <3>2, <3>3
  <2>4. ASSUME InQueue(x), x # Head(queue[p])
        PROVE  InQueue(x)'
    <3>1. PICK q \in Priorities : \E i \in 1 .. Len(queue[q]) : queue[q][i] = x
      BY <2>4 DEF InQueue
    <3>2. CASE q = p
      <4>1. PICK i \in 1 .. Len(queue[p]) : queue[p][i] = x
        BY <3>1, <3>2
      <4>2. i \in 2 .. Len(queue[p])
        BY <1>2, <2>4, <4>1
      <4> QED
        BY <2>1, <4>1, <4>2 DEF InQueue
    <3>3. CASE q # p
      BY <3>1, <3>3, <1>4 DEF InQueue
    <3> QED
      BY <3>2, <3>3
  <2> QED
    BY <2>3, <2>4
<1> QED
  BY <1>2, <1>5, <1>6, <1>7

LEMMA SubmittingKeepsOnePlace ==
  ASSUME LoaderTypeOK, OnePlace, NEW r \in Requests, NEW p \in Priorities,
         ~InQueue(r), ~BeingRead(r), UNCHANGED reading,
         queue' = [queue EXCEPT ![p] = Append(@, r)]
  PROVE  OnePlace'
<1>1. /\ queue \in [Priorities -> Seq(Requests)]
      /\ reading \in [Workers -> Requests \cup {None}]
  BY DEF LoaderTypeOK
<1>2. /\ Len(queue'[p]) = Len(queue[p]) + 1 /\ Len(queue[p]) \in Nat
      /\ queue'[p][Len(queue[p]) + 1] = r
      /\ \A i \in 1 .. Len(queue[p]) : queue'[p][i] = queue[p][i]
  BY <1>1
<1>3. \A q \in Priorities : q # p => queue'[q] = queue[q]
  BY <1>1
<1>4. \A q \in Priorities : \A i \in 1 .. Len(queue[q]) : queue[q][i] # r
  BY DEF InQueue
<1>5. ASSUME NEW q \in Priorities, NEW s \in Priorities,
             NEW i \in 1 .. Len(queue'[q]), NEW j \in 1 .. Len(queue'[s]),
             queue'[q][i] = queue'[s][j]
      PROVE  q = s /\ i = j
  <2>1. q # p => i \in 1 .. Len(queue[q]) /\ queue'[q][i] = queue[q][i]
    BY <1>3
  <2>2. q = p => \/ i \in 1 .. Len(queue[q]) /\ queue'[q][i] = queue[q][i]
                 \/ i = Len(queue[p]) + 1 /\ queue'[q][i] = r
    BY <1>2
  <2>3. s # p => j \in 1 .. Len(queue[s]) /\ queue'[s][j] = queue[s][j]
    BY <1>3
  <2>4. s = p => \/ j \in 1 .. Len(queue[s]) /\ queue'[s][j] = queue[s][j]
                 \/ j = Len(queue[p]) + 1 /\ queue'[s][j] = r
    BY <1>2
  <2>5. CASE i \in 1 .. Len(queue[q]) /\ queue'[q][i] = queue[q][i]
    <3>1. queue'[s][j] # r
      BY <1>4, <1>5, <2>5
    <3>2. j \in 1 .. Len(queue[s]) /\ queue'[s][j] = queue[s][j]
      BY <2>3, <2>4, <3>1
    <3> QED
      BY <1>5, <2>5, <3>2 DEF OnePlace
  <2>6. CASE q = p /\ i = Len(queue[p]) + 1 /\ queue'[q][i] = r
    <3>1. queue'[s][j] = r
      BY <1>5, <2>6
    <3>2. s = p /\ j = Len(queue[p]) + 1
      BY <1>4, <2>3, <2>4, <3>1
    <3> QED
      BY <2>6, <3>2
  <2> QED
    BY <2>1, <2>2, <2>5, <2>6
<1>6. \A w \in Workers : (reading[w] # None => ~InQueue(reading[w]))'
  <2>1. \A w \in Workers : reading[w] # None => reading[w] \in Requests /\ reading[w] # r
    BY <1>1 DEF BeingRead
  <2>2. \A x \in Requests : InQueue(x)' <=> InQueue(x) \/ x = r
    BY SubmittingQueues
  <2> QED
    BY <2>1, <2>2 DEF OnePlace, InQueue
<1> QED
  BY <1>5, <1>6 DEF OnePlace

LEMMA TakeStep ==
  ASSUME PlacesInv, NEW w \in Workers, Take(w)
  PROVE  PlacesInv' /\ Pending' = Pending
<1>1. PICK p \in Priorities :
        /\ queue[p] # <<>>
        /\ reading' = [reading EXCEPT ![w] = Head(queue[p])]
        /\ queue' = [queue EXCEPT ![p] = Tail(@)]
  BY DEF Take
<1>2. /\ queue' \in [Priorities -> Seq(Requests)] /\ Head(queue[p]) \in Requests
      /\ InQueue(Head(queue[p]))
      /\ \A x \in Requests : InQueue(x)' <=> InQueue(x) /\ x # Head(queue[p])
  BY <1>1, TakingUnqueues DEF PlacesInv
<1>3. /\ reading \in [Workers -> Requests \cup {None}] /\ reading[w] = None
      /\ queue \in [Priorities -> Seq(Requests)]
  BY DEF PlacesInv, LoaderTypeOK, Take, Idle
<1>4. LoaderTypeOK'
  BY <1>1, <1>2, <1>3 DEF PlacesInv, LoaderTypeOK, Take, calls
<1>5. \A v \in Workers : reading'[v] = IF v = w THEN Head(queue[p]) ELSE reading[v]
  BY <1>1, <1>3
<1>6. \A v \in Workers : reading[v] # Head(queue[p])
  BY <1>2, LoaderAssumption DEF PlacesInv, OnePlace
<1>7. ASSUME NEW q \in Priorities, NEW s \in Priorities,
             NEW i \in 1 .. Len(queue'[q]), NEW j \in 1 .. Len(queue'[s]),
             queue'[q][i] = queue'[s][j]
      PROVE  q = s /\ i = j
  <2>1. \A t \in Priorities : Len(queue[t]) \in Nat
    BY <1>3
  <2>2. \A t \in Priorities : t # p => queue'[t] = queue[t]
    BY <1>1, <1>3
  <2>3. /\ queue[p] \in Seq(Requests) /\ queue[p] # <<>> /\ queue'[p] = Tail(queue[p])
    BY <1>1, <1>3
  <2>4. /\ Len(queue'[p]) = Len(queue[p]) - 1
        /\ \A k \in 1 .. Len(queue[p]) - 1 : queue'[p][k] = queue[p][k + 1]
    BY <2>3
  <2> DEFINE shift(t) == IF t = p THEN 1 ELSE 0
  <2>5. i + shift(q) \in 1 .. Len(queue[q]) /\ queue'[q][i] = queue[q][i + shift(q)]
    BY <2>1, <2>2, <2>4
  <2>6. j + shift(s) \in 1 .. Len(queue[s]) /\ queue'[s][j] = queue[s][j + shift(s)]
    BY <2>1, <2>2, <2>4
  <2>7. \A k \in 1 .. Len(queue[q]), l \in 1 .. Len(queue[s]) :
          queue[q][k] = queue[s][l] => q = s /\ k = l
    BY DEF PlacesInv, OnePlace
  <2>8. q = s /\ i + shift(q) = j + shift(s)
    <3> HIDE DEF shift
    <3> QED
      BY <1>7, <2>5, <2>6, <2>7
  <2> QED
    BY <2>8
<1>8. \A v, u \in Workers : reading'[v] = reading'[u] /\ reading'[v] # None => v = u
  BY <1>5, <1>6 DEF PlacesInv, OnePlace
<1>9. ASSUME NEW v \in Workers
      PROVE  (reading[v] # None => ~InQueue(reading[v]))'
  <2>1. reading'[v] # None => reading'[v] \in Requests
    BY <1>2, <1>3, <1>5
  <2>2. \A x \in Requests : InQueue(x)' => InQueue(x) /\ x # Head(queue[p])
    BY <1>2
  <2>3. \A x \in Requests : x = reading[v] => ~InQueue(x)
    BY LoaderAssumption DEF PlacesInv, OnePlace
  <2>4. CASE v = w
    BY <1>5, <2>1, <2>2, <2>4 DEF InQueue
  <2>5. CASE v # w
    BY <1>5, <2>1, <2>2, <2>3, <2>5 DEF InQueue
  <2> QED
    BY <2>4, <2>5
<1>10. StopsComeLast'
  BY <1>1 DEF PlacesInv, StopsComeLast, Take
<1>11. \A x \in Requests : BeingRead(x)' <=> BeingRead(x) \/ x = Head(queue[p])
  BY <1>3, <1>5, LoaderAssumption DEF BeingRead
<1>12. Pending' = Pending
  BY <1>2, <1>11 DEF Pending
<1> QED
  BY <1>4, <1>7, <1>8, <1>9, <1>10, <1>12 DEF PlacesInv, OnePlace

LEMMA StopStep ==
  ASSUME PlacesInv, NEW w \in Workers, Stop(w)
  PROVE  PlacesInv' /\ Pending' = Pending
<1>1. UNCHANGED <<registry, asked, future, queue, reading, closed, doing, wanted, awaited>>
  BY DEF Stop, calls
<1>2. stops > 0 /\ stops' = stops - 1 /\ stopped' = stopped \cup {w}
      /\ \A p \in Priorities : queue[p] = <<>>
  BY DEF Stop, StopIsNext
<1>3. LoaderTypeOK'
  BY <1>1, <1>2 DEF PlacesInv, LoaderTypeOK
<1>4. OnePlace'
  BY <1>1 DEF PlacesInv, OnePlace, InQueue
<1>5. StopsComeLast'
  BY <1>1, <1>2 DEF PlacesInv, StopsComeLast
<1>6. Pending' = Pending
  BY <1>1 DEF Pending, InQueue, BeingRead
<1> QED
  BY <1>3, <1>4, <1>5, <1>6 DEF PlacesInv

LEMMA ReadEndsStep ==
  ASSUME PlacesInv, NEW w \in Workers, ReadEnds(w)
  PROVE  PlacesInv' /\ Pending' = Pending \ {reading[w]}
<1>1. UNCHANGED <<registry, asked, queue, stops, stopped, closed, doing, wanted, awaited>>
  BY DEF ReadEnds, calls
<1>2. /\ reading[w] # None /\ reading' = [reading EXCEPT ![w] = None]
      /\ reading \in [Workers -> Requests \cup {None}] /\ reading[w] \in Requests
  BY DEF ReadEnds, PlacesInv, LoaderTypeOK
<1>3. future' \in [Requests -> {"reading", "ready", "failed"}]
  BY <1>2 DEF ReadEnds, PlacesInv, LoaderTypeOK
<1>4. LoaderTypeOK'
  BY <1>1, <1>2, <1>3 DEF PlacesInv, LoaderTypeOK
<1>5. \A v \in Workers : reading'[v] = IF v = w THEN None ELSE reading[v]
  BY <1>2
<1>6. \A x \in Requests : InQueue(x)' <=> InQueue(x)
  BY <1>1 DEF InQueue
<1>7. OnePlace'
  BY <1>1, <1>2, <1>5, <1>6 DEF PlacesInv, OnePlace
<1>8. StopsComeLast'
  BY <1>1 DEF PlacesInv, StopsComeLast
<1>9. \A x \in Requests : BeingRead(x)' <=> BeingRead(x) /\ x # reading[w]
  BY <1>2, <1>5, LoaderAssumption DEF PlacesInv, OnePlace, BeingRead
<1>10. Pending' = Pending \ {reading[w]}
  BY <1>2, <1>6, <1>9 DEF Pending, PlacesInv, OnePlace
<1> QED
  BY <1>4, <1>7, <1>8, <1>10 DEF PlacesInv

\* The client steps that submit nothing.
LEMMA CallStep ==
  ASSUME PlacesInv, LoaderTypeOK', UNCHANGED <<queue, stops, stopped, reading, closed>>
  PROVE  PlacesInv' /\ Pending' = Pending
<1>1. OnePlace'
  BY DEF PlacesInv, OnePlace, InQueue
<1>2. StopsComeLast' /\ Pending' = Pending
  BY DEF PlacesInv, StopsComeLast, Pending, InQueue, BeingRead
<1> QED
  BY <1>1, <1>2 DEF PlacesInv

LEMMA SubmitStep ==
  ASSUME PlacesInv, NEW k \in Keys, NEW r \in Requests, NEW p \in Priorities,
         Submit(k, r, p), ~closed, UNCHANGED <<stops, stopped, reading, closed>>
  PROVE  /\ queue' \in [Priorities -> Seq(Requests)]
         /\ OnePlace' /\ StopsComeLast' /\ Pending' = Pending \cup {r} /\ r \notin Pending
<1>1. /\ ~InQueue(r) /\ ~BeingRead(r) /\ queue' = [queue EXCEPT ![p] = Append(@, r)]
  BY DEF Submit, Unused
<1>2. OnePlace'
  BY <1>1, SubmittingKeepsOnePlace DEF PlacesInv
<1>3. queue' \in [Priorities -> Seq(Requests)] /\ Pending' = Pending \cup {r}
  BY <1>1, SubmittingQueues DEF PlacesInv
<1>4. StopsComeLast'
  BY DEF PlacesInv, StopsComeLast
<1> QED
  BY <1>1, <1>2, <1>3, <1>4 DEF Pending
--------------------------------------------------------------------------------
(***************************************************************************)
(* The registry.                                                           *)
(***************************************************************************)

\* A new request is registered and pending, and nobody refers to it yet.
LEMMA SubmitKeepsRegistry ==
  ASSUME LoaderInv, NEW k \in Keys, NEW r \in Requests, NEW p \in Priorities,
         registry[k] = None, Submit(k, r, p), Pending' = Pending \cup {r}, r \notin Pending,
         \A c \in Clients : doing'[c] = "waiting" =>
           \/ doing[c] = "waiting" /\ awaited'[c] = awaited[c]
           \/ awaited'[c] = r
  PROVE  RegistryInv'
<1>1. /\ registry \in [Keys -> Requests \cup {None}]
      /\ asked \in [Requests -> Keys \cup {None}]
      /\ future \in [Requests -> {"reading", "ready", "failed"}] /\ None \notin Requests
  BY LoaderAssumption DEF LoaderInv, PlacesInv, LoaderTypeOK
<1>2. /\ registry' = [registry EXCEPT ![k] = r] /\ asked' = [asked EXCEPT ![r] = k]
      /\ future' = [future EXCEPT ![r] = "reading"]
      /\ \A l \in Keys : registry[l] # r
      /\ \A c \in Clients : awaited[c] # r
  BY DEF Submit, Unused
<1>3. ASSUME NEW x \in Pending'
      PROVE  asked'[x] \in Keys /\ registry'[asked'[x]] = x /\ future'[x] = "reading"
  <2>1. CASE x = r
    BY <1>1, <1>2, <2>1
  <2>2. CASE x # r
    <3>1. x \in Pending /\ x \in Requests
      BY <1>3, <2>2 DEF Pending
    <3>2. asked[x] \in Keys /\ registry[asked[x]] = x /\ future[x] = "reading"
      BY <3>1 DEF LoaderInv, RegistryInv
    <3>3. asked[x] # k
      BY <1>1, <3>1, <3>2
    <3> QED
      BY <1>1, <1>2, <2>2, <3>1, <3>2, <3>3
  <2> QED
    BY <2>1, <2>2
<1>4. ASSUME NEW l \in Keys, registry'[l] # None
      PROVE  /\ asked'[registry'[l]] = l
             /\ future'[registry'[l]] = "reading" => registry'[l] \in Pending'
  <2>1. CASE l = k
    BY <1>1, <1>2, <2>1
  <2>2. CASE l # k
    <3>1. registry'[l] = registry[l] /\ registry[l] \in Requests /\ registry[l] # r
      BY <1>1, <1>2, <1>4, <2>2
    <3> QED
      BY <1>1, <1>2, <3>1 DEF LoaderInv, RegistryInv
  <2> QED
    BY <2>1, <2>2
<1>5. ASSUME NEW c \in Clients, doing'[c] = "waiting"
      PROVE  /\ awaited'[c] \in Requests
             /\ future'[awaited'[c]] = "reading" => awaited'[c] \in Pending'
  <2>1. CASE awaited'[c] = r
    BY <2>1
  <2>2. CASE doing[c] = "waiting" /\ awaited'[c] = awaited[c]
    BY <1>1, <1>2, <2>2 DEF LoaderInv, RegistryInv
  <2> QED
    BY <1>5, <2>1, <2>2
<1> QED
  BY <1>3, <1>4, <1>5 DEF RegistryInv

\* A pending request stays what it was, and others may be forgotten.
LEMMA RegistryIsKept ==
  ASSUME LoaderInv, Pending' = Pending, UNCHANGED <<asked, future>>,
         \A l \in Keys :
           \/ registry'[l] = registry[l]
           \/ registry'[l] = None /\ registry[l] \notin Pending,
         \A c \in Clients : doing'[c] = "waiting" =>
           \/ doing[c] = "waiting" /\ awaited'[c] = awaited[c]
           \/ \E l \in Keys : awaited'[c] = registry[l] /\ registry[l] # None
  PROVE  RegistryInv'
<1>1. \A r \in Pending :
        asked[r] \in Keys /\ registry'[asked[r]] = r /\ future[r] = "reading"
  BY LoaderAssumption DEF LoaderInv, RegistryInv, Pending
<1>2. \A k \in Keys : registry'[k] # None =>
         /\ asked[registry'[k]] = k
         /\ future[registry'[k]] = "reading" => registry'[k] \in Pending
  BY DEF LoaderInv, RegistryInv
<1>3. \A k \in Keys : registry[k] # None => registry[k] \in Requests
  BY DEF LoaderInv, PlacesInv, LoaderTypeOK
<1>4. \A c \in Clients : doing'[c] = "waiting" =>
         /\ awaited'[c] \in Requests
         /\ future[awaited'[c]] = "reading" => awaited'[c] \in Pending
  BY <1>3 DEF LoaderInv, RegistryInv
<1> QED
  BY <1>1, <1>2, <1>4 DEF RegistryInv

LEMMA ReadEndsKeepsRegistry ==
  ASSUME LoaderInv, NEW w \in Workers, ReadEnds(w), Pending' = Pending \ {reading[w]}
  PROVE  RegistryInv'
<1>1. /\ UNCHANGED <<registry, asked, doing, awaited>> /\ reading[w] \in Requests
      /\ future \in [Requests -> {"reading", "ready", "failed"}]
      /\ registry \in [Keys -> Requests \cup {None}]
  BY DEF ReadEnds, calls, LoaderInv, PlacesInv, LoaderTypeOK
<1>2. /\ future'[reading[w]] # "reading"
      /\ \A r \in Requests : r # reading[w] => future'[r] = future[r]
  BY <1>1 DEF ReadEnds
<1>3. \A r \in Pending' : r \in Requests /\ r # reading[w] /\ r \in Pending
  BY DEF Pending
<1>4. \A r \in Pending' :
        asked[r] \in Keys /\ registry[asked[r]] = r /\ future'[r] = "reading"
  BY <1>2, <1>3 DEF LoaderInv, RegistryInv
<1>5. \A k \in Keys : registry[k] # None =>
         /\ asked[registry[k]] = k
         /\ future'[registry[k]] = "reading" => registry[k] \in Pending'
  BY <1>1, <1>2 DEF LoaderInv, RegistryInv
<1>6. \A c \in Clients : doing[c] = "waiting" =>
         /\ awaited[c] \in Requests
         /\ future'[awaited[c]] = "reading" => awaited[c] \in Pending'
  BY <1>1, <1>2 DEF LoaderInv, RegistryInv
<1> QED
  BY <1>1, <1>4, <1>5, <1>6 DEF RegistryInv
--------------------------------------------------------------------------------
(***************************************************************************)
(* The steps of the clients and the workers.                               *)
(***************************************************************************)

LEMMA PrefetchStep ==
  ASSUME LoaderInv, NEW c \in Clients, NEW k \in Keys, Prefetch(c, k)
  PROVE  LoaderInv'
<1> DEFINE r == NewRequest
<1>1. /\ registry[k] = None /\ ~closed /\ Submit(k, r, Speculative)
      /\ UNCHANGED <<stops, stopped, reading, closed, doing, wanted, awaited>>
  BY DEF Prefetch, calls
<1>2. r \in Requests
  BY <1>1 DEF Submit
<1> HIDE DEF r
<1>3. /\ queue' \in [Priorities -> Seq(Requests)] /\ OnePlace' /\ StopsComeLast'
      /\ Pending' = Pending \cup {r} /\ r \notin Pending
  BY <1>1, <1>2, SubmitStep DEF LoaderInv, Priorities
<1>4. RegistryInv'
  BY <1>1, <1>2, <1>3, SubmitKeepsRegistry DEF Priorities
<1>5. LoaderTypeOK'
  BY <1>1, <1>2, <1>3 DEF LoaderInv, PlacesInv, LoaderTypeOK, Submit
<1> QED
  BY <1>3, <1>4, <1>5 DEF LoaderInv, PlacesInv

LEMMA DemandStep ==
  ASSUME LoaderInv, NEW c \in Clients, NEW k \in Keys, Demand(c, k)
  PROVE  LoaderInv'
<1> DEFINE r == NewRequest
<1>1. /\ doing[c] = "out" /\ wanted' = [wanted EXCEPT ![c] = k]
      /\ UNCHANGED <<stops, closed, reading, stopped>>
  BY DEF Demand
<1>2. /\ doing \in [Clients -> {"out", "waiting", "direct", "closing"}]
      /\ wanted' \in [Clients -> Keys \cup {None}]
      /\ awaited \in [Clients -> Requests \cup {None}]
      /\ registry \in [Keys -> Requests \cup {None}]
  BY <1>1 DEF LoaderInv, PlacesInv, LoaderTypeOK
<1>3. CASE /\ registry[k] # None /\ doing' = [doing EXCEPT ![c] = "waiting"]
           /\ awaited' = [awaited EXCEPT ![c] = registry[k]]
           /\ UNCHANGED <<registry, asked, future, queue>>
  <2>1. LoaderTypeOK'
    BY <1>1, <1>2, <1>3 DEF LoaderInv, PlacesInv, LoaderTypeOK
  <2>2. PlacesInv' /\ Pending' = Pending
    BY <1>1, <1>3, <2>1, CallStep DEF LoaderInv
  <2>3. \A d \in Clients : doing'[d] = "waiting" =>
          \/ doing[d] = "waiting" /\ awaited'[d] = awaited[d]
          \/ \E l \in Keys : awaited'[d] = registry[l] /\ registry[l] # None
    BY <1>2, <1>3
  <2>4. RegistryInv'
    BY <1>3, <2>2, <2>3, RegistryIsKept
  <2> QED
    BY <2>2, <2>4 DEF LoaderInv
<1>4. CASE /\ registry[k] = None /\ ~closed /\ Submit(k, r, Demanded)
           /\ doing' = [doing EXCEPT ![c] = "waiting"]
           /\ awaited' = [awaited EXCEPT ![c] = r]
  <2>1. r \in Requests
    BY <1>4 DEF Submit
  <2> HIDE DEF r
  <2>2. /\ queue' \in [Priorities -> Seq(Requests)] /\ OnePlace' /\ StopsComeLast'
        /\ Pending' = Pending \cup {r} /\ r \notin Pending
    BY <1>1, <1>4, <2>1, SubmitStep DEF LoaderInv, Priorities
  <2>3. \A d \in Clients : doing'[d] = "waiting" =>
          \/ doing[d] = "waiting" /\ awaited'[d] = awaited[d]
          \/ awaited'[d] = r
    BY <1>2, <1>4
  <2>4. RegistryInv'
    BY <1>4, <2>1, <2>2, <2>3, SubmitKeepsRegistry DEF Priorities
  <2>5. LoaderTypeOK'
    BY <1>1, <1>2, <1>4, <2>1, <2>2 DEF LoaderInv, PlacesInv, LoaderTypeOK, Submit
  <2> QED
    BY <2>2, <2>4, <2>5 DEF LoaderInv, PlacesInv
<1>5. CASE /\ doing' = [doing EXCEPT ![c] = "direct"]
           /\ UNCHANGED <<registry, asked, future, queue, awaited>>
  <2>1. LoaderTypeOK'
    BY <1>1, <1>2, <1>5 DEF LoaderInv, PlacesInv, LoaderTypeOK
  <2>2. PlacesInv' /\ Pending' = Pending
    BY <1>1, <1>5, <2>1, CallStep DEF LoaderInv
  <2>3. \A d \in Clients : doing'[d] = "waiting" =>
          doing[d] = "waiting" /\ awaited'[d] = awaited[d]
    BY <1>2, <1>5
  <2>4. RegistryInv'
    BY <1>5, <2>2, <2>3, RegistryIsKept
  <2> QED
    BY <2>2, <2>4 DEF LoaderInv
<1> QED
  BY <1>3, <1>4, <1>5 DEF Demand

LEMMA ReturnStep ==
  ASSUME LoaderInv, NEW c \in Clients, ClientReturns(c)
  PROVE  LoaderInv'
<1>1. /\ Returns(c) /\ UNCHANGED <<asked, future, queue, stops, reading, stopped, closed>>
  BY DEF ClientReturns, DirectReadEnds, DemandReturns, CloseReturns, pool
<1>2. /\ registry \in [Keys -> Requests \cup {None}] /\ None \notin Requests
      /\ doing \in [Clients -> {"out", "waiting", "direct", "closing"}]
      /\ wanted \in [Clients -> Keys \cup {None}]
      /\ awaited \in [Clients -> Requests \cup {None}]
  BY LoaderAssumption DEF LoaderInv, PlacesInv, LoaderTypeOK
<1>3. /\ registry' \in [Keys -> Requests \cup {None}]
      /\ \A l \in Keys :
           \/ registry'[l] = registry[l]
           \/ registry'[l] = None /\ registry[l] \notin Pending
  <2>1. CASE DemandReturns(c)
    <3>1. future[awaited[c]] # "reading" /\ registry' = Forgotten(wanted[c], awaited[c])
      BY <2>1 DEF DemandReturns
    <3>2. awaited[c] \notin Pending
      BY <3>1 DEF LoaderInv, RegistryInv
    <3> QED
      BY <1>2, <3>1, <3>2 DEF Forgotten
  <2>2. CASE UNCHANGED registry
    BY <1>2, <2>2
  <2> QED
    BY <2>1, <2>2 DEF ClientReturns, DirectReadEnds, CloseReturns
<1>4. \A d \in Clients : doing'[d] = "waiting" =>
        doing[d] = "waiting" /\ awaited'[d] = awaited[d]
  BY <1>1, <1>2 DEF Returns
<1>5. LoaderTypeOK'
  BY <1>1, <1>2, <1>3 DEF LoaderInv, PlacesInv, LoaderTypeOK, Returns
<1>6. PlacesInv' /\ Pending' = Pending
  BY <1>1, <1>5, CallStep DEF LoaderInv
<1>7. RegistryInv'
  BY <1>1, <1>3, <1>4, <1>6, RegistryIsKept
<1> QED
  BY <1>6, <1>7 DEF LoaderInv

LEMMA CloseStep ==
  ASSUME LoaderInv, NEW c \in Clients, Close(c)
  PROVE  LoaderInv'
<1>1. /\ ~closed /\ closed' = TRUE /\ stops' = stops + Cardinality(Workers)
      /\ doing' = [doing EXCEPT ![c] = "closing"]
      /\ UNCHANGED <<registry, asked, future, queue, reading, stopped, wanted, awaited>>
  BY DEF Close, StopItems
<1>2. Cardinality(Workers) \in Nat
  BY LoaderAssumption, FS_CardinalityType
<1>3. doing \in [Clients -> {"out", "waiting", "direct", "closing"}]
  BY DEF LoaderInv, PlacesInv, LoaderTypeOK
<1>4. LoaderTypeOK'
  BY <1>1, <1>2 DEF LoaderInv, PlacesInv, LoaderTypeOK
<1>5. OnePlace' /\ StopsComeLast' /\ Pending' = Pending
  BY <1>1 DEF LoaderInv, PlacesInv, OnePlace, StopsComeLast, Pending, InQueue, BeingRead
<1>6. \A d \in Clients : doing'[d] = "waiting" =>
        doing[d] = "waiting" /\ awaited'[d] = awaited[d]
  BY <1>1, <1>3
<1>7. RegistryInv'
  BY <1>1, <1>5, <1>6, RegistryIsKept
<1> QED
  BY <1>4, <1>5, <1>7 DEF LoaderInv, PlacesInv

LEMMA WorkerStepKeeps ==
  ASSUME LoaderInv, NEW w \in Workers, WorkerStep(w)
  PROVE  LoaderInv'
<1>1. CASE Take(w)
  <2>1. PlacesInv' /\ Pending' = Pending
    BY <1>1, TakeStep DEF LoaderInv
  <2>2. UNCHANGED <<registry, asked, future, doing, awaited>>
    BY <1>1 DEF Take, calls
  <2> QED
    BY <2>1, <2>2, RegistryIsKept DEF LoaderInv
<1>2. CASE Stop(w)
  <2>1. PlacesInv' /\ Pending' = Pending
    BY <1>2, StopStep DEF LoaderInv
  <2>2. UNCHANGED <<registry, asked, future, doing, awaited>>
    BY <1>2 DEF Stop, calls
  <2> QED
    BY <2>1, <2>2, RegistryIsKept DEF LoaderInv
<1>3. CASE ReadEnds(w)
  BY <1>3, ReadEndsStep, ReadEndsKeepsRegistry DEF LoaderInv
<1> QED
  BY <1>1, <1>2, <1>3 DEF WorkerStep

LEMMA LoaderInvInductive ==
  ASSUME LoaderInv, [Next]_loaderVars
  PROVE  LoaderInv'
<1>1. CASE UNCHANGED loaderVars
  <2>1. /\ UNCHANGED <<registry, asked, future, queue, stops, reading, stopped, closed>>
        /\ UNCHANGED <<doing, wanted, awaited>>
    BY <1>1 DEF loaderVars, pool, calls
  <2>2. LoaderTypeOK'
    BY <2>1 DEF LoaderInv, PlacesInv, LoaderTypeOK
  <2>3. PlacesInv' /\ Pending' = Pending
    BY <2>1, <2>2, CallStep DEF LoaderInv
  <2> QED
    BY <2>1, <2>3, RegistryIsKept DEF LoaderInv
<1> QED
  BY <1>1, PrefetchStep, DemandStep, ReturnStep, CloseStep, WorkerStepKeeps DEF Next

LEMMA LoaderInvInitially ==
  ASSUME Init
  PROVE  LoaderInv
<1>1. LoaderTypeOK
  <2>1. queue \in [Priorities -> Seq(Requests)]
    <3>1. <<>> \in Seq(Requests)
      OBVIOUS
    <3> QED
      BY <3>1 DEF Init
  <2> QED
    BY <2>1 DEF Init, LoaderTypeOK
<1>2. \A r \in Requests : ~InQueue(r) /\ ~BeingRead(r)
  BY LoaderAssumption DEF Init, InQueue, BeingRead
<1>3. OnePlace /\ StopsComeLast
  BY DEF Init, OnePlace, StopsComeLast
<1>4. RegistryInv
  BY <1>2 DEF Init, RegistryInv, Pending
<1> QED
  BY <1>1, <1>3, <1>4 DEF LoaderInv, PlacesInv

THEOREM LoaderInvariance == Spec => []LoaderInv
BY LoaderInvInitially, LoaderInvInductive, PTL DEF Spec
--------------------------------------------------------------------------------
(***************************************************************************)
(* What follows.                                                           *)
(***************************************************************************)

\* Whatever the order of a close and the other calls, a client waits only for a read that
\* a worker has or that is queued before workers which are still there.
THEOREM NobodyIsLeftWaiting == Spec => []NobodyIsStranded
<1>1. ASSUME LoaderInv
      PROVE  NobodyIsStranded
  <2> SUFFICES ASSUME NEW c \in Clients, doing[c] = "waiting",
                      future[awaited[c]] = "reading"
               PROVE  \/ BeingRead(awaited[c])
                      \/ InQueue(awaited[c]) /\ stopped # Workers
    BY DEF NobodyIsStranded
  <2>1. awaited[c] \in Pending
    BY <1>1 DEF LoaderInv, RegistryInv
  <2>2. CASE InQueue(awaited[c])
    <3>1. PICK p \in Priorities : \E i \in 1 .. Len(queue[p]) : queue[p][i] = awaited[c]
      BY <2>2 DEF InQueue
    <3>2. queue[p] # <<>>
      BY <3>1
    <3>3. stopped = {}
      BY <1>1, <3>2 DEF LoaderInv, PlacesInv, StopsComeLast
    <3> QED
      BY <2>2, <3>3, LoaderAssumption
  <2> QED
    BY <2>1, <2>2 DEF Pending
<1> QED
  BY <1>1, LoaderInvariance, PTL

\* A request that is queued or being read is the one the registry names for its key: the
\* pool never has two reads of one expert.
THEOREM PendingReadsAreRegistered == Spec => []PendingIsRegistered
<1>1. LoaderInv => PendingIsRegistered
  BY DEF LoaderInv, RegistryInv, Pending, PendingIsRegistered
<1> QED
  BY <1>1, LoaderInvariance, PTL

\* A step of the loader is at most one step of the registry of reads.
LEMMA LoaderStepRefinesRegistry ==
  ASSUME LoaderInv, [Next]_loaderVars
  PROVE  [Registry!RegistryNext]_RegistryState
<1> USE DEF Registry!RegistryNext, Registry!Submit, Registry!End, Registry!Forget
<1>1. /\ registry \in [Keys -> Requests \cup {None}] /\ None \notin Requests
      /\ future \in [Requests -> {"reading", "ready", "failed"}]
  BY LoaderAssumption DEF LoaderInv, PlacesInv, LoaderTypeOK
<1>2. \A k \in Keys :
        /\ RegistryState[k] = "none" <=> registry[k] = None
        /\ registry[k] # None => RegistryState[k] = future[registry[k]]
  BY <1>1 DEF RegistryState
<1>3. SlotFree <=> RoomBeside(Registry!Registered)
  <2>1. Registered = Registry!Registered
    BY <1>2 DEF Registered, Registry!Registered
  <2> QED
    BY <2>1 DEF SlotFree, RoomBeside
<1>4. ASSUME NEW k \in Keys, NEW r \in Requests, NEW p \in Priorities,
             registry[k] = None, SlotFree, Submit(k, r, p)
      PROVE  Registry!Submit(k)
  <2>1. /\ registry' = [registry EXCEPT ![k] = r]
        /\ future' = [future EXCEPT ![r] = "reading"]
        /\ \A l \in Keys : registry[l] # r
    BY <1>4 DEF Submit, Unused
  <2>2. \A l \in Keys : RegistryState'[l] = IF l = k THEN "reading" ELSE RegistryState[l]
    BY <1>1, <2>1 DEF RegistryState
  <2>3. RegistryState' = [RegistryState EXCEPT ![k] = "reading"]
    BY <2>2 DEF RegistryState
  <2> QED
    BY <1>2, <1>3, <1>4, <2>3
<1>5. ASSUME NEW c \in Clients, DemandReturns(c)
      PROVE  [Registry!RegistryNext]_RegistryState
  <2> DEFINE k == wanted[c]
  <2>1. /\ UNCHANGED future /\ awaited[c] \in Requests /\ future[awaited[c]] # "reading"
        /\ registry' = Forgotten(wanted[c], awaited[c])
    BY <1>5 DEF DemandReturns, LoaderInv, RegistryInv
  <2>2. CASE wanted[c] \in Keys /\ registry[wanted[c]] = awaited[c]
    <3>1. registry' = [registry EXCEPT ![k] = None]
      BY <2>1, <2>2 DEF Forgotten
    <3>2. \A l \in Keys : RegistryState'[l] = IF l = k THEN "none" ELSE RegistryState[l]
      BY <1>1, <2>1, <2>2, <3>1 DEF RegistryState
    <3>3. RegistryState' = [RegistryState EXCEPT ![k] = "none"]
      BY <3>2 DEF RegistryState
    <3>4. RegistryState[k] \in {"ready", "failed"}
      BY <1>1, <1>2, <2>1, <2>2
    <3> QED
      BY <2>2, <3>3, <3>4
  <2>3. CASE UNCHANGED registry
    BY <2>1, <2>3 DEF RegistryState
  <2>4. wanted[c] \notin Keys => UNCHANGED registry
    BY <1>1, <2>1 DEF Forgotten
  <2> QED
    BY <2>1, <2>2, <2>3, <2>4 DEF Forgotten
<1>6. ASSUME NEW w \in Workers, ReadEnds(w)
      PROVE  [Registry!RegistryNext]_RegistryState
  <2> DEFINE r == reading[w]
             k == asked[r]
  <2>1. /\ r \in Pending /\ r \in Requests /\ UNCHANGED registry
        /\ \E result \in {"ready", "failed"} : future' = [future EXCEPT ![r] = result]
    BY <1>6 DEF ReadEnds, LoaderInv, PlacesInv, LoaderTypeOK, Pending, BeingRead
  <2>2. k \in Keys /\ registry[k] = r /\ future[r] = "reading"
    BY <2>1 DEF LoaderInv, RegistryInv
  <2>3. \A l \in Keys : registry[l] = r => l = k
    BY <1>1, <2>1 DEF LoaderInv, RegistryInv
  <2>4. PICK result \in {"ready", "failed"} : future' = [future EXCEPT ![r] = result]
    BY <2>1
  <2> HIDE DEF r, k
  <2>5. \A l \in Keys : RegistryState'[l] = IF l = k THEN result ELSE RegistryState[l]
    BY <1>1, <2>1, <2>2, <2>3, <2>4 DEF RegistryState
  <2>6. RegistryState' = [RegistryState EXCEPT ![k] = result]
    BY <2>5 DEF RegistryState
  <2>7. RegistryState[k] = "reading"
    BY <1>1, <1>2, <2>1, <2>2
  <2> QED
    BY <2>2, <2>6, <2>7
<1>7. ASSUME NEW c \in Clients, NEW k \in Keys, Prefetch(c, k) \/ Demand(c, k)
      PROVE  [Registry!RegistryNext]_RegistryState
  <2>1. CASE \E p \in Priorities :
               registry[k] = None /\ SlotFree /\ Submit(k, NewRequest, p)
    <3>1. NewRequest \in Requests
      BY <2>1 DEF Submit
    <3>2. Registry!Submit(k)
      BY <1>4, <2>1, <3>1
    <3> QED
      BY <3>2
  <2>2. CASE UNCHANGED <<registry, future>>
    BY <2>2 DEF RegistryState
  <2> QED
    BY <1>7, <2>1, <2>2 DEF Prefetch, Demand, Priorities
<1>8. ASSUME NEW c \in Clients, Close(c) \/ DirectReadEnds(c) \/ CloseReturns(c)
      PROVE  UNCHANGED RegistryState
  BY <1>8 DEF Close, DirectReadEnds, CloseReturns, RegistryState
<1>9. ASSUME NEW w \in Workers, Take(w) \/ Stop(w)
      PROVE  UNCHANGED RegistryState
  BY <1>9 DEF Take, Stop, RegistryState
<1>10. CASE UNCHANGED loaderVars
  BY <1>10 DEF loaderVars, RegistryState
<1> QED
  BY <1>5, <1>6, <1>7, <1>8, <1>9, <1>10 DEF Next, ClientReturns, WorkerStep

\* The loader keeps the promises CachedRuntime relies on.
THEOREM LoaderImplementsRegistry == Spec => ImplementsRegistry
<1>1. Init => Registry!RegistryInit
  BY DEF Init, RegistryState, Registry!RegistryInit
<1>2. LoaderInv /\ [Next]_loaderVars => [Registry!RegistryNext]_RegistryState
  BY LoaderStepRefinesRegistry
<1> QED
  BY <1>1, <1>2, LoaderInvariance, PTL DEF Spec, ImplementsRegistry, Registry!RegistrySpec
--------------------------------------------------------------------------------
(***************************************************************************)
(* The loader on its store.                                                *)
(***************************************************************************)

\* The table of descriptors and what the process has open are each other's inverse, and
\* what a worker holds is open.
StoreTypes ==
  /\ descriptors \in [Shards -> Descriptors \cup {None}]
  /\ opened \in [Descriptors -> Shards \cup {None}]
  /\ left \in [Threads -> SUBSET Shards]
  /\ held \in [Threads -> [shard : Shards, fd : Descriptors] \cup {Nothing}]

TableInv ==
  /\ \A s \in Shards : descriptors[s] # None => opened[descriptors[s]] = s
  /\ \A d \in Descriptors : opened[d] # None => descriptors[opened[d]] = d

WorkersInv ==
  \A w \in Workers :
    /\ held[w] # Nothing => opened[held[w].fd] = held[w].shard
    /\ reading[w] = None => left[w] = {} /\ held[w] = Nothing
    /\ w \in stopped => reading[w] = None

StoreInv == LoaderInv /\ StoreTypes /\ TableInv /\ WorkersInv
--------------------------------------------------------------------------------
\* The store adds nothing to what the loader does.
LEMMA StoreStepsAreLoaderSteps ==
  ASSUME [StoreNext]_vars
  PROVE  [Next]_loaderVars
<1>1. ASSUME NEW t \in Threads, Lookup(t) \/ Pread(t)
      PROVE  UNCHANGED loaderVars
  BY <1>1 DEF Lookup, Pread
<1>2. ASSUME NEW w \in Workers, TakeBundle(w) \/ BundleEnds(w) \/ Stop(w)
      PROVE  Next
  BY <1>2 DEF TakeBundle, BundleEnds, WorkerStep, Next
<1>3. ASSUME NEW c \in Clients, NEW k \in Keys, Prefetch(c, k) \/ DemandBundle(c, k)
      PROVE  Next
  BY <1>3 DEF DemandBundle, Next
<1>4. ASSUME NEW c \in Clients,
             DirectBundleEnds(c) \/ DemandReturns(c) \/ Close(c) \/ CloseRuntime(c)
      PROVE  Next
  BY <1>4 DEF DirectBundleEnds, CloseRuntime, ClientReturns, Next
<1>5. CASE UNCHANGED vars
  BY <1>5 DEF vars
<1> QED
  BY <1>1, <1>2, <1>3, <1>4, <1>5 DEF StoreNext

\* A step of the loader that leaves the store and the workers alone.
LEMMA IdleStoreStep ==
  ASSUME StoreInv, UNCHANGED <<storeVars, reading, stopped>>
  PROVE  StoreTypes' /\ TableInv' /\ WorkersInv'
BY DEF StoreInv, StoreTypes, TableInv, WorkersInv, storeVars

LEMMA LookupStep ==
  ASSUME StoreInv, NEW t \in Threads, Lookup(t)
  PROVE  StoreTypes' /\ TableInv' /\ WorkersInv'
<1>1. PICK s \in left[t] :
        \/ /\ descriptors[s] # None
           /\ held' = [held EXCEPT ![t] = [shard |-> s, fd |-> descriptors[s]]]
           /\ UNCHANGED <<descriptors, opened>>
        \/ /\ descriptors[s] = None
           /\ \E d \in Descriptors :
                /\ IsFreed(d)
                /\ opened' = [opened EXCEPT ![d] = s]
                /\ descriptors' = [descriptors EXCEPT ![s] = d]
                /\ held' = [held EXCEPT ![t] = [shard |-> s, fd |-> d]]
  BY DEF Lookup
<1>2. s \in Shards /\ UNCHANGED <<left, reading, stopped>> /\ None \notin Shards \cup Descriptors
  BY StoreAssumption DEF StoreInv, StoreTypes, Lookup, loaderVars, pool
<1>3. PICK d \in Descriptors :
        /\ held' = [held EXCEPT ![t] = [shard |-> s, fd |-> d]]
        /\ opened'[d] = s
        /\ \A e \in Descriptors : opened[e] # None => opened'[e] = opened[e]
        /\ \/ UNCHANGED <<descriptors, opened>>
           \/ /\ opened[d] = None /\ descriptors[s] = None
              /\ opened' = [opened EXCEPT ![d] = s]
              /\ descriptors' = [descriptors EXCEPT ![s] = d]
  <2>1. CASE /\ descriptors[s] # None
             /\ held' = [held EXCEPT ![t] = [shard |-> s, fd |-> descriptors[s]]]
             /\ UNCHANGED <<descriptors, opened>>
    <3>1. descriptors[s] \in Descriptors /\ opened[descriptors[s]] = s
      BY <1>2, <2>1 DEF StoreInv, StoreTypes, TableInv
    <3> QED
      BY <2>1, <3>1
  <2>2. ASSUME descriptors[s] = None, NEW d \in Descriptors, IsFreed(d),
               opened' = [opened EXCEPT ![d] = s],
               descriptors' = [descriptors EXCEPT ![s] = d],
               held' = [held EXCEPT ![t] = [shard |-> s, fd |-> d]]
        PROVE  /\ opened'[d] = s /\ opened[d] = None
               /\ \A e \in Descriptors : opened[e] # None => opened'[e] = opened[e]
    BY <2>2 DEF IsFreed, StoreInv, StoreTypes
  <2> QED
    BY <1>1, <2>1, <2>2
<1>4. StoreTypes'
  BY <1>2, <1>3 DEF StoreInv, StoreTypes
<1>5. TableInv'
  <2>1. CASE UNCHANGED <<descriptors, opened>>
    BY <2>1 DEF StoreInv, TableInv
  <2>2. CASE /\ opened[d] = None /\ descriptors[s] = None
             /\ opened' = [opened EXCEPT ![d] = s]
             /\ descriptors' = [descriptors EXCEPT ![s] = d]
    <3>1. ASSUME NEW z \in Shards, descriptors'[z] # None
          PROVE  opened'[descriptors'[z]] = z
      <4>1. CASE z = s
        BY <1>2, <2>2, <4>1 DEF StoreInv, StoreTypes
      <4>2. CASE z # s
        <5>1. descriptors'[z] = descriptors[z] /\ descriptors[z] \in Descriptors
              /\ opened[descriptors[z]] = z
          BY <1>2, <2>2, <3>1, <4>2 DEF StoreInv, StoreTypes, TableInv
        <5> QED
          BY <1>2, <2>2, <5>1 DEF StoreInv, StoreTypes
      <4> QED
        BY <4>1, <4>2
    <3>2. ASSUME NEW e \in Descriptors, opened'[e] # None
          PROVE  descriptors'[opened'[e]] = e
      <4>1. CASE e = d
        BY <1>2, <2>2, <4>1 DEF StoreInv, StoreTypes
      <4>2. CASE e # d
        <5>1. opened'[e] = opened[e] /\ opened[e] \in Shards /\ descriptors[opened[e]] = e
          BY <1>2, <2>2, <3>2, <4>2 DEF StoreInv, StoreTypes, TableInv
        <5>2. opened[e] # s
          BY <1>2, <2>2, <5>1
        <5> QED
          BY <1>2, <2>2, <5>1, <5>2 DEF StoreInv, StoreTypes
      <4> QED
        BY <4>1, <4>2
    <3> QED
      BY <3>1, <3>2 DEF TableInv
  <2> QED
    BY <1>3, <2>1, <2>2
<1>6. WorkersInv'
  <2> SUFFICES ASSUME NEW w \in Workers
               PROVE  /\ held'[w] # Nothing => opened'[held'[w].fd] = held'[w].shard
                      /\ reading[w] = None => left[w] = {} /\ held'[w] = Nothing
                      /\ w \in stopped => reading[w] = None
    BY <1>2 DEF WorkersInv
  <2>1. CASE w = t
    BY <1>2, <1>3, <2>1 DEF StoreInv, StoreTypes, WorkersInv
  <2>2. CASE w # t
    <3>1. held'[w] = held[w] /\ w \in Threads
      BY <1>3, <2>2 DEF StoreInv, StoreTypes, Threads
    <3>2. held[w] # Nothing => held[w].fd \in Descriptors /\ held[w].shard \in Shards
      BY <3>1 DEF StoreInv, StoreTypes
    <3> QED
      BY <1>2, <1>3, <3>1, <3>2 DEF StoreInv, WorkersInv
  <2> QED
    BY <2>1, <2>2
<1> QED
  BY <1>4, <1>5, <1>6

LEMMA PreadStep ==
  ASSUME StoreInv, NEW t \in Threads, Pread(t)
  PROVE  StoreTypes' /\ TableInv' /\ WorkersInv'
<1>1. /\ left' = [left EXCEPT ![t] = @ \ {held[t].shard}]
      /\ held' = [held EXCEPT ![t] = Nothing]
      /\ UNCHANGED <<descriptors, opened, reading, stopped>>
  BY DEF Pread, loaderVars, pool
<1>2. StoreTypes'
  BY <1>1 DEF StoreInv, StoreTypes
<1>3. TableInv'
  BY <1>1 DEF StoreInv, TableInv
<1>4. WorkersInv'
  BY <1>1 DEF StoreInv, StoreTypes, WorkersInv, Threads
<1> QED
  BY <1>2, <1>3, <1>4

LEMMA TakeBundleStep ==
  ASSUME StoreInv, NEW w \in Workers, TakeBundle(w)
  PROVE  StoreTypes' /\ TableInv' /\ WorkersInv'
<1>1. /\ left' = [left EXCEPT ![w] = Shards] /\ UNCHANGED <<descriptors, opened, held>>
      /\ reading[w] = None /\ w \notin stopped /\ UNCHANGED stopped
  BY DEF TakeBundle, BeginRead, Take, Idle
<1>2. PICK p \in Priorities : /\ queue[p] # <<>>
                              /\ reading' = [reading EXCEPT ![w] = Head(queue[p])]
  BY DEF TakeBundle, Take
<1>3. Head(queue[p]) # None /\ reading \in [Workers -> Requests \cup {None}]
  <2>1. queue[p] \in Seq(Requests) /\ reading \in [Workers -> Requests \cup {None}]
    BY DEF StoreInv, LoaderInv, PlacesInv, LoaderTypeOK
  <2>2. Head(queue[p]) \in Requests
    BY <1>2, <2>1
  <2> QED
    BY <2>1, <2>2, LoaderAssumption
<1>4. StoreTypes'
  BY <1>1 DEF StoreInv, StoreTypes
<1>5. TableInv'
  BY <1>1 DEF StoreInv, TableInv
<1>6. WorkersInv'
  BY <1>1, <1>2, <1>3 DEF StoreInv, StoreTypes, WorkersInv, Threads
<1> QED
  BY <1>4, <1>5, <1>6

LEMMA BundleEndsStep ==
  ASSUME StoreInv, NEW w \in Workers, BundleEnds(w)
  PROVE  StoreTypes' /\ TableInv' /\ WorkersInv'
<1>1. /\ left' = [left EXCEPT ![w] = {}] /\ held' = [held EXCEPT ![w] = Nothing]
      /\ reading' = [reading EXCEPT ![w] = None]
      /\ UNCHANGED <<descriptors, opened, stopped>>
  BY DEF BundleEnds, EndRead, ReadEnds
<1>2. StoreTypes'
  BY <1>1 DEF StoreInv, StoreTypes
<1>3. TableInv'
  BY <1>1 DEF StoreInv, TableInv
<1>4. reading \in [Workers -> Requests \cup {None}]
  BY DEF StoreInv, LoaderInv, PlacesInv, LoaderTypeOK
<1>5. WorkersInv'
  BY <1>1, <1>4 DEF StoreInv, StoreTypes, WorkersInv, Threads
<1> QED
  BY <1>2, <1>3, <1>5

\* What a client reads by itself is not a worker's.
LEMMA ClientReadStep ==
  ASSUME StoreInv, NEW c \in Clients, BeginRead(c) \/ EndRead(c),
         UNCHANGED <<reading, stopped>>
  PROVE  StoreTypes' /\ TableInv' /\ WorkersInv'
<1>1. /\ UNCHANGED <<descriptors, opened>>
      /\ \/ left' = [left EXCEPT ![c] = Shards] /\ UNCHANGED held
         \/ left' = [left EXCEPT ![c] = {}] /\ held' = [held EXCEPT ![c] = Nothing]
  BY DEF BeginRead, EndRead
<1>2. StoreTypes'
  BY <1>1 DEF StoreInv, StoreTypes
<1>3. TableInv'
  BY <1>1 DEF StoreInv, TableInv
<1>4. \A w \in Workers : left'[w] = left[w] /\ held'[w] = held[w]
  BY <1>1, StoreAssumption DEF StoreInv, StoreTypes, Threads
<1>5. WorkersInv'
  BY <1>1, <1>4 DEF StoreInv, WorkersInv
<1> QED
  BY <1>2, <1>3, <1>5

\* Once every worker has stopped, none of them is reading anything.
LEMMA StoppedWorkersAreIdle ==
  ASSUME StoreInv, stopped = Workers
  PROVE  \A w \in Workers : reading[w] = None /\ left[w] = {} /\ held[w] = Nothing
BY DEF StoreInv, WorkersInv

LEMMA CloseStoreClosesAll ==
  ASSUME StoreInv, CloseStore
  PROVE  /\ \A d \in Descriptors : opened'[d] = None
         /\ \A s \in Shards : descriptors'[s] = None
         /\ StoreTypes'
<1>1. ASSUME NEW d \in Descriptors
      PROVE  opened'[d] = None
  <2>1. opened[d] \in Shards \cup {None}
    BY DEF StoreInv, StoreTypes
  <2>2. opened[d] # None => descriptors[opened[d]] = d
    BY DEF StoreInv, TableInv
  <2> QED
    BY <2>1, <2>2 DEF CloseStore
<1>2. opened' = [d \in Descriptors |-> opened'[d]]
  BY DEF CloseStore
<1>3. StoreTypes'
  BY <1>1, <1>2 DEF CloseStore, StoreInv, StoreTypes
<1> QED
  BY <1>1, <1>3 DEF CloseStore

LEMMA CloseRuntimeStep ==
  ASSUME StoreInv, NEW c \in Clients, CloseRuntime(c)
  PROVE  StoreTypes' /\ TableInv' /\ WorkersInv'
<1>1. /\ UNCHANGED <<reading, stopped, left, held>> /\ stopped = Workers
  BY DEF CloseRuntime, CloseReturns, CloseStore, pool
<1>2. /\ \A d \in Descriptors : opened'[d] = None
      /\ \A s \in Shards : descriptors'[s] = None
      /\ StoreTypes'
  BY CloseStoreClosesAll DEF CloseRuntime
<1>3. TableInv'
  BY <1>2 DEF TableInv
<1>4. WorkersInv'
  BY <1>1, StoppedWorkersAreIdle DEF WorkersInv
<1> QED
  BY <1>2, <1>3, <1>4

LEMMA StopKeepsTheStore ==
  ASSUME StoreInv, NEW w \in Workers, Stop(w), UNCHANGED storeVars
  PROVE  StoreTypes' /\ TableInv' /\ WorkersInv'
<1>1. reading[w] = None /\ stopped' = stopped \cup {w} /\ UNCHANGED reading
  BY DEF Stop, Idle
<1> QED
  BY <1>1 DEF StoreInv, StoreTypes, TableInv, WorkersInv, storeVars

LEMMA StoreInvInductive ==
  ASSUME StoreInv, [StoreNext]_vars
  PROVE  StoreInv'
<1>1. LoaderInv'
  BY StoreStepsAreLoaderSteps, LoaderInvInductive DEF StoreInv
<1>2. StoreTypes' /\ TableInv' /\ WorkersInv'
  <2>1. CASE \E t \in Threads : Lookup(t) \/ Pread(t)
    BY <2>1, LookupStep, PreadStep
  <2>2. CASE \E w \in Workers :
               TakeBundle(w) \/ BundleEnds(w) \/ (Stop(w) /\ UNCHANGED storeVars)
    BY <2>2, TakeBundleStep, BundleEndsStep, StopKeepsTheStore
  <2>3. ASSUME NEW c \in Clients, NEW k \in Keys, Prefetch(c, k), UNCHANGED storeVars
        PROVE  UNCHANGED <<storeVars, reading, stopped>>
    BY <2>3 DEF Prefetch
  <2>4. ASSUME NEW c \in Clients, NEW k \in Keys, DemandBundle(c, k)
        PROVE  StoreTypes' /\ TableInv' /\ WorkersInv'
    <3>1. UNCHANGED <<reading, stopped>> /\ (BeginRead(c) \/ UNCHANGED storeVars)
      BY <2>4 DEF DemandBundle, Demand
    <3> QED
      BY <3>1, ClientReadStep, IdleStoreStep
  <2>5. ASSUME NEW c \in Clients, DirectBundleEnds(c)
        PROVE  StoreTypes' /\ TableInv' /\ WorkersInv'
    <3>1. UNCHANGED <<reading, stopped>> /\ EndRead(c)
      BY <2>5 DEF DirectBundleEnds, DirectReadEnds, pool
    <3> QED
      BY <3>1, ClientReadStep
  <2>6. ASSUME NEW c \in Clients, DemandReturns(c) \/ Close(c), UNCHANGED storeVars
        PROVE  UNCHANGED <<storeVars, reading, stopped>>
    BY <2>6 DEF DemandReturns, Close, pool
  <2>7. ASSUME NEW c \in Clients, CloseRuntime(c)
        PROVE  StoreTypes' /\ TableInv' /\ WorkersInv'
    BY <2>7, CloseRuntimeStep
  <2>8. CASE UNCHANGED vars
    <3>1. UNCHANGED <<storeVars, reading, stopped>>
      BY <2>8 DEF vars, loaderVars, pool
    <3> QED
      BY <3>1, IdleStoreStep
  <2> QED
    BY <2>1, <2>2, <2>3, <2>4, <2>5, <2>6, <2>7, <2>8, IdleStoreStep DEF StoreNext
<1> QED
  BY <1>1, <1>2 DEF StoreInv

LEMMA StoreInvInitially ==
  ASSUME StoreInit
  PROVE  StoreInv
<1>1. LoaderInv
  BY LoaderInvInitially DEF StoreInit
<1>2. StoreTypes /\ TableInv
  BY DEF StoreInit, StoreTypes, TableInv
<1>3. WorkersInv
  BY DEF StoreInit, Init, WorkersInv, Threads
<1> QED
  BY <1>1, <1>2, <1>3 DEF StoreInv

THEOREM StoreInvariance == StoreSpec => []StoreInv
BY StoreInvInitially, StoreInvInductive, PTL DEF StoreSpec
--------------------------------------------------------------------------------
\* A worker reads from the shard it means to, around other threads' opens and the close
\* of the runtime, and no shard is open twice.
THEOREM ReadsAreFromTheirShards == StoreSpec => []StoreOutlivesItsReads
<1>1. ASSUME StoreInv
      PROVE  StoreOutlivesItsReads
  <2>1. \A w \in Workers : held[w] # Nothing => opened[held[w].fd] = held[w].shard
    BY <1>1 DEF StoreInv, WorkersInv
  <2>2. \A d, e \in Descriptors : opened[d] = opened[e] /\ opened[d] # None => d = e
    BY <1>1 DEF StoreInv, TableInv
  <2> QED
    BY <2>1, <2>2 DEF StoreOutlivesItsReads
<1> QED
  BY <1>1, StoreInvariance, PTL

\* When the close of the runtime returns, nothing is being read or waiting to be, and no
\* descriptor is open.
THEOREM NothingIsLeftOnceClosed == StoreSpec => QuietOnceClosed
<1> DEFINE Quiet ==
      \A c \in Clients :
        doing[c] = "closing" /\ doing'[c] = "out"
          => /\ \A w \in Workers : left[w] = {} /\ reading[w] = None
             /\ \A r \in Requests : ~InQueue(r)
             /\ \A d \in Descriptors : opened'[d] = None
<1>1. ASSUME StoreInv, StoreNext
      PROVE  Quiet
  <2> SUFFICES ASSUME NEW c \in Clients, doing[c] = "closing", doing'[c] = "out"
               PROVE  /\ \A w \in Workers : left[w] = {} /\ reading[w] = None
                      /\ \A r \in Requests : ~InQueue(r)
                      /\ \A d \in Descriptors : opened'[d] = None
    OBVIOUS
  <2>1. doing \in [Clients -> {"out", "waiting", "direct", "closing"}]
    BY <1>1 DEF StoreInv, LoaderInv, PlacesInv, LoaderTypeOK
  <2>2. CloseRuntime(c)
    <3>1. ASSUME NEW e \in Clients, CloseRuntime(e)
          PROVE  e = c
      BY <2>1, <3>1 DEF CloseRuntime, CloseReturns, Returns
    <3>2. ASSUME NEW t \in Threads, Lookup(t) \/ Pread(t)
          PROVE  FALSE
      BY <3>2 DEF Lookup, Pread, loaderVars, calls
    <3>3. ASSUME NEW w \in Workers, TakeBundle(w) \/ BundleEnds(w) \/ Stop(w)
          PROVE  FALSE
      BY <3>3 DEF TakeBundle, BundleEnds, Take, ReadEnds, Stop, calls
    <3>4. ASSUME NEW e \in Clients, NEW k \in Keys, Prefetch(e, k) \/ DemandBundle(e, k)
          PROVE  FALSE
      BY <2>1, <3>4 DEF DemandBundle, Prefetch, Demand, calls
    <3>5. ASSUME NEW e \in Clients, DirectBundleEnds(e) \/ DemandReturns(e) \/ Close(e)
          PROVE  FALSE
      BY <2>1, <3>5 DEF DirectBundleEnds, DirectReadEnds, DemandReturns, Close, Returns
    <3> QED
      BY <1>1, <3>1, <3>2, <3>3, <3>4, <3>5 DEF StoreNext
  <2>3. stopped = Workers /\ CloseStore
    BY <2>2 DEF CloseRuntime, CloseReturns
  <2>4. \A w \in Workers : left[w] = {} /\ reading[w] = None
    BY <1>1, <2>3, StoppedWorkersAreIdle
  <2>5. \A r \in Requests : ~InQueue(r)
    <3>1. \A p \in Priorities : queue[p] = <<>>
      BY <1>1, <2>3, LoaderAssumption DEF StoreInv, LoaderInv, PlacesInv, StopsComeLast
    <3> QED
      BY <3>1 DEF InQueue
  <2>6. \A d \in Descriptors : opened'[d] = None
    BY <1>1, <2>3, CloseStoreClosesAll
  <2> QED
    BY <2>4, <2>5, <2>6
<1>2. ASSUME StoreInv, [StoreNext]_vars
      PROVE  [Quiet]_vars
  BY <1>1, <1>2
<1> QED
  BY <1>2, StoreInvariance, PTL DEF StoreSpec, QuietOnceClosed
================================================================================
