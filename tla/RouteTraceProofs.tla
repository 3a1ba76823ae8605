--------------------------- MODULE RouteTraceProofs ----------------------------
(***************************************************************************)
(* Theorems about traces and predicted reads, for all tasks, models,       *)
(* experts, sizes and limits: what a trace leaves, that it has no token of *)
(* a layer twice, and the bounds of what is read ahead.                    *)
(***************************************************************************)
EXTENDS RouteTrace, FiniteSetTheorems, SequenceTheorems, TLAPS

Phases == {"prefill", "decode"}
Calls == [phase : Phases, first : Nat, count : Nat \ {0}]
Events == [phase : Phases, token : Nat, layer : Nat, experts : SUBSET Experts]

TraceTypes ==
  /\ stage \in {"off", "tracing", "closed", "failed", "killed", "used"}
  /\ stage # "used" => task \in Tasks
  /\ wrapped \in BOOLEAN /\ torn \in BOOLEAN
  /\ nextToken \in Nat /\ layer \in Nat /\ remaining \in Nat /\ generated \in Nat
  /\ call \in Calls \cup {NoCall}
  /\ events \in Seq(Events) /\ lines \in Nat

\* Calls are made while the trace is open, and until then every event is a whole line.
OpenInv ==
  /\ call # NoCall => stage = "tracing"
  /\ stage \in {"off", "tracing"} => lines = Len(events) /\ ~torn
  /\ lines <= Len(events)
  /\ TraceLeavesNothingBehind

Has(s, t, l) == \E i \in DOMAIN s : s[i].token = t /\ s[i].layer = l

\* The events of the call that runs are of the layers it has passed.
CallInv ==
  call # NoCall =>
    /\ ~AllGenerated /\ call.phase = Phase /\ call.count = NextCount
    /\ call.first + call.count = nextToken
    /\ layer <= task.layers
    /\ \A i \in DOMAIN events : events[i].token >= call.first => events[i].layer < layer
    /\ \A t \in call.first .. nextToken - 1, l \in 0 .. layer - 1 : Has(events, t, l)

Distinct(s) ==
  \A i, j \in DOMAIN s : i # j => <<s[i].token, s[i].layer>> # <<s[j].token, s[j].layer>>

\* The tokens of the calls that ended: each has an event of every layer.
Boundary == IF call = NoCall THEN nextToken ELSE call.first
WholeTokens(T) ==
  /\ T \subseteq 0 .. Boundary - 1
  /\ Cardinality(T) = task.prompt - remaining + generated
  /\ \A t \in T, l \in 0 .. task.layers - 1 : Has(events, t, l)

DenseInv ==
  /\ \A i \in DOMAIN events : events[i].token < nextToken
  /\ Distinct(events)
  /\ trained # "conflict"
  /\ stage # "used" =>
       /\ remaining <= task.prompt
       /\ \E T : WholeTokens(T)
  /\ stage = "closed" => AllGenerated

\* The predictor an engine serves stays, and what was read ahead is what it schedules for
\* the rows observed.
ServeInv ==
  /\ served \in Nat
  /\ served # 0 => trained = "ok" /\ served = predictor.layers
  /\ offer.experts # {} =>
       /\ served # 0 /\ offer.layer \in Nat \ {0}
       /\ IsFiniteSet(DOMAIN offer.rows) /\ offer.experts \subseteq Experts
       /\ Schedules(offer.rows, Scores(offer.layer - 1, offer.rows), offer.experts)

TraceInv == TraceTypes /\ OpenInv /\ CallInv /\ DenseInv
--------------------------------------------------------------------------------
(***************************************************************************)
(* What a call takes, and what it adds to the events.                      *)
(***************************************************************************)

LEMMA MinOfTwo ==
  ASSUME NEW a \in Int, NEW b \in Int
  PROVE  Min({a, b}) \in {a, b} /\ Min({a, b}) <= a /\ Min({a, b}) <= b
<1>1. \E x \in {a, b} : \A y \in {a, b} : x <= y
  <2>1. CASE a <= b
    BY <2>1
  <2>2. CASE b <= a
    BY <2>2
  <2> QED
    BY <2>1, <2>2
<1> QED
  BY <1>1 DEF Min

\* A call of the greedy generation takes some of what is left of the prompt, or one token.
LEMMA CountOfACall ==
  ASSUME TraceTypes, stage # "used"
  PROVE  /\ NextCount \in Nat \ {0}
         /\ remaining > 0 => NextCount <= remaining
         /\ remaining = 0 => NextCount = 1
<1>1. StepSize \in Nat \ {0} /\ remaining \in Nat
  BY RouteAssumption DEF TraceTypes
<1>2. Min({StepSize, remaining - 1}) \in {StepSize, remaining - 1}
      /\ Min({StepSize, remaining - 1}) <= remaining - 1
  BY <1>1, MinOfTwo
<1> QED
  BY <1>1, <1>2 DEF NextCount

LEMMA TasksAreTyped ==
  ASSUME TraceTypes, stage # "used"
  PROVE  task.layers \in Nat \ {0} /\ task.prompt \in Nat \ {0} /\ task.tokens \in Nat
BY RouteAssumption DEF TraceTypes

LEMMA RowsAreExperts == \A r \in Rows : r \in SUBSET Experts
BY DEF Rows

\* The events after some are added.
LEMMA EventsAdded ==
  ASSUME NEW s \in Seq(Events), NEW n \in Nat, NEW f \in [1 .. n -> Events]
  PROVE  /\ s \o f \in Seq(Events)
         /\ Len(s \o f) = Len(s) + n
         /\ DOMAIN (s \o f) = 1 .. Len(s) + n
         /\ \A i \in DOMAIN s : i \in DOMAIN (s \o f) /\ (s \o f)[i] = s[i]
         /\ \A i \in 1 .. n : Len(s) + i \in DOMAIN (s \o f) /\ (s \o f)[Len(s) + i] = f[i]
         /\ \A i \in DOMAIN (s \o f) :
              i \in DOMAIN s \/ (i - Len(s) \in 1 .. n /\ (s \o f)[i] = f[i - Len(s)])
<1>1. f \in Seq(Events) /\ Len(f) = n /\ Len(s) \in Nat /\ DOMAIN s = 1 .. Len(s)
  BY IsASeq
<1> HIDE DEF Events
<1> QED
  BY <1>1

\* A wrapper of a block adds events of the layer the call has reached, of its tokens in
\* order.
Adds(n, added) ==
  /\ added \in [1 .. n -> Events]
  /\ \A i \in 1 .. n : added[i].token = call.first + i - 1 /\ added[i].layer = layer

LEMMA AddedEvents ==
  ASSUME TraceTypes, call # NoCall, NEW n \in 1 .. call.count, NEW rows \in [1 .. n -> Rows]
  PROVE  Adds(n, [i \in 1 .. n |-> Event(i, rows[i])])
<1>1. call.first \in Nat /\ call.phase \in Phases /\ call.count \in Nat /\ layer \in Nat
  BY DEF TraceTypes, Calls
<1>2. \A i \in 1 .. n : Event(i, rows[i]) \in Events /\ Event(i, rows[i]).layer = layer
                        /\ Event(i, rows[i]).token = call.first + i - 1
  BY <1>1, RowsAreExperts DEF Event, Events
<1> QED
  BY <1>2 DEF Adds

\* No token of a layer is recorded twice: the call had no event of this layer.
LEMMA StillDistinct ==
  ASSUME TraceTypes, CallInv, DenseInv, call # NoCall,
         NEW n \in 1 .. call.count, NEW added, Adds(n, added)
  PROVE  /\ Distinct(events \o added)
         /\ \A i \in DOMAIN (events \o added) :
              /\ (events \o added)[i].token < nextToken
              /\ (events \o added)[i].token >= call.first =>
                   (events \o added)[i].layer < layer + 1
<1> DEFINE s == events \o added
<1>1. /\ call.first \in Nat /\ call.count \in Nat /\ layer \in Nat /\ nextToken \in Nat
      /\ events \in Seq(Events) /\ added \in [1 .. n -> Events]
      /\ call.first + call.count = nextToken
  BY DEF TraceTypes, Calls, CallInv, Adds
<1>2. /\ \A i \in DOMAIN events : i \in DOMAIN s /\ s[i] = events[i]
      /\ \A i \in DOMAIN s :
           i \in DOMAIN events \/ (i - Len(events) \in 1 .. n /\ s[i] = added[i - Len(events)])
      /\ DOMAIN s = 1 .. Len(events) + n /\ Len(events) \in Nat
  BY <1>1, EventsAdded, LenProperties
<1>3. \A i \in DOMAIN events :
        /\ events[i].token \in Nat /\ events[i].layer \in Nat
        /\ events[i].token < nextToken
        /\ events[i].token >= call.first => events[i].layer < layer
  <2>1. \A i \in DOMAIN events : events[i] \in Events
    BY <1>1, ElementOfSeq, LenProperties
  <2>2. \A e \in Events : e.token \in Nat /\ e.layer \in Nat
    BY DEF Events
  <2>3. \A i \in DOMAIN events : events[i].token < nextToken
    BY DEF DenseInv
  <2>4. \A i \in DOMAIN events : events[i].token >= call.first => events[i].layer < layer
    BY DEF CallInv
  <2> QED
    BY <2>1, <2>2, <2>3, <2>4
<1>4. \A i \in DOMAIN s :
        \/ i \in DOMAIN events /\ s[i] = events[i]
        \/ /\ i - Len(events) \in 1 .. n
           /\ s[i].token = call.first + (i - Len(events)) - 1 /\ s[i].layer = layer
  BY <1>2 DEF Adds
<1> HIDE DEF s
<1>5. ASSUME NEW i \in DOMAIN s, NEW j \in DOMAIN s, i # j,
             s[i].token = s[j].token, s[i].layer = s[j].layer
      PROVE  FALSE
  <2>1. CASE i \in DOMAIN events /\ s[i] = events[i] /\ j \in DOMAIN events /\ s[j] = events[j]
    BY <1>5, <2>1, Zenon DEF DenseInv, Distinct
  <2>2. CASE /\ i \in DOMAIN events /\ s[i] = events[i]
             /\ j - Len(events) \in 1 .. n
             /\ s[j].token = call.first + (j - Len(events)) - 1 /\ s[j].layer = layer
    <3>1. s[i].token \in Nat /\ (s[i].layer < layer \/ s[i].token < call.first)
      BY <1>1, <1>3, <2>2
    <3> QED
      BY <1>1, <1>3, <1>5, <2>2, <3>1
  <2>3. CASE /\ j \in DOMAIN events /\ s[j] = events[j]
             /\ i - Len(events) \in 1 .. n
             /\ s[i].token = call.first + (i - Len(events)) - 1 /\ s[i].layer = layer
    <3>1. s[j].token \in Nat /\ (s[j].layer < layer \/ s[j].token < call.first)
      BY <1>1, <1>3, <2>3
    <3> QED
      BY <1>1, <1>3, <1>5, <2>3, <3>1
  <2>4. CASE /\ j - Len(events) \in 1 .. n /\ i - Len(events) \in 1 .. n
             /\ s[i].token = call.first + (i - Len(events)) - 1
             /\ s[j].token = call.first + (j - Len(events)) - 1
    <3>1. i \in Int /\ j \in Int /\ Len(events) \in Nat
      BY <1>2
    <3>2. call.first + (i - Len(events)) - 1 = call.first + (j - Len(events)) - 1
      BY <1>5, <2>4, Zenon
    <3>3. call.first \in Int /\ i # j
      BY <1>1, <1>5
    <3> QED
      BY <3>1, <3>2, <3>3
  <2> QED
    BY <1>4, <2>1, <2>2, <2>3, <2>4
<1>6. ASSUME NEW i \in DOMAIN s
      PROVE  s[i].token < nextToken /\ (s[i].token >= call.first => s[i].layer < layer + 1)
  <2>1. CASE i \in DOMAIN events /\ s[i] = events[i]
    <3>1. /\ events[i].layer \in Nat /\ events[i].token < nextToken
          /\ events[i].token >= call.first => events[i].layer < layer
      BY <1>3, <2>1
    <3> QED
      BY <1>1, <2>1, <3>1
  <2>2. CASE /\ i - Len(events) \in 1 .. n
             /\ s[i].token = call.first + (i - Len(events)) - 1 /\ s[i].layer = layer
    BY <1>1, <2>2
  <2> QED
    BY <1>4, <2>1, <2>2
<1> QED
  BY <1>5, <1>6 DEF Distinct, s

\* What the events have they keep, and a wrapper adds its layer for each of its tokens.
LEMMA HasMore ==
  ASSUME TraceTypes, call # NoCall, NEW n \in 1 .. call.count, NEW added, Adds(n, added)
  PROVE  /\ \A t, l : Has(events, t, l) => Has(events \o added, t, l)
         /\ \A t \in call.first .. call.first + n - 1 : Has(events \o added, t, layer)
<1> DEFINE s == events \o added
<1>1. /\ call.first \in Nat /\ call.count \in Nat
      /\ events \in Seq(Events) /\ added \in [1 .. n -> Events]
  BY DEF TraceTypes, Calls, Adds
<1>2. /\ \A i \in DOMAIN events : i \in DOMAIN s /\ s[i] = events[i]
      /\ \A i \in 1 .. n : Len(events) + i \in DOMAIN s /\ s[Len(events) + i] = added[i]
  BY <1>1, EventsAdded
<1> HIDE DEF s
<1>3. ASSUME NEW t \in call.first .. call.first + n - 1
      PROVE  Has(s, t, layer)
  <2>1. t - call.first + 1 \in 1 .. n /\ call.first + (t - call.first + 1) - 1 = t
    BY <1>1
  <2>2. /\ Len(events) + (t - call.first + 1) \in DOMAIN s
        /\ s[Len(events) + (t - call.first + 1)].token = t
        /\ s[Len(events) + (t - call.first + 1)].layer = layer
    BY <1>2, <2>1 DEF Adds
  <2> QED
    BY <2>2 DEF Has
<1>4. \A t, l : Has(events, t, l) => Has(s, t, l)
  BY <1>2, Zenon DEF Has
<1> QED
  BY <1>3, <1>4 DEF s

\* The events a step adds, if it adds some: of the first n tokens of the call.
LEMMA RouteLayerAdds ==
  ASSUME TraceTypes, RouteLayer
  PROVE  \E added : Adds(call.count, added) /\ events' = events \o added
                    /\ call.count \in 1 .. call.count
<1>1. PICK rows \in [1 .. call.count -> Rows] :
        events' = events \o [i \in 1 .. call.count |-> Event(i, rows[i])]
  BY DEF RouteLayer
<1>2. call # NoCall /\ call.count \in 1 .. call.count
  BY DEF RouteLayer, TraceTypes, Calls
<1> QED
  BY <1>1, <1>2, AddedEvents

LEMMA LineFailsAdds ==
  ASSUME TraceTypes, LineFails
  PROVE  \E n \in 1 .. call.count : \E added :
           Adds(n, added) /\ events' = events \o added /\ lines' = Len(events') - 1
<1>1. PICK n \in 1 .. call.count, row \in Rows :
        /\ events' = events \o [i \in 1 .. n |-> Event(i, row)]
        /\ lines' = Len(events') - 1
  BY DEF LineFails
<1> DEFINE rows == [k \in 1 .. n |-> row]
<1>2. call # NoCall /\ rows \in [1 .. n -> Rows]
  BY DEF LineFails
<1>3. Adds(n, [i \in 1 .. n |-> Event(i, rows[i])])
  <2> HIDE DEF rows
  <2> QED
    BY <1>2, AddedEvents
<1>4. [i \in 1 .. n |-> Event(i, rows[i])] = [i \in 1 .. n |-> Event(i, row)]
  OBVIOUS
<1> QED
  BY <1>1, <1>3, <1>4
--------------------------------------------------------------------------------
(***************************************************************************)
(* The invariant, conjunct by conjunct.                                    *)
(***************************************************************************)

\* What the engine does with the predictor leaves the trace alone.
Serves == UNCHANGED traceVars /\ trained' \in {trained, "refused"}

LEMMA ServingSteps ==
  ASSUME Serve \/ Observe \/ UNCHANGED vars
  PROVE  Serves
BY DEF Serve, Observe, vars, servingVars, Serves

LEMMA TypesKept ==
  ASSUME TraceInv, [Next]_vars
  PROVE  TraceTypes'
<1> USE DEF TraceInv
<1>1. CASE Open
  BY <1>1 DEF Open, TraceTypes
<1>2. CASE BeginCall
  <2>1. NextCount \in Nat \ {0} /\ nextToken \in Nat
    BY <1>2, CountOfACall DEF BeginCall, TraceTypes
  <2>2. call' \in Calls
    BY <1>2, <2>1 DEF BeginCall, Calls, Phases, Phase
  <2> QED
    BY <1>2, <2>1, <2>2 DEF BeginCall, TraceTypes
<1>3. CASE RouteLayer
  <2>1. PICK added : Adds(call.count, added) /\ events' = events \o added
                     /\ call.count \in 1 .. call.count
    BY <1>3, RouteLayerAdds
  <2>2. call.count \in Nat /\ events \in Seq(Events)
    BY <1>3 DEF RouteLayer, TraceTypes, Calls
  <2>3. events' \in Seq(Events)
    BY <2>1, <2>2, EventsAdded DEF Adds
  <2>4. lines' = Len(events') /\ layer' \in Nat
    BY <1>3 DEF RouteLayer, TraceTypes
  <2>5. lines' \in Nat
    BY <2>3, <2>4, LenProperties
  <2> QED
    BY <1>3, <2>3, <2>4, <2>5 DEF RouteLayer, TraceTypes
<1>4. CASE CallEnds
  <2>1. /\ call.phase = Phase /\ call.count = NextCount /\ call.phase \in Phases
        /\ call.count \in Nat
    BY <1>4 DEF CallEnds, CallInv, TraceTypes, Calls
  <2>2. call.phase = "prefill" => remaining > 0
    BY <2>1 DEF Phase
  <2>3. remaining' \in Nat /\ generated' \in Nat
    BY <1>4, <2>1, <2>2, CountOfACall DEF CallEnds, TraceTypes, OpenInv
  <2> QED
    BY <1>4, <2>3 DEF CallEnds, TraceTypes
<1>5. CASE CallRaises
  BY <1>5 DEF CallRaises, Unwinds, TraceTypes, OpenInv
<1>6. CASE LineFails
  <2>0. PICK n \in 1 .. call.count : \E added :
          Adds(n, added) /\ events' = events \o added /\ lines' = Len(events') - 1
    BY <1>6, LineFailsAdds
  <2>1. PICK added : Adds(n, added) /\ events' = events \o added /\ lines' = Len(events') - 1
    BY <2>0
  <2>2. call.count \in Nat /\ events \in Seq(Events)
    BY <1>6 DEF LineFails, TraceTypes, Calls
  <2>3. events' \in Seq(Events) /\ Len(events') = Len(events) + n
    BY <2>1, <2>2, EventsAdded DEF Adds
  <2>4. lines' \in Nat
    BY <2>1, <2>2, <2>3, LenProperties
  <2> QED
    BY <1>6, <2>3, <2>4 DEF LineFails, Unwinds, TraceTypes, OpenInv
<1>7. CASE Kill
  BY <1>7 DEF Kill, TraceTypes
<1>8. CASE Finish
  BY <1>8 DEF Finish, TraceTypes
<1>9. CASE Train
  <2>1. events' \in Seq(Events)
    BY <1>9, EmptySeq DEF Train
  <2> QED
    BY <1>9, <2>1 DEF Train, TraceTypes
<1>10. CASE Serve \/ Observe \/ UNCHANGED vars
  BY <1>10, ServingSteps DEF Serves, traceVars, TraceTypes
<1> QED
  BY <1>1, <1>2, <1>3, <1>4, <1>5, <1>6, <1>7, <1>8, <1>9, <1>10 DEF Next

\* An exception, a kill or the end leaves the contexts; a line that fails is the last.
LEMMA OpenKept ==
  ASSUME TraceInv, [Next]_vars
  PROVE  OpenInv'
<1> USE DEF TraceInv
<1>0. Len(events) \in Nat
  BY LenProperties DEF TraceTypes
<1>1. CASE Open
  BY <1>1 DEF Open, OpenInv, TraceLeavesNothingBehind
<1>2. CASE BeginCall
  BY <1>2 DEF BeginCall, OpenInv, TraceLeavesNothingBehind
<1>3. CASE RouteLayer
  BY <1>3 DEF RouteLayer, OpenInv, TraceLeavesNothingBehind
<1>4. CASE CallEnds
  BY <1>4 DEF CallEnds, OpenInv, TraceLeavesNothingBehind
<1>5. CASE CallRaises
  BY <1>0, <1>5 DEF CallRaises, Unwinds, OpenInv, TraceLeavesNothingBehind
<1>6. CASE LineFails
  <2>1. Len(events') \in Nat /\ lines' = Len(events') - 1
    BY <1>6, TypesKept, LineFailsAdds, LenProperties DEF TraceTypes, Next
  <2> QED
    BY <1>6, <2>1 DEF LineFails, Unwinds, OpenInv, TraceLeavesNothingBehind
<1>7. CASE Kill
  BY <1>0, <1>7 DEF Kill, OpenInv, TraceLeavesNothingBehind
<1>8. CASE Finish
  BY <1>0, <1>8 DEF Finish, OpenInv, TraceLeavesNothingBehind
<1>9. CASE Train
  <2>1. Len(events') = 0 /\ lines' = 0 /\ stage' = "used" /\ ~torn' /\ call' = NoCall
    BY <1>9, EmptySeq DEF Train, Trains, OpenInv
  <2> QED
    BY <2>1 DEF OpenInv, TraceLeavesNothingBehind
<1>10. CASE Serve \/ Observe \/ UNCHANGED vars
  BY <1>10, ServingSteps DEF Serves, traceVars, OpenInv, TraceLeavesNothingBehind
<1> QED
  BY <1>1, <1>2, <1>3, <1>4, <1>5, <1>6, <1>7, <1>8, <1>9, <1>10 DEF Next

LEMMA CallKept ==
  ASSUME TraceInv, [Next]_vars
  PROVE  CallInv'
<1> USE DEF TraceInv
<1>1. CASE BeginCall
  <2>1. /\ nextToken \in Nat /\ NextCount \in Nat \ {0}
        /\ task.layers \in Nat
        /\ \A i \in DOMAIN events : events[i].token < nextToken
        /\ \A i \in DOMAIN events : events[i].token \in Nat
    <3>1. \A i \in DOMAIN events : events[i] \in Events
      BY ElementOfSeq, LenProperties DEF TraceTypes
    <3>2. \A i \in DOMAIN events : events[i].token \in Nat
      BY <3>1 DEF Events
    <3>3. nextToken \in Nat /\ NextCount \in Nat \ {0} /\ task.layers \in Nat
      BY <1>1, CountOfACall, TasksAreTyped DEF BeginCall, TraceTypes
    <3> QED
      BY <3>2, <3>3 DEF DenseInv
  <2>2. /\ call'.first = nextToken /\ call'.count = NextCount /\ call'.phase = Phase
        /\ nextToken' = nextToken + NextCount /\ layer' = 0 /\ events' = events
    BY <1>1 DEF BeginCall
  <2>3. ~AllGenerated' /\ Phase' = Phase /\ NextCount' = NextCount /\ task' = task
    BY <1>1 DEF BeginCall, AllGenerated, Phase, NextCount
  <2>4. \A i \in DOMAIN events' : ~(events'[i].token >= call'.first)
    BY <2>1, <2>2
  <2>5. 0 .. layer' - 1 = {}
    BY <2>2
  <2>6. call'.first + call'.count = nextToken' /\ layer' <= task'.layers
    BY <2>1, <2>2, <2>3
  <2> QED
    BY <2>2, <2>3, <2>4, <2>5, <2>6, Zenon DEF CallInv
<1>2. CASE RouteLayer
  <2>1. PICK added : Adds(call.count, added) /\ events' = events \o added
                     /\ call.count \in 1 .. call.count
    BY <1>2, RouteLayerAdds
  <2>2. /\ call # NoCall /\ call.first \in Nat /\ call.count \in Nat /\ layer \in Nat
        /\ layer < task.layers /\ layer' = layer + 1
        /\ call.first + call.count = nextToken /\ nextToken' = nextToken
        /\ call' = call /\ task' = task /\ remaining' = remaining /\ generated' = generated
    BY <1>2 DEF RouteLayer, TraceTypes, Calls, CallInv
  <2>3. \A i \in DOMAIN events' : events'[i].token >= call'.first => events'[i].layer < layer'
    BY <2>1, <2>2, StillDistinct
  <2>4. ASSUME NEW t \in call'.first .. nextToken' - 1, NEW l \in 0 .. layer' - 1
        PROVE  Has(events', t, l)
    <3>1. CASE l \in 0 .. layer - 1
      <4>1. Has(events, t, l)
        BY <2>2, <3>1 DEF CallInv
      <4> QED
        BY <2>1, <2>2, <4>1, HasMore
    <3>2. CASE l = layer
      <4>1. t \in call.first .. call.first + call.count - 1
        BY <2>2
      <4> QED
        BY <2>1, <2>2, <3>2, <4>1, HasMore
    <3> QED
      BY <2>2, <3>1, <3>2
  <2>5. layer' <= task'.layers
    BY <2>2, TasksAreTyped DEF OpenInv
  <2>6. ~AllGenerated' /\ call'.phase = Phase' /\ call'.count = NextCount'
    BY <2>2 DEF CallInv, AllGenerated, Phase, NextCount
  <2>7. call'.first + call'.count = nextToken'
    BY <2>2
  <2> QED
    BY <2>3, <2>4, <2>5, <2>6, <2>7 DEF CallInv
<1>3. CASE CallEnds \/ CallRaises \/ LineFails \/ Kill
  BY <1>3 DEF CallEnds, CallRaises, LineFails, Kill, Unwinds, CallInv
<1>4. CASE Open \/ Finish \/ Train
  <2>1. call = NoCall /\ call' = call
    BY <1>4 DEF Open, Finish, Train, Trains, OpenInv
  <2> QED
    BY <2>1 DEF CallInv
<1>5. CASE Serve \/ Observe \/ UNCHANGED vars
  <2>1. UNCHANGED traceVars
    BY <1>5, ServingSteps DEF Serves
  <2>2. /\ AllGenerated' = AllGenerated /\ Phase' = Phase /\ NextCount' = NextCount
        /\ call' = call /\ nextToken' = nextToken /\ layer' = layer /\ task' = task
        /\ events' = events
    BY <2>1 DEF traceVars, AllGenerated, Phase, NextCount
  <2>3. \A t, l : Has(events', t, l) <=> Has(events, t, l)
    BY <2>2
  <2> QED
    BY <2>2, <2>3 DEF CallInv
<1> QED
  BY <1>1, <1>2, <1>3, <1>4, <1>5 DEF Next

\* Tokens up to a, and those from a to b.
LEMMA Stretches ==
  ASSUME NEW a \in Nat, NEW b \in Nat, a <= b
  PROVE  /\ 0 .. a - 1 \subseteq 0 .. b - 1 /\ a .. b - 1 \subseteq 0 .. b - 1
         /\ (0 .. a - 1) \cap (a .. b - 1) = {}
         /\ IsFiniteSet(0 .. a - 1) /\ IsFiniteSet(a .. b - 1)
         /\ Cardinality(a .. b - 1) = b - a
<1>1. b - 1 \in Int /\ a - 1 \in Int
  OBVIOUS
<1>2. IsFiniteSet(0 .. a - 1) /\ IsFiniteSet(a .. b - 1)
      /\ Cardinality(a .. b - 1) = IF a > b - 1 THEN 0 ELSE (b - 1) - a + 1
  BY <1>1, FS_Interval
<1> QED
  BY <1>2

\* The tokens that are whole stay so when events are added and nothing is counted.
LEMMA StillWhole ==
  ASSUME NEW T, WholeTokens(T), Boundary \in Nat, Boundary' \in Nat, Boundary <= Boundary',
         \A t, l : Has(events, t, l) => Has(events', t, l),
         task' = task, remaining' = remaining, generated' = generated
  PROVE  WholeTokens(T)'
<1>1. 0 .. Boundary - 1 \subseteq 0 .. Boundary' - 1
  BY Stretches
<1> HIDE DEF Boundary
<1> QED
  BY <1>1, Zenon DEF WholeTokens

LEMMA Boundaries ==
  ASSUME TraceTypes, CallInv
  PROVE  Boundary \in Nat /\ Boundary <= nextToken
BY DEF TraceTypes, CallInv, Boundary, Calls

\* A trace with distinct events has no conflict, nor a part of it.
LEMMA NoConflict ==
  ASSUME TraceInv, stage \in {"closed", "failed", "killed"}
  PROVE  ~Conflicts
<1>1. lines \in Nat /\ Len(events) \in Nat /\ DOMAIN events = 1 .. Len(events)
  BY LenProperties DEF TraceInv, TraceTypes
<1>2. lines <= Len(events)
  BY <1>1 DEF TraceInv, OpenInv
<1>3. \A i \in DOMAIN Recorded : i \in DOMAIN events /\ Recorded[i] = events[i]
  BY <1>1, <1>2, SubSeqProperties DEF Recorded, TraceInv, TraceTypes
<1> QED
  BY <1>3, Zenon DEF Conflicts, TraceInv, DenseInv, Distinct

LEMMA DenseKept ==
  ASSUME TraceInv, [Next]_vars
  PROVE  DenseInv'
<1> USE DEF TraceInv
<1>0. /\ Boundary \in Nat /\ Boundary <= nextToken /\ Boundary' \in Nat
      /\ nextToken \in Nat /\ nextToken' \in Nat
  <2>1. Boundary \in Nat /\ Boundary <= nextToken /\ nextToken \in Nat
    BY Boundaries DEF TraceTypes
  <2>2. TraceTypes' /\ CallInv'
    BY TypesKept, CallKept
  <2>3. nextToken' \in Nat /\ (call' = NoCall \/ call'.first \in Nat)
    BY <2>2 DEF TraceTypes, Calls
  <2>4. Boundary' \in Nat
    BY <2>3 DEF Boundary
  <2> QED
    BY <2>1, <2>3, <2>4
<1>1. CASE Open
  BY <1>1 DEF Open, DenseInv, Distinct, servingVars, WholeTokens, Boundary, Has
<1>2. CASE BeginCall
  <2>1. /\ NextCount \in Nat /\ nextToken' = nextToken + NextCount /\ stage # "used"
        /\ call = NoCall /\ call'.first = nextToken /\ UNCHANGED <<task, events, trained>>
        /\ stage' = "tracing" /\ UNCHANGED <<remaining, generated>>
    BY <1>2, CountOfACall DEF BeginCall, servingVars
  <2>2. \A i \in DOMAIN events' : events'[i].token < nextToken'
    <3>1. \A i \in DOMAIN events : events[i] \in Events
      BY ElementOfSeq, LenProperties DEF TraceTypes
    <3>2. \A i \in DOMAIN events : events[i].token \in Nat /\ events[i].token < nextToken
      BY <3>1 DEF Events, DenseInv
    <3> QED
      BY <1>0, <2>1, <3>2
  <2>3. Boundary <= Boundary'
    BY <1>0, <2>1 DEF Boundary
  <2>4. PICK T : WholeTokens(T)
    BY <2>1 DEF DenseInv
  <2>5. WholeTokens(T)'
    BY <1>0, <2>1, <2>3, <2>4, StillWhole
  <2> QED
    BY <2>1, <2>2, <2>5 DEF DenseInv, Distinct
<1>3. CASE RouteLayer
  <2>1. PICK added : Adds(call.count, added) /\ events' = events \o added
                     /\ call.count \in 1 .. call.count
    BY <1>3, RouteLayerAdds
  <2>2. /\ call # NoCall /\ UNCHANGED <<call, task, remaining, generated, trained, stage>>
        /\ UNCHANGED nextToken
    BY <1>3 DEF RouteLayer, servingVars
  <2>3. Distinct(events') /\ \A i \in DOMAIN events' : events'[i].token < nextToken
    BY <2>1, <2>2, StillDistinct
  <2>4. stage = "tracing"
    BY <2>2 DEF OpenInv
  <2>5. PICK T : WholeTokens(T)
    BY <2>4 DEF DenseInv
  <2>6. Boundary' = Boundary
    BY <2>2 DEF Boundary
  <2>7. WholeTokens(T)'
    BY <1>0, <2>1, <2>2, <2>5, <2>6, HasMore, StillWhole
  <2> QED
    BY <2>2, <2>3, <2>4, <2>7 DEF DenseInv
<1>4. CASE CallEnds
  <2>1. /\ call # NoCall /\ layer = task.layers /\ call' = NoCall
        /\ UNCHANGED <<task, nextToken, events, trained, stage>>
    BY <1>4 DEF CallEnds, servingVars
  <2>2. /\ stage = "tracing" /\ call.first + call.count = nextToken
        /\ call.first \in Nat /\ call.count \in Nat
        /\ call.phase = Phase /\ call.count = NextCount
    BY <2>1 DEF OpenInv, CallInv, TraceTypes, Calls
  <2>3. PICK T : WholeTokens(T)
    BY <2>2 DEF DenseInv
  <2> DEFINE more == call.first .. nextToken - 1
  <2>4. IsFiniteSet(T) /\ IsFiniteSet(more) /\ T \cap more = {}
        /\ Cardinality(more) = call.count /\ T \cup more \subseteq 0 .. nextToken - 1
    <3>1. T \subseteq 0 .. call.first - 1
      BY <2>1, <2>3 DEF WholeTokens, Boundary
    <3>2. /\ call.first <= nextToken /\ nextToken - call.first = call.count
          /\ call.first \in Nat /\ nextToken \in Nat
      BY <1>0, <2>2
    <3>3. /\ more \subseteq 0 .. nextToken - 1 /\ (0 .. call.first - 1) \cap more = {}
          /\ 0 .. call.first - 1 \subseteq 0 .. nextToken - 1
          /\ IsFiniteSet(0 .. call.first - 1) /\ IsFiniteSet(more)
          /\ Cardinality(more) = call.count
      BY <3>2, Stretches
    <3> HIDE DEF more
    <3>4. IsFiniteSet(T)
      BY <3>1, <3>3, FS_Subset
    <3> QED
      BY <3>1, <3>3, <3>4
  <2>5. Cardinality(T \cup more) = Cardinality(T) + call.count
    <3> HIDE DEF more
    <3>1. Cardinality(T \cup more)
            = Cardinality(T) + Cardinality(more) - Cardinality(T \cap more)
      BY <2>4, FS_Union
    <3>2. Cardinality(T) \in Nat /\ Cardinality(T \cap more) = 0
      BY <2>4, FS_CardinalityType, FS_EmptySet
    <3> QED
      BY <2>2, <2>4, <3>1, <3>2
  <2>6. /\ task.prompt - remaining' + generated' = task.prompt - remaining + generated + call.count
        /\ remaining' <= task.prompt
    <3>1. /\ remaining \in Nat /\ generated \in Nat /\ task.prompt \in Nat
          /\ remaining <= task.prompt
      BY <2>2, TasksAreTyped DEF TraceTypes, DenseInv
    <3>2. call.phase = "decode" => remaining = 0 /\ call.count = 1
      BY <2>2, <3>1, CountOfACall DEF Phase
    <3>3. call.phase \in {"prefill", "decode"}
      BY <2>2 DEF Phase
    <3> QED
      BY <1>4, <2>2, <3>1, <3>2, <3>3 DEF CallEnds
  <2>7. \A t \in T \cup more, l \in 0 .. task.layers - 1 : Has(events, t, l)
    BY <2>1, <2>3 DEF WholeTokens, CallInv
  <2>8. ASSUME NEW U, U = T \cup more
        PROVE  WholeTokens(U)'
    <3>1. Boundary' = nextToken
      BY <2>1 DEF Boundary
    <3>2. Cardinality(U) = task.prompt - remaining' + generated'
      BY <2>3, <2>5, <2>6, <2>8 DEF WholeTokens
    <3> HIDE DEF more
    <3>3. U \subseteq 0 .. Boundary' - 1
      BY <2>4, <2>8, <3>1
    <3>4. \A t \in U, l \in 0 .. task'.layers - 1 : Has(events', t, l)
      BY <2>1, <2>7, <2>8
    <3> QED
      BY <2>1, <3>2, <3>3, <3>4, Zenon DEF WholeTokens
  <2> HIDE DEF more
  <2>9. \E U : WholeTokens(U)'
    BY <2>8
  <2> QED
    BY <2>1, <2>2, <2>6, <2>9, Zenon DEF DenseInv, Distinct
<1>5. CASE CallRaises
  <2>1. /\ call' = NoCall /\ stage = "tracing" /\ stage' # "closed"
        /\ UNCHANGED <<task, nextToken, events, remaining, generated, trained>>
    BY <1>5 DEF CallRaises, Unwinds, servingVars, OpenInv
  <2>2. PICK T : WholeTokens(T)
    BY <2>1 DEF DenseInv
  <2>3. Boundary' = nextToken
    BY <2>1 DEF Boundary
  <2>4. WholeTokens(T)'
    BY <1>0, <2>1, <2>2, <2>3, StillWhole
  <2> QED
    BY <2>1, <2>4 DEF DenseInv, Distinct
<1>6. CASE LineFails
  <2>0. PICK n \in 1 .. call.count : \E added :
          Adds(n, added) /\ events' = events \o added /\ lines' = Len(events') - 1
    BY <1>6, LineFailsAdds
  <2>1. PICK added : Adds(n, added) /\ events' = events \o added /\ lines' = Len(events') - 1
    BY <2>0
  <2>2. /\ call # NoCall /\ call' = NoCall /\ stage = "tracing" /\ stage' = "failed"
        /\ UNCHANGED <<task, nextToken, remaining, generated, trained>>
    BY <1>6 DEF LineFails, Unwinds, servingVars, OpenInv
  <2>3. Distinct(events') /\ \A i \in DOMAIN events' : events'[i].token < nextToken
    BY <2>1, <2>2, StillDistinct
  <2>4. PICK T : WholeTokens(T)
    BY <2>2 DEF DenseInv
  <2>5. Boundary' = nextToken
    BY <2>2 DEF Boundary
  <2>6. WholeTokens(T)'
    BY <1>0, <2>1, <2>2, <2>4, <2>5, HasMore, StillWhole
  <2> QED
    BY <2>2, <2>3, <2>6 DEF DenseInv
<1>7. CASE Kill
  <2>1. /\ call' = NoCall /\ stage = "tracing" /\ stage' = "killed"
        /\ UNCHANGED <<task, nextToken, events, remaining, generated, trained>>
    BY <1>7 DEF Kill, servingVars
  <2>2. PICK T : WholeTokens(T)
    BY <2>1 DEF DenseInv
  <2>3. Boundary' = nextToken
    BY <2>1 DEF Boundary
  <2>4. WholeTokens(T)'
    BY <1>0, <2>1, <2>2, <2>3, StillWhole
  <2> QED
    BY <2>1, <2>4 DEF DenseInv, Distinct
<1>8. CASE Finish
  BY <1>8
     DEF Finish, DenseInv, Distinct, servingVars, WholeTokens, Boundary, Has, AllGenerated
<1>9. CASE Train
  <2>1. trained' # "conflict"
    BY <1>9, NoConflict DEF Train, Trains
  <2>2. stage' = "used" /\ events' = <<>>
    BY <1>9 DEF Train
  <2> QED
    BY <2>1, <2>2 DEF DenseInv, Distinct
<1>10. CASE Serve \/ Observe \/ UNCHANGED vars
  BY <1>10, ServingSteps
     DEF Serves, traceVars, DenseInv, Distinct, WholeTokens, Boundary, Has, AllGenerated
<1> QED
  BY <1>1, <1>2, <1>3, <1>4, <1>5, <1>6, <1>7, <1>8, <1>9, <1>10 DEF Next

THEOREM TraceInvariant == Spec => []TraceInv
<1>1. Init => TraceInv
  <2> SUFFICES ASSUME Init PROVE TraceInv
    OBVIOUS
  <2>1. events \in Seq(Events) /\ Len(events) = 0 /\ events = <<>>
    BY EmptySeq DEF Init
  <2>2. TraceTypes
    BY <2>1, RouteAssumption DEF Init, TraceTypes
  <2>3. WholeTokens({})
    <3>1. Boundary = 0 /\ remaining = task.prompt /\ generated = 0 /\ task.prompt \in Nat
      BY RouteAssumption DEF Init, Boundary
    <3> QED
      BY <3>1, FS_EmptySet DEF WholeTokens
  <2>4. DenseInv
    <3>1. remaining <= task.prompt
      BY RouteAssumption DEF Init
    <3> QED
      BY <2>1, <2>3, <3>1 DEF Init, DenseInv, Distinct
  <2> QED
    BY <2>1, <2>2, <2>4
       DEF Init, TraceInv, OpenInv, TraceLeavesNothingBehind, CallInv
<1>2. TraceInv /\ [Next]_vars => TraceInv'
  BY TypesKept, OpenKept, CallKept, DenseKept DEF TraceInv
<1> QED
  BY <1>1, <1>2, PTL DEF Spec

\* However a trace ends, by itself, by an exception, by a line that cannot be written or by
\* a kill (RouteTracer.__exit__, Qwen3MoeTraceSession.__exit__): the blocks are back, no call
\* is open, and at most the last event is missing from the file.
THEOREM TraceEndsCleanly == Spec => []TraceLeavesNothingBehind
<1>1. TraceInv => TraceLeavesNothingBehind
  BY DEF TraceInv, OpenInv
<1> QED
  BY <1>1, TraceInvariant, PTL

\* Whatever calls raise and are made again, no token of a layer is recorded twice, training
\* never meets a conflict, and a trace that ends by itself has every layer of every token
\* (model_call counts its tokens before they are routed).
THEOREM TraceIsDense == Spec => []TraceStaysDense
<1>1. TraceInv => TraceStaysDense
  <2> SUFFICES ASSUME TraceInv PROVE TraceStaysDense
    OBVIOUS
  <2>1. ASSUME stage = "closed"
        PROVE  \E ended \in SUBSET (0 .. nextToken - 1) :
                 /\ Cardinality(ended) = task.prompt + task.tokens
                 /\ \A t \in ended, l \in 0 .. task.layers - 1 :
                      \E i \in 1 .. lines : events[i].token = t /\ events[i].layer = l
    <3>1. /\ AllGenerated /\ call = NoCall /\ lines = Len(events)
          /\ DOMAIN events = 1 .. Len(events)
      BY <2>1, LenProperties
         DEF TraceInv, TraceTypes, DenseInv, OpenInv, TraceLeavesNothingBehind
    <3>2. PICK T : WholeTokens(T)
      BY <2>1 DEF TraceInv, DenseInv
    <3>3. T \subseteq 0 .. nextToken - 1
      BY <3>1, <3>2 DEF WholeTokens, Boundary
    <3>4. Cardinality(T) = task.prompt + task.tokens
      BY <2>1, <3>1, <3>2, TasksAreTyped DEF WholeTokens, AllGenerated, TraceInv
    <3>5. \A t \in T, l \in 0 .. task.layers - 1 :
            \E i \in 1 .. lines : events[i].token = t /\ events[i].layer = l
      BY <3>1, <3>2 DEF WholeTokens, Has
    <3> QED
      BY <3>3, <3>4, <3>5
  <2> QED
    BY <2>1, Zenon DEF TraceInv, DenseInv, Distinct, TraceStaysDense
<1> QED
  BY <1>1, TraceInvariant, PTL
--------------------------------------------------------------------------------
(***************************************************************************)
(* What is read ahead.  schedule takes the candidates one by one in their  *)
(* ranking; its limits hold of all it takes because they hold of the last. *)
(***************************************************************************)

\* Every set of naturals that is not empty has a least element: of the intervals up to its
\* elements one has no other inside it.
LEMMA LeastNatural ==
  ASSUME NEW T \in SUBSET Nat, T # {}
  PROVE  \E n \in T : \A m \in T : n <= m
<1> DEFINE I == {1 .. n : n \in T}
<1>1. I \subseteq FiniteSubsetsOf(Nat) /\ I # {}
  <2>1. \A n \in T : IsFiniteSet(1 .. n) /\ 1 .. n \subseteq Nat
    BY FS_Interval
  <2> QED
    BY <2>1 DEF FiniteSubsetsOf
<1>2. PICK x \in I : \A y \in I : <<y, x>> \notin StrictSubsetOrdering(Nat)
  <2> HIDE DEF I
  <2> QED
    BY <1>1, FS_StrictSubsetOrderingWellFounded, WFMin, Zenon
<1>3. PICK n \in T : x = 1 .. n
  OBVIOUS
<1>4. ASSUME NEW m \in T, ~(n <= m)
      PROVE  FALSE
  <2>1. 1 .. m \in I /\ 1 .. m \in SUBSET Nat /\ x \in SUBSET Nat
    BY <1>3
  <2>2. n \in 1 .. n /\ n \notin 1 .. m /\ 1 .. m \subseteq 1 .. n
    BY <1>4
  <2>3. <<1 .. m, x>> \in StrictSubsetOrdering(Nat)
    BY <1>3, <2>1, <2>2 DEF StrictSubsetOrdering
  <2> QED
    BY <1>2, <2>1, <2>3
<1> QED
  BY <1>4

\* A score is a number.
LEMMA ScoresAreNumbers ==
  ASSUME NEW l, NEW rows, IsFiniteSet(DOMAIN rows)
  PROVE  Scores(l, rows) \in [Experts -> Nat]
<1> DEFINE P == (DOMAIN rows) \X Experts
           Q == (DOMAIN rows) \X Experts \X (1 .. Unit)
           f == [x \in P \X (1 .. Unit) |-> <<x[1][1], x[1][2], x[2]>>]
<1>1. IsFiniteSet(P \X (1 .. Unit))
  <2>1. IsFiniteSet(Experts) /\ 1 \in Int /\ Unit \in Int
    BY RouteAssumption
  <2>2. IsFiniteSet(1 .. Unit)
    BY <2>1, FS_Interval
  <2>3. IsFiniteSet(P)
    BY <2>1, FS_Product
  <2> HIDE DEF P
  <2> QED
    BY <2>2, <2>3, FS_Product
<1>2. f \in Surjection(P \X (1 .. Unit), Q)
  <2>1. f \in [P \X (1 .. Unit) -> Q]
    OBVIOUS
  <2>2. ASSUME NEW y \in Q
        PROVE  \E x \in P \X (1 .. Unit) : f[x] = y
    <3>1. /\ <<<<y[1], y[2]>>, y[3]>> \in P \X (1 .. Unit)
          /\ y = <<y[1], y[2], y[3]>>
      OBVIOUS
    <3> QED
      BY <3>1
  <2> HIDE DEF f
  <2> QED
    BY <2>1, <2>2 DEF Surjection
<1>3. IsFiniteSet(Q)
  <2> HIDE DEF f, Q
  <2> QED
    BY <1>1, <1>2, FS_Surjection
<1>4. ASSUME NEW t \in Experts
      PROVE  Cardinality({x \in Q : x[2] \in rows[x[1]] /\ x[3] <= Gives(l, x[2], t)}) \in Nat
  <2> HIDE DEF Q
  <2> QED
    BY <1>3, FS_Subset, FS_CardinalityType
<1> QED
  BY <1>4 DEF Scores

\* The bytes of a finite set of experts: they add up, and more experts have more.
BytesSet(S) == UNION {{t} \X (1 .. Bytes[t]) : t \in S}

LEMMA BytesAreFinite ==
  ASSUME NEW S \in SUBSET Experts
  PROVE  IsFiniteSet(BytesSet(S)) /\ BytesOf(S) = Cardinality(BytesSet(S)) /\ BytesOf(S) \in Nat
<1> DEFINE D == {{t} \X (1 .. Bytes[t]) : t \in S}
           f == [t \in S |-> {t} \X (1 .. Bytes[t])]
<1>1. f \in Surjection(S, D)
  <2>1. f \in [S -> D] /\ \A d \in D : \E t \in S : f[t] = d
    OBVIOUS
  <2> HIDE DEF f, D
  <2> QED
    BY <2>1 DEF Surjection
<1>2. IsFiniteSet(D)
  <2>1. IsFiniteSet(S)
    BY RouteAssumption, FS_Subset
  <2> HIDE DEF f, D
  <2> QED
    BY <1>1, <2>1, FS_Surjection
<1>3. \A d \in D : IsFiniteSet(d)
  <2> SUFFICES ASSUME NEW t \in S PROVE IsFiniteSet({t} \X (1 .. Bytes[t]))
    OBVIOUS
  <2>1. Bytes[t] \in Int /\ 1 \in Int
    BY RouteAssumption
  <2>2. IsFiniteSet(1 .. Bytes[t]) /\ IsFiniteSet({t})
    BY <2>1, FS_Interval, FS_Singleton
  <2> QED
    BY <2>2, FS_Product
<1>4. IsFiniteSet(UNION D)
  <2> HIDE DEF D
  <2> QED
    BY <1>2, <1>3, FS_UNION
<1> QED
  BY <1>4, FS_CardinalityType DEF BytesSet, BytesOf

LEMMA BytesAddUp ==
  ASSUME NEW S \in SUBSET Experts, NEW t \in Experts \ S
  PROVE  BytesOf(S \cup {t}) = BytesOf(S) + Bytes[t]
<1> DEFINE D == {t} \X (1 .. Bytes[t])
<1>1. Bytes[t] \in Nat
  BY RouteAssumption
<1>2. IsFiniteSet(D) /\ Cardinality(D) = Bytes[t]
  <2>1. /\ IsFiniteSet({t}) /\ IsFiniteSet(1 .. Bytes[t])
        /\ Cardinality({t}) = 1 /\ Cardinality(1 .. Bytes[t]) = Bytes[t]
    <3>1. Bytes[t] \in Int /\ 1 \in Int
      BY <1>1
    <3>2. /\ IsFiniteSet(1 .. Bytes[t])
          /\ Cardinality(1 .. Bytes[t]) = IF 1 > Bytes[t] THEN 0 ELSE Bytes[t] - 1 + 1
      BY <3>1, FS_Interval
    <3> QED
      <4>1. Cardinality(1 .. Bytes[t]) = Bytes[t]
        BY <1>1, <3>2
      <4> QED
        BY <3>2, <4>1, FS_Singleton, Zenon
  <2>2. IsFiniteSet(D) /\ Cardinality(D) = 1 * Bytes[t]
    BY <2>1, FS_Product
  <2> QED
    BY <1>1, <2>2
<1>3. BytesSet(S \cup {t}) = BytesSet(S) \cup D
  BY DEF BytesSet
<1>4. BytesSet(S) \cap D = {}
  BY DEF BytesSet
<1> HIDE DEF D
<1>5. Cardinality(BytesSet(S) \cup D) = Cardinality(BytesSet(S)) + Cardinality(D) - 0
  BY <1>2, <1>4, BytesAreFinite, FS_Union, FS_EmptySet
<1>6. BytesOf(S \cup {t}) = Cardinality(BytesSet(S \cup {t}))
  BY BytesAreFinite
<1> QED
  <2>1. BytesOf(S) = Cardinality(BytesSet(S)) /\ BytesOf(S) \in Nat
    BY BytesAreFinite
  <2> QED
    <3>1. BytesOf(S \cup {t}) = BytesOf(S) + Cardinality(D) - 0
      BY <1>3, <1>5, <1>6, <2>1, Zenon
    <3>2. BytesOf(S) \in Int /\ Bytes[t] \in Int
      BY <1>1, <2>1
    <3> QED
      BY <1>2, <3>1, <3>2

\* A candidate that fits beside some of the chosen, fits beside fewer of them.
LEMMA FitsBesideFewer ==
  ASSUME NEW A, NEW B \in SUBSET Experts, A \subseteq B, NEW t \in Experts, Fits(B, t)
  PROVE  Fits(A, t)
<1>1. IsFiniteSet(B) /\ A \in SUBSET Experts
  BY RouteAssumption, FS_Subset
<1>2. Cardinality(A) <= Cardinality(B) /\ Cardinality(A) \in Nat /\ Cardinality(B) \in Nat
  BY <1>1, FS_Subset, FS_CardinalityType
<1>3. BytesSet(A) \subseteq BytesSet(B)
  BY DEF BytesSet
<1>4. BytesOf(A) <= BytesOf(B) /\ BytesOf(A) \in Nat /\ BytesOf(B) \in Nat
  BY <1>1, <1>3, BytesAreFinite, FS_Subset
<1>5. Bytes[t] \in Nat /\ MaxCandidates \in Nat /\ MaxBytes \in Nat
  BY RouteAssumption
<1> QED
  BY <1>2, <1>4, <1>5 DEF Fits

\* The candidates that are chosen have a last one in the ranking.
LEMMA LastOfTheRanking ==
  ASSUME NEW S \in SUBSET Experts, S # {}, NEW score \in [Experts -> Nat]
  PROVE  \E t \in S : S = {u \in S : Before(score, u, t)} \cup {t}
<1> DEFINE After(t) == {u \in S : Before(score, t, u)}
           Counts == {Cardinality(After(t)) : t \in S}
<1>1. \A t \in S : t \in Nat /\ score[t] \in Nat
  BY RouteAssumption
<1>2. \A t \in S : IsFiniteSet(After(t)) /\ Cardinality(After(t)) \in Nat
  BY RouteAssumption, FS_Subset, FS_CardinalityType
<1>3. PICK t \in S : \A u \in S : Cardinality(After(t)) <= Cardinality(After(u))
  <2>1. Counts \in SUBSET Nat /\ Counts # {}
    BY <1>2
  <2>2. PICK n \in Counts : \A m \in Counts : n <= m
    <3> HIDE DEF Counts
    <3> QED
      BY <2>1, LeastNatural
  <2> HIDE DEF After
  <2> QED
    BY <2>2
<1>4. ASSUME NEW u \in S, Before(score, t, u)
      PROVE  FALSE
  <2>1. After(u) \subseteq After(t)
    BY <1>1, <1>4 DEF Before
  <2>2. u \in After(t) /\ u \notin After(u)
    BY <1>1, <1>4 DEF Before
  <2> HIDE DEF After
  <2>3. Cardinality(After(u)) = Cardinality(After(t))
    BY <1>2, <1>3, <2>1, FS_Subset
  <2> QED
    BY <1>2, <2>1, <2>2, <2>3, FS_Subset
<1>5. \A u \in S : u = t \/ Before(score, u, t)
  BY <1>1, <1>4 DEF Before
<1> QED
  BY <1>5

\* What is chosen keeps the limits, and passes over no candidate that would have fitted
\* beside the better ones.
LEMMA ScheduleKeepsTheLimits ==
  ASSUME NEW rows, NEW score \in [Experts -> Nat], NEW S \in SUBSET Experts, S # {},
         Schedules(rows, score, S)
  PROVE  /\ Cardinality(S) <= MaxCandidates /\ BytesOf(S) <= MaxBytes
         /\ \A t \in S : Confident(rows, score, t) /\ score[t] > 0
         /\ \A t \in Experts \ S :
              Confident(rows, score, t) /\ score[t] > 0
                => ~Fits({u \in S : score[u] >= score[t]}, t)
<1>1. \A t \in S : /\ Confident(rows, score, t) /\ score[t] > 0
                   /\ Fits({u \in S : Before(score, u, t)}, t)
  BY DEF Schedules, Predicted
<1>2. Cardinality(S) <= MaxCandidates /\ BytesOf(S) <= MaxBytes
  <2>1. PICK t \in S : S = {u \in S : Before(score, u, t)} \cup {t}
    BY LastOfTheRanking
  <2> DEFINE others == {u \in S : Before(score, u, t)}
  <2>2. t \notin others /\ others \in SUBSET Experts /\ t \in Experts \ others
    <3>1. t \in Nat /\ score[t] \in Nat
      BY RouteAssumption
    <3>2. ~Before(score, t, t)
      BY <3>1 DEF Before
    <3> QED
      BY <3>2
  <2>3. Fits(others, t)
    BY <1>1
  <2>4. S = others \cup {t}
    BY <2>1
  <2> HIDE DEF others
  <2>5. IsFiniteSet(others) /\ Cardinality(others) \in Nat
    BY <2>2, RouteAssumption, FS_Subset, FS_CardinalityType
  <2>6. Cardinality(S) = Cardinality(others) + 1
    BY <2>2, <2>4, <2>5, FS_AddElement
  <2>7. BytesOf(S) = BytesOf(others) + Bytes[t]
    BY <2>2, <2>4, BytesAddUp
  <2>8. MaxCandidates \in Nat
    BY RouteAssumption
  <2> QED
    BY <2>3, <2>5, <2>6, <2>7, <2>8 DEF Fits
<1>3. ASSUME NEW t \in Experts \ S, Confident(rows, score, t), score[t] > 0,
             Fits({u \in S : score[u] >= score[t]}, t)
      PROVE  FALSE
  <2>1. {u \in S : Before(score, u, t)} \subseteq {u \in S : score[u] >= score[t]}
    <3> SUFFICES ASSUME NEW u \in S, Before(score, u, t) PROVE score[u] >= score[t]
      OBVIOUS
    <3>1. score[u] \in Nat /\ score[t] \in Nat
      OBVIOUS
    <3>2. score[u] > score[t] \/ score[u] = score[t]
      BY Zenon DEF Before
    <3> QED
      BY <3>1, <3>2
  <2>2. Fits({u \in S : Before(score, u, t)}, t)
    BY <1>3, <2>1, FitsBesideFewer
  <2> QED
    BY <1>3, <2>2 DEF Schedules, Predicted
<1> QED
  BY <1>1, <1>2, <1>3

\* After the last layer of the predictor there are no scores.
LEMMA NoScoreAfterTheLast ==
  ASSUME NEW l \in Nat, NEW rows, NEW t \in Experts, Scores(l, rows)[t] # 0
  PROVE  l < predictor.layers - 1
<1>1. SUFFICES ASSUME ~(l < predictor.layers - 1) PROVE FALSE
  OBVIOUS
<1>2. \A s : Gives(l, s, t) = 0
  BY <1>1 DEF Gives
<1>3. {x \in (DOMAIN rows) \X Experts \X (1 .. Unit) :
         x[2] \in rows[x[1]] /\ x[3] <= Gives(l, x[2], t)} = {}
  <2>1. \A x \in (DOMAIN rows) \X Experts \X (1 .. Unit) : x[3] \in 1 .. Unit
    OBVIOUS
  <2>2. \A n \in 1 .. Unit : ~(n <= 0)
    BY RouteAssumption
  <2> QED
    BY <1>2, <2>1, <2>2
<1>4. Scores(l, rows)[t] = Cardinality({})
  BY <1>3 DEF Scores
<1> QED
  BY <1>1, <1>4, FS_EmptySet

LEMMA ServeKept ==
  ASSUME ServeInv, [Next]_vars
  PROVE  ServeInv'
<1>1. CASE UNCHANGED <<served, trained, predictor, offer>>
  <2> DEFINE rows == offer.rows
             l == offer.layer - 1
  <2>1. Scores(l, rows)' = Scores(l, rows)
    BY <1>1 DEF Scores, Gives
  <2>2. ASSUME Schedules(rows, Scores(l, rows), offer.experts)
        PROVE  Schedules(rows, Scores(l, rows), offer.experts)'
    BY <1>1, <2>1, <2>2, Zenon DEF Schedules, Predicted, Confident, Before, Fits, BytesOf
  <2> QED
    BY <1>1, <2>2 DEF ServeInv
<1>2. CASE Train
  <2>1. trained = "none" /\ served' = served /\ offer' = offer
    BY <1>2 DEF Train, Trains
  <2> QED
    BY <2>1 DEF ServeInv
<1>3. CASE Serve
  <2>1. served = 0 /\ trained = "ok" /\ offer' = offer
    BY <1>3 DEF Serve
  <2>2. offer'.experts = {}
    BY <2>1 DEF ServeInv
  <2>3. served' \in Nat /\ (served' # 0 => trained' = "ok" /\ served' = predictor'.layers)
    BY <1>3, <2>1, RouteAssumption DEF Serve
  <2> QED
    BY <2>2, <2>3 DEF ServeInv
<1>4. CASE Observe
  <2>1. PICK l \in 0 .. served - 1, rows \in UNION {[1 .. n -> Rows] : n \in 1 .. MaxObserved},
             chosen \in SUBSET Experts :
          /\ Schedules(rows, Scores(l, rows), chosen)
          /\ offer' = [layer |-> l + 1, rows |-> rows, experts |-> chosen]
    BY <1>4 DEF Observe
  <2>2. /\ served # 0 /\ served' = served /\ trained' = trained /\ predictor' = predictor
        /\ offer'.layer = l + 1 /\ offer'.rows = rows /\ offer'.experts = chosen
    BY <1>4, <2>1 DEF Observe
  <2>3. IsFiniteSet(DOMAIN rows)
    <3>1. PICK n \in 1 .. MaxObserved : rows \in [1 .. n -> Rows]
      OBVIOUS
    <3>2. n \in Int /\ DOMAIN rows = 1 .. n
      BY <3>1
    <3> QED
      BY <3>2, FS_Interval
  <2>4. (l + 1) - 1 = l /\ l + 1 \in Nat \ {0}
    OBVIOUS
  <2>5. Scores(l, rows)' = Scores(l, rows)
    BY <2>2 DEF Scores, Gives
  <2>6. Schedules(rows, Scores(l, rows), chosen)'
    BY <2>1, <2>5, Zenon DEF Schedules, Predicted, Confident, Before, Fits, BytesOf
  <2>7. Schedules(offer.rows, Scores(offer.layer - 1, offer.rows), offer.experts)'
    BY <2>2, <2>4, <2>6, Zenon
  <2>8. offer'.layer \in Nat \ {0} /\ IsFiniteSet(DOMAIN offer'.rows)
        /\ offer'.experts \subseteq Experts
    BY <2>2, <2>3, <2>4
  <2> QED
    BY <2>2, <2>7, <2>8 DEF ServeInv
<1>5. ASSUME Next, ~(Train \/ Serve \/ Observe)
      PROVE  UNCHANGED <<served, trained, predictor, offer>>
  BY <1>5 DEF Next, Open, BeginCall, RouteLayer, CallEnds, CallRaises, LineFails, Kill, Finish,
              servingVars
<1> QED
  BY <1>1, <1>2, <1>3, <1>4, <1>5 DEF vars, servingVars

\* What a layer call reads ahead stays within max_candidates and max_bytes, is confident, is
\* of a layer the model has, and leaves out a confident candidate only for better ones
\* beside which it has no room (PredictivePrefetchScheduler.schedule).
THEOREM PredictionsKeepTheLimits == Spec => []PredictionsStayBounded
<1>1. Init => ServeInv
  BY DEF Init, ServeInv, NoOffer
<1>2. ServeInv /\ [Next]_vars => ServeInv'
  BY ServeKept
<1>3. ServeInv => PredictionsStayBounded
  <2> SUFFICES ASSUME ServeInv, offer.experts # {} PROVE PredictionsStayBounded
    BY DEF PredictionsStayBounded
  <2> DEFINE score == Scores(offer.layer - 1, offer.rows)
  <2>1. /\ served = predictor.layers /\ offer.layer \in Nat /\ offer.layer - 1 \in Nat
        /\ offer.experts \in SUBSET Experts /\ score \in [Experts -> Nat]
        /\ Schedules(offer.rows, score, offer.experts)
    BY ScoresAreNumbers DEF ServeInv
  <2>2. PICK t \in offer.experts : score[t] # 0
    <3> HIDE DEF score
    <3>1. \A t \in offer.experts : score[t] > 0
      BY <2>1, ScheduleKeepsTheLimits
    <3> QED
      BY <3>1
  <2>3. offer.layer - 1 < predictor.layers - 1
    BY <2>1, <2>2, NoScoreAfterTheLast
  <2>4. offer.layer < served
    <3>1. predictor.layers \in Int
      BY DEF ServeInv
    <3> QED
      BY <2>1, <2>3, <3>1
  <2> HIDE DEF score
  <2>5. /\ Cardinality(offer.experts) <= MaxCandidates /\ BytesOf(offer.experts) <= MaxBytes
        /\ \A u \in offer.experts : Confident(offer.rows, score, u)
        /\ \A u \in Experts \ offer.experts :
             Confident(offer.rows, score, u) /\ score[u] > 0
               => ~Fits({v \in offer.experts : score[v] >= score[u]}, u)
    BY <2>1, ScheduleKeepsTheLimits
  <2> QED
    BY <2>4, <2>5, Zenon DEF PredictionsStayBounded, score
<1> QED
  BY <1>1, <1>2, <1>3, PTL DEF Spec
================================================================================
