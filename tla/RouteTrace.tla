------------------------------- MODULE RouteTrace ------------------------------
(***************************************************************************)
(* From a trace of routes to predicted reads: the tracer and the session   *)
(* that replaces the model's sparse blocks (routing.py), the greedy        *)
(* generation that drives them, the training of a transition predictor     *)
(* from the trace file, and the scheduler that turns observed routes into  *)
(* prefetches within its limits (prefetch/predictive.py).                  *)
(*                                                                         *)
(* The tokens of one forward call pass each layer in turn; the experts a   *)
(* router picks are free.  A forward call can raise at any layer, a line   *)
(* can fail to be written, the process can be killed.  A caller that uses  *)
(* the tracer itself may catch the exception of a call and make the call   *)
(* again.  A confidence is a number of Units: a common multiple of what    *)
(* the counts are divided by, so that it is exact.                         *)
(***************************************************************************)
EXTENDS Integers, FiniteSets, SequencesExt

CONSTANTS
  Tasks,          \* what is traced: the layers of the model, the tokens of the prompt,
                  \* max_tokens, and whether a caller of its own drives the tracer
  Models,         \* the counts of layers of the models an engine may serve
  Experts,        \* the experts of a layer
  TopK,           \* the experts a router picks
  StepSize,       \* prefill_step_size
  Bytes,          \* the size of an expert's bundle
  MaxCandidates,  \* max_candidates, of one layer call
  MinConfidence,  \* min_confidence, in Units
  MaxBytes,       \* max_bytes, of one layer call
  Unit,           \* the confidence 1
  MaxFailures,    \* the bound on the calls that raise
  MaxObserved     \* the bound on the rows of one layer call of the engine

ASSUME RouteAssumption ==
  /\ \A t \in Tasks : /\ t.layers \in Nat \ {0} /\ t.prompt \in Nat \ {0}
                      /\ t.tokens \in Nat /\ t.direct \in BOOLEAN
  /\ Models \subseteq Nat /\ Experts \subseteq Nat /\ IsFiniteSet(Experts)
  /\ Bytes \in [Experts -> Nat \ {0}] /\ StepSize \in Nat \ {0}
  /\ MaxCandidates \in Nat \ {0} /\ MaxBytes \in Nat \ {0}
  /\ Unit \in Nat /\ MinConfidence \in 0 .. Unit

VARIABLES
  task,       \* what is traced
  stage,      \* what has become of the trace
  wrapped,    \* whether the blocks of the model are replaced
  nextToken,  \* _next_token_index
  call,       \* _active_call: its phase, its first token and their number
  layer,      \* the layer the tokens of the call have reached
  remaining,  \* the tokens of the prompt not yet prefilled
  generated,  \* the tokens decoded
  events,     \* the events recorded,
  lines,      \* how many of them the file has, and
  torn,       \* whether a part of a line follows
  failures,   \* the calls that raised
  trained,    \* what became of the training, "ok" for a predictor
  predictor,  \* the predictor: its num_layers and its transitions
  served,     \* the layers of the model it serves
  offer       \* the last layer call of the engine and what was prefetched for it

traceVars == <<task, stage, wrapped, nextToken, call, layer, remaining, generated,
               events, lines, torn, failures>>
servingVars == <<trained, predictor, served, offer>>
vars == <<traceVars, servingVars>>

NoCall == [phase |-> "none", first |-> 0, count |-> 0]
NoOffer == [layer |-> 0, rows |-> <<>>, experts |-> {}]
NoPredictor == [layers |-> 0, confidence |-> <<>>]
Rows == {r \in SUBSET Experts : Cardinality(r) = TopK}

Init ==
  /\ task \in Tasks
  /\ stage = "off" /\ wrapped = FALSE
  /\ nextToken = 0 /\ call = NoCall /\ layer = 0
  /\ remaining = task.prompt /\ generated = 0
  /\ events = <<>> /\ lines = 0 /\ torn = FALSE /\ failures = 0
  /\ trained = "none" /\ predictor = NoPredictor /\ served = 0 /\ offer = NoOffer
--------------------------------------------------------------------------------
\* The contexts of the session and the tracer are entered.
Open ==
  /\ stage = "off"
  /\ stage' = "tracing" /\ wrapped' = TRUE
  /\ UNCHANGED <<task, nextToken, call, layer, remaining, generated, events, lines, torn,
                 failures, servingVars>>

\* What the next forward call takes: the prompt but for its last token in steps, that
\* token, and then one at a time.
NextCount == IF remaining > 1 THEN Min({StepSize, remaining - 1}) ELSE 1
Phase == IF remaining > 0 THEN "prefill" ELSE "decode"
AllGenerated == remaining = 0 /\ generated = task.tokens

\* Faulty: the tokens of a call are counted once it has ended.
BeginCallUncounted ==
  /\ stage = "tracing" /\ call = NoCall /\ ~AllGenerated
  /\ nextToken' = task.prompt - remaining + generated
  /\ call' = [phase |-> Phase, first |-> nextToken', count |-> NextCount]
  /\ layer' = 0
  /\ UNCHANGED <<task, stage, wrapped, remaining, generated, events, lines, torn, failures,
                 servingVars>>

\* model_call is entered.
BeginCall ==
  /\ stage = "tracing" /\ call = NoCall /\ ~AllGenerated
  /\ call' = [phase |-> Phase, first |-> nextToken, count |-> NextCount]
  /\ nextToken' = nextToken + NextCount
  /\ layer' = 0
  /\ UNCHANGED <<task, stage, wrapped, remaining, generated, events, lines, torn, failures,
                 servingVars>>

Event(i, row) ==
  [phase |-> call.phase, token |-> call.first + i - 1, layer |-> layer, experts |-> row]

\* The wrapper of a block: the routes of every token of the call are recorded, each line
\* flushed, and the experts run.
RouteLayer ==
  /\ call # NoCall /\ layer < task.layers
  /\ \E rows \in [1 .. call.count -> Rows] :
       events' = events \o [i \in 1 .. call.count |-> Event(i, rows[i])]
  /\ lines' = Len(events')
  /\ layer' = layer + 1
  /\ UNCHANGED <<task, stage, wrapped, nextToken, call, remaining, generated, torn, failures,
                 servingVars>>

CallEnds ==
  /\ call # NoCall /\ layer = task.layers
  /\ call' = NoCall
  /\ IF call.phase = "prefill"
     THEN remaining' = remaining - call.count /\ UNCHANGED generated
     ELSE generated' = generated + 1 /\ UNCHANGED remaining
  /\ UNCHANGED <<task, stage, wrapped, nextToken, layer, events, lines, torn, failures,
                 servingVars>>

\* An exception leaves the contexts: the call, the session, the tracer.  Faulty: the
\* session is left only by a return.
UnwindsCall == call' = NoCall /\ stage' = "failed" /\ UNCHANGED wrapped
Unwinds == call' = NoCall /\ stage' = "failed" /\ wrapped' = FALSE

\* The forward call raises; a direct caller may go on with the same tokens.
CallRaises ==
  /\ call # NoCall /\ failures < MaxFailures
  /\ failures' = failures + 1
  /\ \/ Unwinds
     \/ task.direct /\ call' = NoCall /\ UNCHANGED <<stage, wrapped>>
  /\ UNCHANGED <<task, nextToken, layer, remaining, generated, events, lines, torn, servingVars>>

\* A line cannot be written: the event is recorded, of the line any part may be there.
LineFails ==
  /\ call # NoCall /\ layer < task.layers /\ failures < MaxFailures
  /\ failures' = failures + 1
  /\ \E n \in 1 .. call.count, row \in Rows :
       /\ events' = events \o [i \in 1 .. n |-> Event(i, row)]
       /\ lines' = Len(events') - 1
  /\ torn' \in BOOLEAN
  /\ Unwinds
  /\ UNCHANGED <<task, nextToken, layer, remaining, generated, servingVars>>

\* The process is killed, in the middle of a line perhaps.
Kill ==
  /\ stage = "tracing"
  /\ stage' = "killed" /\ wrapped' = FALSE /\ call' = NoCall
  /\ torn' \in {FALSE, call # NoCall /\ layer < task.layers}
  /\ UNCHANGED <<task, nextToken, layer, remaining, generated, events, lines, failures,
                 servingVars>>

Finish ==
  /\ stage = "tracing" /\ call = NoCall /\ AllGenerated
  /\ stage' = "closed" /\ wrapped' = FALSE
  /\ UNCHANGED <<task, nextToken, call, layer, remaining, generated, events, lines, torn,
                 failures, servingVars>>
--------------------------------------------------------------------------------
\* What load_trace returns, and the events of one token and layer that disagree: two events
\* have different times.
Recorded == SubSeq(events, 1, lines)
Routes == ToSet(Recorded)
Conflicts ==
  \E i, j \in DOMAIN Recorded :
    /\ i # j
    /\ Recorded[i].token = Recorded[j].token /\ Recorded[i].phase = Recorded[j].phase
    /\ Recorded[i].layer = Recorded[j].layer
NumLayers == Max({e.layer : e \in Routes}) + 1

\* The counts over the tokens routed by both layers, and the transitions they make.
Count(l, s, t) ==
  Cardinality({e \in Routes : /\ e.layer = l /\ s \in e.experts
                              /\ \E f \in Routes : /\ f.token = e.token /\ f.phase = e.phase
                                                   /\ f.layer = l + 1 /\ t \in f.experts})
Total(l, s) == MapThenSumSet(LAMBDA t : Count(l, s, t), Experts)
Transitions ==
  [l \in 0 .. NumLayers - 2 |->
     [s \in Experts |->
        [t \in Experts |->
           IF Total(l, s) = 0 THEN 0 ELSE (Count(l, s, t) * Unit) \div Total(l, s)]]]

\* train_transition_predictor on the trace file.
Trains ==
  /\ stage \in {"closed", "failed", "killed"} /\ trained = "none"
  /\ trained' = IF torn THEN "unreadable"
                ELSE IF lines = 0 THEN "empty"
                ELSE IF Conflicts THEN "conflict"
                ELSE IF NumLayers <= 1 THEN "one layer" ELSE "ok"
  /\ predictor' = IF trained' = "ok" THEN [layers |-> NumLayers, confidence |-> Transitions]
                  ELSE NoPredictor

\* Of the trace nothing is used any more: it is as if there had been none.
Train ==
  /\ Trains
  /\ stage' = "used" /\ task' = [layers |-> 0, prompt |-> 0, tokens |-> 0, direct |-> FALSE]
  /\ nextToken' = 0 /\ layer' = 0 /\ remaining' = 0 /\ generated' = 0 /\ failures' = 0
  /\ events' = <<>> /\ lines' = 0 /\ torn' = FALSE
  /\ UNCHANGED <<wrapped, call, served, offer>>

\* The scores of the experts of the next layer, times the experts observed: what each of
\* these, in any of the rows, gives them.  The sum is counted in units, as a cardinality;
\* after the last layer of the predictor there is none.
Gives(l, s, t) == IF l < predictor.layers - 1 THEN predictor.confidence[l][s][t] ELSE 0
Scores(l, rows) ==
  [t \in Experts |->
     Cardinality({x \in (DOMAIN rows) \X Experts \X (1 .. Unit) :
                    x[2] \in rows[x[1]] /\ x[3] <= Gives(l, x[2], t)})]

\* predict: the experts with a score, and their ranking.
Predicted(score) == {t \in Experts : score[t] > 0}
Before(score, t, u) == score[t] > score[u] \/ (score[t] = score[u] /\ t < u)

Confident(rows, score, t) == score[t] >= MinConfidence * TopK * Len(rows)
BytesOf(S) == Cardinality(UNION {{t} \X (1 .. Bytes[t]) : t \in S})

\* One candidate of schedule, after those in chosen.  Faulty: the budget is a bundle's.
FitsAlone(chosen, t) == Cardinality(chosen) < MaxCandidates /\ Bytes[t] <= MaxBytes
Fits(chosen, t) == Cardinality(chosen) < MaxCandidates /\ BytesOf(chosen) + Bytes[t] <= MaxBytes

\* schedule goes through the candidates in their ranking, and takes each confident one that
\* fits beside those it has taken: there is one such set.
Schedules(rows, score, S) ==
  \A t \in Experts :
    t \in S <=> /\ t \in Predicted(score)
              /\ Confident(rows, score, t)
              /\ Fits({u \in S : Before(score, u, t)}, t)

\* An engine is started with the predictor: validate_manifest, against the model served.
Serve ==
  /\ trained = "ok" /\ served = 0
  /\ \E m \in Models :
       IF m = predictor.layers
       THEN served' = m /\ UNCHANGED trained
       ELSE trained' = "refused" /\ UNCHANGED served
  /\ UNCHANGED <<traceVars, predictor, offer>>

\* record_routes of the runtime: the rows of a layer call are observed.
Observe ==
  /\ served # 0
  /\ \E l \in 0 .. served - 1, rows \in UNION {[1 .. n -> Rows] : n \in 1 .. MaxObserved} :
       \E score \in {Scores(l, rows)}, chosen \in SUBSET Experts :
         /\ Schedules(rows, score, chosen)
         /\ offer' = [layer |-> l + 1, rows |-> rows, experts |-> chosen]
  /\ UNCHANGED <<traceVars, trained, predictor, served>>

Next ==
  \/ Open \/ BeginCall \/ RouteLayer \/ CallEnds \/ CallRaises \/ LineFails \/ Kill \/ Finish
  \/ Train \/ Serve \/ Observe

Spec == Init /\ [][Next]_vars
--------------------------------------------------------------------------------
\* Whatever calls raise and are made again, no token of a layer is recorded twice, so that
\* training never meets a conflict (predictive.py:266); and a trace that ends by itself has
\* every layer of every token of every call that did not raise.
TraceStaysDense ==
  /\ trained # "conflict"
  /\ \A i, j \in DOMAIN events :
       i # j => <<events[i].token, events[i].layer>> # <<events[j].token, events[j].layer>>
  /\ stage = "closed" =>
       \E ended \in SUBSET (0 .. nextToken - 1) :
         /\ Cardinality(ended) = task.prompt + task.tokens
         /\ \A t \in ended, l \in 0 .. task.layers - 1 :
              \E i \in 1 .. lines : events[i].token = t /\ events[i].layer = l

\* However a trace ends, the model has its own blocks back, no call is left open, and the
\* file holds the first of the events, all of them unless a line failed.
TraceLeavesNothingBehind ==
  stage \in {"closed", "failed", "killed"} =>
    /\ ~wrapped /\ call = NoCall
    /\ lines >= Len(events) - 1
    /\ stage = "closed" => lines = Len(events) /\ ~torn

\* One layer call never makes more reads than the limits allow, and only of experts the
\* served model has; and a confident candidate is passed over only for better ones that
\* leave no room for it.
PredictionsStayBounded ==
  LET score == Scores(offer.layer - 1, offer.rows)
      better(t) == {u \in offer.experts : score[u] >= score[t]}
  IN offer.experts # {} =>
       /\ offer.layer < served
       /\ Cardinality(offer.experts) <= MaxCandidates
       /\ BytesOf(offer.experts) <= MaxBytes
       /\ \A t \in offer.experts : Confident(offer.rows, score, t)
       /\ \A t \in Experts \ offer.experts :
            Confident(offer.rows, score, t) /\ score[t] > 0 => ~Fits(better(t), t)
================================================================================
