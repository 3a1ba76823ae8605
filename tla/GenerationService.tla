--------------------------- MODULE GenerationService ---------------------------
(***************************************************************************)
(* The generation service (server/app.py) on the model registry: the one   *)
(* generation slot, its metrics, and the life of plain and streamed        *)
(* requests up to their settlement.                                        *)
(*                                                                         *)
(* The service is thread-safe and may be embedded, so several threads call *)
(* it here; the HTTP server calls it from one.  A request's settled flag   *)
(* is implied by its phase.  Text, tokens and the HTTP framing are left    *)
(* out.                                                                    *)
(***************************************************************************)
EXTENDS ModelRegistry

CONSTANT MaxRequests  \* bound of the model on the requests that get the slot

ASSUME ServiceAssumption == MaxRequests \in Nat

VARIABLES
  slotFree,  \* _generation_slot
  phase,     \* how far each caller's request is
  model,     \* the model each caller's request is for
  metrics,   \* ServerMetrics: requests, completed, failed, active
  closed     \* whether close has been called

serviceVars == <<slotFree, phase, model, metrics, closed>>
vars == <<registryVars, serviceVars>>

\* A request holds the slot from _begin_generation to its settlement.
Unsettled == {c \in Callers : phase[c] \notin {"out", "finishing"}}
\* Its _ActiveGeneration refers to an engine.
Holding == {c \in Callers :
              phase[c] \in {"prompting", "reserved", "running", "streaming", "finishing"}}

Init ==
  /\ RegistryInit
  /\ slotFree = TRUE
  /\ phase = [c \in Callers |-> "out"]
  /\ model = [c \in Callers |-> NoModel]
  /\ metrics = [requests |-> 0, completed |-> 0, failed |-> 0, active |-> 0]
  /\ closed = FALSE
--------------------------------------------------------------------------------
\* The slot can be taken; otherwise the request is rejected as busy, which only counts.
\* Faulty variant: the slot is not bounded.
AlwaysEligible == TRUE
Eligible == slotFree

\* _begin_generation takes the slot and counts the request.
Begin(c, m) ==
  /\ phase[c] = "out"
  /\ Eligible
  /\ metrics.requests < MaxRequests
  /\ slotFree' = FALSE
  /\ metrics' = [metrics EXCEPT !.requests = @ + 1, !.active = @ + 1]
  /\ phase' = [phase EXCEPT ![c] = "begun"]
  /\ model' = [model EXCEPT ![c] = m]
  /\ UNCHANGED <<registryVars, closed>>

\* The request of c is over.  Its stream may still have its last chunks to deliver.
Leaves(c, to) ==
  /\ phase' = [phase EXCEPT ![c] = to]
  /\ model' = [model EXCEPT ![c] = IF to = "out" THEN NoModel ELSE @]

\* _fail_generation, and the except clause of _begin_generation.  Faulty variant: the
\* slot is kept.
FailKeepingSlot(c) ==
  /\ metrics' = [metrics EXCEPT !.failed = @ + 1, !.active = @ - 1]
  /\ Leaves(c, "out")
  /\ UNCHANGED <<slotFree, closed>>
Fail(c) ==
  /\ metrics' = [metrics EXCEPT !.failed = @ + 1, !.active = @ - 1]
  /\ slotFree' = TRUE
  /\ Leaves(c, "out")
  /\ UNCHANGED closed

\* _complete_generation: telemetry that raises is replaced, never propagated.
Complete(c, to) ==
  /\ metrics' = [metrics EXCEPT !.completed = @ + 1, !.active = @ - 1]
  /\ slotFree' = TRUE
  /\ Leaves(c, to)
  /\ UNCHANGED closed

\* activate, called with the slot held.
Activate(c) ==
  /\ phase[c] = "begun"
  /\ \/ /\ ActivateLoaded(model[c])
        /\ phase' = [phase EXCEPT ![c] = "prompting"]
        /\ UNCHANGED <<slotFree, model, metrics, closed>>
     \/ /\ ActivateOther(c, model[c])
        /\ phase' = [phase EXCEPT ![c] = "loading"]
        /\ UNCHANGED <<slotFree, model, metrics, closed>>
     \/ /\ ActivateRaises(model[c])
        /\ Fail(c)

Load(c) ==
  /\ phase[c] = "loading"
  /\ \/ /\ LoadEngine(c, model[c])
        /\ phase' = [phase EXCEPT ![c] = "prompting"]
        /\ UNCHANGED <<slotFree, model, metrics, closed>>
     \/ /\ LoadRaises(c)
        /\ Fail(c)

\* The prompt is rendered and counted: it fits, and the caller gets a stream that is
\* not started, or its text is generated at once; or the request fails.
BuildPrompt(c) ==
  /\ phase[c] = "prompting"
  /\ \/ /\ phase' \in {[phase EXCEPT ![c] = p] : p \in {"reserved", "running"}}
        /\ UNCHANGED <<slotFree, model, metrics, closed>>
     \/ Fail(c)
  /\ UNCHANGED registryVars

\* completions, chat_completions: generation, tool choice and schema checks.
Generate(c) ==
  /\ phase[c] = "running"
  /\ Complete(c, "out") \/ Fail(c)
  /\ UNCHANGED registryVars

\* The first next() of a stream.
StartStream(c) ==
  /\ phase[c] = "reserved"
  /\ phase' = [phase EXCEPT ![c] = "streaming"]
  /\ UNCHANGED <<registryVars, slotFree, model, metrics, closed>>

\* A stream closed before it started is abandoned, which settles it.  Faulty variant:
\* closing a generator that has not started does nothing.
CloseUnstarted(c) ==
  /\ phase[c] = "reserved"
  /\ Leaves(c, "out")
  /\ UNCHANGED <<registryVars, slotFree, metrics, closed>>
AbandonStream(c) ==
  /\ phase[c] = "reserved"
  /\ Fail(c)
  /\ UNCHANGED registryVars

\* A started stream generates to its end; or generation raises, or the client is gone
\* and the generator is closed at a yield.
Stream(c) ==
  /\ phase[c] = "streaming"
  /\ Complete(c, "finishing") \/ Fail(c)
  /\ UNCHANGED registryVars

\* The last chunks are delivered, or the client is gone.
EndStream(c) ==
  /\ phase[c] = "finishing"
  /\ Leaves(c, "out")
  /\ UNCHANGED <<registryVars, slotFree, metrics, closed>>

\* close: the engine is closed whatever is running.
Close(c) ==
  /\ phase[c] = "out"
  /\ CloseRegistry
  /\ closed' = TRUE
  /\ UNCHANGED <<slotFree, phase, model, metrics>>

Proceed(c) ==
  \/ Activate(c) \/ Load(c) \/ BuildPrompt(c) \/ Generate(c)
  \/ StartStream(c) \/ AbandonStream(c) \/ Stream(c) \/ EndStream(c)

Next ==
  \E c \in Callers : Proceed(c) \/ Close(c) \/ \E m \in Models : Begin(c, m)

\* A request that has begun runs on: generation is bounded by max_tokens, and the
\* transport closes every stream it was given (closing, app.py:1096).
Fairness == \A c \in Callers : WF_vars(Proceed(c))

Spec == Init /\ [][Next]_vars /\ Fairness
--------------------------------------------------------------------------------
\* Types of the service's state.
ServiceTypeOK ==
  /\ RegistryTypeOK
  /\ slotFree \in BOOLEAN
  /\ phase \in [Callers -> {"out", "begun", "loading", "prompting", "reserved",
                            "running", "streaming", "finishing"}]
  /\ model \in [Callers -> Models \cup {NoModel}]
  /\ metrics \in [requests : Nat, completed : Nat, failed : Nat, active : Nat]
  /\ closed \in BOOLEAN

\* At most one request is unsettled, the slot is taken exactly while there is one, and
\* the metrics add up: every request settles once, on every path through failed loads,
\* refused prompts, abandoned streams and lost clients (app.py:185-216, :528-570,
\* :770-863).
SlotIsAccounted ==
  /\ \A c, d \in Unsettled : c = d
  /\ slotFree <=> Unsettled = {}
  /\ metrics.active = Cardinality(Unsettled)
  /\ metrics.requests = metrics.completed + metrics.failed + metrics.active

\* The engine an unsettled request generates with stays the active one: no other
\* request's switch unloads it (until the service is closed under it).
EngineInUse ==
  \A c \in Holding \cap Unsettled : closed \/ activeModel = model[c]

\* However a request ends, the next one becomes eligible.
SlotIsFreedAgain == ~slotFree ~> slotFree
================================================================================
