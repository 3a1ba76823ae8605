--------------------------- MODULE LocalServerProofs ---------------------------
(***************************************************************************)
(* Theorems about the HTTP server on the generation service, for all sets  *)
(* of models and of embedding callers and every course of requests,        *)
(* connections, failures and signals: one engine, one slot, and no engine  *)
(* unloaded under a request.                                               *)
(***************************************************************************)
EXTENDS LocalServer, FiniteSetTheorems, SequenceTheorems, TLAPS

Phases == {"out", "begun", "loading", "prompting", "reserved", "running", "streaming",
           "finishing"}
Early == {"starting", "loading", "loaded"}

\* The slot is taken by the one unsettled request, which the metrics count as active.
SlotInv ==
  /\ slotFree \in BOOLEAN
  /\ phase \in [Callers -> Phases]
  /\ model \in [Callers -> Models \cup {NoModel}]
  /\ metrics \in [requests : Nat, completed : Nat, failed : Nat, active : Nat]
  /\ \A c, d \in Unsettled : c = d
  /\ slotFree <=> Unsettled = {}
  /\ metrics.active = IF slotFree THEN 0 ELSE 1
  /\ metrics.requests = metrics.completed + metrics.failed + metrics.active

\* While the lock is held to load an engine, none is active; a request that loads holds
\* the lock; and the engine of the unsettled request is the active one.
EngineInv ==
  /\ RegistryTypeOK
  /\ closed \in BOOLEAN
  /\ OneEngineOpen
  /\ holder # NoCaller => activeModel = NoModel
  /\ \A c \in Callers : phase[c] = "loading" => holder = c
  /\ \A c \in Unsettled : model[c] \in Models
  /\ EngineInUse

\* Before the server listens nobody calls the service.
PreloadInv == life \in Early => \A c \in Callers : phase[c] = "out"

ServerInv == SlotInv /\ EngineInv /\ PreloadInv
--------------------------------------------------------------------------------
(***************************************************************************)
(* The slot.                                                               *)
(***************************************************************************)

Counts == [requests : Nat, completed : Nat, failed : Nat, active : Nat]

\* The metrics of a request that is counted, or settled.
LEMMA CountsAddUp ==
  ASSUME NEW m \in Counts, m.active \in {0, 1},
         m.requests = m.completed + m.failed + m.active, NEW n,
         \/ m.active = 0 /\ n = [m EXCEPT !.requests = @ + 1, !.active = @ + 1]
         \/ m.active = 1 /\ n = [m EXCEPT !.failed = @ + 1, !.active = @ - 1]
         \/ m.active = 1 /\ n = [m EXCEPT !.completed = @ + 1, !.active = @ - 1]
  PROVE  /\ n \in Counts
         /\ n.active = 1 - m.active
         /\ n.requests = n.completed + n.failed + n.active
<1>1. /\ m.requests \in Nat /\ m.completed \in Nat /\ m.failed \in Nat
      /\ m = [requests |-> m.requests, completed |-> m.completed,
               failed |-> m.failed, active |-> m.active]
  BY DEF Counts
<1>2. CASE m.active = 0 /\ n = [m EXCEPT !.requests = @ + 1, !.active = @ + 1]
  <2>1. n = [requests |-> m.requests + 1, completed |-> m.completed,
             failed |-> m.failed, active |-> m.active + 1]
    BY <1>1, <1>2
  <2> QED
    BY <1>1, <1>2, <2>1 DEF Counts
<1>3. CASE m.active = 1 /\ n = [m EXCEPT !.failed = @ + 1, !.active = @ - 1]
  <2>1. n = [requests |-> m.requests, completed |-> m.completed,
             failed |-> m.failed + 1, active |-> m.active - 1]
    BY <1>1, <1>3
  <2> QED
    BY <1>1, <1>3, <2>1 DEF Counts
<1>4. CASE m.active = 1 /\ n = [m EXCEPT !.completed = @ + 1, !.active = @ - 1]
  <2>1. n = [requests |-> m.requests, completed |-> m.completed + 1,
             failed |-> m.failed, active |-> m.active - 1]
    BY <1>1, <1>4
  <2> QED
    BY <1>1, <1>4, <2>1 DEF Counts
<1> QED
  BY <1>2, <1>3, <1>4

\* A request that moves on without being settled.
Moves(c, p) ==
  /\ phase' = [phase EXCEPT ![c] = p]
  /\ UNCHANGED <<slotFree, model, metrics>>

LEMMA MovingKeepsTheSlot ==
  ASSUME SlotInv, NEW c \in Unsettled, NEW p \in Phases \ {"out", "finishing"}, Moves(c, p)
  PROVE  SlotInv' /\ Unsettled' = Unsettled
<1>1. c \in Callers /\ phase[c] \notin {"out", "finishing"}
  BY DEF Unsettled
<1>2. phase' \in [Callers -> Phases]
  BY <1>1 DEF SlotInv, Moves
<1>3. Unsettled' = Unsettled
  BY <1>1 DEF SlotInv, Moves, Unsettled
<1> QED
  BY <1>2, <1>3 DEF SlotInv, Moves

LEMMA SettlingFreesTheSlot ==
  ASSUME SlotInv, NEW c \in Unsettled, NEW to \in {"out", "finishing"},
         \/ to = "out" /\ Fail(c)
         \/ Complete(c, to)
  PROVE  SlotInv' /\ Unsettled' = {}
<1>1. c \in Callers /\ Unsettled = {c} /\ ~slotFree
  BY DEF SlotInv, Unsettled
<1>2. phase' = [phase EXCEPT ![c] = to] /\ slotFree' = TRUE
  BY DEF Fail, Complete, Leaves
<1>3. phase' \in [Callers -> Phases] /\ Unsettled' = {}
  BY <1>1, <1>2 DEF SlotInv, Unsettled, Phases
<1>4. model' \in [Callers -> Models \cup {NoModel}]
  BY <1>1 DEF SlotInv, Fail, Complete, Leaves
<1>5. metrics.active = 1
  BY <1>1 DEF SlotInv
<1>6. /\ metrics \in Counts
      /\ metrics.requests = metrics.completed + metrics.failed + metrics.active
  BY DEF SlotInv, Counts
<1>7. \/ metrics' = [metrics EXCEPT !.failed = @ + 1, !.active = @ - 1]
      \/ metrics' = [metrics EXCEPT !.completed = @ + 1, !.active = @ - 1]
  BY DEF Fail, Complete
<1>8. /\ metrics' \in Counts /\ metrics'.active = 1 - metrics.active
      /\ metrics'.requests = metrics'.completed + metrics'.failed + metrics'.active
  BY <1>5, <1>6, <1>7, CountsAddUp
<1>9. metrics'.active = 0
  BY <1>5, <1>8
<1> QED
  BY <1>2, <1>3, <1>4, <1>8, <1>9 DEF SlotInv, Counts

LEMMA BeginningTakesTheSlot ==
  ASSUME SlotInv, NEW c \in Callers, NEW m \in Models, Begin(c, m)
  PROVE  SlotInv' /\ Unsettled' = {c}
<1>1. Unsettled = {} /\ slotFree /\ metrics.active = 0
  BY DEF SlotInv, Begin, Eligible
<1>2. phase' \in [Callers -> Phases] /\ Unsettled' = {c}
  BY <1>1 DEF SlotInv, Begin, Unsettled, Phases
<1>3. model' \in [Callers -> Models \cup {NoModel}]
  BY DEF SlotInv, Begin
<1>4. /\ metrics' \in Counts /\ metrics'.active = 1 - metrics.active
      /\ metrics'.requests = metrics'.completed + metrics'.failed + metrics'.active
  <2>1. metrics' = [metrics EXCEPT !.requests = @ + 1, !.active = @ + 1]
    BY DEF Begin
  <2>2. /\ metrics \in Counts
        /\ metrics.requests = metrics.completed + metrics.failed + metrics.active
    BY DEF SlotInv, Counts
  <2> QED
    BY <1>1, <2>1, <2>2, CountsAddUp
<1>5. slotFree' = FALSE
  BY DEF Begin
<1>6. metrics'.active = 1
  BY <1>1, <1>4
<1> QED
  BY <1>2, <1>3, <1>4, <1>5, <1>6 DEF SlotInv, Counts

LEMMA EndingKeepsTheSlot ==
  ASSUME SlotInv, NEW c \in Callers, EndStream(c)
  PROVE  SlotInv' /\ Unsettled' = Unsettled
<1>1. phase[c] = "finishing" /\ phase' = [phase EXCEPT ![c] = "out"]
  BY DEF EndStream, Leaves
<1>2. phase' \in [Callers -> Phases] /\ Unsettled' = Unsettled
  BY <1>1 DEF SlotInv, Unsettled, Phases
<1>3. model' \in [Callers -> Models \cup {NoModel}]
  BY DEF SlotInv, EndStream, Leaves
<1> QED
  BY <1>2, <1>3 DEF SlotInv, EndStream
--------------------------------------------------------------------------------
(***************************************************************************)
(* The engine.                                                             *)
(***************************************************************************)

LEMMA UnloadingClosesTheEngine ==
  ASSUME EngineInv, UnloadActive
  PROVE  activeModel' = NoModel /\ open' \in [Models -> Nat] /\ OneEngineOpen'
<1>1. \A m \in Models : open'[m] = 0 /\ NoModel # m
  <2> SUFFICES ASSUME NEW m \in Models
               PROVE  open'[m] = 0 /\ NoModel # m
    OBVIOUS
  <2>1. open[m] = IF m = activeModel THEN 1 ELSE 0
    BY DEF EngineInv, OneEngineOpen
  <2> QED
    BY <2>1, RegistryAssumption DEF UnloadActive
<1>2. activeModel' = NoModel /\ DOMAIN open' = Models
  BY DEF UnloadActive
<1>3. open' = [m \in Models |-> open'[m]]
  BY DEF UnloadActive
<1> QED
  BY <1>1, <1>2, <1>3 DEF OneEngineOpen

LEMMA LoadingOpensOneEngine ==
  ASSUME EngineInv, NEW c \in Callers, NEW m \in Models, LoadEngine(c, m)
  PROVE  /\ activeModel' = m /\ holder' = NoCaller
         /\ open' \in [Models -> Nat] /\ OneEngineOpen'
<1>1. activeModel = NoModel
  BY RegistryAssumption DEF EngineInv, LoadEngine
<1>2. open \in [Models -> Nat] /\ \A n \in Models : open[n] = 0
  BY <1>1, RegistryAssumption DEF EngineInv, OneEngineOpen, RegistryTypeOK
<1>3. activeModel' = m /\ holder' = NoCaller /\ open' = [open EXCEPT ![m] = open[m] + 1]
  BY DEF LoadEngine
<1> QED
  BY <1>2, <1>3 DEF OneEngineOpen

\* The engine is left alone, and so are the requests that refer to it.
LEMMA EngineIsKept ==
  ASSUME EngineInv, UNCHANGED <<registryVars, closed>>,
         \A d \in Callers : phase'[d] = "loading" => phase[d] = "loading",
         \A d \in Unsettled' : model'[d] \in Models,
         \A d \in (Holding \cap Unsettled)' :
           d \in Holding \cap Unsettled /\ model'[d] = model[d]
  PROVE  EngineInv'
<1>1. RegistryTypeOK' /\ closed' \in BOOLEAN /\ OneEngineOpen'
      /\ (holder' # NoCaller => activeModel' = NoModel)
  BY DEF EngineInv, RegistryTypeOK, OneEngineOpen, registryVars
<1>2. \A d \in Callers : phase'[d] = "loading" => holder' = d
  BY DEF EngineInv, registryVars
<1>3. EngineInUse'
  BY DEF EngineInv, EngineInUse, registryVars
<1> QED
  BY <1>1, <1>2, <1>3 DEF EngineInv

LEMMA FailingKeepsTheEngine ==
  ASSUME SlotInv, EngineInv, NEW c \in Unsettled, Fail(c), UNCHANGED registryVars
  PROVE  EngineInv'
<1>1. c \in Callers /\ UNCHANGED closed /\ phase' = [phase EXCEPT ![c] = "out"]
  BY DEF Unsettled, Fail, Leaves
<1>2. Unsettled' = {}
  BY SettlingFreesTheSlot
<1>3. \A d \in Callers : phase'[d] = "loading" => phase[d] = "loading"
  BY <1>1 DEF SlotInv
<1> QED
  BY <1>1, <1>2, <1>3, EngineIsKept

LEMMA CompletingKeepsTheEngine ==
  ASSUME SlotInv, EngineInv, NEW c \in Unsettled, NEW to \in {"out", "finishing"},
         Complete(c, to), UNCHANGED registryVars
  PROVE  EngineInv'
<1>1. c \in Callers /\ UNCHANGED closed /\ phase' = [phase EXCEPT ![c] = to]
  BY DEF Unsettled, Complete, Leaves
<1>2. Unsettled' = {}
  BY SettlingFreesTheSlot
<1>3. \A d \in Callers : phase'[d] = "loading" => phase[d] = "loading"
  BY <1>1 DEF SlotInv
<1> QED
  BY <1>1, <1>2, <1>3, EngineIsKept
--------------------------------------------------------------------------------
(***************************************************************************)
(* The service's operations.                                               *)
(***************************************************************************)

LEMMA ActivateStep ==
  ASSUME SlotInv, EngineInv, NEW c \in Callers, Activate(c)
  PROVE  SlotInv' /\ EngineInv'
<1>1. c \in Unsettled /\ phase[c] = "begun" /\ Unsettled = {c} /\ model[c] \in Models
  BY DEF Activate, Unsettled, SlotInv, EngineInv
<1>2. CASE /\ ActivateLoaded(model[c]) /\ Moves(c, "prompting")
           /\ UNCHANGED closed
  <2>1. SlotInv' /\ Unsettled' = {c}
    BY <1>1, <1>2, MovingKeepsTheSlot DEF Phases
  <2>2. UNCHANGED <<registryVars, closed, model>> /\ activeModel = model[c]
    BY <1>2 DEF ActivateLoaded, Moves
  <2>3. \A d \in Callers : phase'[d] = "loading" => phase[d] = "loading"
    BY <1>1, <1>2 DEF Moves, SlotInv
  <2>4. EngineInUse'
    BY <2>1, <2>2 DEF EngineInUse, registryVars
  <2>5. RegistryTypeOK' /\ closed' \in BOOLEAN /\ OneEngineOpen'
        /\ (holder' # NoCaller => activeModel' = NoModel)
    BY <2>2 DEF EngineInv, RegistryTypeOK, OneEngineOpen, registryVars
  <2>6. \A d \in Callers : phase'[d] = "loading" => holder' = d
    BY <2>2, <2>3 DEF EngineInv, registryVars
  <2> QED
    BY <1>1, <2>1, <2>2, <2>4, <2>5, <2>6 DEF EngineInv
<1>3. CASE /\ ActivateOther(c, model[c]) /\ Moves(c, "loading")
           /\ UNCHANGED closed
  <2>1. SlotInv' /\ Unsettled' = {c}
    BY <1>1, <1>3, MovingKeepsTheSlot DEF Phases
  <2>2. /\ activeModel' = NoModel /\ open' \in [Models -> Nat] /\ OneEngineOpen'
        /\ holder' = c
    BY <1>3, UnloadingClosesTheEngine DEF ActivateOther
  <2>3. phase' = [phase EXCEPT ![c] = "loading"] /\ UNCHANGED model
    BY <1>3 DEF Moves
  <2>4. (Holding \cap Unsettled)' = {}
    BY <2>1, <2>3, <1>1 DEF Holding, SlotInv
  <2>5. EngineInUse'
    BY <2>4 DEF EngineInUse
  <2>6. \A d \in Callers : phase'[d] = "loading" => d = c
    BY <2>1 DEF Unsettled
  <2> QED
    BY <1>1, <1>3, <2>1, <2>2, <2>3, <2>5, <2>6 DEF EngineInv, RegistryTypeOK
<1>4. CASE ActivateRaises(model[c]) /\ Fail(c)
  <2>1. SlotInv' /\ Unsettled' = {}
    BY <1>1, <1>4, SettlingFreesTheSlot
  <2>2. /\ activeModel' = NoModel /\ open' \in [Models -> Nat] /\ OneEngineOpen'
        /\ holder' = holder /\ closed' = closed
    BY <1>4, UnloadingClosesTheEngine DEF ActivateRaises, Fail
  <2>3. \A d \in Callers : phase'[d] # "loading"
    BY <2>1 DEF Unsettled
  <2>4. EngineInUse'
    BY <2>1 DEF EngineInUse
  <2> QED
    BY <2>1, <2>2, <2>3, <2>4 DEF EngineInv, RegistryTypeOK
<1> QED
  BY <1>2, <1>3, <1>4 DEF Activate, Moves

LEMMA LoadStep ==
  ASSUME SlotInv, EngineInv, NEW c \in Callers, Load(c)
  PROVE  SlotInv' /\ EngineInv'
<1>1. c \in Unsettled /\ phase[c] = "loading" /\ Unsettled = {c} /\ model[c] \in Models
  BY DEF Load, Unsettled, SlotInv, EngineInv
<1>2. CASE /\ LoadEngine(c, model[c]) /\ Moves(c, "prompting")
           /\ UNCHANGED closed
  <2>1. SlotInv' /\ Unsettled' = {c}
    BY <1>1, <1>2, MovingKeepsTheSlot DEF Phases
  <2>2. /\ activeModel' = model[c] /\ holder' = NoCaller
        /\ open' \in [Models -> Nat] /\ OneEngineOpen'
    BY <1>1, <1>2, LoadingOpensOneEngine
  <2>3. phase' = [phase EXCEPT ![c] = "prompting"] /\ UNCHANGED <<model, closed>>
    BY <1>2 DEF Moves
  <2>4. EngineInUse'
    BY <2>1, <2>2, <2>3 DEF EngineInUse
  <2>5. \A d \in Callers : phase'[d] # "loading"
    BY <2>1, <2>3, <1>1 DEF Unsettled, SlotInv
  <2> QED
    BY <1>1, <2>1, <2>2, <2>3, <2>4, <2>5 DEF EngineInv, RegistryTypeOK
<1>3. CASE LoadRaises(c) /\ Fail(c)
  <2>1. SlotInv' /\ Unsettled' = {}
    BY <1>1, <1>3, SettlingFreesTheSlot
  <2>2. \A d \in Callers : phase'[d] # "loading"
    BY <2>1 DEF Unsettled
  <2>3. EngineInUse'
    BY <2>1 DEF EngineInUse
  <2>4. holder' = NoCaller /\ UNCHANGED <<activeModel, open, closed>>
    BY <1>3 DEF LoadRaises, Fail
  <2> QED
    BY <2>1, <2>2, <2>3, <2>4 DEF EngineInv, RegistryTypeOK, OneEngineOpen
<1> QED
  BY <1>2, <1>3 DEF Load, Moves

\* A request goes on with the engine it has.
LEMMA GoingOnStep ==
  ASSUME SlotInv, EngineInv, NEW c \in Unsettled \cap Holding,
         NEW p \in {"reserved", "running", "streaming"},
         Moves(c, p), UNCHANGED <<registryVars, closed>>
  PROVE  SlotInv' /\ EngineInv'
<1>1. SlotInv' /\ Unsettled' = Unsettled
  BY MovingKeepsTheSlot DEF Phases
<1>2. c \in Callers /\ phase' = [phase EXCEPT ![c] = p] /\ UNCHANGED model
  BY DEF Unsettled, Moves
<1>3. \A d \in Callers : phase'[d] = "loading" => phase[d] = "loading"
  BY <1>2 DEF SlotInv
<1>4. \A d \in Unsettled' : model'[d] \in Models
  BY <1>1, <1>2 DEF EngineInv
<1>5. Unsettled' \subseteq {c} /\ Unsettled' = Unsettled
  BY <1>1 DEF SlotInv
<1>6. EngineInv'
  BY <1>2, <1>3, <1>4, <1>5, EngineIsKept
<1> QED
  BY <1>1, <1>6

LEMMA FailStep ==
  ASSUME SlotInv, EngineInv, NEW c \in Unsettled, Fail(c), UNCHANGED registryVars
  PROVE  SlotInv' /\ EngineInv'
BY SettlingFreesTheSlot, FailingKeepsTheEngine

LEMMA CompleteStep ==
  ASSUME SlotInv, EngineInv, NEW c \in Unsettled, NEW to \in {"out", "finishing"},
         Complete(c, to), UNCHANGED registryVars
  PROVE  SlotInv' /\ EngineInv'
BY SettlingFreesTheSlot, CompletingKeepsTheEngine

LEMMA EndStreamStep ==
  ASSUME SlotInv, EngineInv, NEW c \in Callers, EndStream(c)
  PROVE  SlotInv' /\ EngineInv'
<1>1. SlotInv' /\ Unsettled' = Unsettled
  BY EndingKeepsTheSlot
<1>2. /\ phase[c] = "finishing" /\ phase' = [phase EXCEPT ![c] = "out"]
      /\ model' = [model EXCEPT ![c] = NoModel] /\ UNCHANGED <<registryVars, closed>>
  BY DEF EndStream, Leaves
<1>3. c \notin Unsettled
  BY <1>2 DEF Unsettled
<1>4. \A d \in Callers : d # c => phase'[d] = phase[d] /\ model'[d] = model[d]
  BY <1>2 DEF SlotInv
<1>5. \A d \in Callers : phase'[d] = "loading" => phase[d] = "loading"
  BY <1>2 DEF SlotInv
<1>6. \A d \in Unsettled' : d # c /\ d \in Callers /\ d \in Unsettled
  BY <1>1, <1>3 DEF Unsettled
<1>7. \A d \in Unsettled' : model'[d] \in Models
  BY <1>4, <1>6 DEF EngineInv
<1>8. \A d \in (Holding \cap Unsettled)' :
        d \in Holding \cap Unsettled /\ model'[d] = model[d]
  BY <1>4, <1>6 DEF Holding
<1>9. EngineInv'
  BY <1>2, <1>5, <1>7, <1>8, EngineIsKept
<1> QED
  BY <1>1, <1>9

LEMMA BeginStep ==
  ASSUME SlotInv, EngineInv, NEW c \in Callers, NEW m \in Models, Begin(c, m)
  PROVE  SlotInv' /\ EngineInv'
<1>1. SlotInv' /\ Unsettled' = {c}
  BY BeginningTakesTheSlot
<1>2. /\ phase' = [phase EXCEPT ![c] = "begun"] /\ model' = [model EXCEPT ![c] = m]
      /\ UNCHANGED <<registryVars, closed>>
  BY DEF Begin
<1>3. phase'[c] = "begun" /\ model'[c] = m
  BY <1>2 DEF SlotInv
<1>4. \A d \in Callers : phase'[d] = "loading" => phase[d] = "loading"
  BY <1>2 DEF SlotInv
<1>5. (Holding \cap Unsettled)' = {}
  BY <1>1, <1>3 DEF Holding
<1>6. EngineInv'
  BY <1>1, <1>2, <1>3, <1>4, <1>5, EngineIsKept
<1> QED
  BY <1>1, <1>6

LEMMA ProceedStep ==
  ASSUME SlotInv, EngineInv, NEW c \in Callers, Proceed(c)
  PROVE  SlotInv' /\ EngineInv'
<1>1. CASE Activate(c)
  BY <1>1, ActivateStep
<1>2. CASE Load(c)
  BY <1>2, LoadStep
<1>3. CASE BuildPrompt(c)
  <2>1. c \in Unsettled \cap Holding /\ UNCHANGED registryVars
    BY <1>3 DEF BuildPrompt, Unsettled, Holding
  <2>2. \/ Moves(c, "reserved") /\ UNCHANGED closed
        \/ Moves(c, "running") /\ UNCHANGED closed
        \/ Fail(c)
    BY <1>3 DEF BuildPrompt, Moves
  <2> QED
    BY <2>1, <2>2, GoingOnStep, FailStep
<1>4. CASE Generate(c)
  <2>1. c \in Unsettled /\ UNCHANGED registryVars /\ (Complete(c, "out") \/ Fail(c))
    BY <1>4 DEF Generate, Unsettled
  <2> QED
    BY <2>1, CompleteStep, FailStep
<1>5. CASE StartStream(c)
  <2>1. c \in Unsettled \cap Holding
    BY <1>5 DEF StartStream, Unsettled, Holding
  <2>2. Moves(c, "streaming") /\ UNCHANGED <<registryVars, closed>>
    BY <1>5 DEF StartStream, Moves
  <2> QED
    BY <2>1, <2>2, GoingOnStep
<1>6. CASE AbandonStream(c)
  <2>1. c \in Unsettled /\ UNCHANGED registryVars /\ Fail(c)
    BY <1>6 DEF AbandonStream, Unsettled
  <2> QED
    BY <2>1, FailStep
<1>7. CASE Stream(c)
  <2>1. c \in Unsettled /\ UNCHANGED registryVars /\ (Complete(c, "finishing") \/ Fail(c))
    BY <1>7 DEF Stream, Unsettled
  <2> QED
    BY <2>1, CompleteStep, FailStep
<1>8. CASE EndStream(c)
  BY <1>8, EndStreamStep
<1> QED
  BY <1>1, <1>2, <1>3, <1>4, <1>5, <1>6, <1>7, <1>8 DEF Proceed

LEMMA CloseStep ==
  ASSUME SlotInv, EngineInv, NEW c \in Callers, Close(c)
  PROVE  SlotInv' /\ EngineInv'
<1>1. UNCHANGED <<slotFree, phase, model, metrics>> /\ closed' = TRUE /\ UNCHANGED holder
  BY DEF Close, CloseRegistry
<1>2. activeModel' = NoModel /\ open' \in [Models -> Nat] /\ OneEngineOpen'
  BY UnloadingClosesTheEngine DEF Close, CloseRegistry
<1>3. SlotInv' /\ Unsettled' = Unsettled
  BY <1>1 DEF SlotInv, Unsettled
<1>4. EngineInUse'
  BY <1>1 DEF EngineInUse
<1> QED
  BY <1>1, <1>2, <1>3, <1>4 DEF EngineInv, RegistryTypeOK
--------------------------------------------------------------------------------
(***************************************************************************)
(* The server's steps.                                                     *)
(***************************************************************************)

\* What the service does for a caller.
ServiceStep(c) == Proceed(c) \/ Close(c) \/ \E m \in Models : Begin(c, m)

LEMMA ServiceStepKeeps ==
  ASSUME ServerInv, NEW c \in Callers, ServiceStep(c), life' \notin Early
  PROVE  ServerInv'
<1>1. SlotInv' /\ EngineInv'
  BY ProceedStep, CloseStep, BeginStep DEF ServerInv, ServiceStep
<1> QED
  BY <1>1 DEF ServerInv, PreloadInv

\* Nothing happens to the service.
LEMMA QuietStepKeeps ==
  ASSUME ServerInv, UNCHANGED vars, life' \in Early => life \in Early
  PROVE  ServerInv'
<1>1. UNCHANGED <<registryVars, slotFree, phase, model, metrics, closed>>
  BY DEF vars, serviceVars
<1>2. Unsettled' = Unsettled /\ Holding' = Holding
  BY <1>1 DEF Unsettled, Holding
<1>3. SlotInv'
  BY <1>1, <1>2 DEF ServerInv, SlotInv
<1>4. EngineInv'
  BY <1>1, <1>2, EngineIsKept DEF ServerInv, EngineInv
<1>5. PreloadInv'
  BY <1>1 DEF ServerInv, PreloadInv
<1> QED
  BY <1>3, <1>4, <1>5 DEF ServerInv

LEMMA PreloadStep ==
  ASSUME ServerInv, NEW m \in Models, Preload(m) \/ PreloadEnds(m)
  PROVE  ServerInv'
<1>1. /\ life \in Early /\ UNCHANGED <<slotFree, phase, model, metrics, closed>>
      /\ Serving \in Callers
  BY ServerAssumption DEF Preload, PreloadEnds, serviceVars, Early
<1>2. \A c \in Callers : phase[c] = "out"
  BY <1>1 DEF ServerInv, PreloadInv
<1>3. SlotInv' /\ Unsettled' = {}
  BY <1>1, <1>2 DEF ServerInv, SlotInv, Unsettled
<1>4. PreloadInv' /\ EngineInUse' /\ \A c \in Callers : phase'[c] # "loading"
  BY <1>1, <1>2, <1>3 DEF PreloadInv, EngineInUse
<1>5. /\ RegistryTypeOK' /\ OneEngineOpen'
      /\ holder' # NoCaller => activeModel' = NoModel
  <2>1. CASE ActivateOther(Serving, m)
    <3>1. activeModel' = NoModel /\ open' \in [Models -> Nat] /\ OneEngineOpen'
      BY <2>1, UnloadingClosesTheEngine DEF ActivateOther, ServerInv
    <3> QED
      BY <1>1, <2>1, <3>1 DEF ActivateOther, RegistryTypeOK
  <2>2. CASE LoadEngine(Serving, m)
    BY <1>1, <2>2, LoadingOpensOneEngine DEF RegistryTypeOK, ServerInv
  <2>3. CASE LoadRaises(Serving)
    BY <2>3 DEF LoadRaises, ServerInv, EngineInv, RegistryTypeOK, OneEngineOpen
  <2> QED
    BY <2>1, <2>2, <2>3 DEF Preload, PreloadEnds
<1>6. EngineInv'
  BY <1>1, <1>3, <1>4, <1>5 DEF EngineInv, ServerInv
<1> QED
  BY <1>3, <1>4, <1>6 DEF ServerInv

\* Whatever the serving thread does on a connection, the service sees one of its own
\* operations or nothing; closing a started stream is a stream that fails.
LEMMA AnswerIsAServiceStep ==
  ASSUME Answer
  PROVE  life' = life /\ (UNCHANGED vars \/ ServiceStep(Serving))
<1>1. CASE ReadLine
  BY <1>1 DEF ReadLine, Dispatch, Goes
<1>2. CASE ReadBodyAsLine \/ LineEnds \/ ReadBody \/ BodyEnds \/ RefusePayload
  BY <1>2 DEF ReadBodyAsLine, LineEnds, ReadBody, BodyEnds, RefusePayload, Goes
<1>3. CASE Generating
  BY <1>3 DEF Generating, ServiceStep, Proceed
<1>4. CASE SendJson \/ SendHead \/ LoseEvent \/ SendError \/ SendDone
  BY <1>4 DEF SendJson, SendHead, LoseEvent, SendError, SendDone, Goes
<1>5. CASE PullEvent
  BY <1>5 DEF PullEvent, ServiceStep, Proceed
<1>6. CASE Settle
  <2>1. life' = life /\ SettleStream
    BY <1>6 DEF Settle
  <2>2. ASSUME phase[Serving] = "streaming", Fail(Serving), UNCHANGED registryVars
        PROVE  Stream(Serving)
    BY <2>2 DEF Stream
  <2> QED
    BY <2>1, <2>2 DEF SettleStream, ServiceStep, Proceed
<1>7. CASE Hangup
  BY <1>7 DEF Hangup
<1>8. CASE \E m \in Models : CallService(m)
  BY <1>8 DEF CallService, ServiceStep
<1> QED
  BY <1>1, <1>2, <1>3, <1>4, <1>5, <1>6, <1>7, <1>8 DEF Answer

LEMMA ServerInvInductive ==
  ASSUME ServerInv, [ServerNext]_allVars
  PROVE  ServerInv'
<1>1. CASE Answer /\ life = "serving"
  <2>1. life' \notin Early /\ (UNCHANGED vars \/ ServiceStep(Serving))
    BY <1>1, AnswerIsAServiceStep DEF Early
  <2> QED
    BY <2>1, ServerAssumption, QuietStepKeeps, ServiceStepKeeps
<1>2. CASE Listen \/ ReturnFromServe
  BY <1>2, QuietStepKeeps DEF Listen, ReturnFromServe, Early
<1>3. CASE Exit
  <2>1. life' \notin Early /\ ServiceStep(Serving)
    BY <1>3 DEF Exit, ServiceStep, Early
  <2> QED
    BY <2>1, ServerAssumption, ServiceStepKeeps
<1>4. CASE \E m \in Models : Preload(m) \/ PreloadEnds(m)
  BY <1>4, PreloadStep
<1>5. CASE Environment
  <2>1. UNCHANGED vars /\ life' = life
    BY <1>5 DEF Environment, Signal, Connect, SendBody, Leave, Send
  <2> QED
    BY <2>1, QuietStepKeeps
<1>6. CASE \E c \in Callers : Embedder(c)
  <2>1. PICK c \in Callers : Embedder(c)
    BY <1>6
  <2>2. life' \notin Early /\ ServiceStep(c)
    BY <2>1 DEF Embedder, ServiceStep, Early, serverVars
  <2> QED
    BY <2>2, ServiceStepKeeps
<1>7. CASE UNCHANGED allVars
  <2>1. UNCHANGED vars /\ life' = life
    BY <1>7 DEF allVars, serverVars
  <2> QED
    BY <2>1, QuietStepKeeps
<1> QED
  BY <1>1, <1>2, <1>3, <1>4, <1>5, <1>6, <1>7 DEF ServerNext, Serve

LEMMA ServerInvInitially ==
  ASSUME ServerInit
  PROVE  ServerInv
<1>1. /\ slotFree = TRUE /\ closed = FALSE
      /\ metrics = [requests |-> 0, completed |-> 0, failed |-> 0, active |-> 0]
      /\ model = [c \in Callers |-> NoModel] /\ phase = [c \in Callers |-> "out"]
      /\ activeModel = NoModel /\ open = [m \in Models |-> 0] /\ holder = NoCaller
  BY DEF ServerInit, Init, RegistryInit
<1>2. \A c \in Callers : phase[c] = "out"
  BY <1>1
<1>3. Unsettled = {}
  BY <1>2 DEF Unsettled
<1>4. phase \in [Callers -> Phases] /\ model \in [Callers -> Models \cup {NoModel}]
  BY <1>1 DEF Phases
<1>5. metrics \in Counts /\ metrics.active = 0
      /\ metrics.requests = metrics.completed + metrics.failed + metrics.active
  BY <1>1 DEF Counts
<1>6. SlotInv
  BY <1>1, <1>3, <1>4, <1>5 DEF SlotInv, Counts
<1>7. RegistryTypeOK /\ OneEngineOpen
  BY <1>1, RegistryAssumption DEF RegistryTypeOK, OneEngineOpen
<1>8. EngineInv
  BY <1>1, <1>2, <1>3, <1>7 DEF EngineInv, EngineInUse
<1> QED
  BY <1>2, <1>6, <1>8 DEF ServerInv, PreloadInv

THEOREM ServerInvariance == ServerSpec => []ServerInv
BY ServerInvInitially, ServerInvInductive, PTL DEF ServerSpec
--------------------------------------------------------------------------------
(***************************************************************************)
(* The serving thread's generation: where the thread is in a connection    *)
(* tells how far its call of the service can be.                           *)
(***************************************************************************)

Calm == {"away", "line", "body", "json", "spurious", "service", "end"}
Quiet == {"service", "generating", "head", "events", "raised", "done"}

ServingInv ==
  /\ stage \in Calm => phase[Serving] = "out"
  /\ stage = "generating" => phase[Serving] \in {"begun", "loading", "prompting", "running"}
  /\ stage = "head" => phase[Serving] = "reserved"
  /\ stage = "events" => phase[Serving] \in {"reserved", "streaming", "finishing"}
  /\ stage \in {"raised", "done"} => phase[Serving] \in {"out", "streaming", "finishing"}

\* What the service's operations do to their caller's request and to the others'.
LEMMA PhaseSteps ==
  ASSUME ServerInv, NEW c \in Callers
  PROVE  /\ ServiceStep(c) => \A d \in Callers \ {c} : phase'[d] = phase[d]
         /\ \A m \in Models : Begin(c, m) => phase'[c] = "begun"
         /\ Activate(c) => phase'[c] \in {"prompting", "loading", "out"}
         /\ Load(c) => phase'[c] \in {"prompting", "out"}
         /\ BuildPrompt(c) => phase'[c] \in {"reserved", "running", "out"}
         /\ Generate(c) \/ Fail(c) => phase'[c] = "out"
         /\ StartStream(c) => phase[c] = "reserved" /\ phase'[c] = "streaming"
         /\ AbandonStream(c) => phase'[c] = "out"
         /\ Stream(c) => phase[c] = "streaming" /\ phase'[c] \in {"finishing", "out"}
         /\ EndStream(c) => phase[c] = "finishing" /\ phase'[c] = "out"
         /\ Close(c) => phase' = phase
<1>1. phase \in [Callers -> Phases]
  BY DEF ServerInv, SlotInv
<1>2. \A p : phase' = [phase EXCEPT ![c] = p] =>
             phase'[c] = p /\ \A d \in Callers \ {c} : phase'[d] = phase[d]
  BY <1>1
<1>3. Close(c) => phase' = phase
  BY DEF Close
<1>4. \A m \in Models : Begin(c, m) => phase' = [phase EXCEPT ![c] = "begun"]
  BY DEF Begin
<1>5. Fail(c) => phase' = [phase EXCEPT ![c] = "out"]
  BY DEF Fail, Leaves
<1>6. \A to : Complete(c, to) => phase' = [phase EXCEPT ![c] = to]
  BY DEF Complete, Leaves
<1>7. Activate(c) => \E p \in {"prompting", "loading", "out"} :
                       phase' = [phase EXCEPT ![c] = p]
  BY <1>5 DEF Activate
<1>8. Load(c) => \E p \in {"prompting", "out"} : phase' = [phase EXCEPT ![c] = p]
  BY <1>5 DEF Load
<1>9. BuildPrompt(c) => \E p \in {"reserved", "running", "out"} :
                          phase' = [phase EXCEPT ![c] = p]
  BY <1>5 DEF BuildPrompt
<1>10. Generate(c) => phase' = [phase EXCEPT ![c] = "out"]
  BY <1>5, <1>6 DEF Generate
<1>11. StartStream(c) => phase[c] = "reserved" /\ phase' = [phase EXCEPT ![c] = "streaming"]
  BY DEF StartStream
<1>12. AbandonStream(c) => phase' = [phase EXCEPT ![c] = "out"]
  BY <1>5 DEF AbandonStream
<1>13. Stream(c) => phase[c] = "streaming" /\ \E p \in {"finishing", "out"} :
                      phase' = [phase EXCEPT ![c] = p]
  BY <1>5, <1>6 DEF Stream
<1>14. EndStream(c) => phase[c] = "finishing" /\ phase' = [phase EXCEPT ![c] = "out"]
  BY DEF EndStream, Leaves
<1>15. ServiceStep(c) => phase' = phase \/ \E p : phase' = [phase EXCEPT ![c] = p]
  BY <1>3, <1>4, <1>7, <1>8, <1>9, <1>10, <1>11, <1>12, <1>13, <1>14
  DEF ServiceStep, Proceed
<1>16. ServiceStep(c) => \A d \in Callers \ {c} : phase'[d] = phase[d]
  BY <1>2, <1>15
<1> QED
  BY <1>2, <1>3, <1>4, <1>5, <1>7, <1>8, <1>9, <1>10, <1>11, <1>12, <1>13, <1>14, <1>16

\* Where a call of the service leads.
LEMMA CallLeadsTo ==
  ASSUME ServerInv, ServingInv, Generating \/ PullEvent
  PROVE  ServingInv' /\ stage \in Quiet
         /\ stage' \in {"json", "generating", "head", "events", "raised", "done"}
<1>1. CASE Generating
  <2>1. phase'[Serving] \in {"loading", "prompting", "running", "reserved", "out"}
    BY <1>1, PhaseSteps, ServerAssumption DEF Generating
  <2>2. phase'[Serving] = "out" => stage' = "json"
    BY <1>1, Zenon DEF Generating
  <2>3. phase'[Serving] = "reserved" => stage' = "head"
    BY <1>1, "reserved" # "out", Zenon DEF Generating
  <2>4. phase'[Serving] \notin {"out", "reserved"} => stage' = "generating"
    BY <1>1, Zenon DEF Generating
  <2>5. stage = "generating"
    BY <1>1 DEF Generating
  <2> QED
    BY <2>1, <2>2, <2>3, <2>4, <2>5 DEF ServingInv, Calm, Quiet
<1>2. CASE PullEvent
  <2>1. \/ phase[Serving] = "reserved" /\ phase'[Serving] = "streaming"
        \/ phase[Serving] = "streaming" /\ phase'[Serving] \in {"finishing", "out"}
        \/ phase[Serving] = "finishing" /\ phase'[Serving] = "out"
    BY <1>2, PhaseSteps, ServerAssumption DEF PullEvent
  <2>2. phase'[Serving] # "out" => stage' = "events"
    <3>1. phase'[Serving] # "out" => phase[Serving] # "finishing"
      BY <2>1
    <3> QED
      BY <1>2, <3>1, Zenon DEF PullEvent
  <2>3. phase'[Serving] = "out" /\ phase[Serving] = "finishing" => stage' = "done"
    BY <1>2, Zenon DEF PullEvent
  <2>4. phase'[Serving] = "out" /\ phase[Serving] # "finishing" => stage' = "raised"
    BY <1>2, Zenon DEF PullEvent
  <2>5. stage = "events"
    BY <1>2 DEF PullEvent
  <2> QED
    BY <2>1, <2>2, <2>3, <2>4, <2>5 DEF ServingInv, Calm, Quiet
<1> QED
  BY <1>1, <1>2

LEMMA ServingInvInductive ==
  ASSUME ServerInv, ServingInv, [ServerNext]_allVars
  PROVE  ServingInv'
<1> USE ServerAssumption DEF Calm
<1>1. CASE Generating \/ PullEvent
  BY <1>1, CallLeadsTo
<1>2. CASE ReadLine
  BY <1>2 DEF ReadLine, Dispatch, Goes, vars, serviceVars, ServingInv
<1>3. CASE ReadBodyAsLine \/ LineEnds \/ ReadBody \/ BodyEnds \/ RefusePayload
  BY <1>3 DEF ReadBodyAsLine, LineEnds, ReadBody, BodyEnds, RefusePayload, Goes, vars,
              serviceVars, ServingInv
<1>4. CASE SendJson \/ SendHead
  BY <1>4 DEF SendJson, SendHead, Goes, vars, serviceVars, ServingInv
<1>5. CASE LoseEvent \/ SendError \/ SendDone
  BY <1>5 DEF LoseEvent, SendError, SendDone, Goes, vars, serviceVars, ServingInv
<1>6. CASE Settle
  <2>1. stage' = "end" /\ phase'[Serving] = "out"
    BY <1>6, PhaseSteps DEF Settle, SettleStream, vars, serviceVars
  <2> QED
    BY <2>1 DEF ServingInv
<1>7. CASE Hangup
  BY <1>7 DEF Hangup, vars, serviceVars, ServingInv
<1>8. ASSUME NEW m \in Models, CallService(m)
      PROVE  ServingInv'
  BY <1>8, PhaseSteps DEF CallService, ServingInv
<1>9. CASE Listen \/ ReturnFromServe \/ Environment \/ UNCHANGED allVars
  BY <1>9 DEF Listen, ReturnFromServe, Environment, Signal, Connect, SendBody, Leave, Send,
              allVars, serverVars, connVars, vars, serviceVars, ServingInv
<1>10. CASE Exit
  BY <1>10, PhaseSteps DEF Exit, connVars, ServingInv
<1>11. ASSUME NEW m \in Models, Preload(m) \/ PreloadEnds(m)
       PROVE  ServingInv'
  BY <1>11 DEF Preload, PreloadEnds, connVars, serviceVars, ServingInv
<1>12. ASSUME NEW c \in Callers, Embedder(c)
       PROVE  ServingInv'
  <2>1. c # Serving /\ ServiceStep(c) /\ UNCHANGED stage
    BY <1>12 DEF Embedder, ServiceStep, serverVars, connVars
  <2>2. phase'[Serving] = phase[Serving]
    BY <2>1, PhaseSteps
  <2> QED
    BY <2>1, <2>2 DEF ServingInv
<1> QED
  BY <1>1, <1>2, <1>3, <1>4, <1>5, <1>6, <1>7, <1>8, <1>9, <1>10, <1>11, <1>12
  DEF ServerNext, Serve, Answer

LEMMA ServingInvInitially == ServerInit => ServingInv
BY ServerAssumption DEF ServerInit, Init, ServingInv, Calm
--------------------------------------------------------------------------------
(***************************************************************************)
(* The connection.  While its client is there: between requests, what is   *)
(* owed is the requests unread; while one is served, it is the only one,   *)
(* as the client waits for its answer.  A body without its request line in *)
(* front of it is that of a request whose length was refused.              *)
(***************************************************************************)

Pieces == Kinds \cup {"body"}
HeadsOf(w) == Cardinality({i \in DOMAIN w : w[i] \in Kinds})

Fresh(w) ==
  \/ w = <<>>
  \/ \E kind \in Kinds : w = <<kind>>
  \/ \E kind \in Posts : w = <<kind, "body">>
AfterABody(w) ==
  \/ w = <<"body">>
  \/ \E kind \in Kinds : w = <<"body", kind>>
  \/ \E kind \in Posts : w = <<"body", kind, "body">>

AtLine ==
  /\ owed = Heads
  /\ Fresh(wire) \/ (request = "unsized" /\ AfterABody(wire))
  /\ unsent => \/ wire = <<>> /\ request = "unsized"
               \/ wire # <<>> /\ wire[Len(wire)] \in Posts

AtRequest ==
  /\ owed = 1
  /\ wire \in {<<>>, <<"body">>}
  /\ unsent => wire = <<>>
  /\ stage = "json" /\ keep /\ (unsent \/ wire # <<>>) => request = "unsized"

WireInv ==
  /\ stage = "line" => AtLine
  /\ stage \in {"body", "json"} => AtRequest
  /\ stage = "spurious" => request = "unsized" /\ ~keep
  /\ stage \in Quiet => owed = 1 /\ wire = <<>> /\ ~unsent
  /\ stage \in {"settle", "end"} => owed = Heads \/ (stage = "end" /\ request = "unsized")

ConnTypes ==
  /\ wire \in Seq(Pieces) /\ owed \in Int
  /\ unsent \in BOOLEAN /\ keep \in BOOLEAN
  /\ stage \in Calm \cup Quiet \cup {"settle"}

ConnInv ==
  /\ ConnTypes
  /\ stage = "away" => conn = "none" /\ wire = <<>> /\ owed = 0 /\ ~unsent
  /\ conn = "open" => WireInv

\* A piece sent is one more request, or none.
LEMMA HeadsAppend ==
  ASSUME NEW w \in Seq(Pieces), NEW p \in Pieces
  PROVE  /\ HeadsOf(w) \in Nat
         /\ p \in Kinds => HeadsOf(Append(w, p)) = HeadsOf(w) + 1
         /\ p \notin Kinds => HeadsOf(Append(w, p)) = HeadsOf(w)
<1> DEFINE at(v) == {i \in DOMAIN v : v[i] \in Kinds}
<1>1. Len(w) \in Nat /\ DOMAIN w = 1 .. Len(w)
  OBVIOUS
<1>2. IsFiniteSet(at(w))
  <2>1. IsFiniteSet(1 .. Len(w))
    BY <1>1, FS_Interval
  <2> QED
    BY <1>1, <2>1, FS_Subset
<1>3. DOMAIN Append(w, p) = 1 .. Len(w) + 1
  OBVIOUS
<1>4. \A i \in 1 .. Len(w) : Append(w, p)[i] = w[i]
  OBVIOUS
<1>5. Append(w, p)[Len(w) + 1] = p
  OBVIOUS
<1>6. Len(w) + 1 \notin at(w)
  BY <1>1
<1>7. p \in Kinds => at(Append(w, p)) = at(w) \cup {Len(w) + 1}
  BY <1>1, <1>3, <1>4, <1>5
<1>8. p \notin Kinds => at(Append(w, p)) = at(w)
  BY <1>1, <1>3, <1>4, <1>5
<1>9. Cardinality(at(w) \cup {Len(w) + 1}) = Cardinality(at(w)) + 1
  BY <1>2, <1>6, FS_AddElement
<1>10. Cardinality(at(w)) \in Nat
  BY <1>2, FS_CardinalityType
<1> QED
  BY <1>7, <1>8, <1>9, <1>10 DEF HeadsOf

\* A piece behind one or two.
LEMMA ShortAppends ==
  ASSUME NEW b, NEW c, NEW d
  PROVE  /\ Append(<<>>, d) = <<d>>
         /\ Append(<<c>>, d) = <<c, d>>
         /\ Append(<<b, c>>, d) = <<b, c, d>>
<1> DEFINE S == {b, c, d}
<1>1. Append(<<>>, d) = <<d>>
  OBVIOUS
<1>2. Append(<<c>>, d) = <<c, d>>
  <2>1. <<c>> \in Seq(S) /\ <<c, d>> \in Seq(S)
    OBVIOUS
  <2>2. /\ Append(<<c>>, d) \in Seq(S) /\ Len(Append(<<c>>, d)) = 2
        /\ Append(<<c>>, d)[1] = c /\ Append(<<c>>, d)[2] = d
    BY <2>1
  <2>3. Len(<<c, d>>) = 2 /\ \A i \in 1 .. 2 : Append(<<c>>, d)[i] = <<c, d>>[i]
    BY <2>2
  <2> QED
    BY <2>1, <2>2, <2>3, SeqEqual
<1>3. Append(<<b, c>>, d) = <<b, c, d>>
  <2>1. <<b, c>> \in Seq(S) /\ <<b, c, d>> \in Seq(S)
    OBVIOUS
  <2>2. /\ Append(<<b, c>>, d) \in Seq(S) /\ Len(Append(<<b, c>>, d)) = 3
        /\ Append(<<b, c>>, d)[1] = b /\ Append(<<b, c>>, d)[2] = c
        /\ Append(<<b, c>>, d)[3] = d
    BY <2>1
  <2>3. Len(<<b, c, d>>) = 3 /\ \A i \in 1 .. 3 : Append(<<b, c>>, d)[i] = <<b, c, d>>[i]
    BY <2>2
  <2> QED
    BY <2>1, <2>2, <2>3, SeqEqual
<1> QED
  BY <1>1, <1>2, <1>3

\* The requests of the short wires.
LEMMA HeadsOfShort ==
  /\ HeadsOf(<<>>) = 0 /\ HeadsOf(<<"body">>) = 0
  /\ \A kind \in Kinds :
       /\ HeadsOf(<<kind>>) = 1 /\ HeadsOf(<<kind, "body">>) = 1
       /\ HeadsOf(<<"body", kind>>) = 1 /\ HeadsOf(<<"body", kind, "body">>) = 1
<1>1. "body" \notin Kinds
  BY DEF Kinds, Posts
<1>2. Cardinality({}) = 0 /\ Cardinality({1}) = 1 /\ Cardinality({2}) = 1
  BY FS_EmptySet, FS_Singleton
<1>3. {i \in DOMAIN <<>> : <<>>[i] \in Kinds} = {}
  OBVIOUS
<1>4. {i \in DOMAIN <<"body">> : <<"body">>[i] \in Kinds} = {}
  BY <1>1
<1>5. ASSUME NEW kind \in Kinds
      PROVE  /\ {i \in DOMAIN <<kind>> : <<kind>>[i] \in Kinds} = {1}
             /\ {i \in DOMAIN <<kind, "body">> : <<kind, "body">>[i] \in Kinds} = {1}
             /\ {i \in DOMAIN <<"body", kind>> : <<"body", kind>>[i] \in Kinds} = {2}
             /\ {i \in DOMAIN <<"body", kind, "body">> :
                   <<"body", kind, "body">>[i] \in Kinds} = {2}
  BY <1>1
<1> QED
  BY <1>2, <1>3, <1>4, <1>5, Zenon DEF HeadsOf

\* What a client sends.
LEMMA SendKeepsConn ==
  ASSUME ConnInv, NEW kind \in Kinds, Send(kind)
  PROVE  ConnInv'
<1>1. /\ conn = "open" /\ owed <= 0 /\ ~unsent /\ WireInv
      /\ wire' = Append(wire, kind) /\ owed' = owed + 1 /\ unsent' = (kind \in Posts)
      /\ UNCHANGED <<conn, stage, request, keep>>
      /\ wire \in Seq(Pieces) /\ owed \in Int
  BY DEF Send, ConnInv, ConnTypes
<1>2. kind \in Pieces
  BY DEF Pieces
<1>3. wire' \in Seq(Pieces) /\ owed' \in Int
  BY <1>1, <1>2
<1>4. HeadsOf(wire') = HeadsOf(wire) + 1 /\ HeadsOf(wire) \in Nat
  BY <1>1, <1>2, HeadsAppend
<1>5. stage # "away" /\ stage \notin {"body", "json"} \cup Quiet
  <2>1. stage # "away"
    BY <1>1 DEF ConnInv
  <2>2. stage \notin {"body", "json"} \cup Quiet
    BY <1>1 DEF WireInv, AtRequest
  <2> QED
    BY <2>1, <2>2
<1>6. ASSUME stage = "line"
      PROVE  AtLine'
  <2>1. /\ owed = HeadsOf(wire)
        /\ Fresh(wire) \/ (request = "unsized" /\ AfterABody(wire))
    BY <1>1, <1>6 DEF WireInv, AtLine, Heads, HeadsOf
  <2>2. HeadsOf(wire) = 0
    BY <1>1, <1>4, <2>1
  <2>3. wire = <<>> \/ (request = "unsized" /\ wire = <<"body">>)
    <3>1. \A k \in Kinds : /\ wire # <<k>> /\ wire # <<k, "body">>
                           /\ wire # <<"body", k>> /\ wire # <<"body", k, "body">>
      <4>1. \A w : HeadsOf(w) = 1 => wire # w
        BY <2>2
      <4> QED
        BY <4>1, HeadsOfShort, Zenon
    <3>2. Posts \subseteq Kinds
      BY DEF Kinds
    <3>3. ~Fresh(wire) \/ wire = <<>>
      BY <3>1, <3>2 DEF Fresh
    <3>4. ~AfterABody(wire) \/ wire = <<"body">>
      BY <3>1, <3>2 DEF AfterABody
    <3> QED
      BY <2>1, <3>3, <3>4, Zenon
  <2>4. wire' = <<kind>> \/ (request = "unsized" /\ wire' = <<"body", kind>>)
    BY <1>1, <2>3, ShortAppends
  <2>5. owed' = HeadsOf(wire')
    BY <1>1, <1>4, <2>1
  <2>6. wire' # <<>> /\ wire'[Len(wire')] = kind
    BY <2>4
  <2> QED
    BY <1>1, <2>4, <2>5, <2>6 DEF AtLine, Heads, HeadsOf, Fresh, AfterABody
<1>7. ASSUME stage \in {"settle", "end"}
      PROVE  owed' = Heads' \/ (stage = "end" /\ request = "unsized")
  BY <1>1, <1>4, <1>7 DEF WireInv, Heads, HeadsOf
<1>8. WireInv'
  BY <1>1, <1>5, <1>6, <1>7 DEF WireInv
<1>9. unsent' \in BOOLEAN
  BY <1>1
<1> QED
  BY <1>1, <1>3, <1>5, <1>8, <1>9 DEF ConnInv, ConnTypes

LEMMA SendBodyKeepsConn ==
  ASSUME ConnInv, SendBody
  PROVE  ConnInv'
<1>1. /\ conn = "open" /\ unsent /\ WireInv
      /\ wire' = Append(wire, "body") /\ unsent' = FALSE
      /\ UNCHANGED <<conn, owed, stage, request, keep>>
      /\ wire \in Seq(Pieces) /\ owed \in Int
  BY DEF SendBody, ConnInv, ConnTypes
<1>2. "body" \in Pieces \ Kinds
  BY DEF Pieces, Kinds, Posts
<1>3. wire' \in Seq(Pieces)
  BY <1>1, <1>2
<1>4. HeadsOf(wire') = HeadsOf(wire)
  BY <1>1, <1>2, HeadsAppend
<1>5. stage # "away" /\ stage \notin Quiet
  BY <1>1 DEF ConnInv, WireInv
<1>6. ASSUME stage = "line"
      PROVE  AtLine'
  <2>1. /\ owed = HeadsOf(wire)
        /\ Fresh(wire) \/ (request = "unsized" /\ AfterABody(wire))
        /\ \/ wire = <<>> /\ request = "unsized"
           \/ wire # <<>> /\ wire[Len(wire)] \in Posts
    BY <1>1, <1>6 DEF WireInv, AtLine, Heads, HeadsOf
  <2>2. "body" \notin Posts
    BY DEF Posts
  <2>3. \/ request = "unsized" /\ wire = <<>>
        \/ \E kind \in Posts : wire = <<kind>>
        \/ request = "unsized" /\ \E kind \in Posts : wire = <<"body", kind>>
    <3>1. wire # <<"body">> /\ \A kind \in Posts : wire # <<kind, "body">>
          /\ wire # <<"body", kind, "body">>
      BY <2>1, <2>2
    <3>2. CASE wire = <<>>
      BY <2>1, <3>2
    <3>3. ASSUME NEW kind \in Kinds, wire = <<kind>>
          PROVE  kind \in Posts
      BY <2>1, <3>3
    <3>4. ASSUME NEW kind \in Kinds, wire = <<"body", kind>>
          PROVE  kind \in Posts
      BY <2>1, <3>4
    <3> QED
      BY <2>1, <3>1, <3>2, <3>3, <3>4 DEF Fresh, AfterABody
  <2>4. \/ request = "unsized" /\ wire' = <<"body">>
        \/ \E kind \in Posts : wire' = <<kind, "body">>
        \/ request = "unsized" /\ \E kind \in Posts : wire' = <<"body", kind, "body">>
    <3>1. CASE request = "unsized" /\ wire = <<>>
      BY <1>1, <3>1, ShortAppends
    <3>2. ASSUME NEW kind \in Posts, wire = <<kind>>
          PROVE  wire' = <<kind, "body">>
      BY <1>1, <3>2, ShortAppends
    <3>3. ASSUME NEW kind \in Posts, wire = <<"body", kind>>
          PROVE  wire' = <<"body", kind, "body">>
      BY <1>1, <3>3, ShortAppends
    <3> QED
      BY <2>3, <3>1, <3>2, <3>3
  <2>5. owed' = HeadsOf(wire')
    BY <1>1, <1>4, <2>1
  <2> QED
    BY <1>1, <2>4, <2>5 DEF AtLine, Heads, HeadsOf, Fresh, AfterABody
<1>7. ASSUME stage \in {"body", "json"}
      PROVE  AtRequest'
  <2>1. owed = 1 /\ wire = <<>> /\ (stage = "json" /\ keep => request = "unsized")
    BY <1>1, <1>7 DEF WireInv, AtRequest
  <2>2. wire' = <<"body">>
    BY <1>1, <2>1
  <2> QED
    BY <1>1, <2>1, <2>2 DEF AtRequest
<1>8. ASSUME stage \in {"settle", "end"}
      PROVE  owed' = Heads' \/ (stage = "end" /\ request = "unsized")
  BY <1>1, <1>4, <1>8 DEF WireInv, Heads, HeadsOf
<1>9. WireInv'
  BY <1>1, <1>5, <1>6, <1>7, <1>8 DEF WireInv
<1> QED
  BY <1>1, <1>3, <1>5, <1>9 DEF ConnInv, ConnTypes

\* What the serving thread reads.
LEMMA ReadLineKeepsConn ==
  ASSUME ConnInv, ReadLine
  PROVE  ConnInv'
<1>1. /\ stage = "line" /\ wire # <<>> /\ Head(wire) \in Kinds
      /\ request' = Head(wire) /\ wire' = Tail(wire)
      /\ UNCHANGED <<owed, conn, unsent>>
      /\ keep' \in BOOLEAN /\ (request' = "elsewhere" => keep' = FALSE)
      /\ stage' = IF request' \in {"get", "elsewhere", "unsized"} THEN "json" ELSE "body"
      /\ wire \in Seq(Pieces) /\ owed \in Int
  BY DEF ReadLine, Dispatch, Goes, ConnInv, ConnTypes
<1>2. wire' \in Seq(Pieces)
  BY <1>1
<1>3. ASSUME conn = "open"
      PROVE  AtRequest'
  <2>1. AtLine
    BY <1>1, <1>3 DEF ConnInv, WireInv
  <2>2. "body" \notin Kinds
    BY DEF Kinds, Posts
  <2>3. PICK kind \in Kinds : wire = <<kind>> \/ (kind \in Posts /\ wire = <<kind, "body">>)
    <3>1. ~AfterABody(wire)
      BY <1>1, <2>2 DEF AfterABody
    <3> QED
      BY <1>1, <2>1, <3>1 DEF AtLine, Fresh, Kinds
  <2>4. request' = kind /\ owed' = 1
    <3>1. owed = HeadsOf(wire)
      BY <2>1 DEF AtLine, Heads, HeadsOf
    <3>2. HeadsOf(wire) = 1
      BY <2>3, HeadsOfShort
    <3> QED
      BY <1>1, <2>3, <3>1, <3>2
  <2>5. CASE wire = <<kind>>
    <3>1. wire' = <<>> /\ wire[Len(wire)] = kind
      BY <1>1, <2>5
    <3>2. unsent => kind \in Posts
      BY <1>1, <2>1, <3>1 DEF AtLine
    <3> QED
      BY <1>1, <2>4, <3>1, <3>2 DEF AtRequest, Posts
  <2>6. CASE kind \in Posts /\ wire = <<kind, "body">>
    <3>1. wire' = <<"body">> /\ wire[Len(wire)] = "body"
      BY <1>1, <2>6
    <3>2. ~unsent
      BY <1>1, <2>1, <2>2, <3>1 DEF AtLine, Kinds
    <3> QED
      BY <1>1, <2>4, <2>6, <3>1, <3>2 DEF AtRequest, Posts
  <2> QED
    BY <2>3, <2>5, <2>6
<1>4. conn' = "open" => WireInv'
  BY <1>1, <1>3 DEF WireInv, Quiet
<1> QED
  BY <1>1, <1>2, <1>4 DEF ConnInv, ConnTypes, Calm

LEMMA ReadBodyAsLineKeepsConn ==
  ASSUME ConnInv, ReadBodyAsLine
  PROVE  ConnInv'
<1>1. /\ stage = "line" /\ wire # <<>> /\ Head(wire) = "body"
      /\ wire' \in {Tail(wire)} \cup {Tail(Tail(wire)) : i \in {2} \cap DOMAIN wire}
      /\ UNCHANGED <<owed, request, conn, unsent>>
      /\ keep' = FALSE /\ stage' = "spurious"
      /\ wire \in Seq(Pieces) /\ owed \in Int
  BY DEF ReadBodyAsLine, Goes, ConnInv, ConnTypes
<1>2. wire' \in Seq(Pieces)
  <2>1. Tail(wire) \in Seq(Pieces)
    BY <1>1
  <2>2. 2 \in DOMAIN wire => Tail(wire) # <<>>
    <3>1. 2 \in DOMAIN wire => Len(wire) >= 2 /\ Len(Tail(wire)) = Len(wire) - 1
      BY <1>1
    <3> QED
      BY <1>1, <3>1
  <2>3. 2 \in DOMAIN wire => Tail(Tail(wire)) \in Seq(Pieces)
    BY <2>1, <2>2
  <2> QED
    BY <1>1, <2>1, <2>3
<1>3. conn = "open" => request = "unsized"
  <2>1. "body" \notin Kinds
    BY DEF Kinds, Posts
  <2>2. ~Fresh(wire)
    BY <1>1, <2>1 DEF Fresh, Kinds
  <2> QED
    BY <1>1, <2>2 DEF ConnInv, WireInv, AtLine
<1> QED
  BY <1>1, <1>2, <1>3 DEF ConnInv, ConnTypes, WireInv, Calm, Quiet

LEMMA ReadBodyKeepsConn ==
  ASSUME ConnInv, ReadBody \/ BodyEnds
  PROVE  ConnInv'
<1>1. /\ stage = "body" /\ stage' \in {"json", "service"}
      /\ UNCHANGED <<owed, request, conn, unsent>>
      /\ wire \in Seq(Pieces) /\ owed \in Int /\ keep' \in BOOLEAN
  BY DEF ReadBody, BodyEnds, Goes, ConnInv, ConnTypes
<1>2. CASE ReadBody
  <2>1. wire # <<>> /\ wire' = Tail(wire)
    BY <1>2 DEF ReadBody
  <2>2. wire' \in Seq(Pieces)
    BY <1>1, <2>1
  <2>3. conn = "open" => owed' = 1 /\ wire' = <<>> /\ ~unsent'
    BY <1>1, <2>1 DEF ConnInv, WireInv, AtRequest
  <2>4. conn' = "open" => WireInv'
    BY <1>1, <2>3 DEF WireInv, AtRequest, Quiet
  <2> QED
    BY <1>1, <2>2, <2>4 DEF ConnInv, ConnTypes, Calm
<1>3. CASE BodyEnds
  <2>1. /\ wire' = wire /\ wire = <<>> /\ stage' = "json"
        /\ conn = "open" => keep' = FALSE
    BY <1>3 DEF BodyEnds, Goes
  <2>2. conn' = "open" => WireInv'
    BY <1>1, <2>1 DEF ConnInv, WireInv, AtRequest, Quiet
  <2> QED
    BY <1>1, <2>1, <2>2 DEF ConnInv, ConnTypes, Calm
<1> QED
  BY <1>2, <1>3

\* The steps from the body read to the last event: the client waits.
LEMMA QuietStepKeepsConn ==
  ASSUME ConnInv, stage \in Quiet, UNCHANGED <<wire, owed, conn, unsent>>, keep' \in BOOLEAN,
         stage' \in Quiet \cup {"json", "settle"},
         stage' = "settle" => conn = "gone"
  PROVE  ConnInv'
<1>1. ConnTypes'
  BY DEF ConnInv, ConnTypes, Calm
<1>2. conn = "open" => owed' = 1 /\ wire' = <<>> /\ ~unsent'
  BY DEF ConnInv, WireInv
<1>3. conn' = "open" => WireInv'
  BY <1>2 DEF WireInv, AtRequest, Quiet
<1> QED
  BY <1>1, <1>3 DEF ConnInv, Quiet

LEMMA SendJsonKeepsConn ==
  ASSUME ConnInv, SendJson
  PROVE  ConnInv'
<1>1. /\ stage \in {"json", "spurious"} /\ stage' \in {"line", "end"}
      /\ UNCHANGED <<wire, request, keep, conn, unsent>> /\ owed' \in Int
      /\ stage' = "line" => keep
      /\ conn = "open" => owed' = owed - 1
  BY DEF SendJson, Goes, ConnInv, ConnTypes
<1>2. ConnTypes'
  BY <1>1 DEF ConnInv, ConnTypes, Calm
<1>3. CASE conn = "open" /\ stage = "spurious"
  BY <1>1, <1>2, <1>3 DEF ConnInv, WireInv, Quiet
<1>4. CASE conn = "open" /\ stage = "json"
  <2>1. /\ owed' = 0 /\ wire' \in {<<>>, <<"body">>} /\ (unsent' => wire' = <<>>)
        /\ keep /\ (unsent' \/ wire' # <<>>) => request' = "unsized"
    BY <1>1, <1>4 DEF ConnInv, WireInv, AtRequest
  <2>2. owed' = Heads'
    <3>1. HeadsOf(wire') = 0
      BY <2>1, HeadsOfShort
    <3> QED
      BY <2>1, <3>1 DEF Heads, HeadsOf
  <2>3. stage' = "line" => AtLine'
    BY <1>1, <2>1, <2>2 DEF AtLine, Fresh, AfterABody
  <2> QED
    BY <1>1, <1>2, <2>2, <2>3 DEF ConnInv, WireInv, Quiet
<1>5. CASE conn # "open"
  BY <1>1, <1>2, <1>5 DEF ConnInv
<1> QED
  BY <1>1, <1>3, <1>4, <1>5

LEMMA SendDoneKeepsConn ==
  ASSUME ConnInv, SendDone
  PROVE  ConnInv'
<1>1. /\ stage = "done" /\ stage' = "settle" /\ UNCHANGED <<wire, request, keep, conn, unsent>>
      /\ owed' \in Int /\ (conn = "open" => owed' = owed - 1)
  BY DEF SendDone, Goes, ConnInv, ConnTypes
<1>2. ConnTypes'
  BY <1>1 DEF ConnInv, ConnTypes
<1>3. conn = "open" => owed' = 0 /\ wire' = <<>>
  BY <1>1 DEF ConnInv, WireInv, Quiet
<1>4. conn = "open" => owed' = Heads'
  BY <1>3, HeadsOfShort DEF Heads, HeadsOf
<1> QED
  BY <1>1, <1>2, <1>4 DEF ConnInv, WireInv, Quiet

LEMMA AnswerKeepsConn ==
  ASSUME ServerInv, ServingInv, ConnInv, Answer
  PROVE  ConnInv'
<1>1. CASE ReadLine \/ ReadBodyAsLine \/ ReadBody \/ BodyEnds \/ SendJson \/ SendDone
  BY <1>1, ReadLineKeepsConn, ReadBodyAsLineKeepsConn, ReadBodyKeepsConn, SendJsonKeepsConn,
     SendDoneKeepsConn
<1>2. CASE LineEnds
  BY <1>2 DEF LineEnds, Goes, ConnInv, ConnTypes, WireInv, AtLine, Calm, Quiet, Heads
<1>3. CASE RefusePayload
  BY <1>3, QuietStepKeepsConn DEF RefusePayload, Goes, ConnInv, ConnTypes, Quiet
<1>4. CASE \E m \in Models : CallService(m)
  BY <1>4, QuietStepKeepsConn DEF CallService, ConnInv, ConnTypes, Quiet
<1>5. CASE Generating \/ PullEvent
  <2>1. stage \in Quiet /\ stage' \in Quiet \cup {"json"}
    BY <1>5, CallLeadsTo DEF Quiet
  <2>2. UNCHANGED <<wire, owed, conn, unsent, keep>>
    BY <1>5 DEF Generating, PullEvent
  <2>3. keep' \in BOOLEAN /\ stage' # "settle"
    BY <2>1, <2>2 DEF ConnInv, ConnTypes, Quiet
  <2> QED
    BY <2>1, <2>2, <2>3, QuietStepKeepsConn
<1>6. CASE SendHead \/ LoseEvent \/ SendError
  BY <1>6, QuietStepKeepsConn DEF SendHead, LoseEvent, SendError, Goes, ConnInv, ConnTypes, Quiet
<1>7. CASE Settle
  BY <1>7 DEF Settle, ConnInv, ConnTypes, WireInv, Calm, Quiet, Heads
<1>8. CASE Hangup
  <2>1. /\ stage' = "away" /\ conn' = "none" /\ wire' = <<>> /\ ~unsent' /\ owed' = 0
        /\ keep' = FALSE /\ unsent' = FALSE
    BY <1>8 DEF Hangup
  <2>2. wire' \in Seq(Pieces)
    <3>1. <<>> \in Seq(Pieces)
      OBVIOUS
    <3> QED
      BY <2>1, <3>1, Zenon
  <2>3. /\ owed' \in Int /\ unsent' \in BOOLEAN /\ keep' \in BOOLEAN
        /\ stage' \in Calm \cup Quiet \cup {"settle"} /\ conn' # "open"
    <3>1. unsent' \in BOOLEAN /\ keep' \in BOOLEAN
      BY <2>1, Zenon
    <3>2. owed' \in Int /\ stage' \in Calm /\ conn' # "open"
      BY <2>1 DEF Calm
    <3> QED
      BY <3>1, <3>2
  <2> QED
    BY <2>1, <2>2, <2>3, Zenon DEF ConnInv, ConnTypes
<1> QED
  BY <1>1, <1>2, <1>3, <1>4, <1>5, <1>6, <1>7, <1>8 DEF Answer

LEMMA ConnInvInductive ==
  ASSUME ServerInv, ServingInv, ConnInv, [ServerNext]_allVars
  PROVE  ConnInv'
<1>1. CASE Answer
  BY <1>1, AnswerKeepsConn
<1>2. ASSUME UNCHANGED connVars
      PROVE  ConnInv'
  BY <1>2 DEF connVars, ConnInv, ConnTypes, WireInv, AtLine, AtRequest, Heads
<1>3. CASE Listen \/ ReturnFromServe \/ Exit \/ \E m \in Models : Preload(m) \/ PreloadEnds(m)
  BY <1>2, <1>3 DEF Listen, ReturnFromServe, Exit, Preload, PreloadEnds
<1>4. CASE Signal \/ UNCHANGED allVars \/ \E c \in Callers : Embedder(c)
  BY <1>2, <1>4 DEF Signal, allVars, serverVars, Embedder
<1>5. CASE Connect
  <2>1. /\ stage = "away" /\ conn' = "open" /\ stage' = "line"
        /\ UNCHANGED <<wire, unsent, owed, request, keep>>
        /\ wire = <<>> /\ ~unsent /\ owed = 0
    BY <1>5 DEF Connect, ConnInv
  <2>2. owed' = Heads'
    BY <2>1, HeadsOfShort DEF Heads, HeadsOf
  <2>3. AtLine'
    BY <2>1, <2>2 DEF AtLine, Fresh
  <2> QED
    BY <2>1, <2>3 DEF ConnInv, ConnTypes, WireInv, Calm, Quiet
<1>6. CASE SendBody \/ \E kind \in Kinds : Send(kind)
  BY <1>6, SendBodyKeepsConn, SendKeepsConn
<1>7. CASE Leave
  BY <1>7 DEF Leave, ConnInv, ConnTypes
<1> QED
  BY <1>1, <1>3, <1>4, <1>5, <1>6, <1>7 DEF ServerNext, Serve, Environment

LEMMA ConnInvInitially == ServerInit => ConnInv
<1> SUFFICES ASSUME ServerInit
             PROVE  ConnInv
  OBVIOUS
<1>1. <<>> \in Seq(Pieces)
  OBVIOUS
<1>2. wire \in Seq(Pieces)
  BY <1>1, Zenon DEF ServerInit
<1>3. /\ owed \in Int /\ unsent \in BOOLEAN /\ keep \in BOOLEAN
      /\ stage \in Calm \cup Quiet \cup {"settle"} /\ conn # "open"
  <2>1. unsent \in BOOLEAN /\ keep \in BOOLEAN
    BY Zenon DEF ServerInit
  <2>2. owed \in Int /\ stage \in Calm /\ conn # "open"
    BY DEF ServerInit, Calm
  <2> QED
    BY <2>1, <2>2
<1>4. ~unsent
  BY DEF ServerInit
<1> QED
  BY <1>2, <1>3, <1>4, Zenon DEF ServerInit, ConnInv, ConnTypes
--------------------------------------------------------------------------------
(***************************************************************************)
(* What follows.                                                           *)
(***************************************************************************)

\* The active engine is open and no other one is, at every step of every switch, failed
\* load and close, under the HTTP server and any number of embedding callers.
THEOREM OneEngineIsOpen == ServerSpec => []OneEngineOpen
<1>1. ServerInv => OneEngineOpen
  BY DEF ServerInv, EngineInv
<1> QED
  BY <1>1, ServerInvariance, PTL

\* One request at most is unsettled, the slot is taken exactly while there is one, and
\* the metrics balance.
THEOREM TheSlotIsAccounted == ServerSpec => []SlotIsAccounted
<1>1. ASSUME ServerInv
      PROVE  SlotIsAccounted
  <2>1. metrics.active = Cardinality(Unsettled)
    <3>1. CASE slotFree
      BY <1>1, <3>1, FS_EmptySet DEF ServerInv, SlotInv
    <3>2. CASE ~slotFree
      <4>1. PICK c \in Unsettled : Unsettled = {c}
        BY <1>1, <3>2 DEF ServerInv, SlotInv
      <4> QED
        BY <1>1, <3>2, <4>1, FS_Singleton DEF ServerInv, SlotInv
    <3> QED
      BY <3>1, <3>2
  <2> QED
    BY <1>1, <2>1 DEF ServerInv, SlotInv, SlotIsAccounted
<1> QED
  BY <1>1, ServerInvariance, PTL

\* The engine of an unsettled request stays the active one until the service is closed.
THEOREM TheEngineInUseIsKept == ServerSpec => []EngineInUse
<1>1. ServerInv => EngineInUse
  BY DEF ServerInv, EngineInv
<1> QED
  BY <1>1, ServerInvariance, PTL

\* Whatever became of a client, between connections and between the requests of one the
\* serving thread has no unsettled generation (app.py:1093-1127).
THEOREM ConnectionsLeaveNothing == ServerSpec => []NothingOutlivesAConnection
<1>1. ServingInv => NothingOutlivesAConnection
  BY DEF ServingInv, Calm, NothingOutlivesAConnection
<1> QED
  BY <1>1, ServerInvInitially, ServerInvInductive, ServingInvInitially, ServingInvInductive,
     PTL DEF ServerSpec

\* Every request read from a connection has had exactly one whole answer by the next
\* request line and by the connection's end, unless the connection ends on the unread
\* body of a request whose length was refused (app.py:1028-1138).
THEOREM EveryRequestIsAnswered == ServerSpec => []AnswersMatchRequests
<1>1. ConnInv => AnswersMatchRequests
  BY DEF ConnInv, WireInv, AtLine, AnswersMatchRequests
<1> QED
  BY <1>1, ServerInvInitially, ServerInvInductive, ServingInvInitially, ServingInvInductive,
     ConnInvInitially, ConnInvInductive, PTL DEF ServerSpec
================================================================================
