----------------------------- MODULE ModelRegistry -----------------------------
(***************************************************************************)
(* The registry that owns the engines (server/registry.py): an activation  *)
(* first unloads another active model and then loads the wanted one, both  *)
(* under _lock, with everything that fails in between.                     *)
(***************************************************************************)
EXTENDS Naturals, FiniteSets

CONSTANTS
  Models,   \* the registered model ids
  Callers,  \* the threads that call the registry
  NoModel,  \* no active model
  NoCaller  \* _lock is free

ASSUME RegistryAssumption ==
  /\ NoModel \notin Models
  /\ NoCaller \notin Callers

VARIABLES
  activeModel,  \* _active_model_id, with _active_engine its engine
  open,         \* per model, how many of its engines are loaded and not closed
  holder        \* the caller inside an activation, NoCaller otherwise

registryVars == <<activeModel, open, holder>>

RegistryInit ==
  /\ activeModel = NoModel
  /\ open = [m \in Models |-> 0]
  /\ holder = NoCaller
--------------------------------------------------------------------------------
\* _unload_active_locked: the engine is forgotten and closed; close may raise, the
\* engine is forgotten all the same.  Faulty variant: it is only forgotten.
ForgetActive == activeModel' = NoModel /\ UNCHANGED open
UnloadActive ==
  /\ activeModel' = NoModel
  /\ open' = [m \in Models |-> IF m = activeModel THEN open[m] - 1 ELSE open[m]]

\* activate m: the engine is there.
ActivateLoaded(m) ==
  /\ holder = NoCaller
  /\ activeModel = m
  /\ UNCHANGED registryVars

\* activate m: any other engine is unloaded and c goes on to load m ...
ActivateOther(c, m) ==
  /\ holder = NoCaller
  /\ activeModel # m
  /\ UnloadActive
  /\ holder' = c

\* ... unless the close of the old engine raised.
ActivateRaises(m) ==
  /\ holder = NoCaller
  /\ activeModel \notin {m, NoModel}
  /\ UnloadActive
  /\ UNCHANGED holder

LoadEngine(c, m) ==
  /\ holder = c
  /\ activeModel' = m
  /\ open' = [open EXCEPT ![m] = @ + 1]
  /\ holder' = NoCaller

LoadRaises(c) ==
  /\ holder = c
  /\ holder' = NoCaller
  /\ UNCHANGED <<activeModel, open>>

CloseRegistry ==
  /\ holder = NoCaller
  /\ UnloadActive
  /\ UNCHANGED holder
--------------------------------------------------------------------------------
RegistryTypeOK ==
  /\ activeModel \in Models \cup {NoModel}
  /\ open \in [Models -> Nat]
  /\ holder \in Callers \cup {NoCaller}

\* The active engine is open and no other one is, at every step of a switch, also one
\* that fails half way: two models are never loaded at once and none is leaked
\* (registry.py:42-45, :82-137).
OneEngineOpen ==
  \A m \in Models : open[m] = IF m = activeModel THEN 1 ELSE 0
================================================================================
