-------------------------------- MODULE Startup --------------------------------
(***************************************************************************)
(* The start of an engine: the memory plan of memory.py with the KV        *)
(* reservation of kv_cache.py, the construction of the expert runtime, the *)
(* startup mode and the warmup (startup.py, runtime.py warmup), up to the  *)
(* end of an adapter's load_shell.  One thread does all of it; the reads   *)
(* that the warmup has ahead of itself are the loader's.                   *)
(*                                                                         *)
(* The cache is that of ResidentCache.  Until the runtime is built its     *)
(* variables mean nothing and keep their initial values.                   *)
(***************************************************************************)
EXTENDS ResidentCache, Sequences

CONSTANTS
  GiB,        \* 1024**3, in the instance's unit of memory
  OnDisk,     \* the keys in ascending (file, offset) order (_warmup_order)
  Settings,   \* what a start is given, see SettingsAssumption
  Others      \* active memory beside the shell and the experts read, when probed

KvModes == {"bf16", "8bit", "4bit"}

\* A size of zero stands for an option that is not given (the code refuses zero).
ASSUME SettingsAssumption ==
  /\ GiB \in Nat
  /\ Others \subseteq Int
  /\ OnDisk \in Seq(Keys) /\ OnDisk # <<>>
  /\ \A k \in Keys : \E i \in DOMAIN OnDisk : OnDisk[i] = k
  /\ \A i, j \in DOMAIN OnDisk : i # j => OnDisk[i] # OnDisk[j]
  /\ \A s \in Settings :
       \* mx.device_info; zero when unknown
       /\ s.physical \in Nat /\ s.recommended \in Nat
       /\ s.physical > 0 => s.recommended <= s.physical
       \* --max-unified-memory, --memory-safety-margin and the reserves
       /\ s.explicit \in Nat
       /\ s.marginPolicy \in {"auto", "adaptive", "fixed"} /\ s.margin \in Nat
       /\ s.kvReserve \in Nat /\ s.scratch \in Nat
       \* --resident-budget: a size, auto, or off
       /\ s.requested \in Nat /\ s.auto \in BOOLEAN
       \* the measured shell; the model's attention layers and the context
       /\ s.shell \in Nat
       /\ s.full \in Nat /\ s.sliding \in Nat /\ s.window \in Nat
       /\ s.width \in Nat \ {0} /\ s.context \in Nat \ {0}
       /\ s.kvMode \in KvModes \cup {"auto"} /\ s.group \in Nat \ {0}
       \* --io-workers, --prefetch-depth, --predictor, --warmup
       /\ s.workers \in Nat /\ s.depth \in Nat
       /\ s.predictor \in {"none", "fitting", "foreign"} /\ s.warmup \in BOOLEAN

VARIABLES
  setting,   \* the start's options and measurements
  phase,     \* where load_shell is
  mode,      \* the StartupMode decided
  index,     \* the warmup's position in OnDisk
  ahead,     \* the keys registered in the loader by the warmup
  errors,    \* reader_errors
  reason,    \* stop_reason of the warmup
  other,     \* history: the other active memory the warmup stopped for
  threads,   \* the loader's worker threads run
  files      \* the store may have open descriptors: a read was submitted

startVars == <<setting, phase, mode, index, ahead, errors, reason, other, threads, files>>
vars == <<cacheVars, startVars>>

Larger(m, n) == IF m >= n THEN m ELSE n
Smaller(m, n) == IF m <= n THEN m ELSE n
--------------------------------------------------------------------------------
(* The memory plan, in whole bytes.                                         *)

\* The margin kept free, by policy (automatic_ and adaptive_safety_margin_bytes).
Bounded(margin, least) == Smaller(8 * GiB, Larger(least, margin))
Margin(s) ==
  CASE s.marginPolicy = "auto"     -> Bounded(s.physical \div 4, 2 * GiB)
    [] s.marginPolicy = "adaptive" ->
         Bounded(s.physical \div 4 - (s.physical - s.recommended), GiB)
    [] s.marginPolicy = "fixed"    -> s.margin

\* _resolve_working_set: the explicit ceiling, or what the OS recommends.
Recommended(s) == IF s.recommended > 0 THEN s.recommended ELSE s.physical
WorkingSet(s) == IF s.explicit > 0 THEN s.explicit ELSE Recommended(s)

\* estimate_bf16_kv_bytes: keys and values of two bytes; a sliding layer keeps at most
\* its window, a linear layer nothing.
Bf16Bytes(s) ==
  (s.full * s.context + s.sliding * Smaller(s.context, s.window)) * s.width * 4

\* _quantized_estimate: the packed values and one scale of two bytes per group.
QuantizedBytes(s, bits) ==
  LET elements == Bf16Bytes(s) \div 2
  IN  (elements * bits + 7) \div 8 + ((elements + s.group - 1) \div s.group) * 2

KvBytes(s, kv) ==
  CASE kv = "bf16" -> Bf16Bytes(s)
    [] kv = "8bit" -> QuantizedBytes(s, 8)
    [] kv = "4bit" -> QuantizedBytes(s, 4)

\* What a working set leaves to the KV cache and the experts.
Headroom(s, workingSet) == Larger(0, workingSet - Margin(s) - s.shell - s.scratch)

\* resolve_kv_cache: the automatic choice is the widest that fits a quarter of the
\* headroom, by the recommended working set.
Allowance(s) == Headroom(s, Recommended(s)) \div 4
Fitting(s) == {kv \in {"bf16", "8bit"} : KvBytes(s, kv) <= Allowance(s)}
AutomaticMode(s) ==
  CASE "bf16" \in Fitting(s)  -> "bf16"
    [] Fitting(s) = {"8bit"}  -> "8bit"
    [] OTHER                  -> "4bit"
KvMode(s) == IF s.kvMode = "auto" THEN AutomaticMode(s) ELSE s.kvMode

\* The reservation the plan is made with.  Faulty variant: the configured one.
ConfiguredReserve(s) == s.kvReserve
KvReserve(s) == Larger(s.kvReserve, KvBytes(s, KvMode(s)))

\* plan: what is safe to use, and what is left of it for the experts.
Safe(s) == WorkingSet(s) - Margin(s)
Available(s) == Safe(s) - s.shell - KvReserve(s) - s.scratch
WantsCache(s) == s.requested > 0 \/ s.auto
Budget(s) == IF s.requested > 0 THEN s.requested ELSE Available(s)

\* The plan is made: no check of the margin policy and of plan raises.
Plannable(s) ==
  /\ s.marginPolicy # "fixed" => s.physical > 0
  /\ ~(s.requested > 0 /\ s.auto)
  /\ s.physical > 0 => s.explicit <= s.physical
  /\ WantsCache(s) => \A k \in Keys : Size[k] <= Available(s)
  /\ s.requested > 0 => s.requested <= Available(s)
--------------------------------------------------------------------------------
(* The start.                                                               *)

StartInit ==
  /\ CacheInit
  /\ setting \in Settings
  /\ phase = "measured"
  /\ mode = "none" /\ reason = "none"
  /\ index = 0 /\ ahead = {} /\ errors = 0 /\ other = 0
  /\ threads = FALSE /\ files = FALSE

\* make_memory_manager and plan; a raising check leaves nothing behind.
Plan ==
  /\ phase = "measured"
  /\ phase' = IF Plannable(setting) THEN "planned" ELSE "failed"
  /\ UNCHANGED <<cacheVars, setting, mode, index, ahead, errors, reason, other, threads, files>>

\* The constructor of either runtime: settings are checked, the loader's workers
\* start, then the predictor is checked against the manifest.
Build ==
  /\ phase = "planned"
  /\ LET valid == setting.predictor # "none" => setting.workers > 0
         built == valid /\ setting.predictor # "foreign"
     IN  /\ phase' = IF built THEN "built" ELSE "failed"
         /\ threads' = (valid /\ setting.workers > 0)
         /\ capacity' = IF built /\ WantsCache(setting) THEN Budget(setting) ELSE capacity
  /\ UNCHANGED <<entries, older, pins, residentBytes, raised,
                 setting, mode, index, ahead, errors, reason, other, files>>

\* Whether the budget holds every expert at once.  Faulty variant: nearly.
HoldsNearlyAll(s) == Budget(s) + 1 >= BytesOf(Keys)
HoldsAll(s) == Budget(s) >= BytesOf(Keys)

\* The loader has room for one more registered read.
Depth == IF setting.workers = 0 THEN 0 ELSE setting.depth
MaxInflight == setting.workers + setting.depth

\* The keys the warmup submits before it begins.
FirstReads == {OnDisk[i] : i \in 1 .. Smaller(Depth, Len(OnDisk))}

\* _decide_and_act: the mode follows from the budget, and from it alone when the
\* advisor raises; a full residency is warmed up.
Decide(advised) ==
  /\ phase = "built"
  /\ mode' = IF ~WantsCache(setting) THEN "no_cache"
             ELSE IF advised /\ HoldsAll(setting) THEN "full_residency" ELSE "streaming"
  /\ LET warms == setting.warmup /\ mode' = "full_residency"
     IN  /\ phase' = IF warms THEN "warming" ELSE "installing"
         /\ index' = IF warms THEN 1 ELSE 0
         /\ ahead' = IF warms THEN FirstReads ELSE {}
         /\ files' = (ahead' # {})
  /\ UNCHANGED <<cacheVars, setting, errors, reason, other, threads>>

Considers(k) == phase = "warming" /\ index <= Len(OnDisk) /\ k = OnDisk[index]
HasRoomFor(k) == residentBytes + Size[k] <= capacity

\* The warmup ends with key k still to come: its time is up, or k would not fit.
StopBefore(k, why) ==
  /\ Considers(k)
  /\ \/ why = "deadline"
     \/ why = "capacity" /\ ~HasRoomFor(k)
  /\ reason' = why
  /\ phase' = "installing"
  /\ UNCHANGED <<cacheVars, setting, mode, index, ahead, errors, other, threads, files>>

\* The read Depth keys further is submitted if the loader has room for it, and k is
\* demanded, which takes it from the registry.  Faulty variant: it stays there.
StillRegistered(registered, k) == registered
Taken(registered, k) == registered \ {k}
Read(k) ==
  LET far  == {OnDisk[i] : i \in {index + Depth} \cap DOMAIN OnDisk}
      more == IF Depth > 0 /\ Cardinality(ahead) < MaxInflight THEN far ELSE {}
  IN  /\ ahead' = Taken(ahead \cup more, k)
      /\ files' = TRUE

\* The next key of the loop.
Advance == index' = index + 1

\* Reading k or building its arrays raises, and the warmup goes on without it.
SkipFailed(k) ==
  /\ Considers(k)
  /\ HasRoomFor(k)
  /\ Read(k)
  /\ errors' = errors + 1
  /\ Advance
  /\ UNCHANGED <<cacheVars, setting, phase, mode, reason, other, threads>>

\* The ceiling the active memory is compared with.  Faulty variant: the experts' share.
CeilingOfExperts == setting.shell + Available(setting)
Ceiling == Safe(setting)
Active(k, rest) == setting.shell + residentBytes + Size[k] + rest

\* k is read and evaluated: it is admitted, or the warmup stops at the ceiling.  A
\* probe that raises is one that finds nothing else in memory.
Warm(k) ==
  /\ Considers(k)
  /\ HasRoomFor(k)
  /\ Read(k)
  /\ \E rest \in Others :
       \/ /\ Active(k, rest) <= Ceiling
          /\ Admit(k)
          /\ Advance
          /\ UNCHANGED <<phase, reason, other>>
       \/ /\ Active(k, rest) > Ceiling
          /\ reason' = "memory_ceiling"
          /\ other' = rest
          /\ phase' = "installing"
          /\ UNCHANGED <<cacheVars, index>>
  /\ UNCHANGED <<setting, mode, errors, threads>>

\* Every key has been considered.
WarmupEnds ==
  /\ phase = "warming"
  /\ index > Len(OnDisk)
  /\ reason' = "completed"
  /\ phase' = "installing"
  /\ UNCHANGED <<cacheVars, setting, mode, index, ahead, errors, other, threads, files>>

\* runtime.close: the workers are joined, then the descriptors closed.  Faulty
\* variant: nothing is closed.
LeaveOpen == UNCHANGED <<threads, files>>
CloseRuntime == threads' = FALSE /\ files' = FALSE

\* Something that is not an Exception escapes the decision or the warmup (an
\* interrupt), or the experts' blocks cannot be installed or the tokenizer loaded.
Fail ==
  /\ phase \in {"built", "warming", "installing"}
  /\ CloseRuntime
  /\ phase' = "failed"
  /\ UNCHANGED <<cacheVars, setting, mode, index, ahead, errors, reason, other>>

\* replace_moe_blocks and load_tokenizer succeed: the engine is returned.
Install ==
  /\ phase = "installing"
  /\ phase' = "ready"
  /\ UNCHANGED <<cacheVars, setting, mode, index, ahead, errors, reason, other, threads, files>>

StartNext ==
  \/ Plan \/ Build \/ Install \/ WarmupEnds \/ Fail
  \/ \E advised \in BOOLEAN : Decide(advised)
  \/ \E k \in Keys :
       \/ \E why \in {"deadline", "capacity"} : StopBefore(k, why)
       \/ SkipFailed(k)
       \/ Warm(k)

StartSpec == StartInit /\ [][StartNext]_vars
--------------------------------------------------------------------------------
\* Types of the start's state.
StartTypeOK ==
  /\ setting \in Settings
  /\ phase \in {"measured", "planned", "built", "warming", "installing", "ready", "failed"}
  /\ mode \in {"none", "full_residency", "streaming", "no_cache"}
  /\ reason \in {"none", "completed", "capacity", "deadline", "memory_ceiling"}
  /\ index \in 0 .. Len(OnDisk) + 1
  /\ ahead \in SUBSET Keys
  /\ errors \in Nat
  /\ other \in Others \cup {0}
  /\ threads \in BOOLEAN /\ files \in BOOLEAN

\* A runtime with a cache has been built.
Caching == WantsCache(setting) /\ phase \in {"built", "warming", "installing", "ready"}

\* What the engine holds and what it was told to keep free fit together in the
\* working set, and so in the machine's memory: shell, experts, the KV cache at the
\* full context, scratch memory and margin (plan, memory.py:212-236, whose KV
\* reservation kv_cache.py:101-103 decides and whose budget the warmup fills).
NoOvercommit ==
  Caching =>
    LET held == setting.shell + residentBytes
        kept == KvBytes(setting, KvMode(setting)) + setting.scratch + Margin(setting)
    IN  /\ held + kept <= WorkingSet(setting)
        /\ setting.physical > 0 => held + kept <= setting.physical

\* The warmup evicts nothing, also when the budget is exactly the experts' bytes
\* (runtime.py:503-504).
WarmupNeverEvicts == [][entries \subseteq entries']_vars

\* A full residency never meets the end of its budget, and a warmup that completes has
\* every expert resident but those it could not read, and no read left registered.
WarmupFillsTheCache ==
  mode = "full_residency" /\ setting.warmup /\ phase \in {"installing", "ready"} =>
    /\ reason \in {"completed", "deadline", "memory_ceiling"}
    /\ reason = "completed" => Cardinality(Keys \ entries) = errors /\ ahead = {}

\* The warmup never takes the last slots of the loader, and when it is cut short the
\* reads it leaves registered keep none of the slots of the workers from the demands
\* of the first request (max_inflight of runtime.py:767).
WorkersKeepTheirSlots ==
  /\ Cardinality(ahead) <= MaxInflight
  /\ phase \in {"installing", "ready"} => MaxInflight - Cardinality(ahead) >= setting.workers

\* The warmup stops at the memory ceiling only for memory beyond the reservations: the
\* experts of the plan never make it stop (startup.py:347 and runtime.py:562-569).
CeilingMeansOthers ==
  reason = "memory_ceiling" => other > KvReserve(setting) + setting.scratch

\* A start that fails once its runtime is built leaves no worker and no descriptor
\* (startup.py:260-262, qwen3_moe.py:158-161).  A constructor that refuses the
\* predictor is not covered: it leaves the workers it has started (runtime.py:333-338).
FailureClosesTheRuntime ==
  [][phase' = "failed" /\ phase # "planned" => ~threads' /\ ~files']_vars
================================================================================
