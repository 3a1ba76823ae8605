---------------------------- MODULE CacheUsersProofs ---------------------------
(***************************************************************************)
(* Theorems about two users of the cache.  A start never overcommits the   *)
(* memory and cleans up what it began, for every manifest, machine, option *)
(* and course of the warmup; and the simulator of the cache policy agrees  *)
(* with the cache, for every manifest, budget and trace.                   *)
(***************************************************************************)
EXTENDS Startup, LruPolicy, ResidentCacheProofs, SequenceTheorems

--------------------------------------------------------------------------------
(* The plan's arithmetic.                                                    *)

\* The terms of the plan are whole numbers.
LEMMA MarginIsInt == \A s \in Settings : Margin(s) \in Int
<1> SUFFICES ASSUME NEW s \in Settings
             PROVE  Margin(s) \in Int
  OBVIOUS
<1>1. s.physical \in Nat /\ s.recommended \in Nat /\ s.margin \in Nat /\ GiB \in Nat
  BY SettingsAssumption
<1>2. s.marginPolicy \in {"auto", "adaptive", "fixed"}
  BY SettingsAssumption
<1>3. s.physical \div 4 \in Int
  BY <1>1
<1>4. \A x, y \in Int : Bounded(x, y) \in Int
  BY <1>1 DEF Bounded, Smaller, Larger
<1>5. Bounded(s.physical \div 4, 2 * GiB) \in Int
  BY <1>1, <1>3, <1>4
<1>6. Bounded(s.physical \div 4 - (s.physical - s.recommended), GiB) \in Int
  <2>1. s.physical \div 4 - (s.physical - s.recommended) \in Int
    BY <1>1, <1>3
  <2>2. GiB \in Int
    BY <1>1
  <2> QED
    BY <1>4, <2>1, <2>2, Zenon
<1>7. CASE s.marginPolicy = "auto"
  BY <1>5, <1>7 DEF Margin
<1>8. CASE s.marginPolicy = "adaptive"
  BY <1>6, <1>8 DEF Margin
<1>9. CASE s.marginPolicy = "fixed"
  BY <1>1, <1>9 DEF Margin
<1> QED
  BY <1>2, <1>7, <1>8, <1>9

LEMMA KvBytesIsInt ==
  \A s \in Settings : KvMode(s) \in KvModes /\ KvBytes(s, KvMode(s)) \in Int
<1> SUFFICES ASSUME NEW s \in Settings
             PROVE  KvMode(s) \in KvModes /\ KvBytes(s, KvMode(s)) \in Int
  OBVIOUS
<1>1. /\ s.full \in Nat /\ s.sliding \in Nat /\ s.window \in Nat
      /\ s.width \in Nat /\ s.context \in Nat /\ s.group \in Nat \ {0}
      /\ s.kvMode \in KvModes \cup {"auto"}
  BY SettingsAssumption
<1>2. Bf16Bytes(s) \in Int
  <2>1. Smaller(s.context, s.window) \in Nat
    BY <1>1 DEF Smaller
  <2>2. \A f, c, l, m, w \in Nat : (f * c + l * m) * w * 4 \in Int
    OBVIOUS
  <2> QED
    BY <1>1, <2>1, <2>2 DEF Bf16Bytes
<1>3. \A bits \in {8, 4} : QuantizedBytes(s, bits) \in Int
  <2>1. \A n \in Int : n \div 2 \in Int /\ n \div 8 \in Int
    OBVIOUS
  <2>2. \A n \in Int, g \in Nat \ {0} : (n + g - 1) \div g \in Int
    OBVIOUS
  <2>3. TAKE bits \in {8, 4}
  <2> DEFINE elements == Bf16Bytes(s) \div 2
  <2>4. elements \in Int
    BY <1>2, <2>1
  <2>5. (elements * bits + 7) \div 8 \in Int
    BY <2>4, <2>1
  <2>6. (elements + s.group - 1) \div s.group \in Int
    BY <2>4, <2>2, <1>1
  <2> QED
    BY <2>5, <2>6 DEF QuantizedBytes
<1>4. KvMode(s) \in KvModes
  BY <1>1 DEF KvMode, AutomaticMode, KvModes
<1>5. CASE KvMode(s) = "bf16"
  BY <1>2, <1>4, <1>5 DEF KvBytes
<1>6. CASE KvMode(s) = "8bit"
  BY <1>3, <1>4, <1>6 DEF KvBytes
<1>7. CASE KvMode(s) = "4bit"
  BY <1>3, <1>4, <1>7 DEF KvBytes
<1> QED
  BY <1>4, <1>5, <1>6, <1>7 DEF KvModes

LEMMA PlanIsInt ==
  ASSUME NEW s \in Settings
  PROVE  /\ KvReserve(s) \in Int /\ KvReserve(s) >= KvBytes(s, KvMode(s))
         /\ WorkingSet(s) \in Int
         /\ Safe(s) \in Int
         /\ Available(s) \in Int
<1>1. /\ s.kvReserve \in Nat /\ s.shell \in Nat /\ s.scratch \in Nat
      /\ s.explicit \in Nat /\ s.recommended \in Nat /\ s.physical \in Nat
  BY SettingsAssumption
<1>2. KvReserve(s) \in Int /\ KvReserve(s) >= KvBytes(s, KvMode(s))
  BY <1>1, KvBytesIsInt DEF KvReserve, Larger
<1>3. WorkingSet(s) \in Int
  BY <1>1 DEF WorkingSet, Recommended
<1>4. Safe(s) \in Int
  BY <1>3, MarginIsInt DEF Safe
<1> QED
  BY <1>1, <1>2, <1>3, <1>4 DEF Available

\* A plan that is made gives the cache a budget, within what is available, and its
\* working set is within the machine's memory.
LEMMA PlannedBudget ==
  ASSUME NEW s \in Settings, Plannable(s)
  PROVE  /\ WantsCache(s) => Budget(s) \in Nat \ {0} /\ Budget(s) <= Available(s)
         /\ s.physical > 0 => WorkingSet(s) <= s.physical
<1>1. /\ s.requested \in Nat /\ s.explicit \in Nat
      /\ s.recommended \in Nat /\ s.physical \in Nat
      /\ s.physical > 0 => s.recommended <= s.physical
  BY SettingsAssumption
<1>2. Available(s) \in Int
  BY PlanIsInt
<1>3. OnDisk[1] \in Keys
  BY SettingsAssumption
<1>4. Size[OnDisk[1]] \in Nat \ {0}
  BY <1>3, CacheAssumption
<1>5. WantsCache(s) => Available(s) > 0
  <2>1. WantsCache(s) => Size[OnDisk[1]] <= Available(s)
    BY <1>3 DEF Plannable
  <2> QED
    BY <2>1, <1>2, <1>4
<1>6. WantsCache(s) => Budget(s) \in Nat \ {0} /\ Budget(s) <= Available(s)
  BY <1>1, <1>2, <1>5 DEF Plannable, Budget
<1>7. s.physical > 0 => WorkingSet(s) <= s.physical
  BY <1>1 DEF Plannable, WorkingSet, Recommended
<1> QED
  BY <1>6, <1>7
--------------------------------------------------------------------------------
(* The inductive invariant: the cache's own one, empty until the runtime is    *)
(* built; a runtime exists only for a plan that was made, and its cache has    *)
(* the planned budget.                                                         *)

Places == {"measured", "planned", "built", "warming", "installing", "ready", "failed"}

StartInv ==
  /\ CacheInv
  /\ setting \in Settings
  /\ phase \in Places
  /\ phase \in {"measured", "planned"} => entries = {}
  /\ phase \in {"planned", "built", "warming", "installing", "ready"} => Plannable(setting)
  /\ Caching => capacity = Budget(setting)
  /\ phase = "warming" => WantsCache(setting)

LEMMA StartsInInv == StartInit => StartInv
<1> SUFFICES ASSUME StartInit
             PROVE  StartInv
  OBVIOUS
<1>1. CacheInv
  BY CacheStartsInInv DEF StartInit
<1>2. entries = {}
  BY DEF StartInit, CacheInit
<1> QED
  BY <1>1, <1>2 DEF StartInit, StartInv, Places, Caching

\* The construction of the cache with the planned budget.
LEMMA BuildKeepsInv ==
  ASSUME StartInv, Build
  PROVE  StartInv'
<1>1. phase = "planned" /\ entries = {} /\ Plannable(setting) /\ setting \in Settings
  BY DEF StartInv, Build
<1>2. WantsCache(setting) => Budget(setting) \in Nat \ {0}
  BY <1>1, PlannedBudget
<1>3. /\ UNCHANGED <<entries, older, pins, residentBytes, raised, setting>>
      /\ phase' \in {"built", "failed"}
      /\ capacity' = capacity \/ (WantsCache(setting) /\ capacity' = Budget(setting))
      /\ phase' = "built" /\ WantsCache(setting) => capacity' = Budget(setting)
  BY DEF Build
<1>4. BytesOf(entries) = 0
  BY <1>1, BytesOfNothing, Zenon
<1>5. CacheInv'
  <2>1. capacity \in Nat \ {0} /\ residentBytes \in Nat /\ residentBytes = BytesOf(entries)
    BY DEF StartInv, CacheInv, CacheTypeOK, ByteBudget
  <2>2. capacity' \in Nat \ {0}
    BY <1>2, <1>3, <2>1
  <2>3. residentBytes = 0
    BY <1>4, <2>1
  <2>4. residentBytes' <= capacity'
    BY <1>3, <2>2, <2>3
  <2>5. CacheTypeOK'
    BY <1>3, <2>2 DEF StartInv, CacheInv, CacheTypeOK
  <2>6. residentBytes' = BytesOf(entries')
    BY <1>3, <2>1
  <2>7. PinnedAreResident'
    BY <1>3 DEF StartInv, CacheInv, PinnedAreResident
  <2> QED
    BY <2>4, <2>5, <2>6, <2>7 DEF CacheInv, ByteBudget
<1> QED
  BY <1>1, <1>3, <1>5 DEF StartInv, Places, Caching, WantsCache

\* A step that leaves the cache alone keeps its invariant.
LEMMA CacheUntouched ==
  ASSUME CacheInv, UNCHANGED cacheVars
  PROVE  CacheInv'
BY CacheStepKeepsInv DEF cacheVars

\* Reading a key, admitted or not.
LEMMA WarmKeepsInv ==
  ASSUME StartInv, NEW k \in Keys, Warm(k)
  PROVE  StartInv'
<1>1. phase = "warming" /\ UNCHANGED setting
  BY DEF Warm, Considers
<1>2. CASE Admit(k) /\ UNCHANGED phase
  <2>1. CacheInv'
    BY <1>2, AdmitKeepsInv DEF StartInv
  <2>2. capacity' = capacity
    BY <1>2 DEF Admit, Reserve, EvictUntil
  <2> QED
    BY <1>1, <1>2, <2>1, <2>2 DEF StartInv, Caching, WantsCache
<1>3. CASE UNCHANGED cacheVars /\ phase' = "installing"
  <2>1. CacheInv'
    BY <1>3, CacheUntouched DEF StartInv
  <2> QED
    BY <1>1, <1>3, <2>1 DEF StartInv, Caching, WantsCache, cacheVars, Places
<1> QED
  BY <1>2, <1>3 DEF Warm

LEMMA StartStepKeepsInv == StartInv /\ [StartNext]_vars => StartInv'
<1> SUFFICES ASSUME StartInv, [StartNext]_vars
             PROVE  StartInv'
  OBVIOUS
<1> USE DEF Places, Caching, WantsCache, cacheVars
<1>1. CASE Build
  BY <1>1, BuildKeepsInv
<1>2. ASSUME NEW k \in Keys, Warm(k)
      PROVE  StartInv'
  BY <1>2, WarmKeepsInv
<1>3. ASSUME UNCHANGED cacheVars
      PROVE  CacheInv'
  BY <1>3, CacheUntouched DEF StartInv
<1>4. CASE Plan
  BY <1>3, <1>4 DEF Plan, StartInv
<1>5. CASE Install \/ WarmupEnds
  BY <1>3, <1>5 DEF Install, WarmupEnds, StartInv
<1>6. CASE Fail
  BY <1>3, <1>6 DEF Fail, StartInv
<1>7. ASSUME NEW advised \in BOOLEAN, Decide(advised)
      PROVE  StartInv'
  BY <1>3, <1>7 DEF Decide, StartInv
<1>8. ASSUME NEW k \in Keys, NEW why \in {"deadline", "capacity"}, StopBefore(k, why)
      PROVE  StartInv'
  BY <1>3, <1>8 DEF StopBefore, Considers, StartInv
<1>9. ASSUME NEW k \in Keys, SkipFailed(k)
      PROVE  StartInv'
  BY <1>3, <1>9 DEF SkipFailed, Considers, StartInv
<1>10. CASE UNCHANGED vars
  BY <1>3, <1>10 DEF vars, startVars, StartInv
<1> QED
  BY <1>1, <1>2, <1>4, <1>5, <1>6, <1>7, <1>8, <1>9, <1>10 DEF StartNext
--------------------------------------------------------------------------------
(* The theorems.                                                             *)

\* The experts resident fit beside everything the plan keeps free.
LEMMA ExpertsFitThePlan ==
  ASSUME StartInv, Caching
  PROVE  capacity <= Available(setting) /\ residentBytes <= capacity
<1>1. Plannable(setting) /\ setting \in Settings /\ capacity = Budget(setting)
  BY DEF StartInv, Caching
<1>2. WantsCache(setting)
  BY DEF Caching
<1>3. Budget(setting) <= Available(setting)
  BY <1>1, <1>2, PlannedBudget
<1> QED
  BY <1>1, <1>3 DEF StartInv, CacheInv, ByteBudget

\* No start ends with more in memory than the working set and the machine hold, at
\* any point of its warmup, when the KV cache and the scratch memory take all that is
\* reserved for them (memory.py:212-236, kv_cache.py:101-103).
THEOREM StartNeverOvercommits == StartSpec => []NoOvercommit
<1>1. StartInv => NoOvercommit
  <2> SUFFICES ASSUME StartInv, Caching
               PROVE  LET held == setting.shell + residentBytes
                          kept == KvBytes(setting, KvMode(setting)) + setting.scratch
                                    + Margin(setting)
                      IN  /\ held + kept <= WorkingSet(setting)
                          /\ setting.physical > 0 => held + kept <= setting.physical
    BY DEF NoOvercommit
  <2>1. setting \in Settings /\ Plannable(setting) /\ residentBytes \in Nat /\ capacity \in Nat
    BY DEF StartInv, Caching, CacheInv, CacheTypeOK
  <2>2. /\ setting.shell \in Nat /\ setting.scratch \in Nat /\ setting.physical \in Nat
        /\ Margin(setting) \in Int /\ KvBytes(setting, KvMode(setting)) \in Int
        /\ KvReserve(setting) \in Int /\ WorkingSet(setting) \in Int
        /\ KvReserve(setting) >= KvBytes(setting, KvMode(setting))
    BY <2>1, SettingsAssumption, MarginIsInt, KvBytesIsInt, PlanIsInt
  <2>3. residentBytes <= WorkingSet(setting) - Margin(setting) - setting.shell
                           - KvReserve(setting) - setting.scratch
    BY <2>1, <2>2, ExpertsFitThePlan DEF Available, Safe
  <2>4. setting.physical > 0 => WorkingSet(setting) <= setting.physical
    BY <2>1, PlannedBudget
  <2> QED
    BY <2>1, <2>2, <2>3, <2>4
<1> QED
  BY StartsInInv, StartStepKeepsInv, <1>1, PTL DEF StartSpec

\* The warmup drops no expert it has admitted (runtime.py:503-504, :541-544).
THEOREM WarmupKeepsExperts == StartSpec => WarmupNeverEvicts
<1>1. StartInv /\ [StartNext]_vars => [entries \subseteq entries']_vars
  <2> SUFFICES ASSUME StartInv, StartNext
               PROVE  entries \subseteq entries'
    BY DEF vars, startVars, cacheVars
  <2>1. ASSUME NEW k \in Keys, Warm(k)
        PROVE  entries \subseteq entries'
    <3>1. CASE UNCHANGED cacheVars
      BY <3>1 DEF cacheVars
    <3>2. ASSUME Admit(k)
          PROVE  entries \subseteq entries'
      <4>1. residentBytes \in Nat /\ capacity \in Nat /\ Size[k] \in Nat
        BY CacheAssumption DEF StartInv, CacheInv, CacheTypeOK
      <4>2. Fits({}, capacity - Size[k])
        <5>1. residentBytes + Size[k] <= capacity
          BY <2>1 DEF Warm, HasRoomFor
        <5> QED
          BY <4>1, <5>1, BytesOfNothing DEF Fits
      <4>3. \A V \in SUBSET Unpinned : Pops(V, capacity - Size[k]) => V = {}
        BY <4>2 DEF Pops, VictimPrefixes
      <4> QED
        BY <3>2, <4>3 DEF Admit, Reserve, EvictUntil, Insert, Discard
    <3> QED
      BY <2>1, <3>1, <3>2 DEF Warm
  <2>2. CASE Plan \/ Build \/ Install \/ WarmupEnds \/ Fail
    BY <2>2 DEF Plan, Build, Install, WarmupEnds, Fail, cacheVars
  <2>3. ASSUME NEW advised \in BOOLEAN, Decide(advised)
        PROVE  entries \subseteq entries'
    BY <2>3 DEF Decide, cacheVars
  <2>4. ASSUME NEW k \in Keys, NEW why \in {"deadline", "capacity"}, StopBefore(k, why)
        PROVE  entries \subseteq entries'
    BY <2>4 DEF StopBefore, cacheVars
  <2>5. ASSUME NEW k \in Keys, SkipFailed(k)
        PROVE  entries \subseteq entries'
    BY <2>5 DEF SkipFailed, cacheVars
  <2> QED
    BY <2>1, <2>2, <2>3, <2>4, <2>5 DEF StartNext
<1> QED
  BY StartsInInv, StartStepKeepsInv, <1>1, PTL DEF StartSpec, WarmupNeverEvicts

\* The planned experts never make the warmup stop at the memory ceiling: what does is
\* other memory, beyond everything reserved for it (startup.py:347).
THEOREM OnlyOthersReachTheCeiling == StartSpec => []CeilingMeansOthers
<1>1. StartInit => CeilingMeansOthers
  BY DEF StartInit, CeilingMeansOthers
<1>2. StartInv /\ CeilingMeansOthers /\ [StartNext]_vars => CeilingMeansOthers'
  <2> SUFFICES ASSUME StartInv, CeilingMeansOthers, [StartNext]_vars
               PROVE  CeilingMeansOthers'
    OBVIOUS
  <2>1. ASSUME UNCHANGED setting,
               reason' # "memory_ceiling" \/ UNCHANGED <<reason, other>>
        PROVE  CeilingMeansOthers'
    <3>1. KvReserve(setting)' = KvReserve(setting)
      BY <2>1
    <3> QED
      BY <2>1, <3>1 DEF CeilingMeansOthers
  <2>2. ASSUME NEW k \in Keys, Warm(k)
        PROVE  CeilingMeansOthers'
    <3>1. UNCHANGED setting
      BY <2>2 DEF Warm
    <3>2. CASE UNCHANGED <<reason, other>>
      BY <2>1, <3>1, <3>2
    <3>3. ASSUME NEW rest \in Others, Active(k, rest) > Ceiling, other' = rest
          PROVE  CeilingMeansOthers'
      <4>1. phase = "warming" /\ residentBytes + Size[k] <= capacity
        BY <2>2 DEF Warm, Considers, HasRoomFor
      <4>2. capacity <= Available(setting)
        BY <4>1, ExpertsFitThePlan DEF StartInv, Caching
      <4>3. setting \in Settings /\ residentBytes \in Nat /\ capacity \in Nat
            /\ Size[k] \in Nat /\ rest \in Int
        BY CacheAssumption, SettingsAssumption DEF StartInv, CacheInv, CacheTypeOK
      <4>4. setting.shell \in Nat /\ setting.scratch \in Nat /\ Safe(setting) \in Int
            /\ KvReserve(setting) \in Int
        BY <4>3, SettingsAssumption, PlanIsInt
      <4>5. rest > KvReserve(setting) + setting.scratch
        BY <3>3, <4>1, <4>2, <4>3, <4>4 DEF Active, Ceiling, Available
      <4>6. KvReserve(setting)' = KvReserve(setting)
        BY <3>1
      <4> QED
        BY <3>1, <3>3, <4>5, <4>6 DEF CeilingMeansOthers
    <3> QED
      BY <2>2, <3>2, <3>3 DEF Warm
  <2>3. CASE Plan \/ Build \/ Install \/ WarmupEnds \/ Fail \/ UNCHANGED vars
    BY <2>1, <2>3 DEF Plan, Build, Install, WarmupEnds, Fail, vars, startVars
  <2>4. ASSUME NEW advised \in BOOLEAN, Decide(advised)
        PROVE  CeilingMeansOthers'
    BY <2>1, <2>4 DEF Decide
  <2>5. ASSUME NEW k \in Keys, NEW why \in {"deadline", "capacity"}, StopBefore(k, why)
        PROVE  CeilingMeansOthers'
    BY <2>1, <2>5 DEF StopBefore
  <2>6. ASSUME NEW k \in Keys, SkipFailed(k)
        PROVE  CeilingMeansOthers'
    BY <2>1, <2>6 DEF SkipFailed
  <2> QED
    BY <2>2, <2>3, <2>4, <2>5, <2>6 DEF StartNext
<1> QED
  BY StartsInInv, StartStepKeepsInv, <1>1, <1>2, PTL DEF StartSpec
--------------------------------------------------------------------------------
(* The warmup.  Its inductive invariant: nothing is read before the mode is    *)
(* decided; while it runs the budget holds every expert, the experts resident  *)
(* are among those considered, the errors count the others of these, and the   *)
(* reads registered are among the next Depth ones.                             *)

Considered == {OnDisk[i] : i \in 1 .. index - 1}
NextReads(n) == {OnDisk[i] : i \in (n .. n + Depth - 1) \cap DOMAIN OnDisk}

FilesUnread ==
  /\ phase = "measured" => ~threads
  /\ phase \in {"measured", "planned", "built"} =>
       entries = {} /\ errors = 0 /\ reason = "none" /\ ahead = {} /\ ~files

Warming ==
  phase = "warming" =>
    /\ HoldsAll(setting) /\ reason = "none"
    /\ index \in 1 .. Len(OnDisk) + 1
    /\ entries \subseteq Considered
    /\ errors = Cardinality(Considered \ entries)
    /\ ahead \subseteq NextReads(index)

AheadIsNear == \E n \in Nat : ahead \subseteq NextReads(n)

WarmInv == FilesUnread /\ Warming /\ AheadIsNear /\ WarmupFillsTheCache

\* The loader's window.
LEMMA DepthBounds ==
  ASSUME setting \in Settings
  PROVE  /\ setting.workers \in Nat /\ setting.depth \in Nat
         /\ Depth \in Nat /\ Depth + setting.workers <= MaxInflight
<1>1. setting.workers \in Nat /\ setting.depth \in Nat
  BY SettingsAssumption
<1> QED
  BY <1>1 DEF Depth, MaxInflight

\* A window of the order has at most Depth keys.
LEMMA NextReadsAreFew ==
  ASSUME setting \in Settings, NEW n \in Nat, NEW T, T \subseteq NextReads(n)
  PROVE  IsFiniteSet(T) /\ Cardinality(T) \in Nat /\ Cardinality(T) <= Depth
<1> DEFINE I == (n .. n + Depth - 1) \cap DOMAIN OnDisk
<1> DEFINE read == [i \in I |-> OnDisk[i]]
<1>1. Depth \in Nat
  BY DepthBounds
<1>2. /\ IsFiniteSet(n .. n + Depth - 1)
      /\ Cardinality(n .. n + Depth - 1) = Depth
  <2>1. n \in Int /\ n + Depth - 1 \in Int
    BY <1>1
  <2>2. IF n > n + Depth - 1 THEN TRUE ELSE (n + Depth - 1) - n + 1 = Depth
    BY <1>1
  <2>3. n > n + Depth - 1 => Depth = 0
    BY <1>1
  <2> QED
    BY <2>1, <2>2, <2>3, FS_Interval
<1>3. I \subseteq n .. n + Depth - 1
  OBVIOUS
<1>4. IsFiniteSet(I) /\ Cardinality(I) <= Depth
  BY <1>2, <1>3, FS_Subset
<1>5. read \in Surjection(I, NextReads(n))
  BY DEF Surjection, NextReads
<1>6. IsFiniteSet(NextReads(n)) /\ Cardinality(NextReads(n)) <= Cardinality(I)
  BY <1>4, <1>5, FS_Surjection
<1>7. IsFiniteSet(T) /\ Cardinality(T) <= Cardinality(NextReads(n))
  BY <1>6, FS_Subset
<1>8. Cardinality(T) \in Nat /\ Cardinality(NextReads(n)) \in Nat /\ Cardinality(I) \in Nat
  BY <1>4, <1>6, <1>7, FS_CardinalityType
<1> QED
  BY <1>1, <1>4, <1>6, <1>7, <1>8

\* Reading the next key moves the window by one.
LEMMA ReadMovesOn ==
  ASSUME setting \in Settings, UNCHANGED setting, NEW n \in Nat, n = index,
         ahead \subseteq NextReads(n), Read(OnDisk[n])
  PROVE  ahead' \subseteq NextReads(n + 1)
<1>1. Depth \in Nat
  BY DepthBounds
<1>2. CASE Depth = 0
  <2>1. NextReads(n) = {}
    BY <1>2 DEF NextReads
  <2> QED
    BY <1>2, <2>1 DEF Read, Taken
<1>3. CASE Depth > 0
  <2> SUFFICES ASSUME NEW k \in ahead'
               PROVE  k \in NextReads(n + 1)
    OBVIOUS
  <2>1. k # OnDisk[n]
    BY DEF Read, Taken
  <2>2. k \in ahead \/ \E i \in {n + Depth} \cap DOMAIN OnDisk : k = OnDisk[i]
    BY DEF Read, Taken
  <2>3. PICK i \in DOMAIN OnDisk : k = OnDisk[i] /\ i \in n .. n + Depth
    <3>1. CASE k \in ahead
      BY <1>1, <3>1 DEF NextReads
    <3>2. CASE k \notin ahead
      BY <1>1, <2>2, <3>2
    <3> QED
      BY <3>1, <3>2
  <2>4. i # n
    BY <2>1, <2>3
  <2>5. i \in n + 1 .. n + 1 + Depth - 1
    BY <1>1, <2>3, <2>4
  <2> QED
    BY <2>3, <2>5 DEF NextReads
<1> QED
  BY <1>1, <1>2, <1>3

\* What is considered is finite, of the manifest, and all of it in the end.
LEMMA ConsideredKeys ==
  ASSUME NEW n \in 1 .. Len(OnDisk) + 1
  PROVE  LET seen == {OnDisk[i] : i \in 1 .. n - 1}
         IN  /\ seen \subseteq Keys
             /\ n <= Len(OnDisk) =>
                  /\ OnDisk[n] \in Keys \ seen
                  /\ {OnDisk[i] : i \in 1 .. (n + 1) - 1} = seen \cup {OnDisk[n]}
             /\ n > Len(OnDisk) => seen = Keys
<1> DEFINE seen == {OnDisk[i] : i \in 1 .. n - 1}
<1>1. OnDisk \in Seq(Keys) /\ DOMAIN OnDisk = 1 .. Len(OnDisk) /\ Len(OnDisk) \in Nat
  BY SettingsAssumption
<1>2. \A i \in 1 .. Len(OnDisk) : OnDisk[i] \in Keys
  BY <1>1
<1>3. seen \subseteq Keys
  BY <1>1, <1>2
<1>4. ASSUME n <= Len(OnDisk)
      PROVE  /\ OnDisk[n] \in Keys \ seen
             /\ {OnDisk[i] : i \in 1 .. (n + 1) - 1} = seen \cup {OnDisk[n]}
  <2>1. n \in DOMAIN OnDisk /\ \A i \in 1 .. n - 1 : i \in DOMAIN OnDisk /\ i # n
    BY <1>1, <1>4
  <2>2. \A i \in 1 .. n - 1 : OnDisk[i] # OnDisk[n]
    BY <2>1, SettingsAssumption
  <2>3. 1 .. (n + 1) - 1 = (1 .. n - 1) \cup {n}
    BY <1>1
  <2> QED
    BY <1>2, <1>4, <2>2, <2>3
<1>5. ASSUME n > Len(OnDisk)
      PROVE  seen = Keys
  <2>1. 1 .. n - 1 = DOMAIN OnDisk
    BY <1>1, <1>5
  <2> QED
    BY <1>3, <2>1, SettingsAssumption
<1> QED
  BY <1>3, <1>4, <1>5

\* An expert that has room is admitted, and nothing is evicted for it.
LEMMA AdmittedWithRoom ==
  ASSUME CacheInv, NEW k \in Keys, HasRoomFor(k), Admit(k)
  PROVE  entries' = entries \cup {k}
<1>1. residentBytes \in Nat /\ capacity \in Nat /\ Size[k] \in Nat
  BY CacheAssumption DEF CacheInv, CacheTypeOK
<1>2. residentBytes + Size[k] <= capacity
  BY DEF HasRoomFor
<1>3. Fits({}, capacity - Size[k])
  BY <1>1, <1>2, BytesOfNothing DEF Fits
<1>4. \A V \in SUBSET Unpinned : Pops(V, capacity - Size[k]) => V = {}
  BY <1>3 DEF Pops, VictimPrefixes
<1>5. ~(Reserve(Size[k]) /\ raised')
  <2>1. ~(Size[k] > capacity)
    BY <1>1, <1>2
  <2> QED
    BY <1>3, <1>4, <2>1 DEF Reserve, EvictUntil
<1> QED
  BY <1>4, <1>5 DEF Admit, Insert

\* A budget of every expert has room for each one that is not resident.
LEMMA FullBudgetHasRoom ==
  ASSUME CacheInv, capacity = Budget(setting), HoldsAll(setting),
         NEW k \in Keys, k \notin entries
  PROVE  HasRoomFor(k)
<1>1. entries \in SUBSET Keys /\ residentBytes = BytesOf(entries) /\ capacity \in Nat
  BY DEF CacheInv, CacheTypeOK, ByteBudget
<1>2. entries \cup {k} \in SUBSET Keys
  BY <1>1
<1>3. BytesOf(entries \cup {k}) = BytesOf(entries) + Size[k]
  BY <1>1, BytesOfInsert
<1>4. BytesOf(Keys \ (entries \cup {k})) = BytesOf(Keys) - BytesOf(entries \cup {k})
  BY <1>2, BytesOfDifference
<1>5. /\ BytesOf(Keys) \in Nat /\ BytesOf(entries \cup {k}) \in Nat
      /\ BytesOf(Keys \ (entries \cup {k})) \in Nat
  BY <1>2, BytesFinite
<1>6. BytesOf(entries \cup {k}) <= BytesOf(Keys)
  BY <1>4, <1>5
<1>7. BytesOf(Keys) <= capacity
  BY DEF HoldsAll
<1> QED
  BY <1>1, <1>3, <1>5, <1>6, <1>7 DEF HasRoomFor

\* A step that is no step of the warmup.
LEMMA WarmupUntouched ==
  ASSUME StartInv, WarmInv,
         UNCHANGED <<entries, setting, ahead, errors, reason>>,
         \/ UNCHANGED <<phase, mode, index, threads, files>>
         \/ /\ phase' = "failed"
         \/ /\ phase \in {"measured", "planned"} /\ phase' \in {"planned", "built"}
            /\ UNCHANGED files
         \/ /\ phase = "installing" /\ phase' = "ready" /\ UNCHANGED mode
  PROVE  WarmInv'
<1>1. \A n \in Nat : NextReads(n)' = NextReads(n)
  BY DEF NextReads, Depth
<1>2. AheadIsNear'
  BY <1>1 DEF WarmInv, AheadIsNear
<1>3. FilesUnread'
  BY DEF WarmInv, FilesUnread
<1>4. Warming'
  <2>1. CASE UNCHANGED <<phase, index>>
    <3>1. Considered' = Considered
      BY <2>1 DEF Considered
    <3>2. HoldsAll(setting)' = HoldsAll(setting)
      OBVIOUS
    <3>3. NextReads(index)' = NextReads(index)
      BY <2>1 DEF NextReads, Depth
    <3> QED
      BY <2>1, <3>1, <3>2, <3>3 DEF WarmInv, Warming
  <2>2. CASE phase' # "warming"
    BY <2>2 DEF Warming
  <2> QED
    BY <2>1, <2>2
<1>5. WarmupFillsTheCache'
  BY DEF WarmInv, WarmupFillsTheCache
<1> QED
  BY <1>2, <1>3, <1>4, <1>5 DEF WarmInv

\* The decision submits the first reads of a warmup.
LEMMA DecideKeepsWarmInv ==
  ASSUME StartInv, WarmInv, NEW advised \in BOOLEAN, Decide(advised)
  PROVE  WarmInv'
<1>1. /\ phase = "built" /\ UNCHANGED <<entries, setting, errors, reason>>
      /\ entries = {} /\ errors = 0 /\ reason = "none" /\ setting \in Settings
  BY DEF Decide, cacheVars, WarmInv, FilesUnread, StartInv
<1>2. Depth \in Nat /\ Len(OnDisk) \in Nat /\ DOMAIN OnDisk = 1 .. Len(OnDisk)
  BY <1>1, DepthBounds, SettingsAssumption
<1>3. \A n \in Nat : NextReads(n)' = NextReads(n)
  BY <1>1 DEF NextReads, Depth
<1>4. FirstReads \subseteq NextReads(1)
  BY <1>2 DEF FirstReads, NextReads, Smaller
<1>5. ahead' \subseteq NextReads(1)
  BY <1>4 DEF Decide
<1>6. AheadIsNear'
  BY <1>3, <1>5 DEF AheadIsNear
<1>7. CASE phase' = "warming"
  <2>1. HoldsAll(setting) /\ index' = 1
    BY <1>7 DEF Decide
  <2>2. HoldsAll(setting)'
    BY <1>1, <2>1
  <2>3. Considered' = {}
    BY <2>1 DEF Considered
  <2>4. errors' = Cardinality(Considered' \ entries')
    BY <1>1, <2>3, FS_EmptySet
  <2>5. ahead' \subseteq NextReads(index)'
    BY <1>1, <1>5, <2>1 DEF NextReads, Depth
  <2>6. Warming'
    BY <1>1, <1>2, <2>1, <2>2, <2>3, <2>4, <2>5 DEF Warming
  <2> QED
    BY <1>6, <1>7, <2>6 DEF WarmInv, FilesUnread, WarmupFillsTheCache
<1>8. CASE phase' = "installing"
  <2>1. ~(mode' = "full_residency" /\ setting'.warmup)
    BY <1>1, <1>8 DEF Decide
  <2> QED
    BY <1>6, <1>8, <2>1 DEF WarmInv, FilesUnread, Warming, WarmupFillsTheCache
<1> QED
  BY <1>7, <1>8 DEF Decide

\* A key considered by a warmup of full residency.
LEMMA ConsideredNext ==
  ASSUME StartInv, WarmInv, NEW k \in Keys, Considers(k)
  PROVE  /\ k = OnDisk[index] /\ index \in 1 .. Len(OnDisk)
         /\ k \notin Considered /\ k \notin entries
         /\ Considered \subseteq Keys
         /\ Considered \cup {k} = {OnDisk[i] : i \in 1 .. (index + 1) - 1}
         /\ HasRoomFor(k)
<1>1. /\ phase = "warming" /\ index <= Len(OnDisk) /\ k = OnDisk[index]
      /\ index \in 1 .. Len(OnDisk) + 1 /\ entries \subseteq Considered
      /\ HoldsAll(setting)
  BY DEF Considers, WarmInv, Warming
<1>2. /\ k \notin Considered /\ Considered \subseteq Keys
      /\ Considered \cup {k} = {OnDisk[i] : i \in 1 .. (index + 1) - 1}
  BY <1>1, ConsideredKeys DEF Considered
<1>3. CacheInv /\ capacity = Budget(setting)
  BY <1>1 DEF StartInv, Caching
<1>4. HasRoomFor(k)
  BY <1>1, <1>2, <1>3, FullBudgetHasRoom
<1>5. index \in 1 .. Len(OnDisk)
  BY <1>1, SettingsAssumption
<1> QED
  BY <1>1, <1>2, <1>4, <1>5

\* The deadline leaves the reads ahead; the end of the budget is never met.
LEMMA StopKeepsWarmInv ==
  ASSUME StartInv, WarmInv, NEW k \in Keys, NEW why \in {"deadline", "capacity"},
         StopBefore(k, why)
  PROVE  WarmInv'
<1>1. /\ UNCHANGED <<setting, ahead>> /\ phase' = "installing" /\ reason' = why
      /\ Considers(k)
  BY DEF StopBefore
<1>2. why = "deadline"
  BY <1>1, ConsideredNext DEF StopBefore
<1>3. \A n \in Nat : NextReads(n)' = NextReads(n)
  BY <1>1 DEF NextReads, Depth
<1> QED
  BY <1>1, <1>2, <1>3 DEF WarmInv, FilesUnread, Warming, AheadIsNear, WarmupFillsTheCache

\* The next key is done with: it is resident from now on, or one more error.
LEMMA AdvanceKeepsWarmInv ==
  ASSUME StartInv, WarmInv, NEW k \in Keys, Considers(k), Read(k), Advance,
         UNCHANGED <<setting, phase, reason>>,
         \/ entries' = entries \cup {k} /\ errors' = errors
         \/ entries' = entries /\ errors' = errors + 1
  PROVE  WarmInv'
<1>1. /\ k = OnDisk[index] /\ index \in 1 .. Len(OnDisk)
      /\ k \notin Considered /\ k \notin entries
      /\ Considered \subseteq Keys
      /\ Considered \cup {k} = {OnDisk[i] : i \in 1 .. (index + 1) - 1}
  BY ConsideredNext
<1>2. /\ phase = "warming" /\ HoldsAll(setting) /\ reason = "none"
      /\ entries \subseteq Considered
      /\ errors = Cardinality(Considered \ entries)
      /\ ahead \subseteq NextReads(index) /\ setting \in Settings
  BY DEF Considers, WarmInv, Warming, StartInv
<1>3. index' = index + 1 /\ index \in Nat /\ Len(OnDisk) \in Nat
  BY <1>1, SettingsAssumption DEF Advance
<1>4. Considered' = Considered \cup {k}
  BY <1>1, <1>3 DEF Considered
<1>5. errors' = Cardinality(Considered' \ entries')
  <2>1. CASE entries' = entries \cup {k} /\ errors' = errors
    <3>1. Considered' \ entries' = Considered \ entries
      BY <1>1, <1>4, <2>1
    <3> QED
      BY <1>2, <2>1, <3>1
  <2>2. CASE entries' = entries /\ errors' = errors + 1
    <3>1. Considered' \ entries' = (Considered \ entries) \cup {k}
      BY <1>1, <1>4, <2>2
    <3>2. IsFiniteSet(Considered \ entries)
      BY <1>1, CacheAssumption, FS_Subset
    <3>3. Cardinality((Considered \ entries) \cup {k}) = Cardinality(Considered \ entries) + 1
      BY <1>1, <3>2, FS_AddElement
    <3> QED
      BY <1>2, <2>2, <3>1, <3>3
  <2> QED
    BY <2>1, <2>2
<1>6. ahead' \subseteq NextReads(index + 1)
  BY <1>1, <1>2, <1>3, ReadMovesOn
<1>7. ahead' \subseteq NextReads(index)'
  BY <1>3, <1>6 DEF NextReads, Depth
<1>8. HoldsAll(setting)'
  BY <1>2
<1>9. Warming'
  BY <1>1, <1>2, <1>3, <1>4, <1>5, <1>7, <1>8 DEF Warming
<1>10. AheadIsNear'
  <2>1. index' \in Nat
    BY <1>3
  <2>2. \A n \in Nat : NextReads(n)' = NextReads(n)
    BY DEF NextReads, Depth
  <2> QED
    BY <1>3, <1>6, <2>1, <2>2 DEF AheadIsNear
<1> QED
  BY <1>2, <1>9, <1>10 DEF WarmInv, FilesUnread, WarmupFillsTheCache

\* A key is read: it is admitted, or the warmup stops at the ceiling.
LEMMA WarmKeepsWarmInv ==
  ASSUME StartInv, WarmInv, NEW k \in Keys, Warm(k)
  PROVE  WarmInv'
<1>1. Considers(k) /\ Read(k) /\ HasRoomFor(k) /\ UNCHANGED <<setting, mode, errors>>
  BY DEF Warm
<1>2. CASE Admit(k) /\ Advance /\ UNCHANGED <<phase, reason>>
  <2>1. entries' = entries \cup {k}
    BY <1>1, <1>2, AdmittedWithRoom DEF StartInv
  <2> QED
    BY <1>1, <1>2, <2>1, AdvanceKeepsWarmInv
<1>3. CASE reason' = "memory_ceiling" /\ phase' = "installing" /\ UNCHANGED index
  <2>1. /\ k = OnDisk[index] /\ index \in Nat /\ ahead \subseteq NextReads(index)
        /\ setting \in Settings
    BY <1>1, ConsideredNext, SettingsAssumption DEF Considers, WarmInv, Warming, StartInv
  <2>2. ahead' \subseteq NextReads(index + 1)
    BY <1>1, <2>1, ReadMovesOn
  <2>3. \A n \in Nat : NextReads(n)' = NextReads(n)
    BY <1>1 DEF NextReads, Depth
  <2>4. index + 1 \in Nat
    BY <2>1
  <2>5. AheadIsNear'
    BY <2>2, <2>3, <2>4 DEF AheadIsNear
  <2> QED
    BY <1>3, <2>5 DEF WarmInv, FilesUnread, Warming, WarmupFillsTheCache
<1> QED
  BY <1>2, <1>3 DEF Warm

\* Every key has been considered, so the errors are the keys that are not resident.
LEMMA EndKeepsWarmInv ==
  ASSUME StartInv, WarmInv, WarmupEnds
  PROVE  WarmInv'
<1>1. /\ phase = "warming" /\ index > Len(OnDisk) /\ phase' = "installing"
      /\ reason' = "completed"
      /\ UNCHANGED <<entries, setting, ahead, errors>>
  BY DEF WarmupEnds, cacheVars
<1>2. /\ index \in 1 .. Len(OnDisk) + 1 /\ errors = Cardinality(Considered \ entries)
      /\ ahead \subseteq NextReads(index) /\ setting \in Settings
  BY <1>1 DEF WarmInv, Warming, StartInv
<1>3. Considered = Keys
  BY <1>1, <1>2, ConsideredKeys DEF Considered
<1>4. ahead = {}
  <2>1. Len(OnDisk) \in Nat /\ DOMAIN OnDisk = 1 .. Len(OnDisk) /\ Depth \in Nat
    BY <1>2, SettingsAssumption, DepthBounds
  <2>2. NextReads(index) = {}
    BY <1>1, <1>2, <2>1 DEF NextReads
  <2> QED
    BY <1>2, <2>2
<1>5. WarmupFillsTheCache'
  BY <1>1, <1>2, <1>3, <1>4 DEF WarmupFillsTheCache
<1>6. AheadIsNear'
  BY <1>1, <1>4 DEF AheadIsNear
<1> QED
  BY <1>1, <1>5, <1>6 DEF WarmInv, FilesUnread, Warming

LEMMA WarmStepKeepsInv == StartInv /\ WarmInv /\ [StartNext]_vars => WarmInv'
<1> SUFFICES ASSUME StartInv, WarmInv, [StartNext]_vars
             PROVE  WarmInv'
  OBVIOUS
<1>1. CASE Plan
  BY <1>1, WarmupUntouched DEF Plan, cacheVars
<1>2. CASE Build
  BY <1>2, WarmupUntouched DEF Build
<1>3. CASE Install
  BY <1>3, WarmupUntouched DEF Install, cacheVars
<1>4. CASE WarmupEnds
  BY <1>4, EndKeepsWarmInv
<1>5. CASE Fail
  BY <1>5, WarmupUntouched DEF Fail, cacheVars
<1>6. ASSUME NEW advised \in BOOLEAN, Decide(advised)
      PROVE  WarmInv'
  BY <1>6, DecideKeepsWarmInv
<1>7. ASSUME NEW k \in Keys, NEW why \in {"deadline", "capacity"}, StopBefore(k, why)
      PROVE  WarmInv'
  BY <1>7, StopKeepsWarmInv
<1>8. ASSUME NEW k \in Keys, SkipFailed(k)
      PROVE  WarmInv'
  BY <1>8, AdvanceKeepsWarmInv DEF SkipFailed, cacheVars
<1>9. ASSUME NEW k \in Keys, Warm(k)
      PROVE  WarmInv'
  BY <1>9, WarmKeepsWarmInv
<1>10. CASE UNCHANGED vars
  BY <1>10, WarmupUntouched DEF vars, startVars, cacheVars
<1> QED
  BY <1>1, <1>2, <1>3, <1>4, <1>5, <1>6, <1>7, <1>8, <1>9, <1>10 DEF StartNext

LEMMA StartsInWarmInv == StartInit => WarmInv
<1> SUFFICES ASSUME StartInit
             PROVE  WarmInv
  OBVIOUS
<1>1. AheadIsNear
  BY DEF StartInit, AheadIsNear
<1> QED
  BY <1>1 DEF StartInit, CacheInit, WarmInv, FilesUnread, Warming, WarmupFillsTheCache

\* When the budget holds every expert, the warmup never stops for want of room, and one
\* that completes leaves an expert out only for an error it counted, and nothing
\* registered in the loader (runtime.py:541-569, startup.py:347).
THEOREM FullResidencyIsFilled == StartSpec => []WarmupFillsTheCache
<1>1. WarmInv => WarmupFillsTheCache
  BY DEF WarmInv
<1> QED
  BY StartsInInv, StartStepKeepsInv, StartsInWarmInv, WarmStepKeepsInv, <1>1, PTL DEF StartSpec

\* Whenever the warmup is cut short, the reads it leaves behind keep no demand of the
\* first request waiting (runtime.py:515-546 and :767).
THEOREM WarmupKeepsDemandSlots == StartSpec => []WorkersKeepTheirSlots
<1>1. StartInv /\ WarmInv => WorkersKeepTheirSlots
  <2> SUFFICES ASSUME StartInv, WarmInv
               PROVE  WorkersKeepTheirSlots
    OBVIOUS
  <2>1. setting \in Settings
    BY DEF StartInv
  <2>2. PICK n \in Nat : ahead \subseteq NextReads(n)
    BY DEF WarmInv, AheadIsNear
  <2>3. Cardinality(ahead) \in Nat /\ Cardinality(ahead) <= Depth
    BY <2>1, <2>2, NextReadsAreFew
  <2>4. /\ setting.workers \in Nat /\ setting.depth \in Nat /\ Depth \in Nat
        /\ Depth + setting.workers <= MaxInflight /\ MaxInflight \in Nat
    BY <2>1, DepthBounds DEF MaxInflight
  <2> QED
    BY <2>3, <2>4 DEF WorkersKeepTheirSlots
<1> QED
  BY StartsInInv, StartStepKeepsInv, StartsInWarmInv, WarmStepKeepsInv, <1>1, PTL DEF StartSpec

\* A start that fails once its runtime is built, in the decision, the warmup, the
\* installation or the tokenizer, has joined its workers and closed its files, and one
\* whose plan is refused has none (startup.py:260-262, qwen3_moe.py:158-161).
THEOREM FailedStartsAreClosed == StartSpec => FailureClosesTheRuntime
<1>1. WarmInv /\ [StartNext]_vars =>
        [phase' = "failed" /\ phase # "planned" => ~threads' /\ ~files']_vars
  <2> SUFFICES ASSUME WarmInv, StartNext, phase' = "failed", phase # "planned"
               PROVE  ~threads' /\ ~files'
    OBVIOUS
  <2>1. CASE Plan
    BY <2>1 DEF Plan, WarmInv, FilesUnread
  <2>2. CASE Fail
    BY <2>2 DEF Fail, CloseRuntime
  <2>3. CASE Build \/ Install \/ WarmupEnds
    BY <2>3 DEF Build, Install, WarmupEnds
  <2>4. ASSUME NEW advised \in BOOLEAN, Decide(advised)
        PROVE  FALSE
    BY <2>4 DEF Decide
  <2>5. ASSUME NEW k \in Keys, NEW why \in {"deadline", "capacity"}, StopBefore(k, why)
        PROVE  FALSE
    BY <2>5 DEF StopBefore
  <2>6. ASSUME NEW k \in Keys, SkipFailed(k)
        PROVE  FALSE
    BY <2>6 DEF SkipFailed, Considers
  <2>7. ASSUME NEW k \in Keys, Warm(k)
        PROVE  FALSE
    BY <2>7 DEF Warm, Considers
  <2> QED
    BY <2>1, <2>2, <2>3, <2>4, <2>5, <2>6, <2>7 DEF StartNext
<1> QED
  BY StartsInInv, StartStepKeepsInv, StartsInWarmInv, WarmStepKeepsInv, <1>1, PTL
  DEF StartSpec, FailureClosesTheRuntime
--------------------------------------------------------------------------------
(***************************************************************************)
(* The simulator of the cache policy.                                      *)
(***************************************************************************)

\* The sequence s lists the elements of S, each once, in the order R.
Lists(s, S, R) ==
  /\ s \in Seq(Keys)
  /\ \A i, j \in 1 .. Len(s) : s[i] = s[j] => i = j
  /\ \A k : k \in S <=> \E i \in 1 .. Len(s) : s[i] = k
  /\ \A i, j \in 1 .. Len(s) : <<s[i], s[j]>> \in R <=> i < j

\* The keys before place f of a sequence.
Firsts(s, f) == {s[i] : i \in 1 .. f - 1}

ReplayInv ==
  /\ CacheInv
  /\ plain => (\A k \in Keys : pins[k] = 0) /\ Lists(lru, entries, older)
--------------------------------------------------------------------------------
(***************************************************************************)
(* Sequences that list sets: their ends, with a key moved or added.        *)
(***************************************************************************)

LEMMA ListsMore ==
  ASSUME NEW s, NEW S \in SUBSET Keys, NEW R, Lists(s, S, R), NEW k \in Keys \ S, NEW Q,
         Q = (R \cap (S \X S)) \cup (S \X {k})
  PROVE  Lists(Append(s, k), S \cup {k}, Q)
<1> DEFINE t == Append(s, k)
           n == Len(s)
<1>1. /\ t \in Seq(Keys) /\ Len(t) = n + 1 /\ n \in Nat
      /\ \A i \in 1 .. n : t[i] = s[i] /\ s[i] \in S
      /\ t[n + 1] = k
  <2>1. s \in Seq(Keys) /\ n \in Nat
    BY LenProperties DEF Lists
  <2>2. /\ t \in Seq(Keys) /\ Len(t) = n + 1 /\ t[n + 1] = k
        /\ \A i \in 1 .. n : t[i] = s[i]
    BY <2>1, AppendProperties
  <2> QED
    BY <2>1, <2>2 DEF Lists
<1> HIDE DEF t, n
<1>2. \A i \in 1 .. n + 1 : i \in 1 .. n \/ i = n + 1
  BY <1>1
<1>3. \A i, j \in 1 .. n + 1 : t[i] = t[j] => i = j
  BY <1>1, <1>2 DEF Lists, n
<1>4. \A x : x \in S \cup {k} <=> \E i \in 1 .. n + 1 : t[i] = x
  <2>1. ASSUME NEW x \in S PROVE \E i \in 1 .. n + 1 : t[i] = x
    <3>1. PICK i \in 1 .. n : s[i] = x
      BY <2>1 DEF Lists, n
    <3> QED
      BY <1>1, <3>1
  <2>2. \E i \in 1 .. n + 1 : t[i] = k
    BY <1>1
  <2>3. \A i \in 1 .. n + 1 : t[i] \in S \cup {k}
    BY <1>1, <1>2
  <2> QED
    BY <2>1, <2>2, <2>3
<1>5. ASSUME NEW i \in 1 .. n + 1, NEW j \in 1 .. n + 1
      PROVE  <<t[i], t[j]>> \in Q <=> i < j
  <2>1. CASE i \in 1 .. n /\ j \in 1 .. n
    <3>1. t[i] = s[i] /\ t[j] = s[j] /\ s[i] \in S /\ s[j] \in S /\ s[j] # k
      BY <1>1, <2>1
    <3>2. <<t[i], t[j]>> \in Q <=> <<s[i], s[j]>> \in R
      BY <3>1
    <3> QED
      BY <2>1, <3>2 DEF Lists, n
  <2>2. CASE i \in 1 .. n /\ j = n + 1
    <3>1. t[i] \in S /\ t[j] = k /\ i < j
      BY <1>1, <2>2
    <3> QED
      BY <3>1
  <2>3. CASE i = n + 1
    <3>1. t[i] = k /\ ~(i < j)
      BY <1>1, <2>3
    <3> QED
      BY <3>1
  <2> QED
    BY <1>2, <2>1, <2>2, <2>3
<1> QED
  BY <1>1, <1>3, <1>4, <1>5 DEF Lists, t

\* Without the first f - 1.
LEMMA ListsRest ==
  ASSUME NEW s, NEW S, NEW R, Lists(s, S, R), NEW f \in 1 .. Len(s) + 1
  PROVE  Lists(SubSeq(s, f, Len(s)), S \ Firsts(s, f), R)
<1> DEFINE n == Len(s)
           t == SubSeq(s, f, n)
           m == n - f + 1
<1>1. s \in Seq(Keys) /\ n \in Nat /\ f \in Nat /\ f <= n + 1 /\ f >= 1 /\ m \in Nat
  BY LenProperties DEF Lists
<1>2. t \in Seq(Keys) /\ Len(t) = m /\ \A i \in 1 .. m : t[i] = s[f + i - 1]
  BY <1>1, SubSeqProperties
<1> HIDE DEF t
<1>3. \A i \in 1 .. m : f + i - 1 \in 1 .. n
  BY <1>1
<1>4. \A i, j \in 1 .. m : /\ t[i] = t[j] => i = j
                           /\ <<t[i], t[j]>> \in R <=> i < j
  <2> TAKE i, j \in 1 .. m
  <2>1. /\ f + i - 1 \in 1 .. n /\ f + j - 1 \in 1 .. n
        /\ t[i] = s[f + i - 1] /\ t[j] = s[f + j - 1]
    BY <1>2, <1>3
  <2>2. /\ s[f + i - 1] = s[f + j - 1] => f + i - 1 = f + j - 1
        /\ <<s[f + i - 1], s[f + j - 1]>> \in R <=> f + i - 1 < f + j - 1
    BY <2>1 DEF Lists
  <2> HIDE DEF n, m
  <2>3. /\ f + i - 1 = f + j - 1 <=> i = j
        /\ f + i - 1 < f + j - 1 <=> i < j
    BY <1>1
  <2> QED
    BY <2>1, <2>2, <2>3
<1>5. ASSUME NEW x
      PROVE  x \in S \ Firsts(s, f) <=> \E i \in 1 .. m : t[i] = x
  <2>1. ASSUME x \in S \ Firsts(s, f) PROVE \E i \in 1 .. m : t[i] = x
    <3>1. PICK j \in 1 .. n : s[j] = x
      BY <2>1 DEF Lists
    <3>2. j \notin 1 .. f - 1
      BY <2>1, <3>1 DEF Firsts
    <3>3. j - f + 1 \in 1 .. m /\ f + (j - f + 1) - 1 = j
      BY <1>1, <3>2
    <3> QED
      BY <1>2, <3>1, <3>3
  <2>2. ASSUME NEW i \in 1 .. m, t[i] = x PROVE x \in S \ Firsts(s, f)
    <3>1. f + i - 1 \in 1 .. n /\ s[f + i - 1] = x
      BY <1>2, <1>3, <2>2
    <3>2. x \in S
      BY <3>1 DEF Lists
    <3>3. ASSUME NEW j \in 1 .. f - 1, s[j] = x PROVE FALSE
      <4>1. j \in 1 .. n /\ j # f + i - 1
        BY <1>1
      <4> QED
        BY <3>1, <3>3, <4>1 DEF Lists
    <3> QED
      BY <3>2, <3>3 DEF Firsts
  <2> QED
    BY <2>1, <2>2
<1> QED
  BY <1>2, <1>4, <1>5 DEF Lists, t

\* Without the one at place p.
LEMMA ListsOthers ==
  ASSUME NEW s, NEW S, NEW R, Lists(s, S, R), NEW p \in 1 .. Len(s)
  PROVE  Lists(RemoveAt(s, p), S \ {s[p]}, R)
<1> DEFINE n == Len(s)
           t == RemoveAt(s, p)
           a == SubSeq(s, 1, p - 1)
           b == SubSeq(s, p + 1, n)
           q(i) == IF i < p THEN i ELSE i + 1
<1>1. s \in Seq(Keys) /\ n \in Nat /\ p \in Nat /\ p <= n /\ p >= 1
  BY LenProperties DEF Lists
<1>2. /\ a \in Seq(Keys) /\ Len(a) = p - 1 /\ \A i \in 1 .. p - 1 : a[i] = s[i]
      /\ b \in Seq(Keys) /\ Len(b) = n - p /\ \A i \in 1 .. n - p : b[i] = s[p + i]
  <2>1. a \in Seq(Keys) /\ Len(a) = p - 1 /\ \A i \in 1 .. p - 1 : a[i] = s[i]
    BY <1>1, SubSeqProperties
  <2>2. b \in Seq(Keys) /\ Len(b) = n - p /\ \A i \in 1 .. n - p : b[i] = s[p + i]
    BY <1>1, SubSeqProperties
  <2> QED
    BY <2>1, <2>2
<1> HIDE DEF a, b
<1>3. t = a \o b
  BY DEF RemoveAt, a, b
<1>4. t \in Seq(Keys) /\ Len(t) = n - 1 /\ \A i \in 1 .. n - 1 : t[i] = s[q(i)]
  <2>1. /\ t \in Seq(Keys) /\ Len(t) = (p - 1) + (n - p)
        /\ \A i \in 1 .. Len(a) + Len(b) :
             t[i] = IF i <= Len(a) THEN a[i] ELSE b[i - Len(a)]
    <3> HIDE DEF t, n
    <3>1. /\ a \o b \in Seq(Keys) /\ Len(a \o b) = Len(a) + Len(b)
          /\ \A i \in 1 .. Len(a) + Len(b) :
               (a \o b)[i] = IF i <= Len(a) THEN a[i] ELSE b[i - Len(a)]
      BY <1>2, ConcatProperties
    <3> QED
      BY <1>2, <1>3, <3>1
  <2> HIDE DEF t, n
  <2>2. Len(t) = n - 1 /\ Len(a) + Len(b) = n - 1
    BY <1>1, <1>2, <2>1
  <2>3. ASSUME NEW i \in 1 .. n - 1 PROVE t[i] = s[q(i)]
    <3>1. CASE i < p
      BY <1>1, <1>2, <2>1, <2>2, <3>1
    <3>2. CASE ~(i < p)
      <4>1. ~(i <= Len(a)) /\ i - Len(a) \in 1 .. n - p /\ p + (i - Len(a)) = i + 1
        BY <1>1, <1>2, <3>2
      <4>2. t[i] = b[i - Len(a)]
        BY <2>1, <2>2, <4>1
      <4> QED
        BY <1>2, <3>2, <4>1, <4>2
    <3> QED
      BY <3>1, <3>2
  <2> QED
    BY <2>1, <2>2, <2>3
<1> HIDE DEF t, n
<1>5. \A i \in 1 .. n - 1 : q(i) \in 1 .. n /\ q(i) # p
  BY <1>1
<1>6. \A i, j \in 1 .. n - 1 : (q(i) = q(j) <=> i = j) /\ (q(i) < q(j) <=> i < j)
  BY <1>1
<1>7. \A i \in 1 .. n : i # p => \E j \in 1 .. n - 1 : q(j) = i
  <2> SUFFICES ASSUME NEW i \in 1 .. n, i # p PROVE \E j \in 1 .. n - 1 : q(j) = i
    OBVIOUS
  <2>1. CASE i < p
    <3>1. i \in 1 .. n - 1 /\ q(i) = i
      BY <1>1, <2>1
    <3> QED
      BY <3>1
  <2>2. CASE i > p
    <3>1. i - 1 \in 1 .. n - 1 /\ q(i - 1) = i
      BY <1>1, <2>2
    <3> QED
      BY <3>1
  <2> QED
    BY <1>1, <2>1, <2>2
<1> HIDE DEF q
<1>8. \A i, j \in 1 .. n - 1 : /\ t[i] = t[j] => i = j
                               /\ <<t[i], t[j]>> \in R <=> i < j
  <2> TAKE i, j \in 1 .. n - 1
  <2>1. q(i) \in 1 .. n /\ q(j) \in 1 .. n /\ t[i] = s[q(i)] /\ t[j] = s[q(j)]
    BY <1>4, <1>5
  <2>2. /\ s[q(i)] = s[q(j)] => q(i) = q(j)
        /\ <<s[q(i)], s[q(j)]>> \in R <=> q(i) < q(j)
    BY <2>1 DEF Lists, n
  <2> QED
    BY <1>6, <2>1, <2>2
<1>9. ASSUME NEW x
      PROVE  x \in S \ {s[p]} <=> \E i \in 1 .. n - 1 : t[i] = x
  <2>1. ASSUME x \in S \ {s[p]} PROVE \E i \in 1 .. n - 1 : t[i] = x
    <3>1. PICK j \in 1 .. n : s[j] = x
      BY <2>1 DEF Lists, n
    <3>2. PICK i \in 1 .. n - 1 : q(i) = j
      BY <1>7, <2>1, <3>1
    <3> QED
      BY <1>4, <3>1, <3>2
  <2>2. ASSUME NEW i \in 1 .. n - 1, t[i] = x PROVE x \in S \ {s[p]}
    <3>1. q(i) \in 1 .. n /\ s[q(i)] = x /\ q(i) # p
      BY <1>4, <1>5, <2>2
    <3> QED
      BY <3>1 DEF Lists, n
  <2> QED
    BY <2>1, <2>2
<1> QED
  BY <1>4, <1>8, <1>9 DEF Lists, t
--------------------------------------------------------------------------------
(***************************************************************************)
(* What the simulator drops is what the cache evicts.                      *)
(***************************************************************************)

\* Every set of naturals that is not empty has a least element: of the intervals up to its
\* elements one has no other inside it.
LEMMA LeastNatural ==
  ASSUME NEW T \in SUBSET Nat, T # {}
  PROVE  \E n \in T : \A m \in T : n <= m
<1> DEFINE I == {1 .. n : n \in T}
<1>1. I \subseteq FiniteSubsetsOf(Nat) /\ I # {}
  <2>1. \A n \in T : IsFiniteSet(1 .. n) /\ 1 .. n \subseteq Nat
    BY FS_Interval
  <2> QED
    BY <2>1 DEF FiniteSubsetsOf
<1>2. PICK x \in I : \A y \in I : <<y, x>> \notin StrictSubsetOrdering(Nat)
  <2> HIDE DEF I
  <2> QED
    BY <1>1, FS_StrictSubsetOrderingWellFounded, WFMin, Zenon
<1>3. PICK n \in T : x = 1 .. n
  OBVIOUS
<1>4. ASSUME NEW m \in T, ~(n <= m)
      PROVE  FALSE
  <2>1. 1 .. m \in I /\ 1 .. m \in SUBSET Nat /\ x \in SUBSET Nat
    BY <1>3
  <2>2. n \in 1 .. n /\ n \notin 1 .. m /\ 1 .. m \subseteq 1 .. n
    BY <1>4
  <2>3. <<1 .. m, x>> \in StrictSubsetOrdering(Nat)
    BY <1>3, <2>1, <2>2 DEF StrictSubsetOrdering
  <2> QED
    BY <1>2, <2>1, <2>3
<1> QED
  BY <1>4

LEMMA NothingIsPinned ==
  ASSUME ReplayInv, plain
  PROVE  /\ Unpinned = entries /\ entries \in SUBSET Keys
         /\ lru \in Seq(Keys) /\ Len(lru) \in Nat /\ Lists(lru, entries, older)
BY LenProperties DEF ReplayInv, CacheInv, CacheTypeOK, Unpinned, Lists

\* What an eviction loop may remove is the first keys of the simulator, up to some place.
LEMMA PrefixesAreFirsts ==
  ASSUME ReplayInv, plain, NEW V \in VictimPrefixes
  PROVE  \E f \in 1 .. Len(lru) + 1 : V = Firsts(lru, f)
<1> DEFINE n == Len(lru)
           T == {i \in 1 .. n + 1 : i = n + 1 \/ lru[i] \notin V}
<1>1. /\ Unpinned = entries /\ n \in Nat /\ Lists(lru, entries, older)
      /\ V \subseteq entries
      /\ \A v \in V, k \in entries : <<k, v>> \in older => k \in V
  BY NothingIsPinned DEF VictimPrefixes
<1>2. T \in SUBSET Nat /\ n + 1 \in T
  BY <1>1
<1>3. PICK f \in T : \A i \in T : f <= i
  <2> HIDE DEF T
  <2> QED
    BY <1>2, LeastNatural
<1>4. f \in 1 .. n + 1 /\ f \in Nat
  BY <1>1
<1>5. \A i \in 1 .. f - 1 : i \in 1 .. n /\ lru[i] \in V
  <2> TAKE i \in 1 .. f - 1
  <2>1. i \in 1 .. n /\ ~(f <= i)
    BY <1>1, <1>4
  <2> QED
    BY <1>3, <1>4, <2>1
<1>6. ASSUME NEW v \in V
      PROVE  v \in Firsts(lru, f)
  <2>1. PICK i \in 1 .. n : lru[i] = v
    BY <1>1 DEF Lists
  <2>2. CASE i < f
    BY <1>4, <2>1, <2>2 DEF Firsts
  <2>3. CASE f <= i
    <3>1. f \in 1 .. n /\ lru[f] \notin V
      BY <1>1, <1>3, <1>4, <2>3
    <3>2. f # i
      BY <2>1, <3>1
    <3>3. f < i
      BY <1>4, <2>3, <3>2
    <3>4. <<lru[f], lru[i]>> \in older /\ lru[f] \in entries
      BY <1>1, <3>1, <3>3 DEF Lists
    <3> QED
      BY <1>1, <2>1, <3>1, <3>4
  <2> QED
    BY <1>4, <2>2, <2>3
<1>7. Firsts(lru, f) \subseteq V
  BY <1>5 DEF Firsts
<1>8. V = Firsts(lru, f)
  BY <1>6, <1>7
<1> QED
  BY <1>4, <1>8

\* And they are such sets, each smaller than those of a later place.
LEMMA FirstsArePrefixes ==
  ASSUME ReplayInv, plain, NEW f \in 1 .. Len(lru) + 1
  PROVE  /\ Firsts(lru, f) \in VictimPrefixes
         /\ \A j \in 1 .. f - 1 : /\ Firsts(lru, j) \subseteq Firsts(lru, f)
                                  /\ Firsts(lru, j) # Firsts(lru, f)
<1>1. /\ Unpinned = entries /\ Len(lru) \in Nat /\ Lists(lru, entries, older)
      /\ f \in Nat
  BY NothingIsPinned
<1>2. \A i \in 1 .. f - 1 : i \in 1 .. Len(lru) /\ lru[i] \in entries
  BY <1>1 DEF Lists
<1>3. ASSUME NEW v \in Firsts(lru, f), NEW k \in entries, <<k, v>> \in older
      PROVE  k \in Firsts(lru, f)
  <2>1. PICK i \in 1 .. f - 1 : lru[i] = v
    BY DEF Firsts
  <2>2. PICK j \in 1 .. Len(lru) : lru[j] = k
    BY <1>1 DEF Lists
  <2>3. j < i
    BY <1>1, <1>2, <1>3, <2>1, <2>2 DEF Lists
  <2>4. j \in 1 .. f - 1
    BY <1>1, <2>1, <2>2, <2>3
  <2> QED
    BY <2>2, <2>4 DEF Firsts
<1>4. Firsts(lru, f) \in VictimPrefixes
  BY <1>1, <1>2, <1>3 DEF VictimPrefixes, Firsts
<1>5. ASSUME NEW j \in 1 .. f - 1
      PROVE  /\ Firsts(lru, j) \subseteq Firsts(lru, f)
             /\ Firsts(lru, j) # Firsts(lru, f)
  <2>1. 1 .. j - 1 \subseteq 1 .. f - 1
    BY <1>1
  <2>2. lru[j] \in Firsts(lru, f)
    BY DEF Firsts
  <2>3. ASSUME NEW i \in 1 .. j - 1, lru[i] = lru[j] PROVE FALSE
    <3>1. i \in 1 .. Len(lru) /\ j \in 1 .. Len(lru) /\ i # j
      BY <1>1, <1>2, <2>1
    <3> QED
      BY <1>1, <2>3, <3>1 DEF Lists
  <2>4. lru[j] \notin Firsts(lru, j)
    BY <2>3 DEF Firsts
  <2> QED
    BY <2>1, <2>2, <2>4 DEF Firsts
<1> QED
  BY <1>4, <1>5

\* The two loops have the same condition.
LEMMA RoomIffFits ==
  ASSUME ReplayInv, plain, NEW f \in 1 .. Len(lru) + 1, NEW n \in Nat
  PROVE  Room(SubSeq(lru, f, Len(lru)), n) <=> Fits(Firsts(lru, f), capacity - n)
<1> DEFINE rest == SubSeq(lru, f, Len(lru))
           V == Firsts(lru, f)
<1>1. Lists(lru, entries, older) /\ entries \in SUBSET Keys
  BY NothingIsPinned
<1>2. Lists(rest, entries \ V, older)
  BY <1>1, ListsRest
<1>3. ToSet(rest) = entries \ V
  <2>1. DOMAIN rest = 1 .. Len(rest)
    BY <1>2, LenProperties DEF Lists
  <2> HIDE DEF rest, V
  <2> QED
    BY <1>2, <2>1 DEF Lists, ToSet
<1>4. V \subseteq entries
  BY FirstsArePrefixes, NothingIsPinned DEF VictimPrefixes
<1> HIDE DEF rest, V
<1>5. /\ BytesOf(entries \ V) = residentBytes - BytesOf(V)
      /\ BytesOf(V) \in Nat /\ residentBytes \in Nat /\ capacity \in Nat
  <2>1. V \in SUBSET Keys /\ V \in SUBSET entries
    BY <1>1, <1>4
  <2>2. residentBytes = BytesOf(entries) /\ residentBytes \in Nat /\ capacity \in Nat
    BY DEF ReplayInv, CacheInv, CacheTypeOK, ByteBudget
  <2> QED
    BY <1>1, <2>1, <2>2, BytesOfDifference, BytesFinite
<1>6. Room(rest, n) <=> residentBytes - BytesOf(V) + n <= capacity
  BY <1>3, <1>5 DEF Room, BytesIn
<1>7. Fits(V, capacity - n) <=> residentBytes - BytesOf(V) <= capacity - n
  BY DEF Fits
<1>8. Room(rest, n) <=> Fits(V, capacity - n)
  BY <1>5, <1>6, <1>7
<1> QED
  BY <1>8 DEF rest, V

LEMMA SameVictims ==
  ASSUME ReplayInv, plain, NEW n \in Nat, NEW V,
         Pops(V, capacity - n), Fits(V, capacity - n)
  PROVE  \E f \in 1 .. Len(lru) + 1 :
           V = Firsts(lru, f) /\ Trimmed(lru, n) = SubSeq(lru, f, Len(lru))
<1>1. V \in VictimPrefixes
  BY DEF Pops
<1>2. PICK f \in 1 .. Len(lru) + 1 : V = Firsts(lru, f)
  BY <1>1, PrefixesAreFirsts
<1> DEFINE R(i) == Room(SubSeq(lru, i, Len(lru)), n)
<1>3. Len(lru) \in Nat
  BY NothingIsPinned
<1>4. R(f)
  BY <1>2, RoomIffFits
<1>5. \A j \in 1 .. f - 1 : j \in 1 .. Len(lru) + 1 /\ ~R(j)
  <2> TAKE j \in 1 .. f - 1
  <2>1. j \in 1 .. Len(lru) + 1
    BY <1>3
  <2>2. /\ Firsts(lru, j) \in VictimPrefixes
        /\ Firsts(lru, j) \subseteq V /\ Firsts(lru, j) # V
    BY <1>2, <2>1, FirstsArePrefixes
  <2>3. ~Fits(Firsts(lru, j), capacity - n)
    BY <2>2 DEF Pops
  <2> QED
    BY <2>1, <2>3, RoomIffFits
<1> HIDE DEF R
<1>6. \A g \in 1 .. Len(lru) + 1 : R(g) /\ (\A j \in 1 .. g - 1 : ~R(j)) => g = f
  <2> SUFFICES ASSUME NEW g \in 1 .. Len(lru) + 1, R(g), \A j \in 1 .. g - 1 : ~R(j)
               PROVE  g = f
    OBVIOUS
  <2>1. g \notin 1 .. f - 1
    BY <1>5
  <2>2. f \notin 1 .. g - 1
    BY <1>4
  <2> QED
    BY <1>3, <2>1, <2>2
<1> DEFINE first == CHOOSE i \in 1 .. Len(lru) + 1 : R(i) /\ \A j \in 1 .. i - 1 : ~R(j)
<1>7. first = f
  BY <1>4, <1>5, <1>6
<1>8. Trimmed(lru, n) = SubSeq(lru, first, Len(lru))
  BY DEF Trimmed, R
<1> QED
  BY <1>2, <1>7, <1>8
--------------------------------------------------------------------------------
(***************************************************************************)
(* The invariant.                                                          *)
(***************************************************************************)

\* A hit moves the key to the end of both.
LEMMA HitsAgree ==
  ASSUME ReplayInv, plain, NEW k \in Keys, k \in entries, Get(k), Simulated(k)
  PROVE  Lists(lru', entries', older')
<1>1. /\ Lists(lru, entries, older) /\ entries \in SUBSET Keys
      /\ entries' = entries /\ older' = MovedToEnd(entries, k)
  BY NothingIsPinned DEF Get
<1>2. PICK p \in 1 .. Len(lru) : lru[p] = k /\ lru' = Append(RemoveAt(lru, p), k)
  <2>1. Contains(lru, k)
    BY <1>1 DEF Lists, Contains
  <2> QED
    BY <2>1 DEF Simulated
<1>3. Lists(RemoveAt(lru, p), entries \ {k}, older)
  BY <1>1, <1>2, ListsOthers
<1> DEFINE S == entries \ {k}
<1>4. older' = (older \cap (S \X S)) \cup (S \X {k})
  BY <1>1 DEF MovedToEnd, OrderOn
<1>5. S \in SUBSET Keys /\ k \in Keys \ S /\ S \cup {k} = entries
  BY <1>1
<1> HIDE DEF S
<1>6. Lists(Append(RemoveAt(lru, p), k), S \cup {k}, older')
  BY <1>3, <1>4, <1>5, ListsMore DEF S
<1> QED
  BY <1>1, <1>2, <1>5, <1>6

\* A miss drops the same keys of both, and adds the new one to the end.
LEMMA MissesAgree ==
  ASSUME ReplayInv, plain, NEW k \in Keys, k \notin entries, Admit(k), Simulated(k)
  PROVE  Lists(lru', entries', older')
<1>1. /\ Lists(lru, entries, older) /\ entries \in SUBSET Keys /\ Unpinned = entries
      /\ Size[k] \in Nat \ {0} /\ capacity \in Nat
      /\ residentBytes = BytesOf(entries) /\ residentBytes \in Nat
  BY NothingIsPinned, CacheAssumption DEF ReplayInv, CacheInv, CacheTypeOK, ByteBudget
<1>2. ~Contains(lru, k) /\ ~\E i \in 1 .. Len(lru) : lru[i] = k
  BY <1>1 DEF Lists, Contains
<1>3. CASE Size[k] > capacity
  <2>1. lru' = lru
    BY <1>1, <1>2, <1>3 DEF Simulated
  <2>2. entries' = entries /\ older' = older
    BY <1>1, <1>3 DEF Admit, Reserve
  <2> QED
    BY <1>1, <2>1, <2>2
<1>4. CASE Size[k] <= capacity
  <2>1. lru' = Append(Trimmed(lru, Size[k]), k)
    BY <1>1, <1>2, <1>4 DEF Simulated
  <2>2. PICK V \in SUBSET Unpinned :
          Pops(V, capacity - Size[k]) /\ Fits(V, capacity - Size[k]) /\ Insert(k, V)
    <3>1. ASSUME Reserve(Size[k]), raised' PROVE FALSE
      <4>1. EvictUntil(Size[k])
        BY <1>1, <1>4, <3>1 DEF Reserve
      <4>2. PICK V \in SUBSET Unpinned :
              Pops(V, capacity - Size[k]) /\ raised' = ~Fits(V, capacity - Size[k])
        BY <4>1 DEF EvictUntil
      <4>3. V = entries
        BY <1>1, <3>1, <4>2 DEF Pops
      <4> QED
        <5>1. residentBytes - BytesOf(V) <= capacity - Size[k]
          BY <1>1, <1>4, <4>3
        <5>2. Fits(V, capacity - Size[k])
          BY <5>1 DEF Fits
        <5> QED
          BY <3>1, <4>2, <5>2, Zenon
    <3> QED
      BY <3>1 DEF Admit
  <2>3. PICK f \in 1 .. Len(lru) + 1 :
          V = Firsts(lru, f) /\ Trimmed(lru, Size[k]) = SubSeq(lru, f, Len(lru))
    BY <1>1, <2>2, SameVictims
  <2> DEFINE S == entries \ V
  <2>4. Lists(Trimmed(lru, Size[k]), S, older)
    BY <1>1, <2>3, ListsRest
  <2>5. S \in SUBSET Keys /\ k \in Keys \ S /\ (S \cup {k}) \ {k} = S
    BY <1>1
  <2>6. /\ entries' = S \cup {k}
        /\ older' = (older \cap (S \X S)) \cup (S \X {k})
    BY <2>2, <2>5 DEF Insert, MovedToEnd, OrderOn
  <2> HIDE DEF S
  <2>7. Lists(Append(Trimmed(lru, Size[k]), k), S \cup {k}, older')
    BY <2>4, <2>5, <2>6, ListsMore
  <2> QED
    BY <2>1, <2>6, <2>7
<1> QED
  BY <1>1, <1>3, <1>4

LEMMA ReplayKept ==
  ASSUME ReplayInv, [ReplayNext]_replayVars
  PROVE  ReplayInv'
<1>1. CASE UNCHANGED replayVars
  BY <1>1, CacheStepKeepsInv DEF replayVars, cacheVars, ReplayInv, Lists
<1>2. CASE Other
  <2>1. CacheInv'
    BY <1>2, CacheStepKeepsInv DEF Other, ReplayInv
  <2>2. ASSUME plain'
        PROVE  (\A k \in Keys : pins'[k] = 0) /\ Lists(lru', entries', older')
    <3>1. entries' = {} /\ lru' = <<>>
      BY <1>2, <2>2 DEF Other
    <3>2. older' = {} /\ pins' \in [Keys -> Nat] /\ \A k \in Keys : ~(pins'[k] > 0)
      BY <2>1, <3>1 DEF CacheInv, CacheTypeOK, PinnedAreResident
    <3>3. lru' \in Seq(Keys) /\ Len(lru') = 0
      BY <3>1, EmptySeq
    <3>4. Lists(lru', entries', older')
      BY <3>1, <3>2, <3>3 DEF Lists
    <3> QED
      BY <3>2, <3>4
  <2> QED
    BY <2>1, <2>2 DEF ReplayInv
<1>3. ASSUME NEW k \in Keys, Access(k)
      PROVE  ReplayInv'
  <2>1. plain /\ Resolve(k) /\ Simulated(k) /\ plain' = plain
    BY <1>3 DEF Access
  <2>2. Get(k) \/ Admit(k)
    BY <2>1 DEF Resolve
  <2>3. CacheInv'
    BY <2>2, CacheStepKeepsInv DEF CacheNext, ReplayInv
  <2>4. pins' = pins
    BY <2>2 DEF Get, Admit, Reserve, EvictUntil
  <2>5. Lists(lru', entries', older')
    BY <2>1, HitsAgree, MissesAgree DEF Resolve
  <2> QED
    BY <2>1, <2>3, <2>4, <2>5 DEF ReplayInv
<1> QED
  BY <1>1, <1>2, <1>3 DEF ReplayNext

\* The hit rates of an analysed trace are those the cache would have: after any accesses the
\* simulator (policy.py, LruCacheSimulator.access) holds what the cache holds, in the order
\* in which the cache would evict it.
THEOREM SimulatorIsTheCache == ReplaySpec => []SimulatorAgrees
<1>1. ReplayInit => ReplayInv
  <2> SUFFICES ASSUME ReplayInit PROVE ReplayInv
    OBVIOUS
  <2>1. CacheInv
    BY CacheStartsInInv DEF ReplayInit
  <2>2. /\ entries = {} /\ older = {} /\ \A k \in Keys : pins[k] = 0
        /\ lru \in Seq(Keys) /\ Len(lru) = 0
    BY EmptySeq DEF ReplayInit, CacheInit
  <2> QED
    BY <2>1, <2>2 DEF ReplayInv, Lists
<1>2. ReplayInv /\ [ReplayNext]_replayVars => ReplayInv'
  BY ReplayKept
<1>3. ReplayInv => SimulatorAgrees
  <2> SUFFICES ASSUME ReplayInv, plain
               PROVE  /\ ToSet(lru) = entries
                      /\ older = UNION {{<<lru[i], lru[j]>> : j \in i + 1 .. Len(lru)} :
                                        i \in DOMAIN lru}
    BY DEF SimulatorAgrees
  <2>1. /\ Lists(lru, entries, older) /\ older \in SUBSET (entries \X entries)
        /\ Len(lru) \in Nat /\ DOMAIN lru = 1 .. Len(lru)
    BY NothingIsPinned, LenProperties DEF ReplayInv, CacheInv, CacheTypeOK
  <2>2. ToSet(lru) = entries
    BY <2>1 DEF Lists, ToSet
  <2> DEFINE Q == UNION {{<<lru[i], lru[j]>> : j \in i + 1 .. Len(lru)} : i \in DOMAIN lru}
  <2>3. ASSUME NEW x \in older PROVE x \in Q
    <3>1. PICK j \in entries, k \in entries : x = <<j, k>>
      BY <2>1
    <3>2. PICK a \in 1 .. Len(lru), b \in 1 .. Len(lru) : lru[a] = j /\ lru[b] = k
      BY <2>1 DEF Lists
    <3>3. a < b
      BY <2>1, <2>3, <3>1, <3>2 DEF Lists
    <3>4. b \in a + 1 .. Len(lru)
      BY <2>1, <3>3
    <3> QED
      BY <2>1, <3>1, <3>2, <3>4
  <2>4. ASSUME NEW a \in DOMAIN lru, NEW b \in a + 1 .. Len(lru)
        PROVE  <<lru[a], lru[b]>> \in older
    <3>1. a \in 1 .. Len(lru) /\ b \in 1 .. Len(lru) /\ a < b
      BY <2>1
    <3> QED
      BY <2>1, <3>1 DEF Lists
  <2> QED
    BY <2>2, <2>3, <2>4
<1> QED
  BY <1>1, <1>2, <1>3, PTL DEF ReplaySpec
================================================================================
