-------------------------------- MODULE LruPolicy ------------------------------
(***************************************************************************)
(* The simulator of the cache policy (cache/policy.py, LruCacheSimulator)  *)
(* beside the cache it stands for.  A trace is replayed through both: an   *)
(* access is what the runtime does for a routed expert without pins, a get *)
(* and, on a miss, a reserve and an admit (runtime.py, _resolve_resident). *)
(* A call of any other method ends the comparison, unless it left an empty *)
(* cache empty: a resize is how the two get another budget.                *)
(***************************************************************************)
EXTENDS ResidentCache, SequencesExt

VARIABLES
  lru,    \* the simulator's _entries, the oldest first
  plain   \* whether only accesses have been made so far

replayVars == <<cacheVars, lru, plain>>

ReplayInit == CacheInit /\ lru = <<>> /\ plain = TRUE

\* The bytes of a sequence of different keys.
BytesIn(s) == BytesOf(ToSet(s))

\* "while resident + nbytes > capacity: popitem(last=False)".
Room(s, n) == BytesIn(s) + n <= capacity
Trimmed(s, n) ==
  LET first == CHOOSE i \in 1 .. Len(s) + 1 :
                 /\ Room(SubSeq(s, i, Len(s)), n)
                 /\ \A j \in 1 .. i - 1 : ~Room(SubSeq(s, j, Len(s)), n)
  IN SubSeq(s, first, Len(s))

\* Faulty: a hit does not move the entry.
SimulatedInPlace(k) ==
  \/ Contains(lru, k) /\ UNCHANGED lru
  \/ ~Contains(lru, k) /\ Size[k] > capacity /\ UNCHANGED lru
  \/ ~Contains(lru, k) /\ Size[k] <= capacity /\ lru' = Append(Trimmed(lru, Size[k]), k)

\* access of the simulator.
Simulated(k) ==
  \/ \E i \in 1 .. Len(lru) : lru[i] = k /\ lru' = Append(RemoveAt(lru, i), k)
  \/ ~Contains(lru, k) /\ Size[k] > capacity /\ UNCHANGED lru
  \/ ~Contains(lru, k) /\ Size[k] <= capacity /\ lru' = Append(Trimmed(lru, Size[k]), k)

\* The runtime's use of the cache: the miss of its get changes nothing.
Resolve(k) == IF k \in entries THEN Get(k) ELSE Admit(k)

Access(k) ==
  /\ plain
  /\ Resolve(k) /\ Simulated(k)
  /\ UNCHANGED plain

Other ==
  /\ CacheNext
  /\ plain' = (plain /\ entries = {} /\ entries' = {})
  /\ lru' = <<>>

ReplayNext == Other \/ \E k \in Keys : Access(k)

ReplaySpec == ReplayInit /\ [][ReplayNext]_replayVars
--------------------------------------------------------------------------------
\* The hit rates the analysis of a trace reports are those the cache would have: after any
\* accesses, bundles larger than the budget included, the simulator holds what the cache
\* holds, in the order in which the cache would evict it (policy.py:66-91 against
\* resident.py and runtime.py:611-634).
SimulatorAgrees ==
  plain => /\ ToSet(lru) = entries
           /\ older = UNION {{<<lru[i], lru[j]>> : j \in i + 1 .. Len(lru)} : i \in DOMAIN lru}
================================================================================
