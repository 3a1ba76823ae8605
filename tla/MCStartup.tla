------------------------------- MODULE MCStartup -------------------------------
(***************************************************************************)
(* Instances of Startup.  The unit of memory is an eighth of a GiB.        *)
(***************************************************************************)
EXTENDS Startup, TLC

CONSTANTS k1, k2, k3, k4

MCSize == (k1 :> 3) @@ (k2 :> 4) @@ (k3 :> 3) @@ (k4 :> 2)
MCOnDisk == <<k2, k1, k4, k3>>

\* Macs of 8 and 16 GiB, and one whose memory is not known.
Hosts == {<<64, 44>>, <<128, 88>>, <<0, 0>>, <<128, 0>>}

\* The memory options, with the default options of the runtime.
Budgets ==
  {[physical |-> host[1], recommended |-> host[2],
    explicit |-> explicit, marginPolicy |-> policy, margin |-> 16,
    kvReserve |-> 4, scratch |-> 4, requested |-> budget[1], auto |-> budget[2],
    shell |-> shell, full |-> 1, sliding |-> 1, window |-> 2, width |-> 1,
    context |-> context, kvMode |-> kv, group |-> 2,
    workers |-> 1, depth |-> 1, predictor |-> "none", warmup |-> TRUE] :
      host \in Hosts, explicit \in {0, 40, 100}, policy \in {"auto", "adaptive", "fixed"},
      budget \in {<<0, TRUE>>, <<0, FALSE>>, <<6, FALSE>>, <<12, FALSE>>, <<11, TRUE>>},
      shell \in {6, 24}, context \in {1, 4}, kv \in KvModes \cup {"auto"}}

\* The options of the runtime, for a machine that holds every expert.
Runtimes ==
  {[physical |-> 128, recommended |-> 88,
    explicit |-> 0, marginPolicy |-> "auto", margin |-> 0,
    kvReserve |-> 4, scratch |-> 4, requested |-> requested, auto |-> FALSE,
    shell |-> 24, full |-> 1, sliding |-> 0, window |-> 0, width |-> 1,
    context |-> 1, kvMode |-> "auto", group |-> 2,
    workers |-> workers, depth |-> depth, predictor |-> predictor, warmup |-> warmup] :
      requested \in {0, 11, 12, 13}, workers \in 0 .. 2, depth \in 0 .. 5,
      predictor \in {"none", "fitting", "foreign"}, warmup \in BOOLEAN}

MCSettings == Budgets \cup Runtimes

\* What else is in memory when the warmup looks: less than was measured, nothing, the
\* reservations, more.
MCOthers == {-2, 0, 8, 20, 60}
================================================================================
