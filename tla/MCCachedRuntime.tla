---------------------------- MODULE MCCachedRuntime ----------------------------
(* Instance of CachedRuntime: two layers of two experts each.  The budget holds *)
(* some but not all pairs; the routings include a decode step, an expert-major  *)
(* prefill, a token-major prefill that uses one expert twice, and a layer that  *)
(* cannot fit.                                                                  *)
EXTENDS CachedRuntime

CONSTANTS a1, a2, b1, b2

MCSize == [k \in Keys |-> IF k \in {a1, b1} THEN 1 ELSE 2]

MCBatches ==
  {[predicted |-> p, rows |-> r] :
     p \in {<<>>, <<b2>>}, r \in {<< <<a1>> >>, << <<a1, a2>> >>, << <<a1>>, <<a1>> >>}}
  \cup {[predicted |-> <<>>, rows |-> r] : r \in {<< <<b1>> >>, << <<b2, b1>> >>}}
================================================================================
