------------------------------ MODULE MCLruPolicy ------------------------------
(* Instance of LruPolicy: four bundles of three sizes, a budget that does    *)
(* not hold all of them, and amounts around every boundary.                    *)
EXTENDS LruPolicy

CONSTANTS a, b, c, d

MCSize == [k \in Keys |-> CASE k = a -> 1 [] k \in {b, d} -> 2 [] k = c -> 3]
================================================================================
