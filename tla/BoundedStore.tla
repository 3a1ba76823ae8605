----------------------------- MODULE BoundedStore ------------------------------
(***************************************************************************)
(* What the resident cache promises its callers, whatever its replacement  *)
(* policy and its bookkeeping: a set of resident bundles inside a byte     *)
(* budget, from which a pinned bundle is never dropped (ARCHITECTURE.md    *)
(* section 11.1, and invariants 4 and 7 of section 23).                    *)
(***************************************************************************)
EXTENDS Naturals

CONSTANTS
  Keys,          \* the bundles there are
  Bytes(_),      \* the bytes of a set of bundles
  InitCapacity   \* the first budget

VARIABLES budget, store, held

storeVars == <<budget, store, held>>

StoreInit ==
  /\ budget = InitCapacity
  /\ store = {}
  /\ held = [k \in Keys |-> 0]

\* The store may drop bundles nobody holds, and take in one new bundle, as long as
\* the result fits the budget.
Replace ==
  /\ \E gone \in SUBSET store, new \in {{}} \cup {{k} : k \in Keys} :
       /\ \A k \in gone : held[k] = 0
       /\ store' = (store \ gone) \cup new
       /\ Bytes(store') <= budget
  /\ UNCHANGED <<budget, held>>

\* The budget changes only to a value the (possibly reduced) store fits in.
SetBudget ==
  /\ budget' \in Nat \ {0}
  /\ \E gone \in SUBSET store :
       /\ \A k \in gone : held[k] = 0
       /\ store' = store \ gone
       /\ Bytes(store') <= budget'
  /\ UNCHANGED held

Hold(k) ==
  /\ k \in store
  /\ held' = [held EXCEPT ![k] = @ + 1]
  /\ UNCHANGED <<budget, store>>

Release(k) ==
  /\ held[k] > 0
  /\ held' = [held EXCEPT ![k] = @ - 1]
  /\ UNCHANGED <<budget, store>>

StoreNext ==
  \/ Replace
  \/ SetBudget
  \/ \E k \in Keys : Hold(k) \/ Release(k)

StoreSpec == StoreInit /\ [][StoreNext]_storeVars
================================================================================
