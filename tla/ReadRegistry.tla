----------------------------- MODULE ReadRegistry -----------------------------
(***************************************************************************)
(* What an expert loader promises about each expert: at most one           *)
(* registered read, a bounded number of them, and an entry that is kept    *)
(* until the read has ended and somebody has taken its result.             *)
(***************************************************************************)
CONSTANTS
  Keys,
  HasRoom(_)  \* whether one more read may be registered beside those of a set of keys

VARIABLE futures  \* per key: no read, a read under way, or its result

Registered == {k \in Keys : futures[k] # "none"}

RegistryInit == futures = [k \in Keys |-> "none"]

Submit(k) ==
  /\ futures[k] = "none"
  /\ HasRoom(Registered)
  /\ futures' = [futures EXCEPT ![k] = "reading"]

End(k) ==
  /\ futures[k] = "reading"
  /\ \E result \in {"ready", "failed"} : futures' = [futures EXCEPT ![k] = result]

Forget(k) ==
  /\ futures[k] \in {"ready", "failed"}
  /\ futures' = [futures EXCEPT ![k] = "none"]

RegistryNext == \E k \in Keys : Submit(k) \/ End(k) \/ Forget(k)

RegistrySpec == RegistryInit /\ [][RegistryNext]_futures
================================================================================
