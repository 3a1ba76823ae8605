----------------------------- MODULE MCLoaderStore -----------------------------
(* Keys, clients, workers and shards are interchangeable, request identities are not. *)
EXTENDS LoaderStore, TLC

Interchangeable ==
  Permutations(Keys) \cup Permutations(Clients) \cup Permutations(Workers)
    \cup Permutations(Shards)
================================================================================
