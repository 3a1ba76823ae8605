-------------------------------- MODULE MCRepack -------------------------------
(***************************************************************************)
(* Instances of Repack.  Two roles of each expert are weights (2 and 4 in  *)
(* the order of the names), role 3 is the scales of the first.  The        *)
(* tensors of a checkpoint are placed one after another in their shards,   *)
(* in every order.                                                         *)
(***************************************************************************)
EXTENDS Repack

Named(kind, layer, expert, role) ==
  [kind |-> kind, layer |-> layer, expert |-> expert, role |-> role]
Entry(shard, name, shape, width) ==
  [shard |-> shard, name |-> name, shape |-> shape, width |-> width]

\* The tensors of a sequence of entries, each after those before it in its shard.
Bytes(entry) == Product(entry.shape) * entry.width
BytesOf(s, places) == MapThenSumSet(LAMBDA j : Bytes(s[j]), places)
Before(s, i) == BytesOf(s, {j \in 1 .. i - 1 : s[j].shard = s[i].shard})
Placed(layers, experts, s) ==
  [layers |-> layers, experts |-> experts, sound |-> TRUE,
   size |-> [f \in Shards |-> DataStart + BytesOf(s, {j \in DOMAIN s : s[j].shard = f})],
   tensors |-> {[start |-> Before(s, i), end |-> Before(s, i) + Bytes(s[i])] @@ s[i] : i \in DOMAIN s}]

Orders(entries) == {[i \in DOMAIN entries |-> entries[p[i]]] : p \in Permutations(DOMAIN entries)}

\* Both shards hold something: the dense tensor is in the second.
Dense == Entry("B", Named("dense", 0, 0, 9), <<2>>, 1)
LeadingTensors(shardOf2) ==
  <<Entry(shardOf2, Named("leading", 0, 0, 2), <<2, 2>>, 1),
    Entry("A", Named("leading", 0, 0, 3), <<2, 1>>, 1),
    Entry("A", Named("leading", 0, 0, 4), <<2, 1>>, 2), Dense>>
SplitTensors ==
  <<Entry("A", Named("split", 0, 0, 2), <<1>>, 1),
    Entry("A", Named("split", 0, 0, 4), <<2>>, 1),
    Entry("A", Named("split", 0, 1, 2), <<1>>, 1),
    Entry("A", Named("split", 0, 1, 4), <<2>>, 1), Dense>>
TwoLayers ==
  <<Entry("A", Named("leading", 0, 0, 2), <<2, 1>>, 1),
    Entry("B", Named("leading", 0, 0, 4), <<2, 1>>, 1),
    Entry("A", Named("split", 1, 1, 2), <<1>>, 2),
    Entry("A", Named("split", 1, 1, 4), <<1>>, 1),
    Entry("A", Named("split", 1, 0, 2), <<1>>, 1),
    Entry("A", Named("split", 1, 0, 4), <<1>>, 1), Dense>>

MCSound ==
  {Placed(1, 2, s) : s \in UNION {Orders(LeadingTensors(f)) : f \in Shards}}
    \cup {Placed(1, 2, s) : s \in Orders(SplitTensors)}
    \cup {Placed(2, 2, TwoLayers)}

\* One step from sound: an entry replaced, added or dropped.
Plain == LeadingTensors("A")
Odd(entry) == Placed(1, 2, Append(Plain, entry))
Instead(i, entry) == Placed(1, 2, [Plain EXCEPT ![i] = entry])
OneTensor(cp, f(_)) == {[cp EXCEPT !.tensors = {f(t)} \cup (@ \ {t})] : t \in cp.tensors}
MCDefective ==
  {Odd(Entry("B", Named("leading", 0, 0, 4), <<2, 1>>, 2)),      \* a name in two shards
   Odd(Entry("A", Named("split", 0, 0, 4), <<2>>, 1)),           \* two layouts in a layer
   Odd(Entry("A", Named("dense", 0, 0, 8), <<2, 0>>, 1)),        \* an empty dimension
   Odd(Entry("A", Named("dense", 0, 0, 8), <<2>>, 0)),           \* an unknown dtype
   Instead(3, Entry("A", Named("leading", 0, 0, 5), <<2, 1>>, 2)),  \* no weight of role 4
   Instead(3, Entry("A", Named("leading", 0, 0, 4), <<3, 2>>, 1)),  \* three experts
   Instead(3, Entry("A", Named("leading", 0, 0, 4), <<2>>, 2)),     \* no axis beyond the experts
   Instead(4, Entry("A", Named("dense", 0, 0, 9), <<2>>, 1)),       \* an empty shard
   Placed(2, 2, Plain),                                             \* a layer without experts
   Placed(1, 2, Append(SplitTensors, Entry("A", Named("split", 0, 2, 4), <<1>>, 1))),
   Placed(1, 3, SplitTensors),                                      \* an expert without tensors
   Placed(1, 2, [SplitTensors EXCEPT ![1] = Entry("A", Named("split", 0, 0, 2), <<>>, 1)])}
    \cup OneTensor(Placed(1, 2, Plain), LAMBDA t : [t EXCEPT !.end = @ + 1])
    \cup OneTensor(Placed(1, 2, Plain), LAMBDA t : [t EXCEPT !.start = @ + 9, !.end = @ + 9])
    \cup {[Placed(1, 2, Plain) EXCEPT !.size[f] = @ - 1] : f \in Shards}

MCCheckpoints == MCSound \cup {[cp EXCEPT !.sound = FALSE] : cp \in MCDefective}
================================================================================
