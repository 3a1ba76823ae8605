------------------------------ MODULE ExpertLayout -----------------------------
(***************************************************************************)
(* Where an expert's bytes are (storage/safetensors_store.py, manifest.py): *)
(* the headers of the shards are checked, every routed tensor is cut into  *)
(* the spans of its experts, and a bundle is read with one pread per run   *)
(* of adjacent spans of a file.                                            *)
(*                                                                         *)
(* A checkpoint is a record: its counts of layers and experts, the size of *)
(* each shard, and its tensors with name, shape, bytes per element (0 for  *)
(* a dtype the reader does not know) and data offsets.  A name is what its *)
(* family's patterns make of it: a leading-axis tensor of a layer, a split *)
(* tensor of one expert of a layer, or one that matches neither.  A role   *)
(* is a projection and a field, numbered in the order sorted() gives them. *)
(* A file's content is a sequence, so that a byte is told by its value.    *)
(***************************************************************************)
EXTENDS Integers, FiniteSets, SequencesExt

CONSTANTS
  Shards,     \* the safetensors files
  Weights,    \* the roles every expert needs: the weight of each projection
  DataStart   \* the length of a header, where the data of a shard begins

ASSUME LayoutAssumption == DataStart \in Nat
--------------------------------------------------------------------------------
\* The content of a shard, and the bytes a pread returns: fewer at the end of the file.
ShardBytes(cp, f) == [i \in 1 .. cp.size[f] |-> <<f, i>>]
Pread(content, offset, nbytes) == SubSeq(content, offset + 1, Min({offset + nbytes, Len(content)}))

Product(shape) == FoldLeft(LAMBDA a, b : a * b, 1, shape)
Size(t) == t.end - t.start

\* SafeTensorHeader.read, the checks of one tensor.
HeaderAccepts(t, fileSize) ==
  /\ t.width > 0
  /\ \A i \in DOMAIN t.shape : t.shape[i] > 0
  /\ 0 <= t.start /\ t.start <= t.end
  /\ Size(t) = Product(t.shape) * t.width
  /\ DataStart + t.end <= fileSize

\* The locations of the tensors over all shards: no shard is empty and no name is in two.
LocationsAccepted(cp) ==
  /\ \A t \in cp.tensors : HeaderAccepts(t, cp.size[t.shard])
  /\ \A f \in Shards : \E t \in cp.tensors : t.shard = f
  /\ \A t, u \in cp.tensors : t.name = u.name => t = u

\* The tensors of a layer that the family's leading or split pattern matches.
Leading(cp, layer) == {t \in cp.tensors : t.name.kind = "leading" /\ t.name.layer = layer}
Split(cp, layer) == {t \in cp.tensors : t.name.kind = "split" /\ t.name.layer = layer}
OfExpert(ts, e) == {t \in ts : t.name.expert = e}

HasWeights(ts) == Weights \subseteq {t.name.role : t \in ts}
AxisIsExperts(t, n) == Len(t.shape) >= 2 /\ t.shape[1] = n /\ Size(t) % n = 0

\* Faulty: the experts of a split layer are not held against the config.
LayerAcceptedUnbounded(cp, layer) ==
  \/ /\ Leading(cp, layer) # {} /\ Split(cp, layer) = {}
     /\ HasWeights(Leading(cp, layer))
     /\ \A t \in Leading(cp, layer) : AxisIsExperts(t, cp.experts)
  \/ /\ Split(cp, layer) # {} /\ Leading(cp, layer) = {}
     /\ \A e \in 0 .. cp.experts - 1 : HasWeights(OfExpert(Split(cp, layer), e))

\* Every check of the bundles of one layer.
LayerAccepted(cp, layer) ==
  LET leading == Leading(cp, layer)
      split == Split(cp, layer)
  IN \/ /\ leading # {} /\ split = {}
        /\ HasWeights(leading)
        /\ \A t \in leading : AxisIsExperts(t, cp.experts)
     \/ /\ split # {} /\ leading = {}
        /\ \A e \in 0 .. cp.experts - 1 : HasWeights(OfExpert(split, e))
        /\ \A t \in split : t.name.expert < cp.experts

\* Faulty: the offsets of a header are those of the file.
LeadingSpanInHeader(t, n, e) ==
  LET bytes == Size(t) \div n
  IN [file |-> t.shard, offset |-> t.start + e * bytes, nbytes |-> bytes,
      rank |-> Len(t.shape) - 1, role |-> t.name.role]

LeadingSpan(t, n, e) ==
  LET bytes == Size(t) \div n
  IN [file |-> t.shard, offset |-> DataStart + t.start + e * bytes, nbytes |-> bytes,
      rank |-> Len(t.shape) - 1, role |-> t.name.role]
SplitSpan(t) ==
  [file |-> t.shard, offset |-> DataStart + t.start, nbytes |-> Size(t),
   rank |-> Len(t.shape), role |-> t.name.role]

\* The bundle of one expert: its spans in the order of their roles.
ByRole(spans) ==
  CHOOSE s \in SetToSeqs(spans) : \A i, j \in DOMAIN s : i < j => s[i].role <= s[j].role
BundleOf(cp, layer, e) ==
  ByRole({LeadingSpan(t, cp.experts, e) : t \in Leading(cp, layer)}
           \cup {SplitSpan(t) : t \in OfExpert(Split(cp, layer), e)})

Keys(cp) == (0 .. cp.layers - 1) \X (0 .. cp.experts - 1)
ManifestOf(cp) == [k \in Keys(cp) |-> BundleOf(cp, k[1], k[2])]

\* ModelManifest.validate against the sizes of the files it names.
SpanIsValid(s, size) ==
  s.offset >= 0 /\ s.nbytes > 0 /\ s.rank > 0 /\ s.offset + s.nbytes <= size[s.file]
Validates(bundles, size) ==
  \A k \in DOMAIN bundles :
    /\ bundles[k] # <<>>
    /\ \A i \in DOMAIN bundles[k] : SpanIsValid(bundles[k][i], size)
    /\ \A i, j \in DOMAIN bundles[k] : bundles[k][i].role = bundles[k][j].role => i = j

\* build_streaming_manifest returns instead of raising.
Prepares(cp) ==
  /\ LocationsAccepted(cp)
  /\ \A l \in 0 .. cp.layers - 1 : LayerAccepted(cp, l)
  /\ Validates(ManifestOf(cp), cp.size)
--------------------------------------------------------------------------------
\* read_bundle sorts the spans of a file by offset, and a stable sort leaves spans of one
\* offset in the order of the bundle, which is that of the roles.
InFile(spans, f) == {s \in ToSet(spans) : s.file = f}
IsBefore(a, b) == a.offset < b.offset \/ (a.offset = b.offset /\ a.role < b.role)

\* A span begins a run unless it is adjacent to the one before it in its file.
Continues(spans, s) ==
  \E a \in InFile(spans, s.file) :
    /\ IsBefore(a, s) /\ a.offset + a.nbytes = s.offset
    /\ ~\E b \in InFile(spans, s.file) : IsBefore(a, b) /\ IsBefore(b, s)
Heads(spans) == {s \in ToSet(spans) : ~Continues(spans, s)}

\* The preads of a bundle: each span that begins a run, and those up to the next such span.
RunFrom(spans, head) ==
  {s \in InFile(spans, head.file) :
     /\ ~IsBefore(s, head)
     /\ \A h \in Heads(spans) : h.file = head.file /\ IsBefore(head, h) => IsBefore(s, h)}
Runs(spans) == {RunFrom(spans, head) : head \in Heads(spans)}

First(run) == CHOOSE s \in run : \A a \in run : ~IsBefore(a, s)
Final(run) == CHOOSE s \in run : \A a \in run : ~IsBefore(s, a)
RunBytes(run, content) ==
  LET start == First(run).offset
  IN  Pread(content[First(run).file], start, Final(run).offset + Final(run).nbytes - start)

\* _read_run hands each role its part of the run that holds its span.
ReadBundle(spans, content) ==
  [r \in {s.role : s \in ToSet(spans)} |->
     LET span == CHOOSE s \in ToSet(spans) : s.role = r
         run == CHOOSE run \in Runs(spans) : span \in run
     IN  Pread(RunBytes(run, content), span.offset - First(run).offset, span.nbytes)]

\* The tensors the shell loads, and the bytes of a tensor in its shard.
Shell(cp) == {t \in cp.tensors : t.name.kind = "dense"}
TensorBytes(cp, t) == Pread(ShardBytes(cp, t.shard), DataStart + t.start, Size(t))
================================================================================
