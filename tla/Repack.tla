--------------------------------- MODULE Repack --------------------------------
(***************************************************************************)
(* How a checkpoint is prepared (cli.py prepare, manifest.py) and its      *)
(* experts rewritten back to back (tools/repack_bundle_major.py).  The     *)
(* tool truncates the blob, reads bundles ahead on a pool of threads,      *)
(* appends them in the order of their keys, closes the blob, writes the    *)
(* new manifest and compares a sample.  It can be killed at any step and   *)
(* run again, while the manifest of an earlier run still names the blob.   *)
(*                                                                         *)
(* Written bytes reach the file in order and at any later time up to the   *)
(* close; what has reached it outlives the process.  A manifest file is    *)
(* torn from its truncation until the last of it is written.  A job of the *)
(* pool reads its whole bundle or fails, in any order of the jobs.  The    *)
(* source checkpoint does not change while it is being worked on.          *)
(***************************************************************************)
EXTENDS ExpertLayout

CONSTANTS
  Checkpoints,  \* the models one may be given; sound: every expert can be read
  Lookahead,    \* --lookahead: the bundles read ahead of the writer
  Samples,      \* --verify-samples
  MaxRuns       \* the bound on the runs of the tool

ASSUME RepackAssumption ==
  /\ Lookahead \in Nat \ {0} /\ Samples \in Nat /\ MaxRuns \in Nat

ASSUME CheckpointsAssumption ==
  \A cp \in Checkpoints :
    /\ cp.layers \in Nat /\ cp.experts \in Nat \ {0} /\ cp.size \in [Shards -> Nat]
    /\ IsFiniteSet(cp.tensors)
    /\ \A t \in cp.tensors : /\ t.shard \in Shards /\ t.shape \in Seq(Int) /\ t.name.role \in Nat
                             /\ t.start \in Int /\ t.end \in Int
                             /\ t.name.kind \in {"leading", "split", "dense"}
                             /\ t.name.layer \in Nat /\ t.name.expert \in Nat

VARIABLES
  checkpoint,  \* the model given
  stage,       \* what the one process is doing
  outcome,     \* how the last process ended
  files,       \* the content of the two manifest files
  blob,        \* the bytes written to the blob, and
  flushed,     \* how many of them have reached the file
  submitted,   \* how many of the keys have been given to the pool
  pending,     \* the deque of jobs, by key
  job,         \* what has become of each job
  current,     \* the key the writer waits for
  repacked,    \* the spans of the manifest being rewritten
  runs         \* the runs of the tool so far

toolVars == <<blob, flushed, submitted, pending, job, current, repacked, runs>>
vars == <<checkpoint, stage, outcome, files, toolVars>>

Blob == "blob"
ASSUME BlobIsNoShard == Blob \notin Shards
Files == Shards \cup {Blob}
NoKey == <<>>
Absent == [state |-> "absent", bundles |-> <<>>]
Torn == [state |-> "torn", bundles |-> <<>>]
Whole(bundles) == [state |-> "whole", bundles |-> bundles]
Bundles(path) == files[path].bundles

Contents == [f \in Files |->
               IF f = Blob THEN SubSeq(blob, 1, flushed) ELSE ShardBytes(checkpoint, f)]
Sizes == [f \in Files |-> Len(Contents[f])]

\* Layer-major, then expert.
SortedKeys ==
  [i \in 1 .. checkpoint.layers * checkpoint.experts |->
     <<(i - 1) \div checkpoint.experts, (i - 1) % checkpoint.experts>>]

Init ==
  /\ checkpoint \in Checkpoints
  /\ stage = "off" /\ outcome = "none"
  /\ files = [p \in {"source", "repacked"} |-> Absent]
  /\ blob = <<>> /\ flushed = 0 /\ submitted = 0 /\ pending = <<>>
  /\ job = <<>> /\ current = NoKey /\ repacked = <<>> /\ runs = 0
--------------------------------------------------------------------------------
Ends(how) == stage' = "off" /\ outcome' = how

\* What the tool holds in memory is gone with its process.
Exits(how) ==
  /\ Ends(how)
  /\ submitted' = 0 /\ pending' = <<>> /\ job' = <<>> /\ current' = NoKey /\ repacked' = <<>>

\* prepare: a layout that is not recognised, or a manifest that is there, is refused.
Prepare(overwrite) ==
  /\ stage = "off"
  /\ \/ /\ ~Prepares(checkpoint)
        /\ Ends("refused") /\ UNCHANGED files
     \/ /\ Prepares(checkpoint) /\ files["source"] # Absent /\ ~overwrite
        /\ Ends("exists") /\ UNCHANGED files
     \/ /\ Prepares(checkpoint) /\ (files["source"] = Absent \/ overwrite)
        /\ stage' = "preparing" /\ outcome' = "none"
        /\ files' = [files EXCEPT !["source"] = Torn]
  /\ UNCHANGED <<checkpoint, toolVars>>

PrepareEnds ==
  /\ stage = "preparing"
  /\ files' = [files EXCEPT !["source"] = Whole(ManifestOf(checkpoint))]
  /\ Ends("prepared")
  /\ UNCHANGED <<checkpoint, toolVars>>

\* The jobs of the first n keys are in the pool.
Submits(n) ==
  /\ submitted' = IF n <= Len(SortedKeys) THEN n ELSE Len(SortedKeys)
  /\ job' = [k \in ToSet(SubSeq(SortedKeys, 1, submitted')) |->
               IF k \in DOMAIN job THEN job[k] ELSE "reading"]

\* main up to its loop: "wb" truncates the blob before anything is read.
StartRepack ==
  /\ stage = "off" /\ files["source"].state = "whole" /\ runs < MaxRuns
  /\ runs' = runs + 1
  /\ \/ /\ Ends("no space")
        /\ UNCHANGED <<blob, flushed, submitted, pending, job, current, repacked>>
     \/ /\ stage' = "copying" /\ outcome' = "none"
        /\ blob' = <<>> /\ flushed' = 0
        /\ repacked' = Bundles("source") /\ current' = NoKey
        /\ submitted' = IF Lookahead <= Len(SortedKeys) THEN Lookahead ELSE Len(SortedKeys)
        /\ pending' = SubSeq(SortedKeys, 1, submitted')
        /\ job' = [k \in ToSet(pending') |-> "reading"]
  /\ UNCHANGED <<checkpoint, files>>

\* A job of the pool has read its bundle, or could not.
JobEnds(k) ==
  /\ stage = "copying" /\ k \in DOMAIN job /\ job[k] = "reading"
  /\ \E result \in {"read", "failed"} : job' = [job EXCEPT ![k] = result]
  /\ UNCHANGED <<checkpoint, stage, outcome, files, blob, flushed, submitted, pending,
                 current, repacked, runs>>

\* popleft and submit_next: the window of jobs moves by one.
Pop ==
  /\ stage = "copying" /\ current = NoKey /\ pending # <<>>
  /\ current' = Head(pending)
  /\ Submits(submitted + 1)
  /\ pending' = Tail(pending) \o SubSeq(SortedKeys, submitted + 1, submitted')
  /\ UNCHANGED <<checkpoint, stage, outcome, files, blob, flushed, repacked, runs>>

\* How many bytes the first spans of a bundle have together.
BytesUpTo(spans) ==
  LET bytes[n \in 0 .. Len(spans)] == IF n = 0 THEN 0 ELSE bytes[n - 1] + spans[n].nbytes
  IN  bytes

\* The spans of the bundle at the end of the blob, one after another.
Appended(spans, pos) ==
  [i \in DOMAIN spans |->
     [spans[i] EXCEPT !.file = Blob, !.offset = pos + BytesUpTo(spans)[i - 1]]]

\* What the job of k has read: its spans in the source, in their order.
Chunks(k) ==
  FlattenSeq([i \in DOMAIN Bundles("source")[k] |->
                LET s == Bundles("source")[k][i]
                IN Pread(ShardBytes(checkpoint, s.file), s.offset, s.nbytes)])

\* future.result() returns: the bundle is written and some of the buffer may reach the file.
Write ==
  /\ stage = "copying" /\ current # NoKey /\ job[current] = "read"
  /\ repacked' = [repacked EXCEPT ![current] = Appended(@, Len(blob))]
  /\ blob' = blob \o Chunks(current)
  /\ flushed' \in flushed .. Len(blob')
  /\ current' = NoKey
  /\ UNCHANGED <<checkpoint, stage, outcome, files, submitted, pending, job, runs>>

\* future.result() raises: the blob is closed, the pool is awaited and the tool exits.
WriteFails ==
  /\ stage = "copying" /\ current # NoKey /\ job[current] = "failed"
  /\ flushed' = Len(blob)
  /\ Exits("failed")
  /\ UNCHANGED <<checkpoint, files, blob, runs>>

\* Faulty: the manifest is written while the blob is still open.
CloseNothing ==
  /\ stage = "copying" /\ current = NoKey /\ pending = <<>>
  /\ stage' = "describing"
  /\ files' = [files EXCEPT !["repacked"] = Torn]
  /\ UNCHANGED <<checkpoint, outcome, toolVars>>

\* The end of the loop: the blob is closed and the manifest opened for writing.
CloseBlob ==
  /\ stage = "copying" /\ current = NoKey /\ pending = <<>>
  /\ flushed' = Len(blob)
  /\ stage' = "describing"
  /\ files' = [files EXCEPT !["repacked"] = Torn]
  /\ UNCHANGED <<checkpoint, outcome, blob, submitted, pending, job, current, repacked, runs>>

Describe ==
  /\ stage = "describing"
  /\ files' = [files EXCEPT !["repacked"] = Whole(repacked)]
  /\ stage' = "verifying"
  /\ UNCHANGED <<checkpoint, outcome, toolVars>>

\* _verify: the spans of the sampled bundles, old and new, are read and compared.
IsSame(k) ==
  \A i \in DOMAIN repacked[k] :
    LET old == Bundles("source")[k][i]
        new == repacked[k][i]
    IN Pread(Contents[old.file], old.offset, old.nbytes)
         = Pread(Contents[Blob], new.offset, new.nbytes)
Verify ==
  /\ stage = "verifying"
  /\ \E sample \in SUBSET DOMAIN repacked :
       /\ \/ Cardinality(sample) = Samples
          \/ Cardinality(sample) < Samples /\ sample = DOMAIN repacked
       /\ Exits(IF \A k \in sample : IsSame(k) THEN "verified" ELSE "mismatch")
  /\ UNCHANGED <<checkpoint, files, blob, flushed, runs>>

\* The process is killed: what was buffered is lost.
Crash ==
  /\ stage # "off"
  /\ blob' = SubSeq(blob, 1, flushed)
  /\ Exits("killed")
  /\ UNCHANGED <<checkpoint, files, flushed, runs>>

Tool ==
  \/ PrepareEnds \/ Pop \/ Write \/ WriteFails \/ CloseBlob \/ Describe \/ Verify
  \/ \E k \in DOMAIN job : JobEnds(k)

Next ==
  \/ \E overwrite \in BOOLEAN : Prepare(overwrite)
  \/ StartRepack
  \/ Tool
  \/ Crash

Spec == Init /\ [][Next]_vars
--------------------------------------------------------------------------------
\* prepare writes a manifest of every model whose experts can all be read, and refuses the
\* others: two layouts in one layer, a missing weight, an expert out of range, an axis that
\* is not the experts', a name in two shards, a range that is not its tensor's.
OnlyTheSoundArePrepared ==
  /\ files["source"] # Absent => checkpoint.sound
  /\ outcome = "refused" => ~checkpoint.sound

\* The bytes the experts of one layer are given for a role.
RoleBytes(bundles, content, layer, r) ==
  FlattenSeq([e \in 1 .. checkpoint.experts |-> ReadBundle(bundles[<<layer, e - 1>>], content)[r]])

\* What the experts are given of a tensor.
Given(t) ==
  IF t.name.kind = "leading"
  THEN RoleBytes(Bundles("source"), Contents, t.name.layer, t.name.role)
  ELSE ReadBundle(Bundles("source")[<<t.name.layer, t.name.expert>>], Contents)[t.name.role]

\* Every byte a pread of the run returns is in one span of it.
ReadsNoMore(run) ==
  \A i \in 0 .. Len(RunBytes(run, Contents)) - 1 :
    \E s \in run : \A a \in run :
      First(run).offset + i \in a.offset .. a.offset + a.nbytes - 1 <=> a = s

\* A prepared checkpoint is cut without loss: the parts of a leading-axis tensor of a layer,
\* put together in the order of the experts, are the tensor, a split tensor is its expert's,
\* a bundle has nothing but its parts of these tensors, none of which the shell reads, and
\* no pread takes a byte that is not asked for, or one twice (safetensors_store.py:225-275).
EveryByteHasItsReader ==
  outcome = "prepared" =>
    LET bundles == Bundles("source")
        routed == {t \in checkpoint.tensors \ Shell(checkpoint) : t.name.layer < checkpoint.layers}
    IN /\ \A t \in routed : Given(t) = TensorBytes(checkpoint, t)
       /\ \A k \in DOMAIN bundles :
            /\ \A s \in ToSet(bundles[k]) :
                 \E t \in routed : /\ t.name.role = s.role /\ t.name.layer = k[1]
                                   /\ t.name.kind = "leading" \/ t.name.expert = k[2]
            /\ \A run \in Runs(bundles[k]) : ReadsNoMore(run)

\* Whatever was killed or failed before, and while the tool is running: a repacked manifest
\* that loads gives every expert the bytes it has in the source, each bundle in one pread.
\* So the tool's own comparison never finds a difference, and a success it reports leaves a
\* manifest that loads (repack_bundle_major.py:72-89, :121-163).
RepackedReadsTrue ==
  LET loads == files["repacked"].state = "whole" /\ Validates(Bundles("repacked"), Sizes)
      old == Bundles("source")
      new == Bundles("repacked")
  IN /\ loads => \A k \in DOMAIN old :
                   /\ Cardinality(Runs(new[k])) = 1
                   /\ ReadBundle(new[k], Contents) = ReadBundle(old[k], Contents)
     /\ outcome # "mismatch"
     /\ outcome = "verified" => loads
================================================================================
