SPECIFICATION Spec
CONSTANTS
  Shards = {"A", "B"}
  Weights = {2, 4}
  DataStart = 1
  Lookahead = 2
  Samples = 1
  MaxRuns = 3
  Checkpoints <- MCCheckpoints
INVARIANTS
  
  EveryByteHasItsReader
  RepackedReadsTrue
