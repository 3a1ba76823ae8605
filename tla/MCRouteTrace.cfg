SPECIFICATION Spec
CONSTANTS
  Tasks <- MCTasks
  Models = {1, 2, 3}
  Experts = {0, 1, 2}
  TopK = 2
  StepSize = 2
  Bytes <- MCBytes
  MaxCandidates = 2
  MinConfidence = 3
  MaxBytes = 4
  Unit = 12
  MaxFailures = 1
  MaxObserved = 2
INVARIANTS
  TraceStaysDense
  
  PredictionsStayBounded
CHECK_DEADLOCK FALSE
