SPECIFICATION ServerSpec
CONSTANTS
  Models = {qwen, gemma}
  Callers = {server, embedder}
  Serving = server
  NoModel = NoModel
  NoCaller = NoCaller
  None = None
  MaxRequests = 2
INVARIANTS
  OneEngineOpen
  SlotIsAccounted
  EngineInUse
  
  NothingOutlivesAConnection
PROPERTIES
  SlotIsFreedAgain
  ShutdownCompletes
CHECK_DEADLOCK FALSE
