SPECIFICATION ServerSpec
CONSTANTS
  Models = {qwen, gemma}
  Callers = {server, embedder}
  Serving = server
  NoModel = NoModel
  NoCaller = NoCaller
  None = None
  MaxRequests = 2
INVARIANT
  UnreadBodyIsNoRequest
CHECK_DEADLOCK FALSE
