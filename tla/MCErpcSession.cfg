SPECIFICATION FairSpec
CONSTANTS
  a = a  b = b  server = server
  NoBlock = NoBlock  NoEndpoint = NoEndpoint
  Endpoint = {a, server}
  Client = {a}
  Block = {1}
  Unmappable = {a}
  RequestBlock = 1
  Depth = 1
  MaxPending = 2
  Postlist = 2
  MaxAllocs = 2
  MaxGeneration = 1
  MaxSessions = 2
  MaxRequests = 2
  MaxRetries = 1
INVARIANTS ReferencesCovered HandlerRunsOnce AnsweredByItsResponse SessionsPaired
PROPERTIES DisconnectedIsUnmapped RequestIsAnswered DisconnectCompletes
CHECK_DEADLOCK FALSE
