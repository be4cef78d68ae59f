SPECIFICATION Spec
CONSTANTS
  a = a  b = b  server = server
  NoBlock = NoBlock  NoEndpoint = NoEndpoint
  Endpoint = {a, server}
  Client = {a}
  Block = {1}
  Unmappable = {}
  RequestBlock = NoBlock
  Depth = 2
  MaxPending = 2
  Postlist = 1
  MaxAllocs = 1
  MaxGeneration = 2
  MaxSessions = 1
  MaxRequests = 1
  MaxRetries = 3
INVARIANT PendingStaysWithIncarnation
CHECK_DEADLOCK FALSE
