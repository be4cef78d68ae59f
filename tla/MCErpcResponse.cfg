SPECIFICATION Spec
CONSTANTS
  a = a  b = b  server = server
  NoBlock = NoBlock  NoEndpoint = NoEndpoint
  Endpoint = {a, server}
  Client = {a}
  Block = {1}
  Unmappable = {}
  RequestBlock = NoBlock
  Depth = 1
  MaxPending = 2
  Postlist = 1
  MaxAllocs = 1
  MaxGeneration = 1
  MaxSessions = 1
  MaxRequests = 2
  MaxRetries = 0
INVARIANT ResponseIsOwned
CHECK_DEADLOCK FALSE
