SPECIFICATION FairSpec
CONSTANTS
  a = a
  b = b
  c = c
  NoBlock = NoBlock
  NoEndpoint = NoEndpoint
  Endpoint = {a, b, c}
  Workload <- OnlyFanIn
  Block = {}
  Depth = 1
  MaxPending = 1
  Postlist = 1
  MaxAllocs = 0
  MaxGeneration = 1
  MaxSessions = 2
INVARIANTS
  SourcesAreSessions
PROPERTIES
  PublishedIsReceived
CHECK_DEADLOCK FALSE
