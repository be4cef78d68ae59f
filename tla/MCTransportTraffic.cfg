SPECIFICATION Spec
CONSTANTS
  a = a
  b = b
  c = c
  NoBlock = NoBlock
  NoEndpoint = NoEndpoint
  Endpoint = {a, b, c}
  Workload <- PayloadsOrFanOut
  Block = {1}
  Depth = 1
  MaxPending = 2
  Postlist = 2
  MaxAllocs = 2
  MaxGeneration = 1
  MaxSessions = 1
INVARIANTS
  ReferencesCovered
  PendingPeersListed
PROPERTIES
  ReceivesWhatWasSent
  OrderKept
CHECK_DEADLOCK FALSE
