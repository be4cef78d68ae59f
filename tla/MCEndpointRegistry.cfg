\* Two workers, which stall, die and leave their endpoints behind, three registry entries,
\* room for two endpoints, two registrations (so two endpoints, or one entry in two
\* incarnations), a remote thread that validates handles, and a manager that keeps serving.
SPECIFICATION FairSpec
CONSTANTS
  w1 = w1
  w2 = w2
  r1 = r1
  r2 = r2
  v1 = v1
  NoWorker = NoWorker
  NoRpcId = NoRpcId
  Worker = {w1, w2}
  RpcId = {r1, r2}
  Slots = 3
  Capacity = 2
  Validator = {v1}
  MaxGeneration = 2
  MaxHandles = 2
  MaxBlocks = 1
INVARIANTS
  EndpointsDistinct
  HandleIsLive
  RefusedOnlyWhenFull
  ValidateIsSound
PROPERTIES
  NeverRevived
  RequestAnswered
