SPECIFICATION Spec
CONSTANTS
  Worker = {w1, w2, w3}
  Key = {1, 2, 3, 4, 5, 6, 7, 8, 9, 10}
  Database = {2, 4, 6}
  Program <- Mix
  MaxTxns = 1
  LeafCapacity = 3
  InnerCapacity = 3
  Absent = Absent
  NoWorker = NoWorker
SYMMETRY Workers
INVARIANTS
  LocksAccounted
  PlaceholderOwned
  SearchIsExact
  NeverStuck
  ReplicasAgree
  VersionsGrow
PROPERTIES
  Serializable
CHECK_DEADLOCK FALSE
