SPECIFICATION Spec
CONSTANTS
  Worker = {w1, w2, w3}
  Key = {1, 2}
  Database = {}
  Program <- InsertsAndScan
  MaxTxns = 1
  LeafCapacity = 3
  InnerCapacity = 3
  Absent = Absent
  NoWorker = NoWorker
PROPERTIES
  NoPhantom
CHECK_DEADLOCK FALSE
