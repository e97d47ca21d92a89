SPECIFICATION FairSpec
CONSTANTS
  Key = {10, 12, 15, 17, 20, 22, 25, 28, 30, 33, 35, 40, 50, 60, 65, 80, 90}
  Thread = {"a", "b"}
  Workload <- Sound
  NODE_MAX = 3
  NODE_PIVOT = 1
  InsertMod = 4
  SplitMod = 4
  MaxLeaf = 7
  MaxNode = 11
INVARIANTS LocksHeld TreeSound ScanNoGap
PROPERTIES Linearizable CallsReturn
