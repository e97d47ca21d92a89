SPECIFICATION FairSpec
CONSTANTS
  Key = {10, 15, 20, 25, 30, 35, 40, 50, 60, 65, 70}
  Thread = {"a", "b", "c"}
  Workload <- Sound
  LEAF_KEY_NUM = 3
  LastInLine <- Lines3
  NON_LEAF_KEY_NUM = 2
  MaxNode = 6
  MaxLevel = 3
INVARIANTS WritesOwnNodes RootAgrees CheckPasses
PROPERTIES Linearizable CallsReturn
