CONSTANTS
  c1 = c1
  c2 = c2
  w1 = w1
  w2 = w2
  Key = {1, 2, 3, 4, 5}
  Foreground = {c1, c2}
  Worker = {w1}
  Work <- Interleaved
  LEAF_KEY_NUM = 2
  NON_LEAF_KEY_NUM = 2
  VersionMod = 8
  MaxLeaf = 6
  MaxInode = 4
  MaxLevel = 2
SPECIFICATION Spec
INVARIANTS TypeOK LeafLockOwner RootAgrees ChainSorted
PROPERTIES Linearizable
