CONSTANTS
  c1 = c1
  c2 = c2
  w1 = w1
  w2 = w2
  Key = {1, 2, 3, 4, 5, 6}
  Foreground = {c1, c2}
  Worker = {w1, w2}
  Work <- Filling
  LEAF_KEY_NUM = 4
  NON_LEAF_KEY_NUM = 2
  VersionMod = 8
  MaxLeaf = 4
  MaxInode = 2
  MaxLevel = 1
SPECIFICATION Spec
INVARIANTS SplitsFullLeaf EachJobOnce NoStrandedLeaf IndInv
