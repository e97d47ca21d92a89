CONSTANTS
  c1 = c1
  c2 = c2
  w1 = w1
  w2 = w2
  Key = {1, 2, 3, 4, 5, 6, 7, 8}
  Foreground = {c1}
  Worker = {w1}
  Work <- AllKeys
  LEAF_KEY_NUM = 4
  NON_LEAF_KEY_NUM = 2
  VersionMod = 2
  MaxLeaf = 5
  MaxInode = 3
  MaxLevel = 1
SPECIFICATION Spec
INVARIANTS SplitsFullLeaf
