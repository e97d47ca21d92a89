SPECIFICATION StartedSpec
CONSTANTS
  c1 = c1
  c2 = c2
  w1 = w1
  w2 = w2
  Key = {1, 2, 3, 4, 5, 6, 7, 8, 9}
  Foreground = {c1, c2}
  Worker = {w1}
  Work <- Around
  LEAF_KEY_NUM = 2
  NON_LEAF_KEY_NUM = 3
  VersionMod = 4
  MaxLeaf = 8
  MaxInode = 4
  MaxLevel = 1
INVARIANTS LeafLockOwner SplitsFullLeaf
PROPERTIES Linearizable CallsReturn
