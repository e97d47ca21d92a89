SPECIFICATION FairSpecV1
CONSTANTS
  c1 = c1
  c2 = c2
  w1 = w1
  w2 = w2
  Key = {1, 2, 3, 4}
  Foreground = {c1, c2}
  Worker = {w1, w2}
  Work <- Interleaved
  LEAF_KEY_NUM = 2
  NON_LEAF_KEY_NUM = 2
  VersionMod = 1
  MaxLeaf = 6
  MaxInode = 4
  MaxLevel = 2
INVARIANTS PlainStoreSafe
PROPERTIES Linearizable CallsReturn
