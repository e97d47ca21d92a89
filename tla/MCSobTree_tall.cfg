CONSTANTS
  c1 = c1
  c2 = c2
  w1 = w1
  w2 = w2
  Key = {2, 3, 4, 8, 12, 16, 20, 24, 28, 29, 30}
  Foreground = {c1, c2}
  Worker = {w1}
  Work <- BothEnds
  LEAF_KEY_NUM = 2
  NON_LEAF_KEY_NUM = 2
  VersionMod = 8
  MaxLeaf = 12
  MaxInode = 6
  MaxLevel = 2
SPECIFICATION LoadedSpec
INVARIANTS InodeLockOwner TopIsRoot PathStillRight OneParent
