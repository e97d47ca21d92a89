SPECIFICATION Spec
CONSTANTS
  LINES = 3
  UNITS = 6
  NODES = 2
  History = {1, 4, 6}
  MaxTx = 2
INVARIANTS LoggedFirst AbortRestores PoolSound
