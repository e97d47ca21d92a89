SPECIFICATION FairSpec
CONSTANTS
  Key = {3, 4, 5, 6, 8, 9, 10, 12, 14, 15, 16, 18}
  Thread = {"a", "b"}
  Workload <- Sound
  cardinality = 4
  SwitchMod = 8
  MaxPage = 12
INVARIANTS ReadersRight OneWriter SeparatorPlaced PagesInOrder
PROPERTIES CallsReturn
