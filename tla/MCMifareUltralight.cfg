SPECIFICATION Spec
CONSTANTS
  Flavors = {"EV0", "C", "EV1", "NTAG215"}
  MaxPage = 11
  PageCount = 8
  MaxWord = 255
  ProtWords = {1, 21}
  UlcConfigPage = 4
  UlcCounterPage = 3
  UlcCounterAt = 2
  UlcCounterMax = 22
  Nibble = 8
  CounterMax = 30
  IncrementCode = 9
  Addressed = {3, 4, 5}
  Written = {0, 21}
  Steps = {0, 1}
  Counted = {0, 1}
  InitialMemory <- MCMemory
INVARIANTS TypeOK
PROPERTIES ShownWithLeave StoredWithLeave CountersOnlyRise SelectedFirst
