SPECIFICATION Spec
CONSTANTS
  Keys = {"k1", "k2"}
  Accs <- MCAccs
  MaxWord = 2
  LastBlock = 7
  SectorBlocks = 2
  BigStart = 4
  BigSectorBlocks = 4
  NoAddress = 7
  UidSize = 7
  Opened = {3, 7}
  Addressed = {6, 7}
  Written <- MCWritten
  Operands = {1}
  InitialMemory <- MCMemory
INVARIANTS TypeOK OpenSector ValueRegister
PROPERTIES ServedToKeyHolder
