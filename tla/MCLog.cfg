SPECIFICATION Spec
CONSTANTS
  LOG_SIZE = 4
  FRAM_LOG_START_ADDR = 2
  FRAM_LOG_SIZE = 3
  Cell = {1, 2}
  Entries <- MCEntries
  InterruptEntries <- MCInterruptEntries
  BootEntry <- MCBootEntry
  StaleAddrs <- MCStaleAddrs
INVARIANTS TypeOK SpaceAccounted BlocksMatchLog
PROPERTIES LogIsKept LogReachesFRAM
