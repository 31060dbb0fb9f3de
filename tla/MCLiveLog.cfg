SPECIFICATION Spec
CONSTANTS
  LOG_SIZE = 14
  Base = 2
  ALIGN = 2
  LOG_BLOCK_LIST_NODE_SIZE = 2
  HEAD = 1
  LIVE_LOGGER_POST_TICKS = 2
  CountSize = 4
  WordSize = 16
  Entries = {1, 2}
  Wild = {3}
  Parts = {4}
  Size <- MCSize
INVARIANTS TypeOK SpaceAccounted
PROPERTIES  ListIsFlushed
