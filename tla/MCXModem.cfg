SPECIFICATION Spec
CONSTANTS
  ByteMod = 7
  XMODEM_BLOCK_SIZE = 1
  MEMORY_BLOCKS = 2
  AddressMod = 7
  BYTE_NAK = 5
  BYTE_SOH = 1
  BYTE_ACK = 6
  BYTE_CAN = 2
  BYTE_EOT = 4
  BYTE_ESC = 3
  RECV_INIT_TIMEOUT = 0
  RECV_INIT_COUNT = 1
  SEND_INIT_TIMEOUT = 1
  InitialMemory <- MCMemory
  CallbackResults = {TRUE, FALSE}
INVARIANTS TypeOK BufferInRange FrameNumberTracksAddress
PROPERTIES AckIsCommit OnlyAcceptedBlocksStored
