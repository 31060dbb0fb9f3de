SPECIFICATION LinkSpec
CONSTANTS
  ByteMod = 7
  XMODEM_BLOCK_SIZE = 2
  MEMORY_BLOCKS = 8
  AddressMod = 14
  BYTE_NAK = 5
  BYTE_SOH = 1
  BYTE_ACK = 6
  BYTE_CAN = 2
  BYTE_EOT = 4
  BYTE_ESC = 3
  RECV_INIT_TIMEOUT = 1
  RECV_INIT_COUNT = 3
  SEND_INIT_TIMEOUT = 3
  InitialMemory <- MCMemory
  CallbackResults = {TRUE}
  HOST_TIMEOUT = 2
  LongFile <- MCLongFile
  ShortFile <- MCShortFile
  MaxFaults = 2
  VersionCommand <- MCVersionCommand
PROPERTIES NakResendsFrame
