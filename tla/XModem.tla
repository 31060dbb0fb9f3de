------------------------------- MODULE XModem -------------------------------
(***************************************************************************)
(* The device side of the XMODEM transfers of Terminal/XModem.c.           *)
(*                                                                         *)
(* XModemReceive is armed by the UPLOAD command with MemoryUploadBlock as  *)
(* its callback, XModemSend by DOWNLOAD with MemoryDownloadBlock, so the   *)
(* working memory of the active setting is part of the state.  One action  *)
(* stands for one case of the switch in XModemProcessByte; `out' holds the *)
(* bytes the last step handed to TerminalSendByte.                         *)
(*                                                                         *)
(* A byte is a number below ByteMod (256 in the code).  BlockAddress       *)
(* counts blocks: the code counts bytes, always in steps of a whole block, *)
(* and the size of a setting (8192) is a multiple of a block (128), so the *)
(* MIN in the two callbacks never shortens a block.                        *)
(*                                                                         *)
(* A definition whose name ends in Slip is a mistake the definition after  *)
(* it could have had; nothing uses it but the mutation runs.               *)
(***************************************************************************)
EXTENDS Naturals, Sequences, Functions

CONSTANTS
  ByteMod,              \* number of byte values, 256
  XMODEM_BLOCK_SIZE,    \* data bytes of a frame, 128
  MEMORY_BLOCKS,        \* MEMORY_SIZE_PER_SETTING in blocks, 64
  AddressMod,           \* blocks in the 32-bit range of BlockAddress, 2^25
  BYTE_NAK, BYTE_SOH, BYTE_ACK, BYTE_CAN, BYTE_EOT, BYTE_ESC,
  RECV_INIT_TIMEOUT,    \* ticks between two NAKs to the sender
  RECV_INIT_COUNT,      \* NAKs until the receiver gives up
  SEND_INIT_TIMEOUT,    \* ticks in STATE_SEND_INIT until the sender gives up
  InitialMemory,        \* what the FRAM holds at power-up, by block
  CallbackResults       \* what a receive callback may return:
                        \* {TRUE} for MemoryUploadBlock

Byte == 0 .. ByteMod - 1
Block == [1 .. XMODEM_BLOCK_SIZE -> Byte]

ASSUME ByteAssumption ==
  /\ ByteMod \in Nat /\ ByteMod > 2
  /\ BYTE_NAK \in Byte /\ BYTE_SOH \in Byte /\ BYTE_ACK \in Byte
  /\ BYTE_CAN \in Byte /\ BYTE_EOT \in Byte /\ BYTE_ESC \in Byte
  /\ BYTE_ACK \notin {BYTE_NAK, BYTE_SOH, BYTE_CAN, BYTE_EOT}
  /\ BYTE_NAK \notin {BYTE_SOH, BYTE_CAN, BYTE_EOT}
  /\ BYTE_SOH \notin {BYTE_CAN, BYTE_EOT, BYTE_ESC}
  /\ BYTE_EOT \notin {BYTE_CAN, BYTE_ESC}
ASSUME SizeAssumption ==
  /\ XMODEM_BLOCK_SIZE \in Nat \ {0}
  /\ MEMORY_BLOCKS \in Nat \ {0}
  /\ AddressMod \in Nat /\ AddressMod > MEMORY_BLOCKS
  /\ AddressMod % ByteMod = 0
ASSUME TimeoutAssumption ==
  /\ RECV_INIT_TIMEOUT \in Nat
  /\ RECV_INIT_COUNT \in Byte
  /\ SEND_INIT_TIMEOUT \in Nat
ASSUME MemoryAssumption ==
  InitialMemory \in [0 .. MEMORY_BLOCKS - 1 -> Block]
ASSUME CallbackAssumption == CallbackResults \in SUBSET BOOLEAN

VARIABLES
  State, CurrentFrameNumber, ReceivedFrameNumber, RetryCount, RetryTimeout,
  BufferIdx, BlockAddress, TerminalBuffer,
  Memory,               \* the FRAM copy of the active setting, by block
  out                   \* bytes sent to the terminal by the last step

counters == <<CurrentFrameNumber, RetryCount, RetryTimeout, BlockAddress>>
frame    == <<ReceivedFrameNumber, BufferIdx, TerminalBuffer>>
vars     == <<State, counters, frame, Memory, out>>

ReceiveStates ==
  {"RECEIVE_INIT", "RECEIVE_WAIT", "RECEIVE_FRAMENUM1", "RECEIVE_FRAMENUM2",
   "RECEIVE_DATA", "RECEIVE_PROCESS"}
SendStates == {"SEND_INIT", "SEND_EOT"}

FIRST_FRAME_NUMBER == 1

(* uint8_t arithmetic *)
IncSlip(n) == n + 1
Inc(n) == (n + 1) % ByteMod
Dec(n) == (n + ByteMod - 1) % ByteMod

(* BlockAddress is a uint32_t of bytes *)
NextAddressSlip == BlockAddress
NextAddress == (BlockAddress + 1) % AddressMod

CalcChecksumSlip(block) == 0
CalcChecksum(block) == SumFunction(block) % ByteMod

FrameBytes(n, block) ==
  <<BYTE_SOH, n, ByteMod - 1 - n>> \o block \o <<CalcChecksum(block)>>

(* MemoryUploadBlock and MemoryDownloadBlock: a block beyond the setting   *)
(* is ignored on the way in and ends the transfer on the way out.          *)
MemoryUploadClampSlip(block, address) ==
  Memory' = IF address < MEMORY_BLOCKS
            THEN [Memory EXCEPT ![address] = block]
            ELSE [Memory EXCEPT ![MEMORY_BLOCKS - 1] = block]
MemoryUploadBlock(block, address) ==
  Memory' = IF address < MEMORY_BLOCKS
            THEN [Memory EXCEPT ![address] = block] ELSE Memory
MemoryDownloadSlip(address) == address < MEMORY_BLOCKS - 1
MemoryDownloadBlock(address) == address < MEMORY_BLOCKS

Init ==
  /\ State = "OFF"
  /\ CurrentFrameNumber = 0 /\ ReceivedFrameNumber = 0
  /\ RetryCount = 0 /\ RetryTimeout = 0 /\ BufferIdx = 0 /\ BlockAddress = 0
  /\ TerminalBuffer = [i \in 1 .. XMODEM_BLOCK_SIZE |-> 0]
  /\ Memory = InitialMemory
  /\ out = <<>>
-----------------------------------------------------------------------------
(* The command line hands over the line only while no transfer runs: a     *)
(* byte reaches it when XModemProcessByte returns false, in STATE_OFF.     *)
XModemReceive ==
  /\ State = "OFF"
  /\ State' = "RECEIVE_INIT"
  /\ CurrentFrameNumber' = FIRST_FRAME_NUMBER
  /\ RetryCount' = RECV_INIT_COUNT
  /\ RetryTimeout' = RECV_INIT_TIMEOUT
  /\ BlockAddress' = 0
  /\ out' = <<>>
  /\ UNCHANGED <<frame, Memory>>

XModemSend ==
  /\ State = "OFF"
  /\ State' = "SEND_INIT"
  /\ RetryTimeout' = SEND_INIT_TIMEOUT
  /\ BlockAddress' = 0
  /\ out' = <<>>
  /\ UNCHANGED <<CurrentFrameNumber, RetryCount, frame, Memory>>

ReceiveWaitSlip(b) ==
  /\ State \in {"RECEIVE_INIT", "RECEIVE_WAIT"}
  /\ BufferIdx' = 0
  /\ State' = CASE b = BYTE_SOH -> "RECEIVE_FRAMENUM1"
               [] b \in {BYTE_CAN, BYTE_ESC} -> "OFF"
               [] OTHER -> State
  /\ out' = <<>>
  /\ UNCHANGED <<counters, ReceivedFrameNumber, TerminalBuffer, Memory>>

(* The checksum variable the code resets here is never read.               *)
ReceiveWait(b) ==
  /\ State \in {"RECEIVE_INIT", "RECEIVE_WAIT"}
  /\ \/ /\ b = BYTE_SOH
        /\ BufferIdx' = 0
        /\ State' = "RECEIVE_FRAMENUM1"
        /\ out' = <<>>
     \/ /\ b = BYTE_EOT
        /\ State' = "OFF"
        /\ out' = <<BYTE_ACK>>
        /\ UNCHANGED BufferIdx
     \/ /\ b \in {BYTE_CAN, BYTE_ESC}
        /\ State' = "OFF"
        /\ out' = <<>>
        /\ UNCHANGED BufferIdx
     \/ /\ b \notin {BYTE_SOH, BYTE_EOT, BYTE_CAN, BYTE_ESC}
        /\ out' = <<>>
        /\ UNCHANGED <<State, BufferIdx>>
  /\ UNCHANGED <<counters, ReceivedFrameNumber, TerminalBuffer, Memory>>

ReceiveFrameNum1(b) ==
  /\ State = "RECEIVE_FRAMENUM1"
  /\ ReceivedFrameNumber' = b
  /\ State' = "RECEIVE_FRAMENUM2"
  /\ out' = <<>>
  /\ UNCHANGED <<counters, BufferIdx, TerminalBuffer, Memory>>

ReceiveFrameNum2(b) ==
  /\ State = "RECEIVE_FRAMENUM2"
  /\ \/ /\ b = ByteMod - 1 - ReceivedFrameNumber
        /\ State' = "RECEIVE_DATA"
        /\ out' = <<>>
     \/ /\ b # ByteMod - 1 - ReceivedFrameNumber
        /\ State' = "RECEIVE_WAIT"
        /\ out' = <<BYTE_NAK>>
  /\ UNCHANGED <<counters, frame, Memory>>

BlockFullSlip(idx) == idx > XMODEM_BLOCK_SIZE
BlockFull(idx) == idx = XMODEM_BLOCK_SIZE

ReceiveData(b) ==
  /\ State = "RECEIVE_DATA"
  /\ TerminalBuffer' = [TerminalBuffer EXCEPT ![BufferIdx + 1] = b]
  /\ BufferIdx' = BufferIdx + 1
  /\ State' = IF BlockFull(BufferIdx')
              THEN "RECEIVE_PROCESS" ELSE State
  /\ out' = <<>>
  /\ UNCHANGED <<counters, ReceivedFrameNumber, Memory>>

(* CurrentFrameNumber - 1 is computed in int: it is -1, which no received  *)
(* byte equals, when the 8-bit counter has wrapped to 0.                   *)
IsExpected == ReceivedFrameNumber = CurrentFrameNumber
IsRetransmissionSlip == ReceivedFrameNumber # CurrentFrameNumber
IsRetransmission == ReceivedFrameNumber + 1 = CurrentFrameNumber

AcceptBlock(b) ==
  /\ State = "RECEIVE_PROCESS" /\ IsExpected
  /\ CalcChecksum(TerminalBuffer) = b
  /\ TRUE \in CallbackResults
  /\ MemoryUploadBlock(TerminalBuffer, BlockAddress)
  /\ CurrentFrameNumber' = Inc(CurrentFrameNumber)
  /\ BlockAddress' = NextAddress
  /\ out' = <<BYTE_ACK>>
  /\ State' = "RECEIVE_WAIT"
  /\ UNCHANGED <<RetryCount, RetryTimeout, frame>>

(* The callback refuses the block: nothing is stored.                      *)
RefuseBlock(b) ==
  /\ State = "RECEIVE_PROCESS" /\ IsExpected
  /\ CalcChecksum(TerminalBuffer) = b
  /\ FALSE \in CallbackResults
  /\ out' = <<BYTE_CAN, BYTE_CAN>>
  /\ State' = "OFF"
  /\ UNCHANGED <<counters, frame, Memory>>

DamagedBlockSlip(b) ==
  /\ State = "RECEIVE_PROCESS" /\ IsExpected
  /\ CalcChecksum(TerminalBuffer) # b
  /\ out' = <<BYTE_ACK>>
  /\ State' = "RECEIVE_WAIT"
  /\ UNCHANGED <<counters, frame, Memory>>
DamagedBlock(b) ==
  /\ State = "RECEIVE_PROCESS" /\ IsExpected
  /\ CalcChecksum(TerminalBuffer) # b
  /\ out' = <<BYTE_NAK>>
  /\ State' = "RECEIVE_WAIT"
  /\ UNCHANGED <<counters, frame, Memory>>

UnexpectedBlock ==
  /\ State = "RECEIVE_PROCESS" /\ ~IsExpected
  /\ \/ /\ IsRetransmission
        /\ out' = <<BYTE_ACK>>
        /\ State' = "RECEIVE_WAIT"
     \/ /\ ~IsRetransmission
        /\ out' = <<BYTE_CAN>>
        /\ State' = "OFF"
  /\ UNCHANGED <<counters, frame, Memory>>

ReceiveProcess(b) ==
  AcceptBlock(b) \/ RefuseBlock(b) \/ DamagedBlock(b) \/ UnexpectedBlock
-----------------------------------------------------------------------------
(* STATE_SEND_INIT falls through to STATE_SEND_WAIT, but nothing assigns   *)
(* STATE_SEND_WAIT: the whole transfer runs in STATE_SEND_INIT, where a    *)
(* NAK restarts the numbering and is then taken as an ACK, and the branch  *)
(* that resends a frame is never reached.                                  *)
SendNextBlock(b) ==
  /\ State = "SEND_INIT"
  /\ b \in {BYTE_NAK, BYTE_ACK}
  /\ CurrentFrameNumber' = IF b = BYTE_NAK THEN FIRST_FRAME_NUMBER
                           ELSE Inc(CurrentFrameNumber)
  /\ \/ /\ MemoryDownloadBlock(BlockAddress)
        /\ TerminalBuffer' = Memory[BlockAddress]
        /\ out' = FrameBytes(CurrentFrameNumber', TerminalBuffer')
        /\ BlockAddress' = NextAddress
        /\ UNCHANGED State
     \/ /\ ~MemoryDownloadBlock(BlockAddress)
        /\ out' = <<BYTE_EOT>>
        /\ State' = "SEND_EOT"
        /\ UNCHANGED <<TerminalBuffer, BlockAddress>>
  /\ UNCHANGED <<RetryCount, RetryTimeout, ReceivedFrameNumber, BufferIdx,
                 Memory>>

SendCancel(b) ==
  /\ State = "SEND_INIT"
  /\ \/ /\ b = BYTE_CAN
        /\ out' = <<BYTE_ACK>>
     \/ /\ b = BYTE_ESC
        /\ out' = <<>>
  /\ State' = "OFF"
  /\ UNCHANGED <<counters, frame, Memory>>

SendIgnore(b) ==
  /\ State = "SEND_INIT"
  /\ b \notin {BYTE_ACK, BYTE_NAK, BYTE_CAN, BYTE_ESC}
  /\ out' = <<>>
  /\ UNCHANGED <<State, counters, frame, Memory>>

SendEot ==
  /\ State = "SEND_EOT"
  /\ State' = "OFF"
  /\ out' = <<>>
  /\ UNCHANGED <<counters, frame, Memory>>

XModemProcessByte(b) ==
  \/ ReceiveWait(b) \/ ReceiveFrameNum1(b) \/ ReceiveFrameNum2(b)
  \/ ReceiveData(b) \/ ReceiveProcess(b)
  \/ SendNextBlock(b) \/ SendCancel(b) \/ SendIgnore(b)
  \/ SendEot
-----------------------------------------------------------------------------
WordMax == 65535    \* RetryTimeout is a uint16_t, decremented past zero

ReceiveTick ==
  /\ State = "RECEIVE_INIT"
  /\ \/ /\ RetryTimeout # 0
        /\ RetryTimeout' = RetryTimeout - 1
        /\ out' = <<>>
        /\ UNCHANGED <<State, RetryCount>>
     \/ /\ RetryTimeout = 0
        /\ RetryTimeout' = RECV_INIT_TIMEOUT
        /\ RetryCount' = Dec(RetryCount)
        /\ \/ RetryCount > 0 /\ out' = <<BYTE_NAK>> /\ UNCHANGED State
           \/ RetryCount = 0 /\ out' = <<>> /\ State' = "OFF"
  /\ UNCHANGED <<CurrentFrameNumber, BlockAddress, frame, Memory>>

SendTick ==
  /\ State = "SEND_INIT"
  /\ \/ /\ RetryTimeout # 0
        /\ RetryTimeout' = RetryTimeout - 1
        /\ UNCHANGED State
     \/ /\ RetryTimeout = 0
        /\ RetryTimeout' = WordMax
        /\ State' = "OFF"
  /\ out' = <<>>
  /\ UNCHANGED <<CurrentFrameNumber, RetryCount, BlockAddress, frame, Memory>>

XModemTick == ReceiveTick \/ SendTick

Next ==
  \/ XModemReceive \/ XModemSend \/ XModemTick
  \/ \E b \in Byte : XModemProcessByte(b)

Spec == Init /\ [][Next]_vars

(* The blocks stored or received are blocks of the file, any two of them   *)
(* in the order of the file (of blocks that differ from each other).       *)
InFileOrder(blocks, file) ==
  /\ Range(blocks) \subseteq Range(file)
  /\ \A i, j \in DOMAIN blocks : i < j =>
       \E k, l \in DOMAIN file :
         k < l /\ blocks[i] = file[k] /\ blocks[j] = file[l]
-----------------------------------------------------------------------------
(* Types.  BufferIdx stays inside the block: a write through it never      *)
(* leaves the part of TerminalBuffer the transfer may use.                 *)
TypeOK ==
  /\ State \in {"OFF"} \cup ReceiveStates \cup SendStates
  /\ CurrentFrameNumber \in Byte
  /\ ReceivedFrameNumber \in Byte
  /\ RetryCount \in Byte
  /\ RetryTimeout \in Nat
  /\ BufferIdx \in 0 .. XMODEM_BLOCK_SIZE
  /\ BlockAddress \in 0 .. AddressMod - 1
  /\ TerminalBuffer \in Block
  /\ Memory \in [0 .. MEMORY_BLOCKS - 1 -> Block]

(* A frame starts with an empty buffer, while its data is collected there  *)
(* is room for the next byte, and it is judged only when all of it has     *)
(* arrived (XModemProcessByte, STATE_RECEIVE_DATA).                        *)
BufferInRange ==
  /\ State \in {"RECEIVE_FRAMENUM1", "RECEIVE_FRAMENUM2"} => BufferIdx = 0
  /\ State = "RECEIVE_DATA" => BufferIdx < XMODEM_BLOCK_SIZE
  /\ State = "RECEIVE_PROCESS" => BufferIdx = XMODEM_BLOCK_SIZE

(* The frame number expected next and the address the next block goes to   *)
(* stay in step over any number of frames, wrap-arounds of the 8-bit       *)
(* number included, whatever bytes arrive: a frame with the expected       *)
(* number can only be stored at the one place that number stands for.      *)
FrameNumberTracksAddress ==
  State \in ReceiveStates =>
    CurrentFrameNumber = (FIRST_FRAME_NUMBER + BlockAddress) % ByteMod

(* The device commits to a frame (ACK out of STATE_RECEIVE_PROCESS) only   *)
(* if its block has just been stored at its address, or if the frame       *)
(* carries the number of the previous one, which advances nothing.         *)
AckIsCommit ==
  [][State = "RECEIVE_PROCESS" /\ out' = <<BYTE_ACK>> =>
       \/ /\ BlockAddress < MEMORY_BLOCKS =>
               Memory' = [Memory EXCEPT ![BlockAddress] = TerminalBuffer]
          /\ ReceivedFrameNumber = (FIRST_FRAME_NUMBER + BlockAddress) % ByteMod
          /\ BlockAddress' # BlockAddress
       \/ /\ ReceivedFrameNumber + 1 = CurrentFrameNumber
          /\ UNCHANGED <<Memory, BlockAddress, CurrentFrameNumber>>]_vars

(* Memory is written in one place only, and never while a block is being   *)
(* collected, a download runs, or the link is idle.                        *)
OnlyAcceptedBlocksStored ==
  [][Memory' # Memory =>
       /\ State = "RECEIVE_PROCESS"
       /\ out' = <<BYTE_ACK>>
       /\ \A a \in DOMAIN Memory \ {BlockAddress} : Memory'[a] = Memory[a]]_vars
=============================================================================
