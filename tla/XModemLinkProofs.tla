-------------------------- MODULE XModemLinkProofs --------------------------
(***************************************************************************)
(* What holds of the transfers of XModemLink for all files, block sizes    *)
(* and widths of frame number and address, and any number of faults of the *)
(* repeating sender's line.                                                *)
(*                                                                         *)
(* There is one inductive invariant for each kind of host: UpInv,          *)
(* RetryInv, DownInv (for both downloads) and SlowInv.  Each says where a  *)
(* frame or its answer is: which bytes are on the line, how many the       *)
(* receiving end has taken of the frame under way, and that those it took  *)
(* are the ones of that frame.  Of each there are three facts, that the    *)
(* initial states satisfy it, that every action of the composition keeps   *)
(* it, and that a step which leaves its variables alone does.  LinkInv     *)
(* puts them together at the end, and the theorems follow from it.         *)
(***************************************************************************)
EXTENDS XModemLink, XModemProofs

-----------------------------------------------------------------------------
(***************************************************************************)
(* The device of an instance is the device of XModem.                      *)
(***************************************************************************)
LEMMA SameUp ==
  /\ \A b : Up!XModemProcessByte(b) <=> XModemProcessByte(b)
  /\ Up!XModemTick <=> XModemTick
  /\ Up!XModemReceive <=> XModemReceive
  /\ Up!XModemSend <=> XModemSend
  /\ Up!Init <=> Init
  /\ Up!vars = vars /\ Up!vars' = vars'
  /\ \A block : Up!CalcChecksum(block) = CalcChecksum(block)
  /\ \A n, block : Up!FrameBytes(n, block) = FrameBytes(n, block)
  /\ \A n : Up!Inc(n) = Inc(n)
  /\ Up!FIRST_FRAME_NUMBER = FIRST_FRAME_NUMBER
<1>1. \A block : Up!CalcChecksum(block) = CalcChecksum(block)
  BY DEF Up!CalcChecksum, CalcChecksum, Up!SumFunction, SumFunction,
         Up!SumFunctionOnSet, SumFunctionOnSet, Up!FoldFunctionOnSet,
         FoldFunctionOnSet, Up!MapThenFoldSet, MapThenFoldSet
<1>2. \A n, block : Up!FrameBytes(n, block) = FrameBytes(n, block)
  BY <1>1 DEF Up!FrameBytes, FrameBytes
<1>3. ASSUME NEW b
      PROVE  /\ Up!ReceiveWait(b) <=> ReceiveWait(b)
             /\ Up!ReceiveFrameNum1(b) <=> ReceiveFrameNum1(b)
             /\ Up!ReceiveFrameNum2(b) <=> ReceiveFrameNum2(b)
             /\ Up!ReceiveData(b) <=> ReceiveData(b)
             /\ Up!ReceiveProcess(b) <=> ReceiveProcess(b)
  BY <1>1
     DEF Up!ReceiveWait, ReceiveWait, Up!ReceiveFrameNum1, ReceiveFrameNum1,
         Up!ReceiveFrameNum2, ReceiveFrameNum2, Up!ReceiveData, ReceiveData,
         Up!BlockFull, BlockFull, Up!ReceiveProcess, ReceiveProcess,
         Up!AcceptBlock, AcceptBlock, Up!RefuseBlock, RefuseBlock,
         Up!DamagedBlock, DamagedBlock, Up!UnexpectedBlock, UnexpectedBlock,
         Up!IsExpected, IsExpected, Up!IsRetransmission, IsRetransmission,
         Up!MemoryUploadBlock, MemoryUploadBlock, Up!NextAddress, NextAddress,
         Up!Inc, Inc, Up!counters, counters, Up!frame, frame
<1>4. ASSUME NEW b
      PROVE  /\ Up!SendNextBlock(b) <=> SendNextBlock(b)
             /\ Up!SendCancel(b) <=> SendCancel(b)
             /\ Up!SendIgnore(b) <=> SendIgnore(b)
             /\ Up!SendEot <=> SendEot
  BY <1>2
     DEF Up!SendNextBlock, SendNextBlock, Up!SendCancel, SendCancel,
         Up!SendIgnore, SendIgnore, Up!SendEot, SendEot,
         Up!MemoryDownloadBlock, MemoryDownloadBlock, Up!NextAddress,
         NextAddress, Up!Inc, Inc, Up!FIRST_FRAME_NUMBER, FIRST_FRAME_NUMBER,
         Up!counters, counters, Up!frame, frame
<1>5. \A b : Up!XModemProcessByte(b) <=> XModemProcessByte(b)
  BY <1>3, <1>4, Zenon DEF Up!XModemProcessByte, XModemProcessByte
<1>6. Up!XModemTick <=> XModemTick
  BY DEF Up!XModemTick, XModemTick, Up!ReceiveTick, ReceiveTick, Up!SendTick,
         SendTick, Up!Dec, Dec, Up!WordMax, WordMax, Up!frame, frame
<1>7. /\ Up!XModemReceive <=> XModemReceive
      /\ Up!XModemSend <=> XModemSend
      /\ Up!Init <=> Init
      /\ Up!vars = vars /\ Up!vars' = vars'
      /\ \A n : Up!Inc(n) = Inc(n)
      /\ Up!FIRST_FRAME_NUMBER = FIRST_FRAME_NUMBER
  BY DEF Up!XModemReceive, XModemReceive, Up!XModemSend, XModemSend, Up!Init,
         Init, Up!vars, vars, Up!Inc, Inc, Up!FIRST_FRAME_NUMBER,
         FIRST_FRAME_NUMBER, Up!frame, frame, Up!counters, counters
<1> QED BY <1>1, <1>2, <1>5, <1>6, <1>7, Zenon

(* ... the slow one,                                                       *)
LEMMA SameUpSlow ==
  /\ \A b : UpSlow!XModemProcessByte(b) <=> XModemProcessByte(b)
  /\ UpSlow!XModemTick <=> XModemTick
  /\ UpSlow!XModemReceive <=> XModemReceive
  /\ UpSlow!XModemSend <=> XModemSend
  /\ UpSlow!Init <=> Init
  /\ UpSlow!vars = vars /\ UpSlow!vars' = vars'
  /\ \A block : UpSlow!CalcChecksum(block) = CalcChecksum(block)
  /\ \A n, block : UpSlow!FrameBytes(n, block) = FrameBytes(n, block)
  /\ \A n : UpSlow!Inc(n) = Inc(n)
  /\ UpSlow!FIRST_FRAME_NUMBER = FIRST_FRAME_NUMBER
<1>1. \A block : UpSlow!CalcChecksum(block) = CalcChecksum(block)
  BY DEF UpSlow!CalcChecksum, CalcChecksum, UpSlow!SumFunction, SumFunction,
         UpSlow!SumFunctionOnSet, SumFunctionOnSet, UpSlow!FoldFunctionOnSet,
         FoldFunctionOnSet, UpSlow!MapThenFoldSet, MapThenFoldSet
<1>2. \A n, block : UpSlow!FrameBytes(n, block) = FrameBytes(n, block)
  BY <1>1 DEF UpSlow!FrameBytes, FrameBytes
<1>3. ASSUME NEW b
      PROVE  /\ UpSlow!ReceiveWait(b) <=> ReceiveWait(b)
             /\ UpSlow!ReceiveFrameNum1(b) <=> ReceiveFrameNum1(b)
             /\ UpSlow!ReceiveFrameNum2(b) <=> ReceiveFrameNum2(b)
             /\ UpSlow!ReceiveData(b) <=> ReceiveData(b)
             /\ UpSlow!ReceiveProcess(b) <=> ReceiveProcess(b)
  BY <1>1
     DEF UpSlow!ReceiveWait, ReceiveWait, UpSlow!ReceiveFrameNum1,
         ReceiveFrameNum1, UpSlow!ReceiveFrameNum2, ReceiveFrameNum2,
         UpSlow!ReceiveData, ReceiveData, UpSlow!BlockFull, BlockFull,
         UpSlow!ReceiveProcess, ReceiveProcess, UpSlow!AcceptBlock,
         AcceptBlock, UpSlow!RefuseBlock, RefuseBlock, UpSlow!DamagedBlock,
         DamagedBlock, UpSlow!UnexpectedBlock, UnexpectedBlock,
         UpSlow!IsExpected, IsExpected, UpSlow!IsRetransmission,
         IsRetransmission, UpSlow!MemoryUploadBlock, MemoryUploadBlock,
         UpSlow!NextAddress, NextAddress, UpSlow!Inc, Inc, UpSlow!counters,
         counters, UpSlow!frame, frame
<1>4. ASSUME NEW b
      PROVE  /\ UpSlow!SendNextBlock(b) <=> SendNextBlock(b)
             /\ UpSlow!SendCancel(b) <=> SendCancel(b)
             /\ UpSlow!SendIgnore(b) <=> SendIgnore(b)
             /\ UpSlow!SendEot <=> SendEot
  BY <1>2
     DEF UpSlow!SendNextBlock, SendNextBlock, UpSlow!SendCancel, SendCancel,
         UpSlow!SendIgnore, SendIgnore, UpSlow!SendEot, SendEot,
         UpSlow!MemoryDownloadBlock, MemoryDownloadBlock, UpSlow!NextAddress,
         NextAddress, UpSlow!Inc, Inc, UpSlow!FIRST_FRAME_NUMBER,
         FIRST_FRAME_NUMBER, UpSlow!counters, counters, UpSlow!frame, frame
<1>5. \A b : UpSlow!XModemProcessByte(b) <=> XModemProcessByte(b)
  BY <1>3, <1>4, Zenon DEF UpSlow!XModemProcessByte, XModemProcessByte
<1>6. UpSlow!XModemTick <=> XModemTick
  BY DEF UpSlow!XModemTick, XModemTick, UpSlow!ReceiveTick, ReceiveTick,
         UpSlow!SendTick, SendTick, UpSlow!Dec, Dec, UpSlow!WordMax, WordMax,
         UpSlow!frame, frame
<1>7. /\ UpSlow!XModemReceive <=> XModemReceive
      /\ UpSlow!XModemSend <=> XModemSend
      /\ UpSlow!Init <=> Init
      /\ UpSlow!vars = vars /\ UpSlow!vars' = vars'
      /\ \A n : UpSlow!Inc(n) = Inc(n)
      /\ UpSlow!FIRST_FRAME_NUMBER = FIRST_FRAME_NUMBER
  BY DEF UpSlow!XModemReceive, XModemReceive, UpSlow!XModemSend, XModemSend,
         UpSlow!Init, Init, UpSlow!vars, vars, UpSlow!Inc, Inc,
         UpSlow!FIRST_FRAME_NUMBER, FIRST_FRAME_NUMBER, UpSlow!frame, frame,
         UpSlow!counters, counters
<1> QED BY <1>1, <1>2, <1>5, <1>6, <1>7, Zenon

(* ... when it downloads,                                                  *)
LEMMA SameDown ==
  /\ \A b : Down!XModemProcessByte(b) <=> XModemProcessByte(b)
  /\ Down!XModemTick <=> XModemTick
  /\ Down!XModemReceive <=> XModemReceive
  /\ Down!XModemSend <=> XModemSend
  /\ Down!Init <=> Init
  /\ Down!vars = vars /\ Down!vars' = vars'
  /\ \A block : Down!CalcChecksum(block) = CalcChecksum(block)
  /\ \A n, block : Down!FrameBytes(n, block) = FrameBytes(n, block)
  /\ \A n : Down!Inc(n) = Inc(n)
  /\ Down!FIRST_FRAME_NUMBER = FIRST_FRAME_NUMBER
<1>1. \A block : Down!CalcChecksum(block) = CalcChecksum(block)
  BY DEF Down!CalcChecksum, CalcChecksum, Down!SumFunction, SumFunction,
         Down!SumFunctionOnSet, SumFunctionOnSet, Down!FoldFunctionOnSet,
         FoldFunctionOnSet, Down!MapThenFoldSet, MapThenFoldSet
<1>2. \A n, block : Down!FrameBytes(n, block) = FrameBytes(n, block)
  BY <1>1 DEF Down!FrameBytes, FrameBytes
<1>3. ASSUME NEW b
      PROVE  /\ Down!ReceiveWait(b) <=> ReceiveWait(b)
             /\ Down!ReceiveFrameNum1(b) <=> ReceiveFrameNum1(b)
             /\ Down!ReceiveFrameNum2(b) <=> ReceiveFrameNum2(b)
             /\ Down!ReceiveData(b) <=> ReceiveData(b)
             /\ Down!ReceiveProcess(b) <=> ReceiveProcess(b)
  BY <1>1
     DEF Down!ReceiveWait, ReceiveWait, Down!ReceiveFrameNum1,
         ReceiveFrameNum1, Down!ReceiveFrameNum2, ReceiveFrameNum2,
         Down!ReceiveData, ReceiveData, Down!BlockFull, BlockFull,
         Down!ReceiveProcess, ReceiveProcess, Down!AcceptBlock, AcceptBlock,
         Down!RefuseBlock, RefuseBlock, Down!DamagedBlock, DamagedBlock,
         Down!UnexpectedBlock, UnexpectedBlock, Down!IsExpected, IsExpected,
         Down!IsRetransmission, IsRetransmission, Down!MemoryUploadBlock,
         MemoryUploadBlock, Down!NextAddress, NextAddress, Down!Inc, Inc,
         Down!counters, counters, Down!frame, frame
<1>4. ASSUME NEW b
      PROVE  /\ Down!SendNextBlock(b) <=> SendNextBlock(b)
             /\ Down!SendCancel(b) <=> SendCancel(b)
             /\ Down!SendIgnore(b) <=> SendIgnore(b)
             /\ Down!SendEot <=> SendEot
  BY <1>2
     DEF Down!SendNextBlock, SendNextBlock, Down!SendCancel, SendCancel,
         Down!SendIgnore, SendIgnore, Down!SendEot, SendEot,
         Down!MemoryDownloadBlock, MemoryDownloadBlock, Down!NextAddress,
         NextAddress, Down!Inc, Inc, Down!FIRST_FRAME_NUMBER,
         FIRST_FRAME_NUMBER, Down!counters, counters, Down!frame, frame
<1>5. \A b : Down!XModemProcessByte(b) <=> XModemProcessByte(b)
  BY <1>3, <1>4, Zenon DEF Down!XModemProcessByte, XModemProcessByte
<1>6. Down!XModemTick <=> XModemTick
  BY DEF Down!XModemTick, XModemTick, Down!ReceiveTick, ReceiveTick,
         Down!SendTick, SendTick, Down!Dec, Dec, Down!WordMax, WordMax,
         Down!frame, frame
<1>7. /\ Down!XModemReceive <=> XModemReceive
      /\ Down!XModemSend <=> XModemSend
      /\ Down!Init <=> Init
      /\ Down!vars = vars /\ Down!vars' = vars'
      /\ \A n : Down!Inc(n) = Inc(n)
      /\ Down!FIRST_FRAME_NUMBER = FIRST_FRAME_NUMBER
  BY DEF Down!XModemReceive, XModemReceive, Down!XModemSend, XModemSend,
         Down!Init, Init, Down!vars, vars, Down!Inc, Inc,
         Down!FIRST_FRAME_NUMBER, FIRST_FRAME_NUMBER, Down!frame, frame,
         Down!counters, counters
<1> QED BY <1>1, <1>2, <1>5, <1>6, <1>7, Zenon

(* ... slowly too,                                                         *)
LEMMA SameDownSlow ==
  /\ \A b : DownSlow!XModemProcessByte(b) <=> XModemProcessByte(b)
  /\ DownSlow!XModemTick <=> XModemTick
  /\ DownSlow!XModemReceive <=> XModemReceive
  /\ DownSlow!XModemSend <=> XModemSend
  /\ DownSlow!Init <=> Init
  /\ DownSlow!vars = vars /\ DownSlow!vars' = vars'
  /\ \A block : DownSlow!CalcChecksum(block) = CalcChecksum(block)
  /\ \A n, block : DownSlow!FrameBytes(n, block) = FrameBytes(n, block)
  /\ \A n : DownSlow!Inc(n) = Inc(n)
  /\ DownSlow!FIRST_FRAME_NUMBER = FIRST_FRAME_NUMBER
<1>1. \A block : DownSlow!CalcChecksum(block) = CalcChecksum(block)
  BY DEF DownSlow!CalcChecksum, CalcChecksum, DownSlow!SumFunction,
         SumFunction, DownSlow!SumFunctionOnSet, SumFunctionOnSet,
         DownSlow!FoldFunctionOnSet, FoldFunctionOnSet,
         DownSlow!MapThenFoldSet, MapThenFoldSet
<1>2. \A n, block : DownSlow!FrameBytes(n, block) = FrameBytes(n, block)
  BY <1>1 DEF DownSlow!FrameBytes, FrameBytes
<1>3. ASSUME NEW b
      PROVE  /\ DownSlow!ReceiveWait(b) <=> ReceiveWait(b)
             /\ DownSlow!ReceiveFrameNum1(b) <=> ReceiveFrameNum1(b)
             /\ DownSlow!ReceiveFrameNum2(b) <=> ReceiveFrameNum2(b)
             /\ DownSlow!ReceiveData(b) <=> ReceiveData(b)
             /\ DownSlow!ReceiveProcess(b) <=> ReceiveProcess(b)
  BY <1>1
     DEF DownSlow!ReceiveWait, ReceiveWait, DownSlow!ReceiveFrameNum1,
         ReceiveFrameNum1, DownSlow!ReceiveFrameNum2, ReceiveFrameNum2,
         DownSlow!ReceiveData, ReceiveData, DownSlow!BlockFull, BlockFull,
         DownSlow!ReceiveProcess, ReceiveProcess, DownSlow!AcceptBlock,
         AcceptBlock, DownSlow!RefuseBlock, RefuseBlock, DownSlow!DamagedBlock,
         DamagedBlock, DownSlow!UnexpectedBlock, UnexpectedBlock,
         DownSlow!IsExpected, IsExpected, DownSlow!IsRetransmission,
         IsRetransmission, DownSlow!MemoryUploadBlock, MemoryUploadBlock,
         DownSlow!NextAddress, NextAddress, DownSlow!Inc, Inc,
         DownSlow!counters, counters, DownSlow!frame, frame
<1>4. ASSUME NEW b
      PROVE  /\ DownSlow!SendNextBlock(b) <=> SendNextBlock(b)
             /\ DownSlow!SendCancel(b) <=> SendCancel(b)
             /\ DownSlow!SendIgnore(b) <=> SendIgnore(b)
             /\ DownSlow!SendEot <=> SendEot
  BY <1>2
     DEF DownSlow!SendNextBlock, SendNextBlock, DownSlow!SendCancel,
         SendCancel, DownSlow!SendIgnore, SendIgnore, DownSlow!SendEot,
         SendEot, DownSlow!MemoryDownloadBlock, MemoryDownloadBlock,
         DownSlow!NextAddress, NextAddress, DownSlow!Inc, Inc,
         DownSlow!FIRST_FRAME_NUMBER, FIRST_FRAME_NUMBER, DownSlow!counters,
         counters, DownSlow!frame, frame
<1>5. \A b : DownSlow!XModemProcessByte(b) <=> XModemProcessByte(b)
  BY <1>3, <1>4, Zenon DEF DownSlow!XModemProcessByte, XModemProcessByte
<1>6. DownSlow!XModemTick <=> XModemTick
  BY DEF DownSlow!XModemTick, XModemTick, DownSlow!ReceiveTick, ReceiveTick,
         DownSlow!SendTick, SendTick, DownSlow!Dec, Dec, DownSlow!WordMax,
         WordMax, DownSlow!frame, frame
<1>7. /\ DownSlow!XModemReceive <=> XModemReceive
      /\ DownSlow!XModemSend <=> XModemSend
      /\ DownSlow!Init <=> Init
      /\ DownSlow!vars = vars /\ DownSlow!vars' = vars'
      /\ \A n : DownSlow!Inc(n) = Inc(n)
      /\ DownSlow!FIRST_FRAME_NUMBER = FIRST_FRAME_NUMBER
  BY DEF DownSlow!XModemReceive, XModemReceive, DownSlow!XModemSend,
         XModemSend, DownSlow!Init, Init, DownSlow!vars, vars, DownSlow!Inc,
         Inc, DownSlow!FIRST_FRAME_NUMBER, FIRST_FRAME_NUMBER, DownSlow!frame,
         frame, DownSlow!counters, counters
<1> QED BY <1>1, <1>2, <1>5, <1>6, <1>7, Zenon

(* ... and with a repeating sender.                                        *)
LEMMA SameRetry ==
  /\ \A b : Retry!XModemProcessByte(b) <=> XModemProcessByte(b)
  /\ Retry!XModemTick <=> XModemTick
  /\ Retry!XModemReceive <=> XModemReceive
  /\ Retry!XModemSend <=> XModemSend
  /\ Retry!Init <=> Init
  /\ Retry!vars = vars /\ Retry!vars' = vars'
  /\ \A block : Retry!CalcChecksum(block) = CalcChecksum(block)
  /\ \A n, block : Retry!FrameBytes(n, block) = FrameBytes(n, block)
  /\ \A n : Retry!Inc(n) = Inc(n)
  /\ Retry!FIRST_FRAME_NUMBER = FIRST_FRAME_NUMBER
<1>1. \A block : Retry!CalcChecksum(block) = CalcChecksum(block)
  BY DEF Retry!CalcChecksum, CalcChecksum, Retry!SumFunction, SumFunction,
         Retry!SumFunctionOnSet, SumFunctionOnSet, Retry!FoldFunctionOnSet,
         FoldFunctionOnSet, Retry!MapThenFoldSet, MapThenFoldSet
<1>2. \A n, block : Retry!FrameBytes(n, block) = FrameBytes(n, block)
  BY <1>1 DEF Retry!FrameBytes, FrameBytes
<1>3. ASSUME NEW b
      PROVE  /\ Retry!ReceiveWait(b) <=> ReceiveWait(b)
             /\ Retry!ReceiveFrameNum1(b) <=> ReceiveFrameNum1(b)
             /\ Retry!ReceiveFrameNum2(b) <=> ReceiveFrameNum2(b)
             /\ Retry!ReceiveData(b) <=> ReceiveData(b)
             /\ Retry!ReceiveProcess(b) <=> ReceiveProcess(b)
  BY <1>1
     DEF Retry!ReceiveWait, ReceiveWait, Retry!ReceiveFrameNum1,
         ReceiveFrameNum1, Retry!ReceiveFrameNum2, ReceiveFrameNum2,
         Retry!ReceiveData, ReceiveData, Retry!BlockFull, BlockFull,
         Retry!ReceiveProcess, ReceiveProcess, Retry!AcceptBlock, AcceptBlock,
         Retry!RefuseBlock, RefuseBlock, Retry!DamagedBlock, DamagedBlock,
         Retry!UnexpectedBlock, UnexpectedBlock, Retry!IsExpected, IsExpected,
         Retry!IsRetransmission, IsRetransmission, Retry!MemoryUploadBlock,
         MemoryUploadBlock, Retry!NextAddress, NextAddress, Retry!Inc, Inc,
         Retry!counters, counters, Retry!frame, frame
<1>4. ASSUME NEW b
      PROVE  /\ Retry!SendNextBlock(b) <=> SendNextBlock(b)
             /\ Retry!SendCancel(b) <=> SendCancel(b)
             /\ Retry!SendIgnore(b) <=> SendIgnore(b)
             /\ Retry!SendEot <=> SendEot
  BY <1>2
     DEF Retry!SendNextBlock, SendNextBlock, Retry!SendCancel, SendCancel,
         Retry!SendIgnore, SendIgnore, Retry!SendEot, SendEot,
         Retry!MemoryDownloadBlock, MemoryDownloadBlock, Retry!NextAddress,
         NextAddress, Retry!Inc, Inc, Retry!FIRST_FRAME_NUMBER,
         FIRST_FRAME_NUMBER, Retry!counters, counters, Retry!frame, frame
<1>5. \A b : Retry!XModemProcessByte(b) <=> XModemProcessByte(b)
  BY <1>3, <1>4, Zenon DEF Retry!XModemProcessByte, XModemProcessByte
<1>6. Retry!XModemTick <=> XModemTick
  BY DEF Retry!XModemTick, XModemTick, Retry!ReceiveTick, ReceiveTick,
         Retry!SendTick, SendTick, Retry!Dec, Dec, Retry!WordMax, WordMax,
         Retry!frame, frame
<1>7. /\ Retry!XModemReceive <=> XModemReceive
      /\ Retry!XModemSend <=> XModemSend
      /\ Retry!Init <=> Init
      /\ Retry!vars = vars /\ Retry!vars' = vars'
      /\ \A n : Retry!Inc(n) = Inc(n)
      /\ Retry!FIRST_FRAME_NUMBER = FIRST_FRAME_NUMBER
  BY DEF Retry!XModemReceive, XModemReceive, Retry!XModemSend, XModemSend,
         Retry!Init, Init, Retry!vars, vars, Retry!Inc, Inc,
         Retry!FIRST_FRAME_NUMBER, FIRST_FRAME_NUMBER, Retry!frame, frame,
         Retry!counters, counters
<1> QED BY <1>1, <1>2, <1>5, <1>6, <1>7, Zenon

-----------------------------------------------------------------------------
(***************************************************************************)
(* Frames on a line.                                                       *)
(***************************************************************************)
(* A frame lies on the line s behind its first `from' bytes, as far as the *)
(* line goes; `from' is negative for a frame that has begun before.        *)
Lies(s, from, n, block, sum) ==
  \A k \in 1 .. FrameSize :
    from + k \in 1 .. Len(s) => s[from + k] = FrameByte(n, block, sum, k)

(* The sizes of blocks, frames, addresses and memory.                      *)
LEMMA Sizes ==
  /\ XMODEM_BLOCK_SIZE \in Nat \ {0} /\ FrameSize \in Nat
  /\ FrameSize = XMODEM_BLOCK_SIZE + 4
  /\ MEMORY_BLOCKS \in Nat \ {0} /\ AddressMod \in Nat /\ AddressMod > MEMORY_BLOCKS
  /\ HOST_TIMEOUT \in Nat \ {0}
BY SizeAssumption, LinkAssumption DEF FrameSize

(* The first byte is taken off the line.                                   *)
LEMMA OneByteLess ==
  ASSUME NEW S, NEW s \in Seq(S), s # <<>>
  PROVE  /\ Head(s) = s[1] /\ Head(s) \in S
         /\ Tail(s) \in Seq(S) /\ Len(s) \in Nat \ {0}
         /\ Len(Tail(s)) = Len(s) - 1
         /\ \A i \in 1 .. Len(s) - 1 : Tail(s)[i] = s[i + 1]
BY HeadTailProperties, EmptySeq

(* The line moves on by the byte at its head.                              *)
LEMMA LiesTail ==
  ASSUME NEW s \in Seq(Byte), s # <<>>, NEW from \in Int,
         NEW n, NEW block, NEW sum, Lies(s, from, n, block, sum)
  PROVE  Lies(Tail(s), from - 1, n, block, sum)
<1> SUFFICES ASSUME NEW k \in 1 .. FrameSize, (from - 1) + k \in 1 .. Len(Tail(s))
             PROVE  Tail(s)[(from - 1) + k] = FrameByte(n, block, sum, k)
  BY DEF Lies
<1>1. /\ Len(s) \in Nat /\ Len(Tail(s)) = Len(s) - 1
      /\ \A i \in 1 .. Len(s) - 1 : Tail(s)[i] = s[i + 1]
  BY OneByteLess
<1>2. k \in Nat
  BY Sizes
<1>3. from + k \in 1 .. Len(s) /\ ((from - 1) + k) + 1 = from + k /\ (from - 1) + k \in 1 .. Len(s) - 1
  BY <1>1, <1>2
<1>4. s[from + k] = FrameByte(n, block, sum, k)
  BY <1>3 DEF Lies
<1> QED BY <1>1, <1>3, <1>4

(* The byte the device gets next is the one its place in the frame says.   *)
LEMMA NextByte ==
  ASSUME NEW s \in Seq(Byte), s # <<>>, NEW p \in Nat, p + 1 \in 1 .. FrameSize,
         NEW n, NEW block, NEW sum, Lies(s, 0 - p, n, block, sum)
  PROVE  Head(s) = FrameByte(n, block, sum, p + 1)
<1>1. Head(s) = s[1] /\ Len(s) \in Nat \ {0}
  BY OneByteLess
<1>2. (0 - p) + (p + 1) = 1 /\ 1 \in 1 .. Len(s)
  BY <1>1
<1> QED BY <1>1, <1>2 DEF Lies

(* A sender appends a frame.                                               *)
LEMMA LiesAppend ==
  ASSUME NEW s \in Seq(Byte), NEW m \in Byte, NEW new \in Block
  PROVE  /\ s \o FrameBytes(m, new) \in Seq(Byte)
         /\ Len(s \o FrameBytes(m, new)) = Len(s) + FrameSize
         /\ Lies(s \o FrameBytes(m, new), Len(s), m, new, CalcChecksum(new))
         /\ \A from \in Int : \A n, block, sum :
              from + FrameSize <= Len(s) /\ Lies(s, from, n, block, sum)
                => Lies(s \o FrameBytes(m, new), from, n, block, sum)
<1> DEFINE f == FrameBytes(m, new)
           r == s \o f
<1>1. /\ f \in Seq(Byte) /\ Len(f) = FrameSize
      /\ \A k \in 1 .. FrameSize : f[k] = FrameByte(m, new, CalcChecksum(new), k)
  BY FrameShape
<1> HIDE DEF f
<1>2. /\ r \in Seq(Byte) /\ Len(r) = Len(s) + Len(f)
      /\ \A i \in 1 .. Len(s) + Len(f) : r[i] = IF i <= Len(s) THEN s[i] ELSE f[i - Len(s)]
  BY <1>1, ConcatProperties
<1>3. Len(s) \in Nat
  BY LenProperties
<1> HIDE DEF r
<1>4. Lies(r, Len(s), m, new, CalcChecksum(new))
  <2> SUFFICES ASSUME NEW k \in 1 .. FrameSize, Len(s) + k \in 1 .. Len(r)
               PROVE  r[Len(s) + k] = FrameByte(m, new, CalcChecksum(new), k)
    BY DEF Lies
  <2>1. /\ Len(s) + k \in 1 .. Len(s) + Len(f) /\ ~(Len(s) + k <= Len(s))
        /\ (Len(s) + k) - Len(s) = k
    BY <1>1, <1>3, Sizes
  <2> QED BY <1>1, <1>2, <2>1
<1>5. ASSUME NEW from \in Int, NEW n, NEW block, NEW sum, from + FrameSize <= Len(s),
             Lies(s, from, n, block, sum)
      PROVE  Lies(r, from, n, block, sum)
  <2> SUFFICES ASSUME NEW k \in 1 .. FrameSize, from + k \in 1 .. Len(r)
               PROVE  r[from + k] = FrameByte(n, block, sum, k)
    BY DEF Lies
  <2>1. from + k \in 1 .. Len(s) /\ from + k \in 1 .. Len(s) + Len(f) /\ from + k <= Len(s)
    BY <1>1, <1>2, <1>3, <1>5, Sizes
  <2> QED BY <1>2, <1>5, <2>1 DEF Lies
<1> QED BY <1>1, <1>2, <1>4, <1>5 DEF r, f

(* The line is cut off behind its first k bytes.                           *)
LEMMA LiesPrefix ==
  ASSUME NEW s \in Seq(Byte), NEW k \in 0 .. Len(s), NEW from \in Int,
         NEW n, NEW block, NEW sum, Lies(s, from, n, block, sum)
  PROVE  Lies(SubSeq(s, 1, k), from, n, block, sum)
<1>1. Len(s) \in Nat
  BY LenProperties
<1>2. Len(SubSeq(s, 1, k)) = k /\ \A i \in 1 .. k : SubSeq(s, 1, k)[i] = s[i]
  <2>1. \A i \in 1 .. k : i \in 1 .. Len(s)
    BY <1>1
  <2>2. /\ Len(SubSeq(s, 1, k)) = IF 1 <= k THEN k - 1 + 1 ELSE 0
        /\ \A i \in 1 .. k - 1 + 1 : SubSeq(s, 1, k)[i] = s[1 + i - 1]
    BY <1>1, <2>1, SubSeqProperties
  <2>3. k - 1 + 1 = k /\ (1 <= k \/ k = 0) /\ \A i \in 1 .. k : 1 + i - 1 = i
    BY <1>1
  <2> QED BY <2>2, <2>3
<1> SUFFICES ASSUME NEW j \in 1 .. FrameSize, from + j \in 1 .. k
             PROVE  SubSeq(s, 1, k)[from + j] = FrameByte(n, block, sum, j)
  BY <1>2 DEF Lies
<1>3. from + j \in 1 .. Len(s)
  BY <1>1, Sizes
<1> QED BY <1>2, <1>3 DEF Lies

(* One frame is under way, and nothing behind it.                          *)
InFlight(n, block, sum) ==
  /\ State \in ReceiveStates
  /\ Len(fromHost) = FrameSize - Place
  /\ Lies(fromHost, 0 - Place, n, block, sum)
  /\ Started(n, block)

(* The device takes the next byte of the frame in flight.                  *)
LEMMA InFlightStep ==
  ASSUME IInv, fromHost \in Seq(Byte), NEW n \in Byte, NEW block \in Block, NEW sum \in Byte,
         InFlight(n, block, sum), XModemProcessByte(Head(fromHost)), fromHost' = Tail(fromHost)
  PROVE  /\ IInv' /\ fromHost' \in Seq(Byte)
         /\ State # "RECEIVE_PROCESS" =>
              /\ InFlight(n, block, sum)' /\ fromHost' # <<>> /\ out' = <<>>
              /\ Place' = Place + 1 /\ UNCHANGED <<counters, Memory>>
         /\ State = "RECEIVE_PROCESS" =>
              /\ fromHost' = <<>> /\ TerminalBuffer = block /\ ReceivedFrameNumber = n
              /\ ReceiveProcess(sum)
<1>1. /\ Place \in Nat /\ Place + 1 \in 1 .. FrameSize /\ FrameSize \in Nat
      /\ Place + 1 = FrameSize <=> State = "RECEIVE_PROCESS"
  BY PlaceRange, Sizes
<1>2. fromHost # <<>>
  <2>1. Len(fromHost) # 0
    BY <1>1 DEF InFlight
  <2> QED BY <2>1
<1>3. Tail(fromHost) \in Seq(Byte) /\ Len(Tail(fromHost)) = Len(fromHost) - 1 /\ Len(fromHost) \in Nat
  BY <1>2, OneByteLess
<1>4. Head(fromHost) = FrameByte(n, block, sum, Place + 1)
  BY <1>1, <1>2, NextByte DEF InFlight
<1>5. XModemProcessByte(FrameByte(n, block, sum, Place + 1))
  BY <1>4
<1>6. State \in ReceiveStates /\ Started(n, block)
  BY DEF InFlight
<1>7. CASE State # "RECEIVE_PROCESS"
  <2>1. /\ IInv' /\ Started(n, block)' /\ Place' = Place + 1
        /\ State' \in ReceiveStates
        /\ out' = <<>> /\ UNCHANGED <<counters, Memory>>
    BY <1>5, <1>6, <1>7, TakesByte
  <2>2. Lies(Tail(fromHost), (0 - Place) - 1, n, block, sum) /\ 0 - Place \in Int
    BY <1>1, <1>2, LiesTail DEF InFlight
  <2>3. (0 - Place) - 1 = 0 - (Place + 1) /\ Len(fromHost) - 1 = FrameSize - (Place + 1)
    BY <1>1 DEF InFlight
  <2>4. Lies(Tail(fromHost), 0 - (Place + 1), n, block, sum)
    BY <2>2, <2>3
  <2>5. Len(Tail(fromHost)) = FrameSize - (Place + 1) /\ Len(Tail(fromHost)) # 0
    BY <1>1, <1>3, <1>7, <2>3
  <2>6. InFlight(n, block, sum)'
    BY <2>1, <2>4, <2>5 DEF InFlight, Lies
  <2>7. Tail(fromHost) # <<>>
    BY <1>3, <2>5, EmptySeq, Zenon
  <2> QED BY <1>3, <1>7, <2>1, <2>6, <2>7
<1>8. CASE State = "RECEIVE_PROCESS"
  <2>1. IInv' /\ TerminalBuffer = block /\ ReceivedFrameNumber = n /\ ReceiveProcess(sum)
    BY <1>5, <1>6, <1>8, TakesChecksum
  <2>2. Len(Tail(fromHost)) = 0
    <3>1. Len(fromHost) = FrameSize - Place
      BY DEF InFlight
    <3>2. Place + 1 = FrameSize
      BY <1>1, <1>8
    <3>3. Len(fromHost) - 1 = 0
      BY <1>1, <3>1, <3>2
    <3> QED BY <1>3, <3>3
  <2>3. Tail(fromHost) = <<>>
    BY <1>3, <2>2, EmptySeq
  <2> QED BY <1>3, <1>8, <2>1, <2>3
<1> QED BY <1>7, <1>8

(* A step that leaves the device alone keeps its invariant.                *)
LEMMA UnchangedIInv == IInv /\ UNCHANGED vars => IInv'
BY StepIInv

(* Three facts of sequences, remainders and files.                         *)
LEMMA NothingBefore == ASSUME NEW S, NEW s \in Seq(S) PROVE <<>> \o s = s
BY ConcatEmptySeq

LEMMA ModOfSmall == ASSUME NEW m \in Nat, NEW a \in Nat, a < m PROVE a % m = a
OBVIOUS

LEMMA FileFacts ==
  /\ LongFile \in Seq(Block) /\ Len(LongFile) \in Nat /\ Len(LongFile) < AddressMod
  /\ \A i \in 1 .. Len(LongFile) : LongFile[i] \in Block
  /\ ShortFile \in Seq(Block) /\ Len(ShortFile) \in Nat /\ Len(ShortFile) < AddressMod
  /\ \A i \in 1 .. Len(ShortFile) : ShortFile[i] \in Block
BY LinkAssumption, LenProperties, ElementOfSeq

(* The blocks taken over so far are the first of the file.                 *)
Kept(file) ==
  \A i \in 1 .. BlockAddress : i <= MEMORY_BLOCKS => Memory[i - 1] = file[i]

(* An accepted block is the next of the file.                              *)
LEMMA NextBlockKept ==
  ASSUME IInv, NEW file, Kept(file), NEW b, AcceptBlock(b),
         BlockAddress + 1 < AddressMod, TerminalBuffer = file[BlockAddress + 1]
  PROVE  BlockAddress' = BlockAddress + 1 /\ Kept(file)'
<1>1. BlockAddress \in Nat /\ Memory \in [0 .. MEMORY_BLOCKS - 1 -> Block] /\ AddressMod \in Nat /\ MEMORY_BLOCKS \in Nat
  BY Sizes DEF IInv, TypeOK
<1>2. BlockAddress' = BlockAddress + 1
  BY <1>1, ModOfSmall DEF AcceptBlock, NextAddress
<1>3. ASSUME NEW i \in 1 .. BlockAddress + 1, i <= MEMORY_BLOCKS PROVE Memory'[i - 1] = file[i]
  <2>1. CASE i = BlockAddress + 1
    BY <1>1, <1>3, <2>1 DEF AcceptBlock, MemoryUploadBlock
  <2>2. CASE i \in 1 .. BlockAddress
    <3>1. Memory[i - 1] = file[i]
      BY <1>3, <2>2 DEF Kept
    <3>2. i - 1 \in 0 .. MEMORY_BLOCKS - 1 /\ i - 1 # BlockAddress
      BY <1>1, <1>3, <2>2
    <3> QED BY <1>1, <3>1, <3>2 DEF AcceptBlock, MemoryUploadBlock
  <2> QED BY <1>1, <2>1, <2>2
<1> QED BY <1>2, <1>3 DEF Kept

(* Numbers: a frame number is a byte, and two frames in a row differ in it.*)
LEMMA NumberFacts ==
  ASSUME NEW k \in Nat
  PROVE  /\ (FIRST_FRAME_NUMBER + k) % ByteMod \in Byte
         /\ Inc((FIRST_FRAME_NUMBER + k) % ByteMod) = (FIRST_FRAME_NUMBER + (k + 1)) % ByteMod
         /\ (FIRST_FRAME_NUMBER + k) % ByteMod # (FIRST_FRAME_NUMBER + (k + 1)) % ByteMod
<1> DEFINE x == FIRST_FRAME_NUMBER + k
           r == x % ByteMod
<1>1. ByteMod \in Nat /\ ByteMod > 1 /\ x \in Nat /\ x + 1 = FIRST_FRAME_NUMBER + (k + 1)
  BY ByteAssumption DEF FIRST_FRAME_NUMBER
<1>2. r \in 0 .. ByteMod - 1
  BY <1>1
<1>3. (r + 1) % ByteMod = (x + 1) % ByteMod
  <2>1. \A y \in Nat : ((y % ByteMod) + 1) % ByteMod = (y + 1) % ByteMod
    BY <1>1, SuccessorMod
  <2> HIDE DEF x
  <2> QED BY <1>1, <2>1
<1>4. (r + 1) % ByteMod # r
  <2> HIDE DEF r
  <2>1. CASE r + 1 < ByteMod
    <3>1. (r + 1) % ByteMod = r + 1
      BY <1>1, <1>2, <2>1
    <3> QED BY <3>1, <1>2, <1>1
  <2>2. CASE r + 1 = ByteMod
    <3>1. (r + 1) % ByteMod = 0
      BY <1>1, <2>2
    <3> QED BY <3>1, <1>1, <2>2
  <2> QED BY <1>1, <1>2, <2>1, <2>2
<1> QED BY <1>1, <1>2, <1>3, <1>4 DEF Inc, Byte

(* The first number is a byte, and the one of address 0.                   *)
LEMMA FirstNumber ==
  /\ FIRST_FRAME_NUMBER = 1 /\ FIRST_FRAME_NUMBER \in Byte
  /\ (FIRST_FRAME_NUMBER + 0) % ByteMod = FIRST_FRAME_NUMBER
BY ByteAssumption DEF FIRST_FRAME_NUMBER, Byte

(* A step of somebody else leaves the device and its frame alone.          *)
LEMMA DeviceRests ==
  ASSUME IInv, UNCHANGED vars
  PROVE  /\ IInv' /\ UNCHANGED <<State, counters, frame, Memory>>
         /\ UNCHANGED <<BlockAddress, CurrentFrameNumber, RetryTimeout, BufferIdx, TerminalBuffer,
                       ReceivedFrameNumber>>
         /\ Place' = Place /\ \A n, block : Started(n, block)' <=> Started(n, block)
         /\ \A file : Kept(file)' <=> Kept(file)
<1>1. IInv' /\ UNCHANGED <<State, counters, frame, Memory>>
  BY UnchangedIInv DEF vars
<1>2. UNCHANGED <<BlockAddress, CurrentFrameNumber, RetryTimeout, BufferIdx, TerminalBuffer,
                  ReceivedFrameNumber>>
  BY <1>1 DEF counters, frame
<1>3. Place' = Place
  BY <1>1, <1>2 DEF Place
<1>4. \A n, block : Started(n, block)' <=> Started(n, block)
  BY <1>2, <1>3 DEF Started
<1>5. \A file : Kept(file)' <=> Kept(file)
  BY <1>1, <1>2 DEF Kept
<1> QED BY <1>1, <1>2, <1>3, <1>4, <1>5

(* A sender puts a frame on an empty line.                                 *)
LEMMA FrameSent ==
  ASSUME IInv, fromHost = <<>>, UNCHANGED vars, State \in {"RECEIVE_INIT", "RECEIVE_WAIT"},
         NEW n \in Byte, NEW block \in Block, fromHost' = fromHost \o FrameBytes(n, block)
  PROVE  /\ InFlight(n, block, CalcChecksum(block))' /\ Place' = 0
         /\ fromHost' \in Seq(Byte) /\ fromHost' # <<>>
<1> DEFINE r == fromHost \o FrameBytes(n, block)
<1>1. fromHost \in Seq(Byte) /\ Len(fromHost) = 0 /\ FrameSize \in Nat /\ FrameSize # 0
  BY Sizes
<1>2. /\ r \in Seq(Byte) /\ Len(r) = Len(fromHost) + FrameSize
      /\ Lies(r, Len(fromHost), n, block, CalcChecksum(block))
  BY <1>1, LiesAppend
<1>3. Len(r) = FrameSize - 0 /\ Lies(r, 0 - 0, n, block, CalcChecksum(block))
  <2>1. Len(fromHost) + FrameSize = FrameSize - 0 /\ Len(fromHost) = 0 - 0
    BY <1>1
  <2> QED BY <1>2, <2>1
<1>4. Place = 0 /\ Place' = 0 /\ State' = State /\ Started(n, block)
  BY DeviceRests DEF Place, Started
<1>5. r # <<>>
  <2>1. Len(r) # 0
    BY <1>1, <1>2
  <2> QED BY <1>2, <2>1, EmptySeq, Zenon
<1>6. fromHost' = r
  OBVIOUS
<1> HIDE DEF r
<1>7. Lies(r, 0 - 0, n, block, CalcChecksum(block)) <=> Lies(fromHost, 0 - 0, n, block, CalcChecksum(block))'
  BY <1>6 DEF Lies
<1>8. InFlight(n, block, CalcChecksum(block))'
  <2>1. Started(n, block)'
    BY <1>4, DeviceRests
  <2>2. State' \in ReceiveStates
    BY <1>4 DEF ReceiveStates
  <2>3. Len(fromHost') = FrameSize - Place'
    BY <1>3, <1>4, <1>6
  <2>4. Lies(fromHost', 0 - Place', n, block, CalcChecksum(block))
    BY <1>3, <1>4, <1>6
  <2> QED BY <2>1, <2>2, <2>3, <2>4 DEF InFlight, Lies
<1> QED BY <1>2, <1>4, <1>5, <1>6, <1>8

(* EOT between two frames ends the upload.                                 *)
LEMMA EotTaken ==
  ASSUME IInv, State \in {"RECEIVE_INIT", "RECEIVE_WAIT"}, XModemProcessByte(BYTE_EOT)
  PROVE  IInv' /\ State' = "OFF" /\ out' = <<BYTE_ACK>> /\ UNCHANGED <<BlockAddress, Memory>>
<1>1. ReceiveWait(BYTE_EOT)
  BY Dispatch
<1>2. State' = "OFF" /\ out' = <<BYTE_ACK>> /\ UNCHANGED <<BlockAddress, Memory>>
  BY <1>1, ByteAssumption DEF ReceiveWait, counters
<1> QED BY <1>2, ByteAssumption, BytePreserves

(* The receiving device only acts on a tick before the first frame.        *)
LEMMA ReceiverTicks ==
  ASSUME IInv, State # "SEND_INIT",
         \/ XModemTick /\ toHost' = toHost \o out'
         \/ State \notin {"RECEIVE_INIT", "SEND_INIT"} /\ UNCHANGED <<vars, toHost>>,
         toHost \in Seq(Byte)
  PROVE  /\ IInv' /\ UNCHANGED <<BlockAddress, Memory, BufferIdx, TerminalBuffer, ReceivedFrameNumber,
                               CurrentFrameNumber>>
         /\ \A file : Kept(file)' <=> Kept(file)
         /\ \/ State # "RECEIVE_INIT" /\ UNCHANGED <<State, toHost>>
            \/ State = "RECEIVE_INIT" /\ RetryTimeout # 0 /\ UNCHANGED <<State, toHost>>
            \/ /\ State = "RECEIVE_INIT" /\ RetryTimeout = 0
               /\ \/ State' = "RECEIVE_INIT" /\ toHost' = toHost \o <<BYTE_NAK>>
                  \/ State' = "OFF" /\ UNCHANGED toHost
         /\ State' = State => Place' = Place /\ \A n, block : Started(n, block)' <=> Started(n, block)
<1>1. CASE State \notin {"RECEIVE_INIT", "SEND_INIT"} /\ UNCHANGED <<vars, toHost>>
  BY <1>1, DeviceRests
<1>2. CASE XModemTick /\ toHost' = toHost \o out'
  <2>1. ReceiveTick
    BY <1>2 DEF XModemTick, SendTick
  <2>2. IInv'
    BY <1>2, TickPreserves
  <2>3. UNCHANGED <<BlockAddress, Memory, BufferIdx, TerminalBuffer, ReceivedFrameNumber, CurrentFrameNumber>>
    BY <2>1 DEF ReceiveTick, frame
  <2>4. \A file : Kept(file)' <=> Kept(file)
    BY <2>3 DEF Kept
  <2>5. toHost \o <<>> = toHost
    BY ConcatEmptySeq
  <2>6. /\ State = "RECEIVE_INIT"
        /\ \/ RetryTimeout # 0 /\ out' = <<>> /\ UNCHANGED State
           \/ /\ RetryTimeout = 0
              /\ \/ out' = <<BYTE_NAK>> /\ UNCHANGED State
                 \/ out' = <<>> /\ State' = "OFF"
    BY <2>1 DEF ReceiveTick
  <2>7. State' = State => Place' = Place
    BY <2>3 DEF Place
  <2>8. State' = State => \A n, block : Started(n, block)' <=> Started(n, block)
    BY <2>3, <2>7 DEF Started
  <2> QED BY <1>2, <2>2, <2>3, <2>4, <2>5, <2>6, <2>7, <2>8
<1> QED BY <1>1, <1>2

-----------------------------------------------------------------------------
(***************************************************************************)
(* What the host sees of an upload: where it is, and how many blocks the   *)
(* device has taken over.                                                  *)
(***************************************************************************)
Reading == {"AWAIT_NAK", "AWAIT_ACK", "AWAIT_EOT_ACK"}
Over    == {"IDLE", "DONE", "FAILED"}

BlocksTaken(file) == [i \in 1 .. BlockAddress |-> IF i <= MEMORY_BLOCKS THEN Memory[i - 1] ELSE file[i]]

TransferStep(file) ==
  \/ host \in Over /\ host' \in Reading /\ BlockAddress' = 0
  \/ /\ host' = host \/ (host \in Reading /\ host' \in Reading)
     /\ UNCHANGED <<BlockAddress, Memory>>
  \/ /\ host \in Reading /\ host' \in {"DONE", "FAILED"}
     /\ UNCHANGED <<BlockAddress, Memory>>
     /\ host' = "DONE" => BlockAddress = Len(file) /\ Kept(file)
  \/ /\ host \in Reading /\ host' = host
     /\ Kept(file) /\ Kept(file)'
     /\ BlockAddress' = BlockAddress + 1 /\ BlockAddress < Len(file)

(***************************************************************************)
(* The upload from a prompt ChamTool.                                      *)
(***************************************************************************)
UpAwaitNak ==
  /\ hostPos = 0 /\ BlockAddress = 0 /\ packetCounter = FIRST_FRAME_NUMBER
  /\ fromHost = <<>>
  /\ \/ toHost = <<>> /\ State \in {"RECEIVE_INIT", "OFF"}
     \/ toHost = <<BYTE_NAK>> /\ State = "RECEIVE_INIT"

(* The frame is on its way, or its ACK is back.                            *)
UpAwaitAck ==
  /\ hostPos \in 1 .. Len(LongFile) /\ hostClock < HOST_TIMEOUT
  /\ packetCounter = (FIRST_FRAME_NUMBER + (hostPos - 1)) % ByteMod
  /\ \/ /\ toHost = <<>> /\ BlockAddress = hostPos - 1
        /\ InFlight(packetCounter, LongFile[hostPos], CalcChecksum(LongFile[hostPos]))
     \/ /\ fromHost = <<>> /\ toHost = <<BYTE_ACK>> /\ State = "RECEIVE_WAIT"
        /\ BlockAddress = hostPos

UpAwaitEotAck ==
  /\ hostPos = Len(LongFile) /\ BlockAddress = hostPos /\ hostClock < HOST_TIMEOUT
  /\ \/ /\ fromHost = <<BYTE_EOT>> /\ toHost = <<>>
        /\ State \in {"RECEIVE_INIT", "RECEIVE_WAIT"}
     \/ fromHost = <<>> /\ toHost = <<BYTE_ACK>> /\ State = "OFF"

UpUnderWay ==
  \/ host = "AWAIT_NAK" /\ UpAwaitNak
  \/ host = "AWAIT_ACK" /\ UpAwaitAck
  \/ host = "AWAIT_EOT_ACK" /\ UpAwaitEotAck

UpInv ==
  /\ IInv /\ fromHost \in Seq(Byte) /\ hostClock \in Nat /\ cuts = 0
  /\ \/ host \in Over /\ fromHost = <<>>
     \/ Kept(LongFile) /\ UpUnderWay

(* A frame in flight has a byte to come, the checksum at least.            *)
LEMMA InFlightMeansBytes ==
  ASSUME IInv, NEW n, NEW block, NEW sum, InFlight(n, block, sum)
  PROVE  fromHost # <<>> /\ Len(fromHost) # 0
<1>1. /\ Place \in Nat /\ Place + 1 \in 1 .. FrameSize /\ FrameSize \in Nat
  BY PlaceRange, Sizes
<1>2. Len(fromHost) = FrameSize - Place
  BY DEF InFlight
<1>3. Len(fromHost) # 0
  BY <1>1, <1>2
<1>4. Len(<<>>) = 0
  OBVIOUS
<1> QED BY <1>3, <1>4, Zenon

(* The host puts a frame, or EOT, on the empty line.                       *)
LEMMA UpSends ==
  ASSUME IInv, cuts = 0, Kept(LongFile), fromHost = <<>>, UNCHANGED <<vars, cuts>>,
         State \in {"RECEIVE_INIT", "RECEIVE_WAIT"},
         hostPos \in 0 .. Len(LongFile), BlockAddress = hostPos,
         packetCounter' = (FIRST_FRAME_NUMBER + hostPos) % ByteMod,
         Up!SendNext(packetCounter'), toHost' = <<>>, hostClock' = 0
  PROVE  UpInv' /\ host' \in Reading
<1>1. /\ IInv' /\ Kept(LongFile)' /\ BlockAddress' = BlockAddress /\ State' = State
  BY DeviceRests
<1>2. /\ hostPos \in Nat /\ Len(LongFile) \in Nat /\ packetCounter' \in Byte
      /\ hostClock' \in Nat /\ hostClock' < HOST_TIMEOUT
  BY FileFacts, NumberFacts, Sizes
<1>3. CASE hostPos < Len(LongFile)
  <2>1. /\ host' = "AWAIT_ACK" /\ hostPos' = hostPos + 1
        /\ fromHost' = fromHost \o FrameBytes(packetCounter', LongFile[hostPos + 1])
    BY <1>3, SameUp DEF Up!SendNext
  <2>2. hostPos + 1 \in 1 .. Len(LongFile) /\ (hostPos + 1) - 1 = hostPos
    BY <1>2, <1>3
  <2>3. LongFile[hostPos + 1] \in Block
    BY <2>2, FileFacts
  <2>4. PICK n \in Byte : n = packetCounter'
    BY <1>2
  <2>5. PICK block \in Block : block = LongFile[hostPos + 1]
    BY <2>3
  <2>6. /\ InFlight(n, block, CalcChecksum(block))'
        /\ fromHost' \in Seq(Byte) /\ fromHost' # <<>>
    BY <2>1, <2>4, <2>5, FrameSent
  <2>7. block = LongFile[hostPos'] /\ n = packetCounter' /\ hostPos' - 1 = hostPos
    BY <2>1, <2>2, <2>4, <2>5
  <2>8. InFlight(packetCounter, LongFile[hostPos], CalcChecksum(LongFile[hostPos]))'
    BY <2>6, <2>7 DEF InFlight, Lies, Started
  <2>9. UpAwaitAck'
    BY <1>1, <1>2, <2>1, <2>2, <2>7, <2>8 DEF UpAwaitAck
  <2> QED BY <1>1, <1>2, <2>1, <2>6, <2>9 DEF UpInv, UpUnderWay, Reading
<1>4. CASE hostPos = Len(LongFile)
  <2>1. host' = "AWAIT_EOT_ACK" /\ hostPos' = hostPos /\ fromHost' = <<BYTE_EOT>>
    BY <1>2, <1>4 DEF Up!SendNext
  <2>2. <<BYTE_EOT>> \in Seq(Byte)
    BY ByteAssumption
  <2>3. UpAwaitEotAck'
    BY <1>1, <1>2, <1>4, <2>1 DEF UpAwaitEotAck
  <2> QED BY <1>1, <1>2, <2>1, <2>2, <2>3 DEF UpInv, UpUnderWay, Reading
<1> QED BY <1>2, <1>3, <1>4

(* UPLOAD on an idle line.                                                 *)
LEMMA UpStarts == ASSUME UpInv, Up!StartUpload PROVE UpInv' /\ TransferStep(LongFile)
<1>1. /\ XModemReceive /\ fromHost = <<>> /\ toHost = <<>> /\ host \in {"IDLE", "DONE"}
      /\ host' = "AWAIT_NAK" /\ packetCounter' = 1 /\ hostPos' = 0 /\ hostClock' = 0
      /\ fromHost' = <<>> /\ toHost' = <<>> /\ cuts' = cuts
  BY SameUp DEF Up!StartUpload, Up!line
<1>2. IInv'
  BY <1>1, CommandsPreserve DEF UpInv
<1>3. BlockAddress' = 0 /\ State' = "RECEIVE_INIT"
  BY <1>1 DEF XModemReceive
<1>4. UpAwaitNak' /\ Kept(LongFile)'
  BY <1>1, <1>3, FirstNumber DEF UpAwaitNak, Kept
<1> QED BY <1>1, <1>2, <1>3, <1>4 DEF UpInv, UpUnderWay, TransferStep, Over, Reading

(* NAK lets the host begin, ACK makes it go on, or end.                    *)
LEMMA UpReads == ASSUME UpInv, Up!HostRead PROVE UpInv' /\ TransferStep(LongFile)
<1>1. /\ toHost # <<>> /\ UNCHANGED <<vars, cuts>> /\ hostClock' = 0 /\ toHost' = Tail(toHost)
      /\ Up!HostContinue(<<Head(toHost)>>)
  BY SameUp DEF Up!HostRead
<1>2. /\ IInv /\ cuts = 0 /\ Kept(LongFile) /\ UpUnderWay
  BY <1>1 DEF UpInv, Over, Up!HostContinue
<1>3. CASE host = "AWAIT_NAK"
  <2>1. /\ UpAwaitNak /\ toHost = <<BYTE_NAK>> /\ toHost' = <<>> /\ <<Head(toHost)>> = <<BYTE_NAK>>
    BY <1>1, <1>2, <1>3 DEF UpUnderWay, UpAwaitNak
  <2>2. Up!SendNext(packetCounter) /\ packetCounter' = packetCounter
    BY <1>1, <1>3, <2>1 DEF Up!HostContinue
  <2>3. /\ Up!SendNext(packetCounter') /\ packetCounter' = (FIRST_FRAME_NUMBER + hostPos) % ByteMod
        /\ fromHost = <<>> /\ BlockAddress = hostPos /\ State = "RECEIVE_INIT"
        /\ hostPos \in 0 .. Len(LongFile)
    BY <2>1, <2>2, FirstNumber, FileFacts DEF UpAwaitNak
  <2>4. UpInv' /\ host' \in Reading
    BY <1>1, <1>2, <2>1, <2>3, UpSends
  <2> QED BY <1>1, <1>2, <1>3, <2>4, DeviceRests DEF TransferStep, Reading
<1>4. CASE host = "AWAIT_ACK"
  <2>1. /\ UpAwaitAck
    BY <1>2, <1>4 DEF UpUnderWay
  <2>2. /\ toHost = <<BYTE_ACK>> /\ toHost' = <<>> /\ <<Head(toHost)>> = <<BYTE_ACK>>
        /\ fromHost = <<>> /\ State = "RECEIVE_WAIT" /\ BlockAddress = hostPos
        /\ hostPos \in 1 .. Len(LongFile)
        /\ packetCounter = (FIRST_FRAME_NUMBER + (hostPos - 1)) % ByteMod
    <3>1. /\ toHost = <<BYTE_ACK>> /\ fromHost = <<>> /\ State = "RECEIVE_WAIT" /\ BlockAddress = hostPos
          /\ hostPos \in 1 .. Len(LongFile)
          /\ packetCounter = (FIRST_FRAME_NUMBER + (hostPos - 1)) % ByteMod
      BY <1>1, <2>1, Zenon DEF UpAwaitAck
    <3> QED BY <1>1, <3>1
  <2>3. Up!SendNext(packetCounter') /\ packetCounter' = Inc(packetCounter)
    BY <1>1, <1>4, <2>2, SameUp DEF Up!HostContinue
  <2>4. packetCounter' = (FIRST_FRAME_NUMBER + hostPos) % ByteMod /\ hostPos \in 0 .. Len(LongFile)
    <3>1. hostPos - 1 \in Nat /\ (hostPos - 1) + 1 = hostPos /\ hostPos \in 0 .. Len(LongFile)
      BY <2>2, FileFacts
    <3>2. Inc((FIRST_FRAME_NUMBER + (hostPos - 1)) % ByteMod) = (FIRST_FRAME_NUMBER + ((hostPos - 1) + 1)) % ByteMod
      BY <3>1, NumberFacts
    <3> QED BY <2>2, <2>3, <3>1, <3>2
  <2>5. UpInv' /\ host' \in Reading
    BY <1>1, <1>2, <2>2, <2>3, <2>4, UpSends
  <2> QED BY <1>1, <1>2, <1>4, <2>5, DeviceRests DEF TransferStep, Reading
<1>5. CASE host = "AWAIT_EOT_ACK"
  <2>1. UpAwaitEotAck /\ fromHost = <<>> /\ BlockAddress = Len(LongFile)
    BY <1>1, <1>2, <1>5 DEF UpUnderWay, UpAwaitEotAck
  <2>2. host' = "DONE" /\ fromHost' = <<>>
    BY <1>1, <1>5, <2>1 DEF Up!HostContinue
  <2>3. IInv' /\ UNCHANGED <<BlockAddress, Memory>>
    BY <1>1, <1>2, DeviceRests
  <2> QED BY <1>1, <1>2, <1>5, <2>1, <2>2, <2>3 DEF UpInv, TransferStep, Over, Reading
<1> QED BY <1>2, <1>3, <1>4, <1>5 DEF UpUnderWay

(* Only before the first frame does a prompt host ever wait in vain.       *)
LEMMA UpTimesOut == ASSUME UpInv, Up!HostTimeout PROVE UpInv' /\ TransferStep(LongFile)
<1>1. /\ toHost = <<>> /\ hostClock = HOST_TIMEOUT /\ Up!HostContinue(<<>>)
      /\ hostClock' = 0 /\ UNCHANGED <<vars, toHost, cuts>>
  BY SameUp DEF Up!HostTimeout
<1>2. HOST_TIMEOUT \in Nat
  BY Sizes
<1>3. host = "AWAIT_NAK" /\ UpAwaitNak /\ IInv /\ cuts = 0
  BY <1>1, <1>2 DEF UpInv, UpUnderWay, UpAwaitAck, UpAwaitEotAck, Over, Up!HostContinue
<1>4. <<>> # <<BYTE_NAK>>
  OBVIOUS
<1>5. host' = "FAILED" /\ fromHost' = <<>>
  BY <1>1, <1>3, <1>4 DEF Up!HostContinue, UpAwaitNak
<1>6. IInv' /\ UNCHANGED <<BlockAddress, Memory>>
  BY <1>1, <1>3, DeviceRests
<1> QED BY <1>1, <1>3, <1>5, <1>6 DEF UpInv, TransferStep, Over, Reading

(* A tick repeats the NAK, or counts the time of a read.                   *)
LEMMA UpTicks == ASSUME UpInv, Up!Tick PROVE UpInv' /\ TransferStep(LongFile)
<1>1. /\ \/ fromHost = <<>> /\ toHost = <<>>
         \/ ~(State = "RECEIVE_INIT" /\ RetryTimeout = 0) /\ hostClock + 1 < HOST_TIMEOUT
      /\ \/ XModemTick /\ toHost' = toHost \o out'
         \/ State \notin {"RECEIVE_INIT", "SEND_INIT"} /\ UNCHANGED <<vars, toHost>>
      /\ hostClock' = IF host \in Reading /\ hostClock < HOST_TIMEOUT THEN hostClock + 1 ELSE hostClock
      /\ UNCHANGED <<host, cuts, packetCounter, hostPos, fromHost>>
  BY SameUp DEF Up!Tick, Up!NakDue, Up!HostReading, Reading
<1>2. /\ IInv /\ fromHost \in Seq(Byte) /\ hostClock \in Nat /\ hostClock' \in Nat
      /\ hostClock + 1 < HOST_TIMEOUT => hostClock' < HOST_TIMEOUT
  <2>1. IInv /\ fromHost \in Seq(Byte) /\ hostClock \in Nat /\ HOST_TIMEOUT \in Nat
    BY Sizes DEF UpInv
  <2> QED BY <1>1, <2>1
<1>3. CASE host \in Over /\ fromHost = <<>>
  <2>1. IInv'
    BY <1>1, <1>2, TickPreserves, DeviceRests
  <2>2. UNCHANGED <<BlockAddress, Memory>>
    BY <1>1, <1>2, DeviceRests DEF XModemTick, ReceiveTick, SendTick
  <2> QED BY <1>1, <1>2, <1>3, <2>1, <2>2 DEF UpInv, TransferStep
<1>4. CASE Kept(LongFile) /\ UpUnderWay
  <2>1. toHost \in Seq(Byte) /\ State # "SEND_INIT" /\ host \in Reading
    <3>1. toHost \in {<<>>, <<BYTE_NAK>>, <<BYTE_ACK>>} /\ host \in Reading
      BY <1>4 DEF UpUnderWay, UpAwaitNak, UpAwaitAck, UpAwaitEotAck, Reading
    <3>2. State # "SEND_INIT"
      BY <1>4 DEF UpUnderWay, UpAwaitNak, UpAwaitAck, UpAwaitEotAck, InFlight, ReceiveStates
    <3>3. <<>> \in Seq(Byte) /\ <<BYTE_NAK>> \in Seq(Byte) /\ <<BYTE_ACK>> \in Seq(Byte)
      BY ByteAssumption
    <3> QED BY <3>1, <3>2, <3>3
  <2>2. /\ IInv' /\ UNCHANGED <<BlockAddress, Memory, BufferIdx, TerminalBuffer, ReceivedFrameNumber,
                               CurrentFrameNumber>>
        /\ Kept(LongFile)'
        /\ \/ State # "RECEIVE_INIT" /\ UNCHANGED <<State, toHost>>
           \/ State = "RECEIVE_INIT" /\ RetryTimeout # 0 /\ UNCHANGED <<State, toHost>>
           \/ /\ State = "RECEIVE_INIT" /\ RetryTimeout = 0
              /\ \/ State' = "RECEIVE_INIT" /\ toHost' = toHost \o <<BYTE_NAK>>
                 \/ State' = "OFF" /\ UNCHANGED toHost
        /\ State' = State => Place' = Place /\ \A n, block : Started(n, block)' <=> Started(n, block)
    BY <1>1, <1>2, <1>4, <2>1, ReceiverTicks
  <2>3. CASE host = "AWAIT_NAK"
    <3>1. UpAwaitNak
      BY <1>4, <2>3 DEF UpUnderWay
    <3>2. toHost = <<>> => toHost \o <<BYTE_NAK>> = <<BYTE_NAK>>
      <4>1. <<BYTE_NAK>> \in Seq(Byte)
        BY ByteAssumption
      <4> QED BY <4>1, NothingBefore
    <3>4. UpAwaitNak'
      <4>1. toHost = <<>> \/ toHost = <<BYTE_NAK>>
        BY <3>1 DEF UpAwaitNak
      <4>2. toHost = <<>> => UpAwaitNak'
        BY <1>1, <2>2, <3>1, <3>2 DEF UpAwaitNak
      <4>3. toHost = <<BYTE_NAK>> => UpAwaitNak'
        <5>1. toHost = <<BYTE_NAK>> => UNCHANGED <<State, toHost>>
          BY <1>1, <2>2
        <5> QED BY <1>1, <2>2, <3>1, <5>1 DEF UpAwaitNak
      <4> QED BY <4>1, <4>2, <4>3
    <3> QED BY <1>1, <1>2, <2>1, <2>2, <2>3, <3>4 DEF UpInv, UpUnderWay, TransferStep
  <2>4. CASE host = "AWAIT_ACK"
    <3>1. UpAwaitAck /\ (fromHost # <<>> \/ toHost # <<>>)
      BY <1>2, <1>4, <2>4, InFlightMeansBytes DEF UpUnderWay, UpAwaitAck
    <3>2. hostClock' < HOST_TIMEOUT /\ UNCHANGED <<State, toHost>>
      BY <1>1, <1>2, <2>2, <3>1
    <3>3. InFlight(packetCounter, LongFile[hostPos], CalcChecksum(LongFile[hostPos]))
           => InFlight(packetCounter, LongFile[hostPos], CalcChecksum(LongFile[hostPos]))'
      BY <1>1, <2>2, <3>2 DEF InFlight, Lies
    <3>4. UpAwaitAck'
      BY <1>1, <2>2, <3>1, <3>2, <3>3 DEF UpAwaitAck
    <3> QED BY <1>1, <1>2, <2>2, <2>4, <3>4 DEF UpInv, UpUnderWay, TransferStep
  <2>5. CASE host = "AWAIT_EOT_ACK"
    <3>1. UpAwaitEotAck /\ (fromHost # <<>> \/ toHost # <<>>)
      BY <1>4, <2>5 DEF UpUnderWay, UpAwaitEotAck
    <3>2. hostClock' < HOST_TIMEOUT /\ UNCHANGED <<State, toHost>>
      BY <1>1, <1>2, <2>2, <3>1
    <3>3. UpAwaitEotAck'
      BY <1>1, <2>2, <3>1, <3>2 DEF UpAwaitEotAck
    <3> QED BY <1>1, <1>2, <2>2, <2>5, <3>3 DEF UpInv, UpUnderWay, TransferStep
  <2> QED BY <2>1, <2>3, <2>4, <2>5 DEF Reading
<1> QED BY <1>3, <1>4 DEF UpInv

(* The frame the device expects, with its own checksum, is accepted.       *)
LEMMA ExpectedFrame ==
  ASSUME IInv, State = "RECEIVE_PROCESS",
         ReceivedFrameNumber = (FIRST_FRAME_NUMBER + BlockAddress) % ByteMod,
         ReceiveProcess(CalcChecksum(TerminalBuffer))
  PROVE  AcceptBlock(CalcChecksum(TerminalBuffer))
<1>1. IsExpected
  BY DEF IsExpected, IInv, FrameNumberTracksAddress, ReceiveStates
<1>2. FALSE \notin CallbackResults
  BY LinkAssumption
<1> QED BY <1>1, <1>2 DEF ReceiveProcess, RefuseBlock, DamagedBlock, UnexpectedBlock

(* The device takes a byte of the frame, its checksum, or EOT.             *)
LEMMA UpTakes == ASSUME UpInv, Up!DeviceByte PROVE UpInv' /\ TransferStep(LongFile)
<1>1. /\ fromHost # <<>> /\ fromHost' = Tail(fromHost)
      /\ UNCHANGED <<host, cuts, packetCounter, hostPos, hostClock>>
      /\ \/ XModemProcessByte(Head(fromHost)) /\ toHost' = toHost \o out'
         \/ State = "OFF" /\ UNCHANGED <<vars, toHost>>
  BY SameUp DEF Up!DeviceByte, Up!hostVars
<1>2. IInv /\ fromHost \in Seq(Byte) /\ hostClock \in Nat /\ cuts = 0 /\ Kept(LongFile) /\ UpUnderWay
  BY <1>1 DEF UpInv
<1>3. CASE host = "AWAIT_ACK"
  <2>1. /\ toHost = <<>> /\ BlockAddress = hostPos - 1 /\ hostPos \in 1 .. Len(LongFile)
        /\ hostClock < HOST_TIMEOUT
        /\ packetCounter = (FIRST_FRAME_NUMBER + (hostPos - 1)) % ByteMod
        /\ InFlight(packetCounter, LongFile[hostPos], CalcChecksum(LongFile[hostPos]))
    BY <1>1, <1>2, <1>3 DEF UpUnderWay, UpAwaitAck
  <2>2. /\ LongFile[hostPos] \in Block /\ CalcChecksum(LongFile[hostPos]) \in Byte /\ packetCounter \in Byte
        /\ hostPos \in Nat /\ hostPos < AddressMod /\ hostPos - 1 \in Nat /\ (hostPos - 1) + 1 = hostPos
    <3>1. LongFile[hostPos] \in Block /\ hostPos \in Nat /\ hostPos < AddressMod /\ hostPos - 1 \in Nat
          /\ (hostPos - 1) + 1 = hostPos
      BY <2>1, FileFacts, Sizes
    <3> QED BY <2>1, <3>1, ChecksumIsByte, NumberFacts
  <2>3. PICK block \in Block : block = LongFile[hostPos]
    BY <2>2
  <2>4. PICK n \in Byte : n = packetCounter
    BY <2>2
  <2>5. PICK sum \in Byte : sum = CalcChecksum(block)
    BY <2>2, <2>3
  <2>6. InFlight(n, block, sum) /\ XModemProcessByte(Head(fromHost))
    BY <1>1, <2>1, <2>3, <2>4, <2>5 DEF InFlight, ReceiveStates
  <2>7. /\ IInv' /\ fromHost' \in Seq(Byte)
        /\ State # "RECEIVE_PROCESS" =>
             /\ InFlight(n, block, sum)' /\ fromHost' # <<>> /\ out' = <<>>
             /\ UNCHANGED <<counters, Memory>>
        /\ State = "RECEIVE_PROCESS" =>
             /\ fromHost' = <<>> /\ TerminalBuffer = block /\ ReceivedFrameNumber = n
             /\ ReceiveProcess(sum)
    BY <1>1, <1>2, <2>6, InFlightStep
  <2>8. toHost' = toHost \o out' /\ \A s \in Seq(Byte) : <<>> \o s = s
    BY <1>1, <2>6, ConcatEmptySeq DEF InFlight, ReceiveStates
  <2>9. CASE State # "RECEIVE_PROCESS"
    <3>1. toHost' = <<>> /\ BlockAddress' = BlockAddress /\ Memory' = Memory
      <4>1. out' = <<>> /\ <<>> \in Seq(Byte)
        BY <2>7, <2>9
      <4> QED BY <2>1, <2>7, <2>8, <2>9, <4>1 DEF counters
    <3>2. Kept(LongFile)'
      BY <1>2, <3>1 DEF Kept
    <3>3. InFlight(packetCounter, LongFile[hostPos], CalcChecksum(LongFile[hostPos]))'
      <4>1. InFlight(n, block, sum)'
        BY <2>7, <2>9
      <4> QED BY <1>1, <2>3, <2>4, <2>5, <4>1 DEF InFlight, Lies, Started
    <3>4. UpAwaitAck'
      BY <1>1, <2>1, <3>1, <3>3 DEF UpAwaitAck
    <3> QED BY <1>1, <1>2, <1>3, <2>7, <3>1, <3>2, <3>4 DEF UpInv, UpUnderWay, TransferStep
  <2>10. CASE State = "RECEIVE_PROCESS"
    <3>1. TerminalBuffer = block /\ ReceivedFrameNumber = n /\ ReceiveProcess(sum) /\ fromHost' = <<>>
      BY <2>7, <2>10
    <3>2. AcceptBlock(sum)
      <4>1. sum = CalcChecksum(TerminalBuffer) /\ ReceivedFrameNumber = (FIRST_FRAME_NUMBER + BlockAddress) % ByteMod
        BY <2>1, <2>4, <2>5, <3>1
      <4> QED BY <1>2, <2>10, <3>1, <4>1, ExpectedFrame
    <3>3. BlockAddress' = BlockAddress + 1 /\ Kept(LongFile)'
      <4>1. BlockAddress + 1 < AddressMod /\ TerminalBuffer = LongFile[BlockAddress + 1]
        BY <2>1, <2>2, <2>3, <3>1
      <4> QED BY <1>2, <3>2, <4>1, NextBlockKept
    <3>4. BlockAddress' = hostPos /\ BlockAddress < Len(LongFile)
      BY <2>1, <2>2, <3>3, FileFacts
    <3>5. State' = "RECEIVE_WAIT" /\ toHost' = <<BYTE_ACK>>
      <4>1. out' = <<BYTE_ACK>> /\ <<BYTE_ACK>> \in Seq(Byte) /\ State' = "RECEIVE_WAIT"
        BY <3>2, ByteAssumption DEF AcceptBlock
      <4> QED BY <2>1, <2>8, <4>1
    <3>6. UpAwaitAck'
      BY <1>1, <2>1, <3>1, <3>4, <3>5 DEF UpAwaitAck
    <3> QED BY <1>1, <1>2, <1>3, <2>7, <3>3, <3>4, <3>6 DEF UpInv, UpUnderWay, TransferStep, Reading
  <2> QED BY <2>9, <2>10
<1>4. CASE host # "AWAIT_ACK"
  <2>1. /\ host = "AWAIT_EOT_ACK" /\ fromHost = <<BYTE_EOT>> /\ toHost = <<>>
        /\ State \in {"RECEIVE_INIT", "RECEIVE_WAIT"} /\ hostClock < HOST_TIMEOUT
        /\ hostPos = Len(LongFile) /\ BlockAddress = hostPos
    BY <1>1, <1>2, <1>4 DEF UpUnderWay, UpAwaitNak, UpAwaitEotAck
  <2>2. Head(fromHost) = BYTE_EOT /\ Tail(fromHost) = <<>>
    BY <2>1
  <2>3. XModemProcessByte(BYTE_EOT) /\ toHost' = toHost \o out' /\ fromHost' = <<>>
    BY <1>1, <2>1, <2>2
  <2>4. IInv' /\ State' = "OFF" /\ out' = <<BYTE_ACK>> /\ UNCHANGED <<BlockAddress, Memory>>
    BY <1>2, <2>1, <2>3, EotTaken
  <2>5. toHost' = <<BYTE_ACK>> /\ fromHost' \in Seq(Byte)
    BY <2>1, <2>3, <2>4
  <2>6. Kept(LongFile)' /\ UpAwaitEotAck'
    BY <1>1, <1>2, <2>1, <2>3, <2>4, <2>5 DEF Kept, UpAwaitEotAck
  <2> QED BY <1>1, <1>2, <2>1, <2>4, <2>5, <2>6 DEF UpInv, UpUnderWay, TransferStep
<1> QED BY <1>3, <1>4

(* Every action of a prompt upload; nobody pulls the cable.                *)
LEMMA UpStep == ASSUME UpInv, Up!UpNext PROVE UpInv' /\ TransferStep(LongFile)
<1>1. ~Up!Disconnect /\ ~Up!Connect /\ ~Up!ConnectReturns
  BY DEF UpInv, UpUnderWay, Over, Up!Disconnect, Up!Connect, Up!ConnectReturns
<1> QED BY <1>1, UpStarts, UpReads, UpTimesOut, UpTakes, UpTicks DEF Up!UpNext

(* A step of which an upload sees nothing.                                 *)
LEMMA UpRests ==
  ASSUME UpInv, UNCHANGED <<vars, host, cuts, packetCounter, hostPos, hostClock, fromHost, toHost>>
  PROVE  UpInv' /\ TransferStep(LongFile)
<1>1. /\ IInv' /\ UNCHANGED <<State, BlockAddress, Memory>> /\ Place' = Place
      /\ \A n, block : Started(n, block)' <=> Started(n, block)
      /\ \A file : Kept(file)' <=> Kept(file)
  BY DeviceRests DEF UpInv
<1>2. UpAwaitNak' <=> UpAwaitNak
  BY <1>1 DEF UpAwaitNak
<1>3. UpAwaitEotAck' <=> UpAwaitEotAck
  BY <1>1 DEF UpAwaitEotAck
<1>4. InFlight(packetCounter, LongFile[hostPos], CalcChecksum(LongFile[hostPos]))
        => InFlight(packetCounter, LongFile[hostPos], CalcChecksum(LongFile[hostPos]))'
  BY <1>1 DEF InFlight, Lies
<1>5. UpAwaitAck => UpAwaitAck'
  BY <1>1, <1>4 DEF UpAwaitAck
<1> QED BY <1>1, <1>2, <1>3, <1>5 DEF UpInv, UpUnderWay, TransferStep

-----------------------------------------------------------------------------
(***************************************************************************)
(* The upload from a repeating sender, over a line that damages data and   *)
(* loses answers: where a frame or its answer is.                          *)
(***************************************************************************)
(* At most one byte of the block differs, one that the device has already  *)
(* taken or takes next.                                                    *)
OneOff(a, b, i) == \A j \in 1 .. XMODEM_BLOCK_SIZE : j # i => a[j] = b[j]
OneDamaged(block, sent) ==
  IF Place > 2
  THEN \E i \in 1 .. XMODEM_BLOCK_SIZE : i <= BufferIdx + 1 /\ OneOff(block, sent, i)
  ELSE block = sent
OnTheWay(block, sent) ==
  InFlight(number, block, CalcChecksum(sent)) /\ OneDamaged(block, sent)

(* The device has answered, or the answer is lost.  An ACK means that it   *)
(* is a block ahead.                                                       *)
Answered ==
  /\ State \in {"RECEIVE_WAIT", "OFF"}
  /\ \/ toHost \in {<<>>, <<BYTE_NAK>>, <<BYTE_CAN>>}
     \/ toHost = <<BYTE_ACK>> /\ BlockAddress = acked + 1

AwaitNak ==
  /\ acked = 0 /\ BlockAddress = 0
  /\ fromHost = <<>> /\ toHost \in {<<>>, <<BYTE_NAK>>}
  /\ State \in {"RECEIVE_INIT", "OFF"}
AwaitAck ==
  /\ acked < Len(ShortFile)
  /\ BlockAddress \in {acked, acked + 1}
  /\ \/ /\ fromHost # <<>> /\ toHost = <<>>
        /\ State = "OFF" \/ \E block \in Block : OnTheWay(block, ShortFile[acked + 1])
     \/ fromHost = <<>> /\ Answered
AwaitEotAck ==
  /\ acked = Len(ShortFile) /\ BlockAddress = acked
  /\ \/ /\ fromHost = <<BYTE_EOT>> /\ toHost = <<>>
        /\ State \in {"RECEIVE_INIT", "RECEIVE_WAIT", "OFF"}
     \/ fromHost = <<>> /\ toHost \in {<<>>, <<BYTE_ACK>>} /\ State = "OFF"

RetryUnderWay ==
  \/ host = "AWAIT_NAK" /\ AwaitNak
  \/ host = "AWAIT_ACK" /\ AwaitAck
  \/ host = "AWAIT_EOT_ACK" /\ AwaitEotAck

RetryInv ==
  /\ IInv /\ fromHost \in Seq(Byte)
  /\ acked \in 0 .. Len(ShortFile)
  /\ number = (FIRST_FRAME_NUMBER + acked) % ByteMod
  /\ \/ host \in Over /\ fromHost = <<>>
     \/ Kept(ShortFile) /\ RetryUnderWay

(* The steps of the host.                                                  *)
LEMMA RetryTransmits ==
  ASSUME IInv, Kept(ShortFile), fromHost = <<>>, UNCHANGED vars, host \in Reading,
         State \in {"RECEIVE_INIT", "RECEIVE_WAIT", "OFF"},
         NEW done \in 0 .. Len(ShortFile),
         done < Len(ShortFile) => BlockAddress \in {done, done + 1},
         done = Len(ShortFile) => BlockAddress = done,
         Retry!Transmit(done, (FIRST_FRAME_NUMBER + done) % ByteMod)
  PROVE  RetryInv' /\ TransferStep(ShortFile)
<1>1. IInv' /\ UNCHANGED <<State, BlockAddress, Memory>> /\ Kept(ShortFile)'
  BY DeviceRests
<1>2. PICK n : n = (FIRST_FRAME_NUMBER + done) % ByteMod
  OBVIOUS
<1>3. acked' = done /\ number' = n /\ toHost' = <<>> /\ done \in Nat /\ n \in Byte
  BY <1>2, FileFacts, NumberFacts DEF Retry!Transmit
<1>4. CASE done < Len(ShortFile)
  <2>1. /\ host' = "AWAIT_ACK"
        /\ fromHost' = fromHost \o FrameBytes(n, ShortFile[done + 1])
    BY <1>2, <1>4, SameRetry DEF Retry!Transmit
  <2>2. ShortFile[done + 1] \in Block
    BY <1>3, <1>4, FileFacts
  <2>3. PICK block \in Block : block = ShortFile[done + 1]
    BY <2>2
  <2>4. fromHost' \in Seq(Byte) /\ fromHost' # <<>>
    <3> DEFINE r == fromHost \o FrameBytes(n, block)
    <3>1. fromHost \in Seq(Byte) /\ Len(fromHost) = 0 /\ FrameSize \in Nat /\ FrameSize # 0
      BY Sizes
    <3>2. r \in Seq(Byte) /\ Len(r) = Len(fromHost) + FrameSize
      BY <1>3, <3>1, LiesAppend
    <3>3. fromHost' = r
      BY <2>1, <2>3
    <3> HIDE DEF r
    <3>4. Len(r) # 0
      BY <3>1, <3>2
    <3>5. r # <<>>
      BY <3>2, <3>4, EmptySeq, Zenon
    <3> QED BY <3>2, <3>3, <3>5
  <2>5. ASSUME State # "OFF" PROVE OnTheWay(block, ShortFile[acked + 1])'
    <3>1. InFlight(n, block, CalcChecksum(block))' /\ Place' = 0
      BY <1>3, <2>1, <2>3, <2>5, FrameSent
    <3>2. InFlight(number, block, CalcChecksum(block))'
      BY <1>3, <3>1 DEF InFlight, Lies, Started
    <3>3. block = ShortFile[acked' + 1]
      BY <1>3, <2>3
    <3> QED BY <3>1, <3>2, <3>3 DEF OnTheWay, OneDamaged
  <2>6. AwaitAck'
    BY <1>1, <1>3, <1>4, <2>4, <2>5 DEF AwaitAck
  <2> QED BY <1>1, <1>2, <1>3, <2>1, <2>4, <2>6 DEF RetryInv, RetryUnderWay, TransferStep, Reading
<1>5. CASE done = Len(ShortFile)
  <2>1. host' = "AWAIT_EOT_ACK" /\ fromHost' = <<BYTE_EOT>>
    BY <1>5, FileFacts DEF Retry!Transmit
  <2>2. <<BYTE_EOT>> \in Seq(Byte)
    BY ByteAssumption
  <2>3. AwaitEotAck'
    BY <1>1, <1>3, <1>5, <2>1 DEF AwaitEotAck
  <2> QED BY <1>1, <1>2, <1>3, <2>1, <2>2, <2>3 DEF RetryInv, RetryUnderWay, TransferStep, Reading
<1> QED BY <1>4, <1>5, FileFacts

(* UPLOAD, again from a terminal program.                                  *)
LEMMA RetryStarts == ASSUME RetryInv, Retry!StartUpload PROVE RetryInv' /\ TransferStep(ShortFile)
<1>1. /\ XModemReceive /\ fromHost = <<>> /\ toHost = <<>> /\ host \in Over
      /\ host' = "AWAIT_NAK" /\ number' = FIRST_FRAME_NUMBER /\ acked' = 0
      /\ fromHost' = <<>> /\ toHost' = <<>>
  BY SameRetry DEF Retry!StartUpload, Over
<1>2. IInv'
  BY <1>1, CommandsPreserve DEF RetryInv
<1>3. BlockAddress' = 0 /\ State' = "RECEIVE_INIT"
  BY <1>1 DEF XModemReceive
<1>4. AwaitNak' /\ Kept(ShortFile)'
  BY <1>1, <1>3 DEF AwaitNak, Kept
<1>5. 0 \in 0 .. Len(ShortFile) /\ <<>> \in Seq(Byte)
  BY FileFacts
<1> QED BY <1>1, <1>2, <1>3, <1>4, <1>5, FirstNumber DEF RetryInv, RetryUnderWay, TransferStep, Reading

(* A host that does not read any more has nothing under way.               *)
LEMMA RetryStops ==
  ASSUME RetryInv, host \in Reading, fromHost = <<>>, UNCHANGED <<vars, number, acked, fromHost>>,
         host' \in {"DONE", "FAILED"}, host' = "DONE" => host = "AWAIT_EOT_ACK"
  PROVE  RetryInv' /\ TransferStep(ShortFile)
<1>1. IInv' /\ UNCHANGED <<BlockAddress, Memory>>
  BY DeviceRests DEF RetryInv
<1>2. Kept(ShortFile) /\ (host = "AWAIT_EOT_ACK" => BlockAddress = Len(ShortFile))
  BY DEF RetryInv, RetryUnderWay, AwaitEotAck, Reading, Over
<1> QED BY <1>1, <1>2 DEF RetryInv, TransferStep, Over

(* NAK repeats the frame, ACK brings the next, CAN ends it all.            *)
LEMMA RetryReads == ASSUME RetryInv, Retry!HostRead PROVE RetryInv' /\ TransferStep(ShortFile)
<1> DEFINE b == Head(toHost)
<1>1. toHost # <<>> /\ UNCHANGED vars /\ host \in Reading
  BY SameRetry DEF Retry!HostRead, Retry!HostReading, Reading
<1>2. /\ IInv /\ acked \in 0 .. Len(ShortFile) /\ Kept(ShortFile) /\ RetryUnderWay
      /\ number = (FIRST_FRAME_NUMBER + acked) % ByteMod
  BY <1>1 DEF RetryInv, Reading, Over
<1>3. fromHost = <<>> /\ State \in {"RECEIVE_INIT", "RECEIVE_WAIT", "OFF"}
  BY <1>1, <1>2 DEF RetryUnderWay, AwaitNak, AwaitAck, AwaitEotAck, Answered
<1>4. /\ host = "AWAIT_NAK" => AwaitNak
      /\ host = "AWAIT_ACK" => AwaitAck /\ Answered
      /\ host = "AWAIT_EOT_ACK" => AwaitEotAck
  BY <1>1, <1>2, <1>3 DEF RetryUnderWay, AwaitAck
<1>5. ASSUME b = BYTE_NAK, Retry!Transmit(acked, number)
      PROVE  RetryInv' /\ TransferStep(ShortFile)
  <2>1. host # "AWAIT_EOT_ACK"
    <3>1. host = "AWAIT_EOT_ACK" => toHost = <<BYTE_ACK>>
      BY <1>1, <1>4 DEF AwaitEotAck
    <3> QED BY <3>1, <1>5, ByteAssumption
  <2>2. /\ acked < Len(ShortFile) => BlockAddress \in {acked, acked + 1}
        /\ acked = Len(ShortFile) => BlockAddress = acked
    BY <1>1, <1>2, <1>4, <2>1, FileFacts DEF AwaitNak, AwaitAck, Reading
  <2> QED BY <1>1, <1>2, <1>3, <1>5, <2>2, RetryTransmits
<1>6. ASSUME host = "AWAIT_ACK", b = BYTE_ACK, Retry!Transmit(acked + 1, Retry!Inc(number))
      PROVE  RetryInv' /\ TransferStep(ShortFile)
  <2>1. toHost # <<BYTE_NAK>> /\ toHost # <<BYTE_CAN>>
    BY <1>6, ByteAssumption
  <2>2. BlockAddress = acked + 1 /\ acked < Len(ShortFile)
    BY <1>1, <1>4, <1>6, <2>1 DEF Answered, AwaitAck
  <2>3. acked + 1 \in 0 .. Len(ShortFile) /\ acked \in Nat
    BY <1>2, <2>2, FileFacts
  <2>4. Retry!Inc(number) = (FIRST_FRAME_NUMBER + (acked + 1)) % ByteMod
    BY <1>2, <2>3, NumberFacts, SameRetry
  <2>5. Retry!Transmit(acked + 1, (FIRST_FRAME_NUMBER + (acked + 1)) % ByteMod)
    BY <1>6, <2>4
  <2> QED BY <1>1, <1>2, <1>3, <2>2, <2>3, <2>5, RetryTransmits
<1>7. ASSUME host' \in {"DONE", "FAILED"}, host' = "DONE" => host = "AWAIT_EOT_ACK",
             UNCHANGED <<number, acked, fromHost>>
      PROVE  RetryInv' /\ TransferStep(ShortFile)
  BY <1>1, <1>3, <1>7, RetryStops
<1> QED BY <1>5, <1>6, <1>7 DEF Retry!HostRead

(* An overdue answer repeats the frame.                                    *)
LEMMA RetryTimesOut == ASSUME RetryInv, Retry!HostTimeout PROVE RetryInv' /\ TransferStep(ShortFile)
<1>1. /\ host \in {"AWAIT_ACK", "AWAIT_EOT_ACK"} /\ UNCHANGED vars
      /\ fromHost = <<>> /\ State # "OFF" /\ Retry!Transmit(acked, number)
  BY SameRetry DEF Retry!HostTimeout
<1>2. AwaitAck /\ Answered /\ number = (FIRST_FRAME_NUMBER + acked) % ByteMod
      /\ IInv /\ acked \in 0 .. Len(ShortFile) /\ Kept(ShortFile)
  BY <1>1 DEF RetryInv, RetryUnderWay, Over, AwaitAck, AwaitEotAck
<1>3. State \in {"RECEIVE_INIT", "RECEIVE_WAIT", "OFF"} /\ host \in Reading
  BY <1>1, <1>2 DEF Answered, Reading
<1> QED BY <1>1, <1>2, <1>3, FileFacts, RetryTransmits DEF AwaitAck

(* The last byte of a frame is answered: a block with the expected number  *)
(* and the right sum is the block that was sent.                           *)
LEMMA RetryVerdict ==
  ASSUME RetryInv, host = "AWAIT_ACK", AwaitAck, UNCHANGED <<host, acked, number>>,
         State = "RECEIVE_PROCESS", IInv', fromHost' = <<>>, toHost' = out',
         NEW sent \in Block, sent = ShortFile[acked + 1], Kept(ShortFile),
         NEW i \in 1 .. XMODEM_BLOCK_SIZE, OneOff(TerminalBuffer, sent, i),
         ReceivedFrameNumber = number, ReceiveProcess(CalcChecksum(sent))
  PROVE  RetryInv' /\ TransferStep(ShortFile)
<1> DEFINE b == CalcChecksum(sent)
<1>1. /\ IInv /\ acked \in Nat /\ acked < Len(ShortFile) /\ acked + 1 < AddressMod
      /\ number = (FIRST_FRAME_NUMBER + acked) % ByteMod
      /\ BlockAddress \in {acked, acked + 1} /\ TerminalBuffer \in Block
  <2>1. /\ IInv /\ acked \in 0 .. Len(ShortFile) /\ acked < Len(ShortFile)
        /\ number = (FIRST_FRAME_NUMBER + acked) % ByteMod /\ BlockAddress \in {acked, acked + 1}
    BY DEF RetryInv, AwaitAck
  <2>2. acked \in Nat /\ acked + 1 < AddressMod
    BY <2>1, FileFacts, Sizes
  <2>3. TerminalBuffer \in Block
    BY <2>1 DEF IInv, TypeOK
  <2> QED BY <2>1, <2>2, <2>3
<1>2. CurrentFrameNumber = (FIRST_FRAME_NUMBER + BlockAddress) % ByteMod
  BY <1>1 DEF IInv, FrameNumberTracksAddress, ReceiveStates
<1>3. IsExpected <=> BlockAddress = acked
  <2>1. (FIRST_FRAME_NUMBER + acked) % ByteMod # (FIRST_FRAME_NUMBER + (acked + 1)) % ByteMod
    BY <1>1, NumberFacts
  <2> QED BY <1>1, <1>2, <2>1 DEF IsExpected
<1>4. ASSUME Answered', BlockAddress' \in {acked, acked + 1}, Kept(ShortFile)' PROVE RetryInv'
  <2>1. AwaitAck' /\ <<>> \in Seq(Byte)
    BY <1>1, <1>4 DEF AwaitAck
  <2> QED BY <1>4, <2>1 DEF RetryInv, RetryUnderWay
<1>5. ASSUME UNCHANGED <<BlockAddress, Memory>> PROVE Kept(ShortFile)' /\ TransferStep(ShortFile)
  BY <1>5 DEF Kept, TransferStep
<1>6. CASE AcceptBlock(b)
  <2>1. out' = <<BYTE_ACK>> /\ State' = "RECEIVE_WAIT" /\ BlockAddress = acked
        /\ CalcChecksum(TerminalBuffer) = CalcChecksum(sent)
    BY <1>3, <1>6 DEF AcceptBlock
  <2>2. TerminalBuffer = sent
    BY <1>1, <2>1, OneByteChangesChecksum DEF OneOff
  <2>3. BlockAddress' = BlockAddress + 1 /\ Kept(ShortFile)'
    BY <1>1, <1>6, <2>1, <2>2, NextBlockKept
  <2>4. Answered'
    BY <2>1, <2>3 DEF Answered
  <2> QED BY <1>1, <1>4, <2>1, <2>3, <2>4 DEF TransferStep, Reading
<1>7. CASE DamagedBlock(b)
  <2>1. out' = <<BYTE_NAK>> /\ State' = "RECEIVE_WAIT" /\ UNCHANGED <<BlockAddress, Memory>>
    BY <1>7 DEF DamagedBlock, counters
  <2> QED BY <1>1, <1>4, <1>5, <2>1 DEF Answered
<1>8. CASE UnexpectedBlock
  <2>1. /\ UNCHANGED <<BlockAddress, Memory>> /\ BlockAddress = acked + 1
        /\ \/ out' = <<BYTE_ACK>> /\ State' = "RECEIVE_WAIT"
           \/ out' = <<BYTE_CAN>> /\ State' = "OFF"
    BY <1>1, <1>3, <1>8 DEF UnexpectedBlock, counters
  <2> QED BY <1>1, <1>4, <1>5, <2>1 DEF Answered
<1>9. ~RefuseBlock(b)
  BY LinkAssumption DEF RefuseBlock
<1> QED BY <1>6, <1>7, <1>8, <1>9 DEF ReceiveProcess

(* The device takes a byte of a frame that may be damaged.                 *)
LEMMA RetryTakesFrame ==
  ASSUME RetryInv, host = "AWAIT_ACK", AwaitAck, Kept(ShortFile), UNCHANGED <<host, acked, number>>,
         NEW sent \in Block, sent = ShortFile[acked + 1],
         NEW block \in Block, OnTheWay(block, sent), toHost = <<>>,
         XModemProcessByte(Head(fromHost)), toHost' = toHost \o out', fromHost' = Tail(fromHost)
  PROVE  RetryInv' /\ TransferStep(ShortFile)
<1>1. /\ IInv /\ fromHost \in Seq(Byte) /\ acked \in Nat
      /\ number = (FIRST_FRAME_NUMBER + acked) % ByteMod
  BY FileFacts DEF RetryInv
<1>2. PICK n \in Byte : n = number
  BY <1>1, NumberFacts
<1>3. PICK sum \in Byte : sum = CalcChecksum(sent)
  BY ChecksumIsByte
<1>4. InFlight(n, block, sum)
  BY <1>2, <1>3 DEF OnTheWay
<1>5. /\ IInv' /\ fromHost' \in Seq(Byte)
      /\ State # "RECEIVE_PROCESS" =>
           /\ InFlight(n, block, sum)' /\ fromHost' # <<>> /\ out' = <<>>
           /\ Place' = Place + 1 /\ UNCHANGED <<counters, Memory>>
      /\ State = "RECEIVE_PROCESS" =>
           /\ fromHost' = <<>> /\ TerminalBuffer = block /\ ReceivedFrameNumber = n
           /\ ReceiveProcess(sum)
  BY <1>1, <1>4, InFlightStep
<1>6. XMODEM_BLOCK_SIZE \in Nat \ {0} /\ BufferIdx \in 0 .. XMODEM_BLOCK_SIZE /\ Place \in Nat
  BY <1>1, Sizes, PlaceRange DEF IInv, TypeOK
<1>7. CASE State # "RECEIVE_PROCESS"
  <2>1. toHost' = <<>> /\ UNCHANGED <<BlockAddress, Memory>> /\ InFlight(n, block, sum)' /\ fromHost' # <<>>
    <3>1. out' = <<>> /\ <<>> \o <<>> = <<>>
      BY <1>5, <1>7
    <3> QED BY <1>5, <1>7, <3>1 DEF counters
  <2>2. Place > 2 => \E i \in 1 .. XMODEM_BLOCK_SIZE : i <= BufferIdx + 1 /\ OneOff(block, sent, i)
    BY DEF OnTheWay, OneDamaged
  <2>3. Place <= 2 => block = sent
    BY <1>6 DEF OnTheWay, OneDamaged
  <2>4. Place > 2 => BufferIdx' = BufferIdx + 1
    <3>1. ASSUME Place > 2 PROVE Place = BufferIdx + 3
      BY <1>6, <3>1 DEF Place
    <3>2. ASSUME Place' > 2 PROVE Place' = BufferIdx' + 3
      BY <3>2 DEF Place
    <3>3. BufferIdx' \in Nat
      BY <1>5, Sizes DEF IInv, TypeOK
    <3>4. Place' = Place + 1
      BY <1>5, <1>7
    <3>5. ASSUME Place > 2 PROVE Place' > 2
      BY <1>6, <3>4, <3>5
    <3>6. ASSUME Place > 2 PROVE BufferIdx' + 3 = (BufferIdx + 3) + 1
      BY <3>1, <3>2, <3>4, <3>5, <3>6
    <3>7. BufferIdx \in Nat
      BY <1>6
    <3>8. \A x, y \in Nat : y + 3 = (x + 3) + 1 => y = x + 1
      OBVIOUS
    <3> QED BY <3>3, <3>6, <3>7, <3>8
  <2>5. OneDamaged(block, sent)'
    <3>1. CASE Place > 2
      <4>1. PICK i \in 1 .. XMODEM_BLOCK_SIZE : i <= BufferIdx + 1 /\ OneOff(block, sent, i)
        BY <2>2, <3>1
      <4>2. i <= BufferIdx' + 1
        BY <1>6, <2>4, <3>1, <4>1
      <4> QED BY <1>5, <1>6, <1>7, <3>1, <4>1, <4>2 DEF OneDamaged, OneOff
    <3>2. CASE Place <= 2
      <4>1. block = sent /\ BufferIdx' \in Nat
        BY <1>5, <2>3, <3>2, Sizes DEF IInv, TypeOK
      <4>2. 1 \in 1 .. XMODEM_BLOCK_SIZE /\ 1 <= BufferIdx' + 1 /\ OneOff(block, sent, 1)
        <5>1. 1 \in 1 .. XMODEM_BLOCK_SIZE
          BY <1>6
        <5>2. \A x \in Nat : 1 <= x + 1
          OBVIOUS
        <5> QED BY <4>1, <5>1, <5>2 DEF OneOff
      <4> QED BY <4>1, <4>2 DEF OneDamaged, OneOff
    <3> QED BY <1>6, <3>1, <3>2
  <2>6. OnTheWay(block, ShortFile[acked + 1])'
    BY <1>2, <1>3, <2>1, <2>5 DEF OnTheWay, InFlight, Lies, Started, OneDamaged, OneOff
  <2>7. AwaitAck'
    BY <2>1, <2>6 DEF AwaitAck
  <2>8. Kept(ShortFile)'
    BY <2>1 DEF Kept
  <2> QED BY <1>5, <2>1, <2>7, <2>8 DEF RetryInv, RetryUnderWay, TransferStep
<1>8. CASE State = "RECEIVE_PROCESS"
  <2>1. TerminalBuffer = block /\ ReceivedFrameNumber = number /\ ReceiveProcess(CalcChecksum(sent))
        /\ fromHost' = <<>>
    BY <1>2, <1>3, <1>5, <1>8
  <2>2. \E i \in 1 .. XMODEM_BLOCK_SIZE : OneOff(block, sent, i)
    <3>1. Place > 2
      BY <1>1, <1>6, <1>8, PlaceRange
    <3> QED BY <3>1 DEF OnTheWay, OneDamaged
  <2>3. toHost' = out'
    <3>1. out' \in Seq(Byte)
      <4>1. out' \in {<<BYTE_ACK>>, <<BYTE_NAK>>, <<BYTE_CAN>>}
        BY <2>1, LinkAssumption
           DEF ReceiveProcess, AcceptBlock, RefuseBlock, DamagedBlock, UnexpectedBlock
      <4>2. <<BYTE_ACK>> \in Seq(Byte) /\ <<BYTE_NAK>> \in Seq(Byte) /\ <<BYTE_CAN>> \in Seq(Byte)
        BY ByteAssumption
      <4> QED BY <4>1, <4>2
    <3> QED BY <3>1, NothingBefore
  <2> QED BY <1>5, <1>8, <2>1, <2>2, <2>3, RetryVerdict
<1> QED BY <1>7, <1>8

(* ... or EOT, or, when it is off, anything.                               *)
LEMMA RetryTakes == ASSUME RetryInv, Retry!DeviceByte PROVE RetryInv' /\ TransferStep(ShortFile)
<1>1. /\ fromHost # <<>> /\ fromHost' = Tail(fromHost) /\ UNCHANGED <<host, number, acked>>
      /\ \/ XModemProcessByte(Head(fromHost)) /\ toHost' = toHost \o out'
         \/ State = "OFF" /\ UNCHANGED <<vars, toHost>>
  BY SameRetry DEF Retry!DeviceByte, Retry!hostVars
<1>2. /\ IInv /\ fromHost \in Seq(Byte) /\ Kept(ShortFile) /\ RetryUnderWay
  BY <1>1 DEF RetryInv
<1>3. CASE host = "AWAIT_ACK" /\ State # "OFF"
  <2>1. /\ AwaitAck /\ toHost = <<>>
        /\ \E block \in Block : OnTheWay(block, ShortFile[acked + 1])
    BY <1>1, <1>2, <1>3 DEF RetryUnderWay, AwaitAck
  <2>2. ShortFile[acked + 1] \in Block
    BY <2>1, FileFacts DEF AwaitAck, RetryInv
  <2>3. PICK sent \in Block : sent = ShortFile[acked + 1]
    BY <2>2
  <2>4. PICK block \in Block : OnTheWay(block, sent)
    BY <2>1, <2>3
  <2>5. XModemProcessByte(Head(fromHost)) /\ toHost' = toHost \o out'
    BY <1>1, <1>3
  <2> QED BY <1>1, <1>2, <1>3, <2>1, <2>3, <2>4, <2>5, RetryTakesFrame
<1>4. CASE host = "AWAIT_ACK" /\ State = "OFF"
  <2>1. UNCHANGED <<vars, toHost>> /\ AwaitAck /\ toHost = <<>>
    BY <1>1, <1>2, <1>4, Dispatch DEF RetryUnderWay, AwaitAck
  <2>2. IInv' /\ UNCHANGED <<State, BlockAddress, Memory>> /\ Kept(ShortFile)'
    BY <1>2, <2>1, DeviceRests
  <2>3. Tail(fromHost) \in Seq(Byte)
    BY <1>1, <1>2, OneByteLess
  <2>4. AwaitAck'
    BY <1>1, <1>4, <2>1, <2>2 DEF AwaitAck, Answered
  <2> QED BY <1>1, <1>4, <2>2, <2>3, <2>4 DEF RetryInv, RetryUnderWay, TransferStep
<1>5. CASE host # "AWAIT_ACK"
  <2>1. /\ host = "AWAIT_EOT_ACK" /\ fromHost = <<BYTE_EOT>> /\ toHost = <<>>
        /\ State \in {"RECEIVE_INIT", "RECEIVE_WAIT", "OFF"}
        /\ acked = Len(ShortFile) /\ BlockAddress = acked
    BY <1>1, <1>2, <1>5 DEF RetryUnderWay, AwaitNak, AwaitEotAck
  <2>2. fromHost' = <<>> /\ Head(fromHost) = BYTE_EOT
    BY <1>1, <2>1
  <2>3. ASSUME XModemProcessByte(BYTE_EOT), toHost' = toHost \o out'
        PROVE  IInv' /\ State' = "OFF" /\ toHost' = <<BYTE_ACK>> /\ UNCHANGED <<BlockAddress, Memory>>
    <3>1. State \in {"RECEIVE_INIT", "RECEIVE_WAIT"}
      BY <2>1, <2>3, Dispatch
    <3>2. IInv' /\ State' = "OFF" /\ out' = <<BYTE_ACK>> /\ UNCHANGED <<BlockAddress, Memory>>
      BY <1>2, <2>3, <3>1, EotTaken
    <3> QED BY <2>1, <2>3, <3>2
  <2>4. ASSUME State = "OFF", UNCHANGED <<vars, toHost>>
        PROVE  IInv' /\ State' = "OFF" /\ toHost' = <<>> /\ UNCHANGED <<BlockAddress, Memory>>
    BY <1>2, <2>1, <2>4, DeviceRests
  <2>5. IInv' /\ State' = "OFF" /\ toHost' \in {<<>>, <<BYTE_ACK>>} /\ UNCHANGED <<BlockAddress, Memory>>
    BY <1>1, <2>2, <2>3, <2>4
  <2>6. AwaitEotAck' /\ Kept(ShortFile)' /\ <<>> \in Seq(Byte)
    BY <1>1, <1>2, <2>1, <2>2, <2>5 DEF AwaitEotAck, Kept
  <2> QED BY <1>1, <2>1, <2>2, <2>5, <2>6 DEF RetryInv, RetryUnderWay, TransferStep
<1> QED BY <1>3, <1>4, <1>5

(* Nothing but the device's part of the frame has to stay as it is.        *)
LEMMA OnTheWayStays ==
  ASSUME IInv, NEW block, NEW sent, OnTheWay(block, sent), UNCHANGED <<State, fromHost, number>>,
         Place' = Place, \A n, bl : Started(n, bl)' <=> Started(n, bl), BufferIdx' = BufferIdx
  PROVE  OnTheWay(block, sent)'
<1>1. InFlight(number, block, CalcChecksum(sent))'
  BY DEF OnTheWay, InFlight, Lies
<1>2. OneDamaged(block, sent)'
  BY DEF OnTheWay, OneDamaged, OneOff
<1> QED BY <1>1, <1>2 DEF OnTheWay

(* A tick repeats the NAK, or gives up.                                    *)
LEMMA RetryTicks == ASSUME RetryInv, Retry!Tick PROVE RetryInv' /\ TransferStep(ShortFile)
<1>1. /\ State = "RECEIVE_INIT" => fromHost = <<>> /\ toHost = <<>>
      /\ UNCHANGED <<host, number, acked, fromHost>>
      /\ \/ XModemTick /\ toHost' = toHost \o out'
         \/ State \notin {"RECEIVE_INIT", "SEND_INIT"} /\ UNCHANGED <<vars, toHost>>
  BY SameRetry DEF Retry!Tick, Retry!hostVars
<1>2. IInv /\ fromHost \in Seq(Byte)
  BY DEF RetryInv
<1>3. CASE host \in Over /\ fromHost = <<>>
  <2>1. IInv'
    BY <1>1, <1>2, TickPreserves, DeviceRests
  <2>2. UNCHANGED <<BlockAddress, Memory>>
    BY <1>1, <1>2, DeviceRests DEF XModemTick, ReceiveTick, SendTick
  <2> QED BY <1>1, <1>3, <2>1, <2>2 DEF RetryInv, TransferStep
<1>4. CASE Kept(ShortFile) /\ RetryUnderWay
  <2>1. toHost \in Seq(Byte) /\ State # "SEND_INIT"
    <3>1. toHost \in {<<>>, <<BYTE_NAK>>, <<BYTE_ACK>>, <<BYTE_CAN>>}
      BY <1>4 DEF RetryUnderWay, AwaitNak, AwaitAck, AwaitEotAck, Answered
    <3>2. State # "SEND_INIT"
      BY <1>4 DEF RetryUnderWay, AwaitNak, AwaitAck, AwaitEotAck, Answered, OnTheWay, InFlight,
                  ReceiveStates
    <3>3. /\ <<>> \in Seq(Byte) /\ <<BYTE_NAK>> \in Seq(Byte) /\ <<BYTE_ACK>> \in Seq(Byte)
          /\ <<BYTE_CAN>> \in Seq(Byte)
      BY ByteAssumption
    <3> QED BY <3>1, <3>2, <3>3
  <2>2. /\ IInv' /\ UNCHANGED <<BlockAddress, Memory, BufferIdx, TerminalBuffer, ReceivedFrameNumber,
                               CurrentFrameNumber>>
        /\ Kept(ShortFile)'
        /\ \/ State # "RECEIVE_INIT" /\ UNCHANGED <<State, toHost>>
           \/ State = "RECEIVE_INIT" /\ RetryTimeout # 0 /\ UNCHANGED <<State, toHost>>
           \/ /\ State = "RECEIVE_INIT" /\ RetryTimeout = 0
              /\ \/ State' = "RECEIVE_INIT" /\ toHost' = toHost \o <<BYTE_NAK>>
                 \/ State' = "OFF" /\ UNCHANGED toHost
        /\ State' = State => Place' = Place /\ \A n, block : Started(n, block)' <=> Started(n, block)
    BY <1>1, <1>2, <1>4, <2>1, ReceiverTicks
  <2>3. CASE host = "AWAIT_NAK"
    <3>1. AwaitNak
      BY <1>4, <2>3 DEF RetryUnderWay
    <3>2. toHost = <<>> => toHost \o <<BYTE_NAK>> = <<BYTE_NAK>>
      <4>1. <<BYTE_NAK>> \in Seq(Byte)
        BY ByteAssumption
      <4> QED BY <4>1, NothingBefore
    <3>3. toHost' \in {<<>>, <<BYTE_NAK>>} /\ State' \in {"RECEIVE_INIT", "OFF"}
      BY <1>1, <2>2, <3>1, <3>2 DEF AwaitNak
    <3>4. AwaitNak'
      BY <1>1, <2>2, <3>1, <3>3 DEF AwaitNak
    <3> QED BY <1>1, <1>2, <2>2, <2>3, <3>4 DEF RetryInv, RetryUnderWay, TransferStep
  <2>4. CASE host = "AWAIT_ACK"
    <3>1. AwaitAck /\ UNCHANGED <<State, toHost>>
      BY <1>1, <1>4, <2>2, <2>4 DEF RetryUnderWay, AwaitAck, Answered
    <3>2. \A block \in Block : OnTheWay(block, ShortFile[acked + 1])
                                 => OnTheWay(block, ShortFile[acked + 1])'
      <4> TAKE block \in Block
      <4> HAVE OnTheWay(block, ShortFile[acked + 1])
      <4>1. PICK sent : sent = ShortFile[acked + 1]
        OBVIOUS
      <4>2. OnTheWay(block, sent)'
        BY <1>1, <1>2, <2>2, <3>1, <4>1, OnTheWayStays
      <4>3. sent = ShortFile[acked' + 1]
        BY <1>1, <4>1
      <4> QED BY <4>2, <4>3 DEF OnTheWay, OneDamaged, OneOff
    <3>3. AwaitAck'
      BY <1>1, <2>2, <3>1, <3>2 DEF AwaitAck, Answered
    <3> QED BY <1>1, <1>2, <2>2, <2>4, <3>3 DEF RetryInv, RetryUnderWay, TransferStep
  <2>5. CASE host = "AWAIT_EOT_ACK"
    <3>1. AwaitEotAck /\ UNCHANGED <<State, toHost>>
      <4>1. AwaitEotAck
        BY <1>4, <2>5 DEF RetryUnderWay
      <4>2. State # "RECEIVE_INIT"
        <5>1. State = "RECEIVE_INIT" => fromHost = <<BYTE_EOT>>
          BY <4>1 DEF AwaitEotAck
        <5>2. <<BYTE_EOT>> # <<>>
          OBVIOUS
        <5> QED BY <1>1, <5>1, <5>2
      <4> QED BY <2>2, <4>1, <4>2
    <3>2. AwaitEotAck'
      BY <1>1, <2>2, <3>1 DEF AwaitEotAck
    <3> QED BY <1>1, <1>2, <2>2, <2>5, <3>2 DEF RetryInv, RetryUnderWay, TransferStep
  <2> QED BY <1>4, <2>3, <2>4, <2>5 DEF RetryUnderWay
<1> QED BY <1>3, <1>4 DEF RetryInv

(* The faults of the line: a damaged byte ...                              *)
LEMMA FirstByteReplaced ==
  ASSUME NEW s \in Seq(Byte), s # <<>>, NEW c \in Byte, NEW r, r = <<c>> \o Tail(s)
  PROVE  /\ r \in Seq(Byte) /\ Len(r) = Len(s) /\ r # <<>>
         /\ r[1] = c /\ \A i \in 1 .. Len(s) : i > 1 => r[i] = s[i]
<1>1. /\ Tail(s) \in Seq(Byte) /\ Len(s) \in Nat \ {0} /\ Len(Tail(s)) = Len(s) - 1
      /\ \A i \in 1 .. Len(s) - 1 : Tail(s)[i] = s[i + 1]
  BY OneByteLess
<1>2. <<c>> \in Seq(Byte) /\ Len(<<c>>) = 1 /\ <<c>>[1] = c
  OBVIOUS
<1> DEFINE one == <<c>>
           rest == Tail(s)
<1> HIDE DEF one, rest
<1>3. /\ one \o rest \in Seq(Byte) /\ Len(one \o rest) = Len(one) + Len(rest)
      /\ \A i \in 1 .. Len(one) + Len(rest) :
           (one \o rest)[i] = IF i <= Len(one) THEN one[i] ELSE rest[i - Len(one)]
  BY <1>1, <1>2, ConcatProperties DEF one, rest
<1>4. r = one \o rest
  BY DEF one, rest
<1>5. Len(one) = 1 /\ one[1] = c /\ Len(rest) = Len(s) - 1
  BY <1>1, <1>2 DEF one, rest
<1>6. \A i \in 1 .. Len(s) : i > 1 => r[i] = s[i]
  <2> TAKE i \in 1 .. Len(s)
  <2> HAVE i > 1
  <2>1. i - 1 \in 1 .. Len(s) - 1 /\ (i - 1) + 1 = i /\ ~(i <= 1) /\ i \in 1 .. 1 + Len(rest)
    BY <1>1, <1>5
  <2>2. rest[i - 1] = s[i]
    BY <1>1, <2>1 DEF rest
  <2> QED BY <1>3, <1>4, <1>5, <2>1, <2>2
<1>7. Len(r) = Len(s) /\ r[1] = c
  <2>1. 1 \in 1 .. Len(one) + Len(rest) /\ 1 <= Len(one) /\ Len(one) + Len(rest) = Len(s)
    BY <1>1, <1>5
  <2> QED BY <1>3, <1>4, <1>5, <2>1
<1>8. r \in Seq(Byte)
  BY <1>3, <1>4
<1>9. r # <<>>
  <2>1. Len(r) # 0
    BY <1>1, <1>7
  <2> QED BY <1>8, <2>1, EmptySeq, Zenon
<1> QED BY <1>6, <1>7, <1>8, <1>9

(* The line damages the byte the device takes next.                        *)
LEMMA RetryDamaged == ASSUME RetryInv, Retry!Damage PROVE RetryInv' /\ TransferStep(ShortFile)
<1>1. /\ State = "RECEIVE_DATA" /\ fromHost # <<>> /\ UNCHANGED <<vars, host, number, acked, toHost>>
      /\ \A i \in 1 .. BufferIdx : TerminalBuffer[i] = ShortFile[acked + 1][i]
      /\ \E c \in Byte : fromHost' = <<c>> \o Tail(fromHost)
  BY SameRetry DEF Retry!Damage, Retry!hostVars, Retry!Byte, Byte
<1>2. PICK c \in Byte : fromHost' = <<c>> \o Tail(fromHost)
  BY <1>1
<1>3. /\ host = "AWAIT_ACK" /\ AwaitAck /\ toHost = <<>> /\ IInv /\ Kept(ShortFile)
      /\ fromHost \in Seq(Byte) /\ \E block \in Block : OnTheWay(block, ShortFile[acked + 1])
  BY <1>1 DEF RetryInv, RetryUnderWay, Over, AwaitNak, AwaitAck, AwaitEotAck
<1>4. PICK block \in Block : OnTheWay(block, ShortFile[acked + 1])
  BY <1>3
<1>5. PICK sent : sent = ShortFile[acked + 1]
  OBVIOUS
<1>6. /\ IInv' /\ UNCHANGED <<State, BlockAddress, Memory, BufferIdx, TerminalBuffer, ReceivedFrameNumber>>
      /\ Place' = Place /\ Kept(ShortFile)'
  BY <1>1, <1>3, DeviceRests
<1>7. /\ fromHost' \in Seq(Byte) /\ Len(fromHost') = Len(fromHost) /\ fromHost' # <<>>
      /\ fromHost'[1] = c /\ \A i \in 1 .. Len(fromHost) : i > 1 => fromHost'[i] = fromHost[i]
  BY <1>1, <1>2, <1>3, FirstByteReplaced
<1>8. /\ XMODEM_BLOCK_SIZE \in Nat \ {0} /\ BufferIdx \in Nat /\ BufferIdx < XMODEM_BLOCK_SIZE
      /\ Place = BufferIdx + 3 /\ BufferIdx + 1 \in 1 .. XMODEM_BLOCK_SIZE
  <2>1. /\ XMODEM_BLOCK_SIZE \in Nat \ {0} /\ BufferIdx \in Nat /\ BufferIdx < XMODEM_BLOCK_SIZE
        /\ Place = BufferIdx + 3
    BY <1>1, <1>3, Sizes DEF IInv, TypeOK, BufferInRange, Place
  <2> QED BY <2>1
<1>9. PICK new \in Block :
        /\ new[BufferIdx + 1] = c
        /\ \A j \in 1 .. XMODEM_BLOCK_SIZE : j # BufferIdx + 1 => new[j] = block[j]
  <2> DEFINE changed == [block EXCEPT ![BufferIdx + 1] = c]
  <2>1. block \in [1 .. XMODEM_BLOCK_SIZE -> Byte] /\ BufferIdx + 1 \in 1 .. XMODEM_BLOCK_SIZE
    BY <1>8 DEF Block
  <2>2. /\ changed \in [1 .. XMODEM_BLOCK_SIZE -> Byte] /\ changed[BufferIdx + 1] = c
        /\ \A j \in 1 .. XMODEM_BLOCK_SIZE : j # BufferIdx + 1 => changed[j] = block[j]
    BY <2>1
  <2> HIDE DEF changed
  <2> QED BY <2>2 DEF Block
<1>10. InFlight(number, block, CalcChecksum(sent))
  BY <1>4, <1>5 DEF OnTheWay
<1>11. /\ ReceivedFrameNumber = number /\ State \in ReceiveStates /\ Len(fromHost) = FrameSize - Place
       /\ \A i \in 1 .. BufferIdx : TerminalBuffer[i] = block[i]
       /\ Lies(fromHost, 0 - Place, number, block, CalcChecksum(sent))
  BY <1>8, <1>10 DEF InFlight, Started
<1>12. OneOff(new, sent, BufferIdx + 1)
  <2> SUFFICES ASSUME NEW j \in 1 .. XMODEM_BLOCK_SIZE, j # BufferIdx + 1 PROVE block[j] = sent[j]
    BY <1>9 DEF OneOff
  <2>1. Place > 2
    BY <1>8
  <2>2. PICK i \in 1 .. XMODEM_BLOCK_SIZE : i <= BufferIdx + 1 /\ OneOff(block, sent, i)
    BY <1>4, <1>5, <2>1 DEF OnTheWay, OneDamaged
  <2>3. CASE j # i
    BY <2>2, <2>3 DEF OneOff
  <2>4. CASE j = i
    <3>1. j \in 1 .. BufferIdx
      BY <1>8, <2>2, <2>4
    <3> QED BY <1>1, <1>5, <1>11, <3>1
  <2> QED BY <2>3, <2>4
<1>13. Lies(fromHost', 0 - Place, number, new, CalcChecksum(sent))
  <2> SUFFICES ASSUME NEW k \in 1 .. FrameSize, (0 - Place) + k \in 1 .. Len(fromHost')
               PROVE  fromHost'[(0 - Place) + k] = FrameByte(number, new, CalcChecksum(sent), k)
    BY DEF Lies
  <2>1. k \in Nat /\ k >= BufferIdx + 4 /\ FrameSize = XMODEM_BLOCK_SIZE + 4 /\ Len(fromHost) \in Nat
        /\ (0 - Place) + k \in 1 .. Len(fromHost)
    BY <1>7, <1>8, Sizes, <1>3
  <2>2. CASE k = BufferIdx + 4
    <3>1. (0 - Place) + k = 1 /\ k \in 4 .. XMODEM_BLOCK_SIZE + 3 /\ k - 3 = BufferIdx + 1
          /\ k # 1 /\ k # 2 /\ k # 3
      BY <1>8, <2>1, <2>2
    <3>2. FrameByte(number, new, CalcChecksum(sent), k) = new[k - 3]
      BY <3>1 DEF FrameByte
    <3> QED BY <1>7, <1>9, <3>1, <3>2
  <2>3. CASE k > BufferIdx + 4
    <3>1. (0 - Place) + k > 1 /\ k # 1 /\ k # 2 /\ k # 3
          /\ (k \in 4 .. XMODEM_BLOCK_SIZE + 3 => k - 3 \in 1 .. XMODEM_BLOCK_SIZE /\ k - 3 # BufferIdx + 1)
      BY <1>8, <2>1, <2>3
    <3>2. FrameByte(number, new, CalcChecksum(sent), k) = FrameByte(number, block, CalcChecksum(sent), k)
      BY <1>9, <3>1 DEF FrameByte
    <3>3. fromHost[(0 - Place) + k] = FrameByte(number, block, CalcChecksum(sent), k)
      BY <1>11, <2>1 DEF Lies
    <3> QED BY <1>7, <2>1, <3>1, <3>2, <3>3
  <2> QED BY <1>8, <2>1, <2>2, <2>3
<1>14. OnTheWay(new, sent)'
  <2>1. Started(number, new)'
    <3>1. \A i \in 1 .. BufferIdx : TerminalBuffer[i] = new[i]
      <4> TAKE i \in 1 .. BufferIdx
      <4>1. i \in 1 .. XMODEM_BLOCK_SIZE /\ i # BufferIdx + 1
        BY <1>8
      <4> QED BY <1>9, <1>11, <4>1
    <3> QED BY <1>1, <1>6, <1>11, <3>1 DEF Started
  <2>2. InFlight(number, new, CalcChecksum(sent))'
    BY <1>1, <1>6, <1>7, <1>11, <1>13, <2>1 DEF InFlight, Lies
  <2>3. OneDamaged(new, sent)'
    BY <1>6, <1>8, <1>12 DEF OneDamaged, OneOff
  <2> QED BY <2>2, <2>3 DEF OnTheWay
<1>15. OnTheWay(new, ShortFile[acked + 1])'
  <2>1. sent = ShortFile[acked' + 1]
    BY <1>1, <1>5
  <2> QED BY <1>14, <2>1 DEF OnTheWay, OneDamaged, OneOff
<1>16. AwaitAck'
  BY <1>1, <1>3, <1>6, <1>7, <1>9, <1>15 DEF AwaitAck
<1> QED BY <1>1, <1>3, <1>6, <1>7, <1>16 DEF RetryInv, RetryUnderWay, TransferStep

(* ... or a lost answer.                                                   *)
LEMMA RetryLoses == ASSUME RetryInv, Retry!LoseAnswer PROVE RetryInv' /\ TransferStep(ShortFile)
<1>1. /\ host \in {"AWAIT_ACK", "AWAIT_EOT_ACK"} /\ toHost # <<>> /\ toHost' = Tail(toHost)
      /\ UNCHANGED <<vars, host, number, acked, fromHost>>
  BY SameRetry DEF Retry!LoseAnswer, Retry!hostVars
<1>2. IInv' /\ UNCHANGED <<State, BlockAddress, Memory>> /\ (Kept(ShortFile)' <=> Kept(ShortFile))
  BY <1>1, DeviceRests DEF RetryInv
<1>3. Kept(ShortFile) /\ RetryUnderWay
  BY <1>1 DEF RetryInv, Over
<1>4. \A c : Tail(<<c>>) = <<>>
  OBVIOUS
<1>5. CASE host = "AWAIT_ACK"
  <2>1. AwaitAck /\ Answered /\ fromHost = <<>>
    BY <1>1, <1>3, <1>5 DEF RetryUnderWay, AwaitAck
  <2>2. toHost \in {<<BYTE_NAK>>, <<BYTE_CAN>>, <<BYTE_ACK>>}
    BY <1>1, <2>1 DEF Answered
  <2>3. toHost' = <<>>
    BY <1>1, <1>4, <2>2
  <2>4. AwaitAck'
    BY <1>1, <1>2, <2>1, <2>3 DEF AwaitAck, Answered
  <2> QED BY <1>1, <1>2, <1>3, <1>5, <2>4 DEF RetryInv, RetryUnderWay, TransferStep
<1>6. CASE host = "AWAIT_EOT_ACK"
  <2>1. AwaitEotAck /\ toHost = <<BYTE_ACK>> /\ fromHost = <<>>
    BY <1>1, <1>3, <1>6 DEF RetryUnderWay, AwaitEotAck
  <2>2. toHost' = <<>>
    BY <1>1, <1>4, <2>1
  <2>3. AwaitEotAck'
    BY <1>1, <1>2, <2>1, <2>2 DEF AwaitEotAck
  <2> QED BY <1>1, <1>2, <1>3, <1>6, <2>3 DEF RetryInv, RetryUnderWay, TransferStep
<1> QED BY <1>1, <1>5, <1>6

(* Nobody answers any more.                                                *)
LEMMA RetryGivesUp == ASSUME RetryInv, Retry!HostGiveUp PROVE RetryInv' /\ TransferStep(ShortFile)
<1>1. /\ host \in Reading /\ fromHost = <<>> /\ UNCHANGED <<vars, number, acked, fromHost>>
      /\ host' = "FAILED"
  BY SameRetry DEF Retry!HostGiveUp, Retry!HostReading, Reading
<1> QED BY <1>1, RetryStops

(* Every action of a repeating sender and its line.                        *)
LEMMA RetryStep == ASSUME RetryInv, Retry!RetryNext PROVE RetryInv' /\ TransferStep(ShortFile)
BY RetryStarts, RetryReads, RetryTimesOut, RetryGivesUp, RetryTakes, RetryTicks, RetryDamaged,
   RetryLoses DEF Retry!RetryNext

(* A step of which a repeating sender sees nothing.                        *)
LEMMA RetryRests ==
  ASSUME RetryInv, UNCHANGED <<vars, host, number, acked, fromHost, toHost>>
  PROVE  RetryInv' /\ TransferStep(ShortFile)
<1>1. /\ IInv' /\ UNCHANGED <<State, BlockAddress, Memory, BufferIdx>> /\ Place' = Place
      /\ \A n, block : Started(n, block)' <=> Started(n, block)
      /\ (Kept(ShortFile)' <=> Kept(ShortFile))
  BY DeviceRests DEF RetryInv
<1>2. AwaitNak' <=> AwaitNak
  BY <1>1 DEF AwaitNak
<1>3. AwaitEotAck' <=> AwaitEotAck
  BY <1>1 DEF AwaitEotAck
<1>4. \A block \in Block : OnTheWay(block, ShortFile[acked + 1])
                             => OnTheWay(block, ShortFile[acked + 1])'
  BY <1>1 DEF OnTheWay, InFlight, Lies, OneDamaged, OneOff
<1>5. AwaitAck => AwaitAck'
  BY <1>1, <1>4 DEF AwaitAck, Answered
<1> QED BY <1>1, <1>2, <1>3, <1>5 DEF RetryInv, RetryUnderWay, TransferStep

-----------------------------------------------------------------------------
(***************************************************************************)
(* Blocks of a file, in the order of the file.                             *)
(***************************************************************************)
(* Every one of the blocks is a block of the file before its p-th, and a   *)
(* later one stands later in the file.                                     *)
InOrderBelow(blocks, file, p) ==
  \E t \in [DOMAIN blocks -> 1 .. p - 1] :
    /\ \A i, j \in DOMAIN blocks : i < j => t[i] < t[j]
    /\ \A i \in DOMAIN blocks : blocks[i] = file[t[i]]

(* No blocks are in order.                                                 *)
LEMMA NothingInOrder ==
  ASSUME NEW blocks, DOMAIN blocks = {}, NEW file, NEW p
  PROVE  InOrderBelow(blocks, file, p)
<1> DEFINE t == [i \in DOMAIN blocks |-> i]
<1>1. t \in [DOMAIN blocks -> 1 .. p - 1]
  OBVIOUS
<1> QED BY <1>1 DEF InOrderBelow

(* A later bound is a weaker one.                                          *)
LEMMA InOrderStays ==
  ASSUME NEW blocks, NEW file, NEW p \in Nat, NEW q \in Nat, p <= q, InOrderBelow(blocks, file, p)
  PROVE  InOrderBelow(blocks, file, q)
<1>1. PICK t \in [DOMAIN blocks -> 1 .. p - 1] :
        /\ \A i, j \in DOMAIN blocks : i < j => t[i] < t[j]
        /\ \A i \in DOMAIN blocks : blocks[i] = file[t[i]]
  BY DEF InOrderBelow
<1>2. 1 .. p - 1 \subseteq 1 .. q - 1
  OBVIOUS
<1>3. t \in [DOMAIN blocks -> 1 .. q - 1]
  BY <1>2
<1> QED BY <1>1, <1>3 DEF InOrderBelow

(* The p-th block of the file comes behind all of them.                    *)
LEMMA OneMoreInOrder ==
  ASSUME NEW blocks, NEW file, NEW p \in Nat \ {0}, InOrderBelow(blocks, file, p),
         DOMAIN blocks \subseteq Nat, NEW k \in Nat, \A i \in DOMAIN blocks : i < k,
         NEW more, DOMAIN more = DOMAIN blocks \cup {k},
         \A i \in DOMAIN blocks : more[i] = blocks[i], more[k] = file[p]
  PROVE  InOrderBelow(more, file, p + 1)
<1>1. PICK t \in [DOMAIN blocks -> 1 .. p - 1] :
        /\ \A i, j \in DOMAIN blocks : i < j => t[i] < t[j]
        /\ \A i \in DOMAIN blocks : blocks[i] = file[t[i]]
  BY DEF InOrderBelow
<1> DEFINE u == [i \in DOMAIN more |-> IF i = k THEN p ELSE t[i]]
<1>2. \A i \in DOMAIN blocks : i # k /\ t[i] \in 1 .. p - 1 /\ t[i] < p /\ t[i] \in 1 .. p
  <2> TAKE i \in DOMAIN blocks
  <2>1. t[i] \in 1 .. p - 1 /\ i < k /\ i \in Nat
    OBVIOUS
  <2> QED BY <2>1
<1>3. \A i \in DOMAIN more : u[i] = IF i = k THEN p ELSE t[i]
  OBVIOUS
<1>4. u \in [DOMAIN more -> 1 .. (p + 1) - 1]
  <2>1. p \in 1 .. p /\ (p + 1) - 1 = p
    OBVIOUS
  <2> SUFFICES ASSUME NEW i \in DOMAIN more PROVE (IF i = k THEN p ELSE t[i]) \in 1 .. p
    BY <2>1
  <2> QED BY <1>2, <2>1
<1> HIDE DEF u
<1>5. ASSUME NEW i \in DOMAIN more, NEW j \in DOMAIN more, i < j PROVE u[i] < u[j]
  <2>1. i \in DOMAIN blocks
    <3>1. i = k => j \in DOMAIN blocks /\ ~(j < k)
      BY <1>5
    <3> QED BY <3>1
  <2>2. CASE j = k
    BY <1>2, <1>3, <2>1, <2>2
  <2>3. CASE j \in DOMAIN blocks
    BY <1>1, <1>2, <1>3, <1>5, <2>1, <2>3
  <2> QED BY <2>2, <2>3
<1>6. \A i \in DOMAIN more : more[i] = file[u[i]]
  <2> TAKE i \in DOMAIN more
  <2>1. CASE i = k
    BY <1>3, <2>1
  <2>2. CASE i \in DOMAIN blocks
    BY <1>1, <1>2, <1>3, <2>2
  <2> QED BY <2>1, <2>2
<1> QED BY <1>4, <1>5, <1>6 DEF InOrderBelow

(* Blocks in order are what InFileOrder asks for.                          *)
LEMMA InOrderIsFileOrder ==
  ASSUME NEW blocks, NEW file, NEW p \in Nat, InOrderBelow(blocks, file, p),
         NEW n \in Nat, DOMAIN file = 1 .. n, p <= n + 1
  PROVE  InFileOrder(blocks, file)
<1>1. PICK t \in [DOMAIN blocks -> 1 .. p - 1] :
        /\ \A i, j \in DOMAIN blocks : i < j => t[i] < t[j]
        /\ \A i \in DOMAIN blocks : blocks[i] = file[t[i]]
  BY DEF InOrderBelow
<1>2. 1 .. p - 1 \subseteq 1 .. n
  OBVIOUS
<1>3. \A i \in DOMAIN blocks : t[i] \in DOMAIN file
  BY <1>2
<1>4. Range(blocks) \subseteq Range(file)
  BY <1>1, <1>3 DEF Range
<1>5. ASSUME NEW i \in DOMAIN blocks, NEW j \in DOMAIN blocks, i < j
      PROVE  \E k, l \in DOMAIN file : k < l /\ blocks[i] = file[k] /\ blocks[j] = file[l]
  BY <1>1, <1>3, <1>5
<1> QED BY <1>4, <1>5 DEF InFileOrder

(* What is left of a sequence behind its first m elements.                 *)
LEMMA RestOfSeq ==
  ASSUME NEW S, NEW s \in Seq(S), NEW m \in Nat, m <= Len(s)
  PROVE  /\ Len(s) \in Nat /\ SubSeq(s, m + 1, Len(s)) \in Seq(S)
         /\ Len(SubSeq(s, m + 1, Len(s))) = Len(s) - m
         /\ \A i \in 1 .. Len(s) - m : SubSeq(s, m + 1, Len(s))[i] = s[m + i]
<1>1. Len(s) \in Nat
  BY LenProperties
<1>2. \A i \in m + 1 .. Len(s) : i \in 1 .. Len(s)
  BY <1>1
<1> DEFINE r == SubSeq(s, m + 1, Len(s))
<1>3. /\ r \in Seq(S)
      /\ Len(r) = IF m + 1 <= Len(s) THEN Len(s) - (m + 1) + 1 ELSE 0
      /\ \A i \in 1 .. Len(s) - (m + 1) + 1 : r[i] = s[(m + 1) + i - 1]
  BY <1>1, <1>2, SubSeqProperties
<1> HIDE DEF r
<1>4. Len(r) = Len(s) - m
  BY <1>1, <1>3
<1>5. \A i \in 1 .. Len(s) - m : r[i] = s[m + i]
  <2> TAKE i \in 1 .. Len(s) - m
  <2>1. i \in 1 .. Len(s) - (m + 1) + 1 /\ (m + 1) + i - 1 = m + i
    BY <1>1
  <2> QED BY <1>3, <2>1
<1> QED BY <1>1, <1>3, <1>4, <1>5 DEF r

(* The line moves on by the m bytes that a read returns.                   *)
LEMMA LiesRest ==
  ASSUME NEW s \in Seq(Byte), NEW m \in Nat, m <= Len(s), NEW from \in Int,
         NEW n, NEW block, NEW sum, Lies(s, from, n, block, sum)
  PROVE  Lies(SubSeq(s, m + 1, Len(s)), from - m, n, block, sum)
<1> DEFINE r == SubSeq(s, m + 1, Len(s))
<1>1. /\ Len(s) \in Nat /\ Len(r) = Len(s) - m
      /\ \A i \in 1 .. Len(s) - m : r[i] = s[m + i]
  BY RestOfSeq
<1> HIDE DEF r
<1> SUFFICES ASSUME NEW k \in 1 .. FrameSize, (from - m) + k \in 1 .. Len(r)
             PROVE  r[(from - m) + k] = FrameByte(n, block, sum, k)
  BY DEF Lies, r
<1>2. k \in Nat
  BY Sizes
<1>3. from + k \in 1 .. Len(s) /\ m + ((from - m) + k) = from + k /\ (from - m) + k \in 1 .. Len(s) - m
  BY <1>1, <1>2
<1>4. s[from + k] = FrameByte(n, block, sum, k)
  BY <1>3 DEF Lies
<1> QED BY <1>1, <1>3, <1>4

(* A block that is one byte off at most and has the checksum of the block  *)
(* sent is that block.                                                     *)
LEMMA ChecksumMatches ==
  ASSUME NEW a \in Block, NEW b \in Block, CalcChecksum(a) = CalcChecksum(b),
         NEW i \in 1 .. XMODEM_BLOCK_SIZE, OneOff(a, b, i)
  PROVE  a = b
BY OneByteChangesChecksum DEF OneOff

-----------------------------------------------------------------------------
(***************************************************************************)
(* The download to ChamTool: at most one frame or one request is under     *)
(* way.                                                                    *)
(***************************************************************************)
DownFile == [i \in 1 .. MEMORY_BLOCKS |-> InitialMemory[i - 1]]
Receiving == {"PKT_ID", "HEADER", "DATA", "CHECKSUM"}

(* How much of a frame the host has taken off the line.                    *)
HostPlace ==
  CASE host = "HEADER"   -> 1
    [] host = "DATA"     -> 3
    [] host = "CHECKSUM" -> XMODEM_BLOCK_SIZE + 3
    [] OTHER             -> 0

(* The host has asked for the next frame.  Over an undamaged line that is  *)
(* the one it counts on.                                                   *)
Asked ==
  /\ host = "PKT_ID" /\ toHost = <<>> /\ State \in {"SEND_INIT", "OFF"}
  /\ \/ /\ fromHost = <<BYTE_NAK>>
        /\ damage = 0 => BlockAddress = 0 /\ packetCounter = FIRST_FRAME_NUMBER
     \/ /\ fromHost = <<BYTE_ACK>>
        /\ damage = 0 => packetCounter = Inc(CurrentFrameNumber)
  /\ damage = 0 => Len(received) = BlockAddress

(* The device has sent it: what the host has not read yet is on the line,  *)
(* one byte at most not what was sent.                                     *)
Served(block) ==
  /\ host \in Receiving /\ fromHost = <<>> /\ State \in {"SEND_INIT", "OFF"}
  /\ BlockAddress > 0 /\ InOrderBelow(received, DownFile, BlockAddress)
  /\ Len(toHost) = FrameSize - HostPlace
  /\ Lies(toHost, 0 - HostPlace, CurrentFrameNumber, block, CalcChecksum(DownFile[BlockAddress]))
  /\ IF HostPlace > 1
     THEN /\ packetCounter = CurrentFrameNumber
          /\ \E i \in 1 .. XMODEM_BLOCK_SIZE : OneOff(block, DownFile[BlockAddress], i)
     ELSE block = DownFile[BlockAddress]
  /\ host = "CHECKSUM" => hostBlock = block
  /\ damage = 0 => /\ block = DownFile[BlockAddress] /\ packetCounter = CurrentFrameNumber
                   /\ Len(received) = BlockAddress - 1

Ended ==
  /\ host = "PKT_ID" /\ fromHost = <<>> /\ toHost = <<BYTE_EOT>> /\ State = "SEND_EOT"
  /\ damage = 0 => Len(received) = MEMORY_BLOCKS

(* The host has lost its place in the frames: with too little on the line  *)
(* for another block it runs into its timeout.                             *)
Stuck ==
  /\ fromHost = <<>>
  /\ \/ host = "PKT_ID" /\ Len(toHost) <= XMODEM_BLOCK_SIZE + 1
     \/ host = "HEADER" /\ Len(toHost) <= XMODEM_BLOCK_SIZE
     \/ host = "DATA"   /\ Len(toHost) + 2 <= XMODEM_BLOCK_SIZE
  /\ damage = 0 => toHost = <<>>

DownUnderWay == Asked \/ (\E block \in Block : Served(block)) \/ Ended \/ Stuck

DownTypes ==
  /\ IInv /\ fromHost \in Seq(Byte) /\ toHost \in Seq(Byte)
  /\ Memory = InitialMemory /\ State \in {"OFF", "SEND_INIT", "SEND_EOT"}
  /\ BlockAddress \in 0 .. MEMORY_BLOCKS
  /\ packetCounter \in Byte /\ damage \in Nat /\ received \in Seq(Block)

DownInv ==
  /\ DownTypes
  /\ InOrderBelow(received, DownFile, BlockAddress + 1)
  /\ damage = 0 => \A i \in 1 .. Len(received) : received[i] = DownFile[i]
  /\ host \in {"IDLE", "DONE", "BROKEN"} \/ DownUnderWay

(* What the host sees of a download.                                       *)
DownStep ==
  \/ host \in {"IDLE", "DONE"} /\ host' \in Receiving /\ received' = <<>>
  \/ /\ host' = host \/ (host \in Receiving /\ host' \in Receiving)
     /\ UNCHANGED received
  \/ /\ host \in Receiving /\ host' \in {"DONE", "BROKEN"}
     /\ UNCHANGED received
     /\ damage = 0 /\ host' = "DONE" => received = DownFile
  \/ /\ host \in Receiving /\ host' \in Receiving
     /\ damage = 0 => Len(received) < MEMORY_BLOCKS
                      /\ received' = Append(received, DownFile[Len(received) + 1])

(* The file of a download is the memory as it was at first.                *)
LEMMA DownFileFacts ==
  /\ DownFile \in Seq(Block) /\ Len(DownFile) = MEMORY_BLOCKS /\ DOMAIN DownFile = 1 .. MEMORY_BLOCKS
  /\ \A i \in 1 .. MEMORY_BLOCKS : DownFile[i] \in Block /\ DownFile[i] = InitialMemory[i - 1]
<1>1. MEMORY_BLOCKS \in Nat /\ InitialMemory \in [0 .. MEMORY_BLOCKS - 1 -> Block]
  BY Sizes, MemoryAssumption
<1>2. \A i \in 1 .. MEMORY_BLOCKS : i - 1 \in 0 .. MEMORY_BLOCKS - 1
  BY <1>1
<1>3. DownFile \in [1 .. MEMORY_BLOCKS -> Block]
  BY <1>1, <1>2 DEF DownFile
<1>4. DownFile \in Seq(Block)
  BY <1>1, <1>3, SeqDef
<1>5. Len(DownFile) \in Nat /\ DOMAIN DownFile = 1 .. Len(DownFile) /\ DOMAIN DownFile = 1 .. MEMORY_BLOCKS
  BY <1>3, <1>4, LenProperties
<1>6. Len(DownFile) = MEMORY_BLOCKS
  <2>1. \A m, n \in Nat : 1 .. m = 1 .. n => m = n
    <3> SUFFICES ASSUME NEW m \in Nat, NEW n \in Nat, 1 .. m = 1 .. n, m # n PROVE FALSE
      OBVIOUS
    <3>1. CASE m < n
      <4>1. n \in 1 .. n /\ n \notin 1 .. m
        BY <3>1
      <4> QED BY <4>1
    <3>2. CASE n < m
      <4>1. m \in 1 .. m /\ m \notin 1 .. n
        BY <3>2
      <4> QED BY <4>1
    <3> QED BY <3>1, <3>2
  <2> QED BY <1>1, <1>5, <2>1
<1> QED BY <1>3, <1>4, <1>5, <1>6 DEF DownFile

(* A prompt, undamaged download is a special case of the other one.        *)
LEMMA DownIsDownSlow ==
  /\ Down!StartDownload => DownSlow!StartDownload
  /\ Down!HostRead => DownSlow!HostRead
  /\ Down!HostTimeout => DownSlow!HostTimeout
  /\ Down!DeviceByte => DownSlow!DeviceByte
  /\ Down!Tick => DownSlow!Tick
<1>1. Down!StartDownload => DownSlow!StartDownload
  BY SameDown, SameDownSlow DEF Down!StartDownload, DownSlow!StartDownload
<1>2. Down!HostRead => DownSlow!HostRead
  BY SameDown, SameDownSlow
     DEF Down!HostRead, DownSlow!HostRead, Down!HostReading, DownSlow!HostReading,
         Down!ReadSize, DownSlow!ReadSize, Down!HostPktId, DownSlow!HostPktId,
         Down!HostHeader, DownSlow!HostHeader, Down!HostData, DownSlow!HostData,
         Down!HostChecksum, DownSlow!HostChecksum, Down!HostWrite, DownSlow!HostWrite
<1>3. Down!HostTimeout => DownSlow!HostTimeout
  BY SameDown, SameDownSlow
     DEF Down!HostTimeout, DownSlow!HostTimeout, Down!HostReading, DownSlow!HostReading,
         Down!ReadSize, DownSlow!ReadSize
<1>4. Down!DeviceByte => DownSlow!DeviceByte
  BY SameDown, SameDownSlow DEF Down!DeviceByte, DownSlow!DeviceByte, Down!hostVars, DownSlow!hostVars
<1>5. Down!Tick => DownSlow!Tick
  BY SameDown, SameDownSlow DEF Down!Tick, DownSlow!Tick, Down!HostReading, DownSlow!HostReading
<1> QED BY <1>1, <1>2, <1>3, <1>4, <1>5

(* DOWNLOAD on an idle line; the host opens with a NAK.                    *)
LEMMA DownStarts == ASSUME DownInv, DownSlow!StartDownload
                    PROVE  DownInv' /\ DownStep /\ UNCHANGED damage
<1>1. /\ XModemSend /\ fromHost = <<>> /\ toHost = <<>> /\ host \in {"IDLE", "DONE"}
      /\ host' = "PKT_ID" /\ packetCounter' = 1 /\ received' = <<>>
      /\ fromHost' = <<BYTE_NAK>> /\ toHost' = <<>> /\ damage' = damage
  BY SameDownSlow DEF DownSlow!StartDownload
<1>2. IInv'
  BY <1>1, CommandsPreserve DEF DownInv, DownTypes
<1>3. BlockAddress' = 0 /\ State' = "SEND_INIT" /\ Memory' = Memory
  BY <1>1 DEF XModemSend
<1>4. /\ <<BYTE_NAK>> \in Seq(Byte) /\ <<>> \in Seq(Byte) /\ <<>> \in Seq(Block) /\ 1 \in Byte
      /\ Len(<<>>) = 0 /\ 0 \in 0 .. MEMORY_BLOCKS
  BY ByteAssumption, FirstNumber, Sizes
<1>5. InOrderBelow(<<>>, DownFile, 0 + 1)
  BY NothingInOrder
<1>6. Asked'
  BY <1>1, <1>3, <1>4, FirstNumber DEF Asked
<1>7. DownTypes'
  BY <1>1, <1>2, <1>3, <1>4 DEF DownInv, DownTypes
<1>8. InOrderBelow(received, DownFile, BlockAddress + 1)'
  BY <1>1, <1>3, <1>5 DEF InOrderBelow
<1>9. \A i \in 1 .. Len(received') : received'[i] = DownFile[i]
  BY <1>1, <1>4
<1>10. DownStep
  BY <1>1 DEF DownStep, Receiving
<1> QED BY <1>6, <1>7, <1>8, <1>9, <1>10, <1>1 DEF DownInv, DownUnderWay

(* A read that comes back short breaks the download off.                   *)
LEMMA DownTimesOut == ASSUME DownInv, DownSlow!HostTimeout
                      PROVE  DownInv' /\ DownStep /\ UNCHANGED damage
<1>1. /\ host \in Receiving /\ host' = "BROKEN" /\ toHost' = <<>> /\ UNCHANGED vars
      /\ UNCHANGED <<packetCounter, received, fromHost, damage>>
  BY SameDownSlow DEF DownSlow!HostTimeout, DownSlow!HostReading, Receiving
<1>2. IInv' /\ UNCHANGED <<State, BlockAddress, Memory>> /\ <<>> \in Seq(Byte)
  BY <1>1, DeviceRests DEF DownInv, DownTypes
<1> QED BY <1>1, <1>2 DEF DownInv, DownTypes, DownStep, InOrderBelow

(* A tick may end the transfer, and counts the time of a read.             *)
LEMMA DownTicks == ASSUME DownInv, DownSlow!Tick
                   PROVE  DownInv' /\ DownStep /\ UNCHANGED damage
<1>1. /\ \/ XModemTick /\ toHost' = toHost \o out'
         \/ State \notin {"RECEIVE_INIT", "SEND_INIT"} /\ UNCHANGED <<vars, toHost>>
      /\ UNCHANGED <<host, packetCounter, hostBlock, received, fromHost, damage>>
  BY SameDownSlow DEF DownSlow!Tick
<1>2. /\ IInv /\ toHost \in Seq(Byte) /\ State \in {"OFF", "SEND_INIT", "SEND_EOT"}
  BY DEF DownInv, DownTypes
<1>3. /\ IInv' /\ UNCHANGED <<BlockAddress, Memory, CurrentFrameNumber, toHost>>
      /\ State' = State \/ (State = "SEND_INIT" /\ State' = "OFF")
  <2>1. CASE State \notin {"RECEIVE_INIT", "SEND_INIT"} /\ UNCHANGED <<vars, toHost>>
    BY <1>2, <2>1, DeviceRests
  <2>2. CASE XModemTick /\ toHost' = toHost \o out'
    <3>1. SendTick
      BY <1>2, <2>2 DEF XModemTick, ReceiveTick
    <3>2. out' = <<>> /\ UNCHANGED <<BlockAddress, Memory, CurrentFrameNumber>>
          /\ (State' = State \/ (State = "SEND_INIT" /\ State' = "OFF"))
      BY <3>1 DEF SendTick
    <3>3. toHost \o <<>> = toHost
      BY <1>2, ConcatEmptySeq
    <3> QED BY <1>2, <2>2, <3>2, <3>3, TickPreserves
  <2> QED BY <1>1, <2>1, <2>2
<1>4. DownTypes'
  BY <1>1, <1>3 DEF DownInv, DownTypes
<1>5. Asked => Asked'
  BY <1>1, <1>3 DEF Asked
<1>6. \A block \in Block : Served(block) => Served(block)'
  BY <1>1, <1>3 DEF Served, Lies, HostPlace, InOrderBelow, OneOff
<1>7. Ended => Ended'
  BY <1>1, <1>3 DEF Ended
<1>8. Stuck => Stuck'
  BY <1>1, <1>3 DEF Stuck
<1>9. InOrderBelow(received, DownFile, BlockAddress + 1)'
  BY <1>1, <1>3 DEF DownInv, InOrderBelow
<1>10. DownUnderWay => DownUnderWay'
  BY <1>5, <1>6, <1>7, <1>8 DEF DownUnderWay
<1> QED BY <1>1, <1>4, <1>9, <1>10 DEF DownInv, DownStep

-----------------------------------------------------------------------------
(* The reads of the host.                                                  *)
LEMMA BlockIsSeq ==
  ASSUME NEW block \in Block
  PROVE  block \in Seq(Byte) /\ Len(block) = XMODEM_BLOCK_SIZE
<1>1. block \in [1 .. XMODEM_BLOCK_SIZE -> Byte] /\ XMODEM_BLOCK_SIZE \in Nat
  BY Sizes DEF Block
<1>2. block \in Seq(Byte)
  BY <1>1, SeqDef
<1>3. Len(block) \in Nat /\ DOMAIN block = 1 .. Len(block) /\ DOMAIN block = 1 .. XMODEM_BLOCK_SIZE
  BY <1>1, <1>2, LenProperties
<1> QED BY <1>1, <1>2, <1>3

(* What every read of the host leaves alone, and what it leaves on the     *)
(* line.                                                                   *)
LEMMA DownReadFacts ==
  ASSUME DownInv, DownSlow!HostRead
  PROVE  /\ host \in Receiving /\ UNCHANGED damage
         /\ IInv' /\ UNCHANGED <<State, BlockAddress, Memory, CurrentFrameNumber>>
         /\ toHost' \in Seq(Byte) /\ Len(toHost) \in Nat
         /\ host = "PKT_ID" => /\ 1 <= Len(toHost) /\ toHost' = SubSeq(toHost, 1 + 1, Len(toHost))
                               /\ DownSlow!HostPktId(toHost[1])
         /\ host = "HEADER" => /\ 2 <= Len(toHost) /\ toHost' = SubSeq(toHost, 2 + 1, Len(toHost))
                               /\ DownSlow!HostHeader(toHost[1], toHost[2])
         /\ host = "DATA" =>
              /\ XMODEM_BLOCK_SIZE <= Len(toHost)
              /\ toHost' = SubSeq(toHost, XMODEM_BLOCK_SIZE + 1, Len(toHost))
              /\ DownSlow!HostData(SubSeq(toHost, 1, XMODEM_BLOCK_SIZE))
         /\ host = "CHECKSUM" => /\ 1 <= Len(toHost) /\ toHost' = SubSeq(toHost, 1 + 1, Len(toHost))
                                 /\ DownSlow!HostChecksum(toHost[1])
<1>1. /\ host \in Receiving /\ UNCHANGED <<vars, damage>> /\ Len(toHost) >= DownSlow!ReadSize
      /\ \/ DownSlow!HostPktId(toHost[1])
         \/ host = "HEADER" /\ DownSlow!HostHeader(toHost[1], toHost[2])
         \/ DownSlow!HostData(SubSeq(toHost, 1, XMODEM_BLOCK_SIZE))
         \/ DownSlow!HostChecksum(toHost[1])
      /\ toHost' = SubSeq(toHost, DownSlow!ReadSize + 1, Len(toHost))
  BY SameDownSlow DEF DownSlow!HostRead, DownSlow!HostReading, Receiving
<1>2. /\ IInv' /\ UNCHANGED <<State, BlockAddress, Memory, CurrentFrameNumber>>
  BY <1>1, DeviceRests DEF DownInv, DownTypes
<1>3. /\ host = "PKT_ID" => DownSlow!ReadSize = 1
      /\ host = "HEADER" => DownSlow!ReadSize = 2
      /\ host = "DATA" => DownSlow!ReadSize = XMODEM_BLOCK_SIZE
      /\ host = "CHECKSUM" => DownSlow!ReadSize = 1
  BY DEF DownSlow!ReadSize
<1>4. toHost \in Seq(Byte) /\ Len(toHost) \in Nat /\ XMODEM_BLOCK_SIZE \in Nat
  BY Sizes, LenProperties DEF DownInv, DownTypes
<1>5. DownSlow!ReadSize \in Nat /\ DownSlow!ReadSize <= Len(toHost)
  BY <1>1, <1>3, <1>4 DEF Receiving
<1>6. toHost' \in Seq(Byte)
  BY <1>1, <1>4, <1>5, RestOfSeq
<1>7. /\ DownSlow!HostPktId(toHost[1]) => host = "PKT_ID"
      /\ DownSlow!HostHeader(toHost[1], toHost[2]) => host = "HEADER"
      /\ DownSlow!HostData(SubSeq(toHost, 1, XMODEM_BLOCK_SIZE)) => host = "DATA"
      /\ DownSlow!HostChecksum(toHost[1]) => host = "CHECKSUM"
  BY DEF DownSlow!HostPktId, DownSlow!HostHeader, DownSlow!HostData, DownSlow!HostChecksum
<1>8. /\ host = "PKT_ID" => DownSlow!HostPktId(toHost[1])
      /\ host = "HEADER" => DownSlow!HostHeader(toHost[1], toHost[2])
      /\ host = "DATA" => DownSlow!HostData(SubSeq(toHost, 1, XMODEM_BLOCK_SIZE))
      /\ host = "CHECKSUM" => DownSlow!HostChecksum(toHost[1])
  BY <1>1, <1>7
<1>9. /\ host = "PKT_ID" => 1 <= Len(toHost) /\ toHost' = SubSeq(toHost, 1 + 1, Len(toHost))
      /\ host = "HEADER" => 2 <= Len(toHost) /\ toHost' = SubSeq(toHost, 2 + 1, Len(toHost))
      /\ host = "DATA" => /\ XMODEM_BLOCK_SIZE <= Len(toHost)
                          /\ toHost' = SubSeq(toHost, XMODEM_BLOCK_SIZE + 1, Len(toHost))
      /\ host = "CHECKSUM" => 1 <= Len(toHost) /\ toHost' = SubSeq(toHost, 1 + 1, Len(toHost))
  BY <1>1, <1>3, <1>5
<1> QED BY <1>1, <1>2, <1>4, <1>6, <1>8, <1>9

(* The bytes on the line are those of the frame behind the host's place.   *)
LEMMA ServedByte ==
  ASSUME DownInv, NEW block, Served(block), NEW k \in 1 .. FrameSize, k > HostPlace
  PROVE  /\ k - HostPlace \in 1 .. Len(toHost)
         /\ toHost[k - HostPlace] = FrameByte(CurrentFrameNumber, block, CalcChecksum(DownFile[BlockAddress]), k)
<1>1. HostPlace \in Nat /\ FrameSize \in Nat /\ k \in Nat
  BY Sizes DEF HostPlace
<1>2. (0 - HostPlace) + k = k - HostPlace /\ k - HostPlace \in 1 .. FrameSize - HostPlace
  BY <1>1
<1>3. k - HostPlace \in 1 .. Len(toHost)
  BY <1>2 DEF Served
<1> QED BY <1>2, <1>3 DEF Served, Lies

(* SOH, the first byte of a frame.                                         *)
LEMMA ReadsPktId ==
  ASSUME DownInv, DownSlow!HostRead, NEW block \in Block, Served(block), host = "PKT_ID"
  PROVE  DownInv' /\ DownStep /\ UNCHANGED damage
<1>1. /\ UNCHANGED <<State, BlockAddress, Memory, CurrentFrameNumber, damage>> /\ IInv'
      /\ toHost' \in Seq(Byte) /\ 1 <= Len(toHost) /\ toHost' = SubSeq(toHost, 1 + 1, Len(toHost))
      /\ DownSlow!HostPktId(toHost[1])
  BY DownReadFacts
<1>2. HostPlace = 0 /\ 1 \in 1 .. FrameSize /\ 1 > HostPlace /\ 1 - HostPlace = 1 /\ FrameSize \in Nat
  BY Sizes DEF HostPlace
<1>3. toHost[1] = BYTE_SOH
  <2>1. toHost[1] = FrameByte(CurrentFrameNumber, block, CalcChecksum(DownFile[BlockAddress]), 1)
    BY <1>2, ServedByte
  <2> QED BY <2>1 DEF FrameByte
<1>4. host' = "HEADER" /\ UNCHANGED <<packetCounter, hostBlock, received, fromHost>>
  BY <1>1, <1>3, ByteAssumption DEF DownSlow!HostPktId
<1>5. Len(toHost') = FrameSize - 1 /\ HostPlace' = 1
  <2>1. toHost \in Seq(Byte) /\ Len(toHost) = FrameSize - 0
    BY <1>2 DEF DownInv, DownTypes, Served
  <2>2. Len(toHost') = Len(toHost) - 1
    BY <1>1, <2>1, RestOfSeq
  <2>3. HostPlace' = 1
    BY <1>4 DEF HostPlace
  <2> QED BY <1>2, <2>1, <2>2, <2>3
<1>6. PICK sum : sum = CalcChecksum(DownFile[BlockAddress])
  OBVIOUS
<1>7. Lies(toHost', 0 - 1, CurrentFrameNumber, block, sum)
  <2>1. Lies(toHost, 0, CurrentFrameNumber, block, sum) /\ toHost \in Seq(Byte) /\ 0 - 0 = 0
    BY <1>2, <1>6 DEF Served, DownInv, DownTypes
  <2>2. Lies(SubSeq(toHost, 1 + 1, Len(toHost)), 0 - 1, CurrentFrameNumber, block, sum)
    BY <1>1, <2>1, LiesRest
  <2> QED BY <1>1, <2>2
<1>8. /\ block = DownFile[BlockAddress] /\ InOrderBelow(received, DownFile, BlockAddress)
      /\ BlockAddress > 0 /\ State \in {"SEND_INIT", "OFF"} /\ fromHost = <<>>
      /\ damage = 0 => packetCounter = CurrentFrameNumber /\ Len(received) = BlockAddress - 1
  BY <1>2 DEF Served
<1>9. Served(block)'
  <2>1. /\ host' \in Receiving /\ fromHost' = <<>> /\ State' \in {"SEND_INIT", "OFF"}
        /\ BlockAddress' > 0 /\ InOrderBelow(received, DownFile, BlockAddress)'
        /\ host' # "CHECKSUM" /\ ~(HostPlace' > 1)
    BY <1>1, <1>4, <1>5, <1>8 DEF Receiving, InOrderBelow
  <2>2. Len(toHost') = FrameSize - HostPlace'
    BY <1>5
  <2>3. Lies(toHost, 0 - HostPlace, CurrentFrameNumber, block, CalcChecksum(DownFile[BlockAddress]))'
    BY <1>1, <1>5, <1>6, <1>7 DEF Lies
  <2>4. /\ block = DownFile[BlockAddress']
        /\ damage' = 0 => packetCounter' = CurrentFrameNumber' /\ Len(received') = BlockAddress' - 1
    BY <1>1, <1>4, <1>8
  <2> QED BY <2>1, <2>2, <2>3, <2>4 DEF Served
<1>10. DownTypes' /\ DownStep
  BY <1>1, <1>4 DEF DownInv, DownTypes, DownStep, Receiving
<1> QED BY <1>1, <1>4, <1>9, <1>10 DEF DownInv, DownUnderWay, InOrderBelow

(* The number and its complement.                                          *)
LEMMA ReadsHeader ==
  ASSUME DownInv, DownSlow!HostRead, NEW block \in Block, Served(block), host = "HEADER"
  PROVE  DownInv' /\ DownStep /\ UNCHANGED damage
<1>1. /\ UNCHANGED <<State, BlockAddress, Memory, CurrentFrameNumber, damage>> /\ IInv'
      /\ toHost' \in Seq(Byte) /\ 2 <= Len(toHost) /\ toHost' = SubSeq(toHost, 2 + 1, Len(toHost))
      /\ DownSlow!HostHeader(toHost[1], toHost[2])
  BY DownReadFacts
<1>2. HostPlace = 1 /\ FrameSize \in Nat /\ FrameSize = XMODEM_BLOCK_SIZE + 4 /\ XMODEM_BLOCK_SIZE \in Nat \ {0}
  BY Sizes DEF HostPlace
<1>3. toHost[1] = CurrentFrameNumber /\ toHost[2] = ByteMod - 1 - CurrentFrameNumber
  <2>1. /\ 2 \in 1 .. FrameSize /\ 3 \in 1 .. FrameSize /\ 2 > HostPlace /\ 3 > HostPlace
        /\ 2 - HostPlace = 1 /\ 3 - HostPlace = 2
    BY <1>2
  <2>2. /\ toHost[1] = FrameByte(CurrentFrameNumber, block, CalcChecksum(DownFile[BlockAddress]), 2)
        /\ toHost[2] = FrameByte(CurrentFrameNumber, block, CalcChecksum(DownFile[BlockAddress]), 3)
    BY <2>1, ServedByte
  <2> QED BY <2>2 DEF FrameByte
<1>4. /\ UNCHANGED <<packetCounter, hostBlock, received, fromHost>>
      /\ host' = IF CurrentFrameNumber = packetCounter THEN "DATA" ELSE "PKT_ID"
  <2>1. CurrentFrameNumber = ByteMod - 1 - (ByteMod - 1 - CurrentFrameNumber)
    <3>1. CurrentFrameNumber \in Nat /\ ByteMod \in Nat
      BY ByteAssumption DEF DownInv, DownTypes, IInv, TypeOK, Byte
    <3> QED BY <3>1
  <2> QED BY <1>1, <1>3, <2>1 DEF DownSlow!HostHeader
<1>5. Len(toHost') = FrameSize - 3
  <2>1. toHost \in Seq(Byte) /\ Len(toHost) = FrameSize - 1
    BY <1>2 DEF DownInv, DownTypes, Served
  <2>2. Len(toHost') = Len(toHost) - 2
    BY <1>1, <2>1, RestOfSeq
  <2> QED BY <1>2, <2>1, <2>2
<1>6. PICK sum : sum = CalcChecksum(DownFile[BlockAddress])
  OBVIOUS
<1>7. Lies(toHost', 0 - 3, CurrentFrameNumber, block, sum)
  <2>1. Lies(toHost, 0 - 1, CurrentFrameNumber, block, sum) /\ toHost \in Seq(Byte) /\ 0 - 1 \in Int
        /\ (0 - 1) - 2 = 0 - 3
    BY <1>2, <1>6 DEF Served, DownInv, DownTypes
  <2>2. Lies(SubSeq(toHost, 2 + 1, Len(toHost)), (0 - 1) - 2, CurrentFrameNumber, block, sum)
    BY <1>1, <2>1, LiesRest
  <2> QED BY <1>1, <2>1, <2>2
<1>8. /\ block = DownFile[BlockAddress] /\ InOrderBelow(received, DownFile, BlockAddress)
      /\ BlockAddress > 0 /\ State \in {"SEND_INIT", "OFF"} /\ fromHost = <<>>
      /\ damage = 0 => packetCounter = CurrentFrameNumber /\ Len(received) = BlockAddress - 1
  BY <1>2 DEF Served
<1>11. DownTypes' /\ DownStep
  BY <1>1, <1>4 DEF DownInv, DownTypes, DownStep, Receiving
<1>12. DownUnderWay' => DownInv'
  BY <1>1, <1>4, <1>11 DEF DownInv, InOrderBelow
<1>13. DownUnderWay'
  <2>1. ASSUME CurrentFrameNumber = packetCounter PROVE DownUnderWay'
    <3>1. HostPlace' = 3 /\ host' = "DATA"
      BY <1>4, <2>1 DEF HostPlace
    <3>2. \E i \in 1 .. XMODEM_BLOCK_SIZE : OneOff(block, DownFile[BlockAddress], i)
      <4>1. 1 \in 1 .. XMODEM_BLOCK_SIZE
        BY <1>2
      <4>2. OneOff(block, DownFile[BlockAddress], 1)
        BY <1>8 DEF OneOff
      <4> QED BY <4>1, <4>2
    <3>3. Served(block)'
      BY <1>1, <1>4, <1>5, <1>6, <1>7, <1>8, <2>1, <3>1, <3>2
         DEF Served, Receiving, Lies, InOrderBelow, OneOff
    <3> QED BY <3>3 DEF DownUnderWay
  <2>2. ASSUME CurrentFrameNumber # packetCounter PROVE DownUnderWay'
    <3>1. host' = "PKT_ID" /\ damage # 0
      BY <1>4, <1>8, <2>2
    <3>2. Len(toHost') <= XMODEM_BLOCK_SIZE + 1
      BY <1>2, <1>5
    <3> QED BY <1>1, <1>4, <1>8, <3>1, <3>2 DEF DownUnderWay, Stuck
  <2> QED BY <2>1, <2>2
<1> QED BY <1>1, <1>11, <1>12, <1>13

(* The block.                                                              *)
LEMMA ReadsData ==
  ASSUME DownInv, DownSlow!HostRead, NEW block \in Block, Served(block), host = "DATA"
  PROVE  DownInv' /\ DownStep /\ UNCHANGED damage
<1>1. /\ UNCHANGED <<State, BlockAddress, Memory, CurrentFrameNumber, damage>> /\ IInv'
      /\ toHost' \in Seq(Byte) /\ XMODEM_BLOCK_SIZE <= Len(toHost)
      /\ toHost' = SubSeq(toHost, XMODEM_BLOCK_SIZE + 1, Len(toHost))
      /\ DownSlow!HostData(SubSeq(toHost, 1, XMODEM_BLOCK_SIZE))
  BY DownReadFacts
<1>2. HostPlace = 3 /\ FrameSize \in Nat /\ FrameSize = XMODEM_BLOCK_SIZE + 4 /\ XMODEM_BLOCK_SIZE \in Nat \ {0}
  BY Sizes DEF HostPlace
<1>3. /\ toHost \in Seq(Byte) /\ Len(toHost) = FrameSize - 3 /\ Len(toHost) \in Nat
  BY <1>2, LenProperties DEF DownInv, DownTypes, Served
<1> DEFINE read == SubSeq(toHost, 1, XMODEM_BLOCK_SIZE)
<1>4. read = block
  <2>1. /\ read \in Seq(Byte) /\ Len(read) = XMODEM_BLOCK_SIZE
        /\ \A i \in 1 .. XMODEM_BLOCK_SIZE : read[i] = toHost[i]
    <3>1. \A i \in 1 .. XMODEM_BLOCK_SIZE : i \in 1 .. Len(toHost)
      BY <1>1, <1>2, <1>3
    <3>2. \A i \in 1 .. XMODEM_BLOCK_SIZE : toHost[i] \in Byte
      BY <1>3, <3>1, ElementOfSeq
    <3>3. /\ read \in Seq(Byte)
          /\ Len(read) = IF 1 <= XMODEM_BLOCK_SIZE THEN XMODEM_BLOCK_SIZE - 1 + 1 ELSE 0
          /\ \A i \in 1 .. XMODEM_BLOCK_SIZE - 1 + 1 : read[i] = toHost[1 + i - 1]
      BY <1>2, <3>2, SubSeqProperties
    <3> HIDE DEF read
    <3>4. XMODEM_BLOCK_SIZE - 1 + 1 = XMODEM_BLOCK_SIZE /\ 1 <= XMODEM_BLOCK_SIZE
          /\ \A i \in 1 .. XMODEM_BLOCK_SIZE : 1 + i - 1 = i
      BY <1>2
    <3> QED BY <3>3, <3>4
  <2> HIDE DEF read
  <2>2. \A i \in 1 .. XMODEM_BLOCK_SIZE : toHost[i] = block[i]
    <3> TAKE i \in 1 .. XMODEM_BLOCK_SIZE
    <3>1. /\ i + 3 \in 1 .. FrameSize /\ i + 3 > HostPlace /\ (i + 3) - HostPlace = i
          /\ i + 3 \in 4 .. XMODEM_BLOCK_SIZE + 3 /\ (i + 3) - 3 = i
          /\ i + 3 # 1 /\ i + 3 # 2 /\ i + 3 # 3
      BY <1>2
    <3>2. PICK k \in 1 .. FrameSize : k = i + 3
      BY <3>1
    <3>3. toHost[k - HostPlace] = FrameByte(CurrentFrameNumber, block, CalcChecksum(DownFile[BlockAddress]), k)
      BY <3>1, <3>2, ServedByte
    <3> QED BY <3>1, <3>2, <3>3 DEF FrameByte
  <2>3. block \in Seq(Byte) /\ Len(block) = XMODEM_BLOCK_SIZE
    BY BlockIsSeq
  <2> QED BY <2>1, <2>2, <2>3, SeqEqual
<1>5. host' = "CHECKSUM" /\ hostBlock' = block /\ UNCHANGED <<packetCounter, received, fromHost>>
  BY <1>1, <1>4 DEF DownSlow!HostData
<1>6. Len(toHost') = FrameSize - HostPlace' /\ HostPlace' = XMODEM_BLOCK_SIZE + 3 /\ HostPlace' > 1
  <2>1. Len(toHost') = Len(toHost) - XMODEM_BLOCK_SIZE
    BY <1>1, <1>2, <1>3, RestOfSeq
  <2>2. HostPlace' = XMODEM_BLOCK_SIZE + 3
    BY <1>5 DEF HostPlace
  <2>3. (FrameSize - 3) - XMODEM_BLOCK_SIZE = FrameSize - (XMODEM_BLOCK_SIZE + 3) /\ XMODEM_BLOCK_SIZE + 3 > 1
    BY <1>2
  <2> QED BY <1>3, <2>1, <2>2, <2>3
<1>7. PICK sum : sum = CalcChecksum(DownFile[BlockAddress])
  OBVIOUS
<1>8. Lies(toHost', 0 - HostPlace', CurrentFrameNumber, block, sum)
  <2>1. Lies(toHost, 0 - 3, CurrentFrameNumber, block, sum) /\ 0 - 3 \in Int
    BY <1>2, <1>7 DEF Served
  <2>2. Lies(SubSeq(toHost, XMODEM_BLOCK_SIZE + 1, Len(toHost)), (0 - 3) - XMODEM_BLOCK_SIZE,
             CurrentFrameNumber, block, sum)
    BY <1>1, <1>2, <1>3, <2>1, LiesRest
  <2>3. (0 - 3) - XMODEM_BLOCK_SIZE = 0 - (XMODEM_BLOCK_SIZE + 3)
    BY <1>2
  <2> QED BY <1>1, <1>6, <2>2, <2>3
<1>9. /\ packetCounter = CurrentFrameNumber
      /\ \E i \in 1 .. XMODEM_BLOCK_SIZE : OneOff(block, DownFile[BlockAddress], i)
      /\ InOrderBelow(received, DownFile, BlockAddress)
      /\ BlockAddress > 0 /\ State \in {"SEND_INIT", "OFF"} /\ fromHost = <<>>
      /\ damage = 0 => block = DownFile[BlockAddress] /\ Len(received) = BlockAddress - 1
  BY <1>2 DEF Served
<1>10. Served(block)'
  BY <1>1, <1>5, <1>6, <1>7, <1>8, <1>9 DEF Served, Receiving, Lies, InOrderBelow, OneOff
<1>11. DownTypes' /\ DownStep
  BY <1>1, <1>5 DEF DownInv, DownTypes, DownStep, Receiving
<1> QED BY <1>1, <1>5, <1>10, <1>11 DEF DownInv, DownUnderWay, InOrderBelow

-----------------------------------------------------------------------------
(* The checksum: the block is appended, or asked for again.                *)
LEMMA ReadsChecksum ==
  ASSUME DownInv, DownSlow!HostRead, NEW block \in Block, Served(block), host = "CHECKSUM"
  PROVE  DownInv' /\ DownStep /\ UNCHANGED damage
<1>1. /\ UNCHANGED <<State, BlockAddress, Memory, CurrentFrameNumber, damage>> /\ IInv'
      /\ toHost' \in Seq(Byte) /\ toHost' = SubSeq(toHost, 1 + 1, Len(toHost))
      /\ DownSlow!HostChecksum(toHost[1])
  BY DownReadFacts
<1>2. /\ HostPlace = XMODEM_BLOCK_SIZE + 3 /\ FrameSize = XMODEM_BLOCK_SIZE + 4
      /\ XMODEM_BLOCK_SIZE \in Nat \ {0} /\ MEMORY_BLOCKS \in Nat
  BY Sizes DEF HostPlace
<1>3. toHost[1] = CalcChecksum(DownFile[BlockAddress])
  <2>1. PICK k \in 1 .. FrameSize : k = XMODEM_BLOCK_SIZE + 4
    BY <1>2
  <2>2. k > HostPlace /\ k - HostPlace = 1 /\ k \notin 4 .. XMODEM_BLOCK_SIZE + 3 /\ k # 1 /\ k # 2 /\ k # 3
    BY <1>2, <2>1
  <2>3. toHost[1] = FrameByte(CurrentFrameNumber, block, CalcChecksum(DownFile[BlockAddress]), k)
    BY <2>2, ServedByte
  <2> QED BY <2>2, <2>3 DEF FrameByte
<1>4. toHost' = <<>>
  <2>1. toHost \in Seq(Byte) /\ Len(toHost) = 1
    <3>1. toHost \in Seq(Byte) /\ Len(toHost) = FrameSize - HostPlace
      BY DEF DownInv, DownTypes, Served
    <3> QED BY <1>2, <3>1
  <2>2. Len(toHost') = Len(toHost) - 1
    BY <1>1, <2>1, RestOfSeq
  <2> QED BY <1>1, <2>1, <2>2, EmptySeq
<1>5. /\ packetCounter = CurrentFrameNumber /\ hostBlock = block
      /\ \E i \in 1 .. XMODEM_BLOCK_SIZE : OneOff(block, DownFile[BlockAddress], i)
      /\ InOrderBelow(received, DownFile, BlockAddress)
      /\ BlockAddress > 0 /\ State \in {"SEND_INIT", "OFF"} /\ fromHost = <<>>
      /\ damage = 0 => block = DownFile[BlockAddress] /\ Len(received) = BlockAddress - 1
  <2>1. HostPlace > 1
    BY <1>2
  <2> QED BY <2>1 DEF Served
<1>6. /\ BlockAddress \in 1 .. MEMORY_BLOCKS /\ BlockAddress \in Nat \ {0}
      /\ DownFile[BlockAddress] \in Block /\ received \in Seq(Block) /\ Len(received) \in Nat
      /\ packetCounter \in Byte /\ Inc(packetCounter) \in Byte
      /\ <<BYTE_ACK>> \in Seq(Byte) /\ <<BYTE_NAK>> \in Seq(Byte) /\ <<>> \in Seq(Byte)
  <2>1. BlockAddress \in 1 .. MEMORY_BLOCKS /\ BlockAddress \in Nat \ {0}
    BY <1>2, <1>5 DEF DownInv, DownTypes
  <2>2. received \in Seq(Block) /\ Len(received) \in Nat /\ packetCounter \in Byte
    BY LenProperties DEF DownInv, DownTypes
  <2> QED BY <2>1, <2>2, DownFileFacts, ByteArithmetic, ByteAssumption
<1>7. /\ host' = "PKT_ID"
      /\ \/ /\ CalcChecksum(DownFile[BlockAddress]) = CalcChecksum(block)
            /\ received' = Append(received, block)
            /\ packetCounter' = Inc(packetCounter) /\ fromHost' = <<BYTE_ACK>>
         \/ /\ CalcChecksum(DownFile[BlockAddress]) # CalcChecksum(block)
            /\ fromHost' = <<BYTE_NAK>> /\ UNCHANGED <<received, packetCounter>>
  BY <1>1, <1>3, <1>5, SameDownSlow DEF DownSlow!HostChecksum, DownSlow!HostWrite
<1>8. CASE CalcChecksum(DownFile[BlockAddress]) = CalcChecksum(block)
  <2>1. block = DownFile[BlockAddress]
    BY <1>5, <1>6, <1>8, ChecksumMatches
  <2>2. /\ received' = Append(received, DownFile[BlockAddress])
        /\ packetCounter' = Inc(packetCounter) /\ fromHost' = <<BYTE_ACK>>
    BY <1>7, <1>8, <2>1
  <2>3. /\ received' \in Seq(Block) /\ Len(received') = Len(received) + 1
        /\ \A i \in 1 .. Len(received) : received'[i] = received[i]
        /\ received'[Len(received) + 1] = DownFile[BlockAddress]
        /\ DOMAIN received = 1 .. Len(received) /\ DOMAIN received' = 1 .. Len(received) + 1
    BY <1>6, <2>2, AppendProperties, LenProperties
  <2>4. InOrderBelow(received', DownFile, BlockAddress + 1)
    <3>1. PICK k \in Nat : k = Len(received) + 1
      BY <1>6
    <3>2. /\ DOMAIN received \subseteq Nat /\ \A i \in DOMAIN received : i < k
          /\ DOMAIN received' = DOMAIN received \cup {k}
      BY <1>6, <2>3, <3>1
    <3>3. \A i \in DOMAIN received : received'[i] = received[i]
      BY <2>3
    <3>4. received'[k] = DownFile[BlockAddress]
      BY <2>3, <3>1
    <3> QED BY <1>5, <1>6, <3>2, <3>3, <3>4, OneMoreInOrder
  <2>5. damage = 0 => \A i \in 1 .. Len(received') : received'[i] = DownFile[i]
    <3> SUFFICES ASSUME damage = 0, NEW i \in 1 .. Len(received') PROVE received'[i] = DownFile[i]
      OBVIOUS
    <3>1. i \in 1 .. Len(received) \/ i = Len(received) + 1
      BY <1>6, <2>3
    <3>2. Len(received) + 1 = BlockAddress
      BY <1>5, <1>6
    <3>3. i \in 1 .. Len(received) => received[i] = DownFile[i]
      BY DEF DownInv
    <3> QED BY <2>3, <3>1, <3>2, <3>3
  <2>6. damage = 0 => /\ Len(received) < MEMORY_BLOCKS
                      /\ received' = Append(received, DownFile[Len(received) + 1])
    <3>1. damage = 0 => Len(received) + 1 = BlockAddress /\ Len(received) < MEMORY_BLOCKS
      BY <1>2, <1>5, <1>6
    <3> QED BY <2>2, <3>1
  <2>7. DownStep
    BY <1>7, <2>6 DEF DownStep, Receiving
  <2>8. Asked'
    <3>1. damage = 0 => Len(received') = BlockAddress
      BY <1>5, <1>6, <2>3
    <3> QED BY <1>1, <1>4, <1>5, <1>7, <2>2, <3>1 DEF Asked
  <2>9. DownTypes'
    BY <1>1, <1>4, <1>5, <1>6, <2>2, <2>3 DEF DownInv, DownTypes
  <2>10. InOrderBelow(received, DownFile, BlockAddress + 1)'
    BY <1>1, <2>4 DEF InOrderBelow
  <2> QED BY <1>1, <2>5, <2>7, <2>8, <2>9, <2>10 DEF DownInv, DownUnderWay
<1>9. CASE CalcChecksum(DownFile[BlockAddress]) # CalcChecksum(block)
  <2>1. damage # 0 /\ fromHost' = <<BYTE_NAK>> /\ UNCHANGED <<received, packetCounter>>
    BY <1>5, <1>7, <1>9
  <2>2. Asked'
    BY <1>1, <1>4, <1>5, <1>7, <2>1 DEF Asked
  <2>3. DownTypes'
    BY <1>1, <1>4, <1>6, <2>1 DEF DownInv, DownTypes
  <2>4. DownStep
    BY <1>7, <2>1 DEF DownStep, Receiving
  <2>5. InOrderBelow(received, DownFile, BlockAddress + 1)'
    BY <1>1, <2>1 DEF DownInv, InOrderBelow
  <2> QED BY <1>1, <2>1, <2>2, <2>3, <2>4, <2>5 DEF DownInv, DownUnderWay
<1> QED BY <1>8, <1>9

(* EOT ends the download: undamaged, it comes when the file is complete.   *)
LEMMA ReadsEot == ASSUME DownInv, DownSlow!HostRead, Ended
                  PROVE  DownInv' /\ DownStep /\ UNCHANGED damage
<1>1. /\ UNCHANGED <<State, BlockAddress, Memory, CurrentFrameNumber, damage>> /\ IInv'
      /\ toHost' \in Seq(Byte) /\ host = "PKT_ID" /\ DownSlow!HostPktId(toHost[1])
      /\ toHost = <<BYTE_EOT>> /\ fromHost = <<>>
  BY DownReadFacts DEF Ended
<1>2. toHost[1] = BYTE_EOT /\ BYTE_EOT # BYTE_SOH
  BY <1>1, ByteAssumption
<1>3. host' = "DONE" /\ fromHost' = <<BYTE_ACK>> /\ UNCHANGED <<packetCounter, received>>
  BY <1>1, <1>2 DEF DownSlow!HostPktId, DownSlow!HostWrite
<1>4. damage = 0 => received = DownFile
  <2> SUFFICES ASSUME damage = 0 PROVE received = DownFile
    OBVIOUS
  <2>1. /\ received \in Seq(Block) /\ Len(received) = MEMORY_BLOCKS
        /\ \A i \in 1 .. Len(received) : received[i] = DownFile[i]
    BY DEF DownInv, DownTypes, Ended
  <2> QED BY <2>1, DownFileFacts, SeqEqual
<1>5. DownStep
  BY <1>1, <1>3, <1>4 DEF DownStep, Receiving
<1>6. DownTypes'
  <2>1. <<BYTE_ACK>> \in Seq(Byte)
    BY ByteAssumption
  <2> QED BY <1>1, <1>3, <2>1 DEF DownInv, DownTypes
<1> QED BY <1>1, <1>3, <1>5, <1>6 DEF DownInv, InOrderBelow

(* Out of step the host may skip bytes but reads no block any more.        *)
LEMMA ReadsStuck == ASSUME DownInv, DownSlow!HostRead, Stuck
                    PROVE  DownInv' /\ DownStep /\ UNCHANGED damage
<1>1. /\ UNCHANGED <<State, BlockAddress, Memory, CurrentFrameNumber, damage>> /\ IInv'
      /\ toHost' \in Seq(Byte) /\ Len(toHost) \in Nat /\ host \in Receiving
      /\ toHost \in Seq(Byte) /\ fromHost = <<>>
  BY DownReadFacts DEF DownInv, DownTypes, Stuck
<1>2. XMODEM_BLOCK_SIZE \in Nat \ {0} /\ Len(<<>>) = 0 /\ <<BYTE_ACK>> \in Seq(Byte) /\ <<>> \in Seq(Byte)
  BY Sizes, ByteAssumption
<1>3. CASE host = "PKT_ID"
  <2>1. /\ 1 <= Len(toHost) /\ toHost' = SubSeq(toHost, 1 + 1, Len(toHost))
        /\ DownSlow!HostPktId(toHost[1]) /\ Len(toHost) <= XMODEM_BLOCK_SIZE + 1
    BY <1>3, DownReadFacts DEF Stuck
  <2>2. damage # 0
    BY <1>2, <2>1 DEF Stuck
  <2>3. Len(toHost') <= XMODEM_BLOCK_SIZE
    <3>1. Len(toHost') = Len(toHost) - 1
      <4>1. toHost \in Seq(Byte) /\ 1 \in Nat /\ 1 <= Len(toHost)
        BY <1>1, <2>1
      <4>2. Len(SubSeq(toHost, 1 + 1, Len(toHost))) = Len(toHost) - 1
        BY <4>1, RestOfSeq
      <4> QED BY <2>1, <4>2
    <3> QED BY <1>1, <1>2, <2>1, <3>1
  <2>4. /\ UNCHANGED <<packetCounter, received>>
        /\ \/ host' = "HEADER" /\ fromHost' = <<>>
           \/ host' = "DONE" /\ fromHost' = <<BYTE_ACK>>
           \/ host' = "BROKEN" /\ fromHost' = <<>>
    BY <1>1, <2>1 DEF DownSlow!HostPktId, DownSlow!HostWrite
  <2>5. DownTypes' /\ DownStep
    BY <1>1, <1>2, <1>3, <2>2, <2>4 DEF DownInv, DownTypes, DownStep, Receiving
  <2>6. host' = "HEADER" => Stuck'
    BY <1>1, <2>2, <2>3, <2>4 DEF Stuck
  <2> QED BY <1>1, <2>2, <2>4, <2>5, <2>6 DEF DownInv, DownUnderWay, InOrderBelow
<1>4. CASE host = "HEADER"
  <2>1. /\ 2 <= Len(toHost) /\ toHost' = SubSeq(toHost, 2 + 1, Len(toHost))
        /\ DownSlow!HostHeader(toHost[1], toHost[2]) /\ Len(toHost) <= XMODEM_BLOCK_SIZE
    BY <1>4, DownReadFacts DEF Stuck
  <2>2. damage # 0
    BY <1>2, <2>1 DEF Stuck
  <2>3. Len(toHost') + 2 <= XMODEM_BLOCK_SIZE /\ Len(toHost') <= XMODEM_BLOCK_SIZE + 1
    <3>1. Len(toHost') = Len(toHost) - 2
      <4>1. toHost \in Seq(Byte) /\ 2 \in Nat /\ 2 <= Len(toHost)
        BY <1>1, <2>1
      <4>2. Len(SubSeq(toHost, 2 + 1, Len(toHost))) = Len(toHost) - 2
        BY <4>1, RestOfSeq
      <4> QED BY <2>1, <4>2
    <3> QED BY <1>1, <1>2, <2>1, <3>1
  <2>4. UNCHANGED <<packetCounter, received, fromHost>> /\ host' \in {"DATA", "PKT_ID"}
    BY <2>1 DEF DownSlow!HostHeader
  <2>5. DownTypes' /\ DownStep
    BY <1>1, <1>2, <1>4, <2>2, <2>4 DEF DownInv, DownTypes, DownStep, Receiving
  <2>6. Stuck'
    BY <1>1, <2>2, <2>3, <2>4 DEF Stuck
  <2> QED BY <1>1, <2>2, <2>4, <2>5, <2>6 DEF DownInv, DownUnderWay, InOrderBelow
<1>5. host # "DATA" /\ host # "CHECKSUM"
  <2>1. ASSUME host = "DATA" PROVE FALSE
    <3>1. XMODEM_BLOCK_SIZE <= Len(toHost) /\ Len(toHost) + 2 <= XMODEM_BLOCK_SIZE
      BY <2>1, DownReadFacts DEF Stuck
    <3> QED BY <1>1, <1>2, <3>1
  <2> QED BY <2>1 DEF Stuck
<1> QED BY <1>1, <1>3, <1>4, <1>5 DEF Receiving

(* All reads.                                                              *)
LEMMA DownReads == ASSUME DownInv, DownSlow!HostRead
                   PROVE  DownInv' /\ DownStep /\ UNCHANGED damage
<1>1. host \in Receiving /\ (host = "PKT_ID" => 1 <= Len(toHost))
  BY DownReadFacts
<1>2. DownUnderWay
  BY <1>1 DEF DownInv, Receiving
<1>3. ~Asked
  <2>1. Len(<<>>) = 0 /\ ~(1 <= 0)
    OBVIOUS
  <2> QED BY <1>1, <2>1 DEF Asked
<1>4. ASSUME NEW block \in Block, Served(block)
      PROVE  DownInv' /\ DownStep /\ UNCHANGED damage
  BY <1>1, <1>4, ReadsPktId, ReadsHeader, ReadsData, ReadsChecksum DEF Receiving
<1> QED BY <1>2, <1>3, <1>4, ReadsEot, ReadsStuck DEF DownUnderWay

-----------------------------------------------------------------------------
(* The line changes a byte of the block the host is about to read.         *)
LEMMA BlockDamaged ==
  ASSUME NEW s \in Seq(Byte), NEW n, NEW sum, NEW block \in Block, Lies(s, 0 - 3, n, block, sum),
         NEW i \in 1 .. XMODEM_BLOCK_SIZE, NEW b \in Byte, i <= Len(s)
  PROVE  /\ [s EXCEPT ![i] = b] \in Seq(Byte) /\ Len([s EXCEPT ![i] = b]) = Len(s)
         /\ \E new \in Block : /\ Lies([s EXCEPT ![i] = b], 0 - 3, n, new, sum)
                               /\ OneOff(new, block, i)
<1> DEFINE r == [s EXCEPT ![i] = b]
           new == [block EXCEPT ![i] = b]
<1>1. XMODEM_BLOCK_SIZE \in Nat \ {0} /\ FrameSize \in Nat /\ FrameSize = XMODEM_BLOCK_SIZE + 4 /\ Len(s) \in Nat
  BY Sizes, LenProperties
<1>2. i \in 1 .. Len(s) /\ i \in Nat
  BY <1>1
<1>3. /\ r \in Seq(Byte) /\ Len(r) = Len(s)
      /\ \A j \in 1 .. Len(s) : r[j] = IF j = i THEN b ELSE s[j]
  BY <1>2, ExceptSeq
<1>4. new \in Block /\ \A j \in 1 .. XMODEM_BLOCK_SIZE : new[j] = IF j = i THEN b ELSE block[j]
  BY DEF Block
<1> HIDE DEF r, new
<1>5. OneOff(new, block, i)
  BY <1>4 DEF OneOff
<1>6. ASSUME NEW k \in 1 .. FrameSize, (0 - 3) + k \in 1 .. Len(r)
      PROVE  r[(0 - 3) + k] = FrameByte(n, new, sum, k)
  <2>1. (0 - 3) + k = k - 3 /\ k - 3 \in 1 .. Len(s) /\ k # 1 /\ k # 2 /\ k # 3
        /\ s[k - 3] = FrameByte(n, block, sum, k)
    <3>1. (0 - 3) + k = k - 3
      BY <1>1
    <3>2. k - 3 \in 1 .. Len(s)
      BY <1>3, <1>6, <3>1
    <3>3. k # 1 /\ k # 2 /\ k # 3
      BY <1>1, <3>2
    <3> QED BY <3>1, <3>2, <3>3 DEF Lies
  <2>2. CASE k \in 4 .. XMODEM_BLOCK_SIZE + 3
    <3>1. k - 3 \in 1 .. XMODEM_BLOCK_SIZE
      BY <1>1, <2>2
    <3>2. FrameByte(n, new, sum, k) = new[k - 3] /\ FrameByte(n, block, sum, k) = block[k - 3]
      BY <2>1, <2>2 DEF FrameByte
    <3> QED BY <1>3, <1>4, <2>1, <3>1, <3>2
  <2>3. CASE k \notin 4 .. XMODEM_BLOCK_SIZE + 3
    <3>1. FrameByte(n, new, sum, k) = sum /\ FrameByte(n, block, sum, k) = sum
      BY <2>1, <2>3 DEF FrameByte
    <3>2. k - 3 # i
      BY <1>1, <1>2, <2>3
    <3> QED BY <1>3, <2>1, <3>1, <3>2
  <2> QED BY <2>2, <2>3
<1>7. Lies(r, 0 - 3, n, new, sum)
  BY <1>6 DEF Lies
<1> QED BY <1>3, <1>4, <1>5, <1>7 DEF r

(* ... and the download goes on with a block that is one byte off.         *)
LEMMA DownDamages == ASSUME DownInv, DownSlow!Damage PROVE DownInv' /\ DownStep /\ damage' # 0
<1>1. /\ damage < 1 /\ host = "DATA" /\ Len(toHost) >= XMODEM_BLOCK_SIZE /\ damage' = damage + 1
      /\ UNCHANGED <<vars, host, packetCounter, hostBlock, received, fromHost>>
  BY SameDownSlow DEF DownSlow!Damage, DownSlow!hostVars
<1>2. PICK i \in 1 .. XMODEM_BLOCK_SIZE, b \in Byte : toHost' = [toHost EXCEPT ![i] = b]
  BY DEF DownSlow!Damage, DownSlow!Byte, Byte
<1>3. damage = 0 /\ damage' = 1 /\ damage' \in Nat /\ damage' # 0
  BY <1>1 DEF DownInv, DownTypes
<1>4. /\ XMODEM_BLOCK_SIZE \in Nat \ {0} /\ Len(toHost) \in Nat /\ toHost \in Seq(Byte) /\ i <= Len(toHost)
  <2>1. toHost \in Seq(Byte) /\ Len(toHost) \in Nat /\ XMODEM_BLOCK_SIZE \in Nat \ {0}
    BY Sizes, LenProperties DEF DownInv, DownTypes
  <2> QED BY <1>1, <2>1
<1>5. PICK block \in Block : Served(block)
  <2>1. toHost # <<>>
    <3>1. Len(toHost) # 0
      BY <1>1, <1>4
    <3>2. Len(<<>>) = 0
      OBVIOUS
    <3> QED BY <3>1, <3>2, Zenon
  <2> QED BY <1>1, <1>3, <2>1 DEF DownInv, DownUnderWay, Asked, Ended, Stuck
<1>6. /\ IInv' /\ UNCHANGED <<State, BlockAddress, Memory, CurrentFrameNumber>>
  BY <1>1, DeviceRests DEF DownInv, DownTypes
<1>7. HostPlace = 3 /\ HostPlace' = 3
  BY <1>1 DEF HostPlace
<1>8. PICK sum : sum = CalcChecksum(DownFile[BlockAddress])
  OBVIOUS
<1>9. /\ fromHost = <<>> /\ State \in {"SEND_INIT", "OFF"} /\ BlockAddress > 0
      /\ InOrderBelow(received, DownFile, BlockAddress)
      /\ Len(toHost) = FrameSize - 3
      /\ Lies(toHost, 0 - 3, CurrentFrameNumber, block, sum)
      /\ packetCounter = CurrentFrameNumber /\ block = DownFile[BlockAddress]
  BY <1>1, <1>3, <1>5, <1>7, <1>8 DEF Served
<1>10. /\ toHost' \in Seq(Byte) /\ Len(toHost') = Len(toHost)
       /\ \E new \in Block : /\ Lies(toHost', 0 - 3, CurrentFrameNumber, new, sum)
                             /\ OneOff(new, block, i)
  BY <1>2, <1>4, <1>9, BlockDamaged
<1>11. PICK new \in Block : Lies(toHost', 0 - 3, CurrentFrameNumber, new, sum) /\ OneOff(new, block, i)
  BY <1>10
<1>12. Served(new)'
  <2>1. /\ host' \in Receiving /\ fromHost' = <<>> /\ State' \in {"SEND_INIT", "OFF"}
        /\ BlockAddress' > 0 /\ InOrderBelow(received, DownFile, BlockAddress)'
        /\ host' # "CHECKSUM" /\ HostPlace' > 1
    BY <1>1, <1>6, <1>7, <1>9 DEF Receiving, InOrderBelow
  <2>2. Len(toHost') = FrameSize - HostPlace'
    BY <1>7, <1>9, <1>10
  <2>3. Lies(toHost, 0 - HostPlace, CurrentFrameNumber, new, CalcChecksum(DownFile[BlockAddress]))'
    BY <1>6, <1>7, <1>8, <1>11 DEF Lies
  <2>4. /\ packetCounter' = CurrentFrameNumber'
        /\ (\E j \in 1 .. XMODEM_BLOCK_SIZE : OneOff(new, DownFile[BlockAddress], j))'
    BY <1>1, <1>6, <1>9, <1>11 DEF OneOff
  <2> QED BY <1>3, <2>1, <2>2, <2>3, <2>4 DEF Served
<1>13. DownTypes'
  BY <1>1, <1>3, <1>6, <1>10 DEF DownInv, DownTypes
<1>14. DownStep
  BY <1>1 DEF DownStep
<1>15. InOrderBelow(received, DownFile, BlockAddress + 1)'
  BY <1>1, <1>6 DEF DownInv, InOrderBelow
<1> QED BY <1>1, <1>3, <1>12, <1>13, <1>14, <1>15 DEF DownInv, DownUnderWay

-----------------------------------------------------------------------------
(* What a byte does to the sending device.                                 *)
LEMMA SenderTakes ==
  ASSUME DownTypes, NEW b, XModemProcessByte(b)
  PROVE  /\ IInv' /\ Memory' = Memory /\ State' \in {"OFF", "SEND_INIT", "SEND_EOT"}
         /\ BlockAddress' \in 0 .. MEMORY_BLOCKS /\ BlockAddress <= BlockAddress'
         /\ out' \in Seq(Byte)
         /\ State = "SEND_INIT" /\ b \in {BYTE_NAK, BYTE_ACK} =>
              \/ /\ BlockAddress < MEMORY_BLOCKS /\ BlockAddress' = BlockAddress + 1
                 /\ State' = "SEND_INIT"
                 /\ CurrentFrameNumber' \in Byte
                 /\ CurrentFrameNumber' = IF b = BYTE_NAK THEN FIRST_FRAME_NUMBER
                                          ELSE Inc(CurrentFrameNumber)
                 /\ out' = FrameBytes(CurrentFrameNumber', DownFile[BlockAddress + 1])
              \/ /\ BlockAddress = MEMORY_BLOCKS /\ BlockAddress' = BlockAddress
                 /\ State' = "SEND_EOT" /\ out' = <<BYTE_EOT>>
              \/ State' = "OFF" /\ out' = <<>> /\ BlockAddress' = BlockAddress
<1>1. /\ IInv /\ State \in {"OFF", "SEND_INIT", "SEND_EOT"} /\ Memory = InitialMemory
      /\ BlockAddress \in 0 .. MEMORY_BLOCKS /\ CurrentFrameNumber \in Byte
  BY DEF DownTypes, IInv, TypeOK
<1>2. /\ MEMORY_BLOCKS \in Nat \ {0} /\ AddressMod \in Nat /\ AddressMod > MEMORY_BLOCKS
      /\ BlockAddress \in Nat
  BY <1>1, Sizes
<1>3. IInv'
  <2>1. State \notin {"RECEIVE_FRAMENUM1", "RECEIVE_DATA"}
    BY <1>1
  <2> QED BY <1>1, <2>1, BytePreserves
<1>4. SendNextBlock(b) \/ SendCancel(b) \/ SendIgnore(b) \/ SendEot
  BY <1>1 DEF XModemProcessByte, ReceiveWait, ReceiveFrameNum1, ReceiveFrameNum2, ReceiveData,
              ReceiveProcess, AcceptBlock, RefuseBlock, DamagedBlock, UnexpectedBlock
<1>5. <<>> \in Seq(Byte) /\ <<BYTE_ACK>> \in Seq(Byte) /\ <<BYTE_EOT>> \in Seq(Byte)
  BY ByteAssumption
<1>6. CASE SendCancel(b) \/ SendIgnore(b) \/ SendEot
  <2>1. /\ UNCHANGED <<BlockAddress, Memory>> /\ State' \in {State, "OFF"} /\ out' \in {<<>>, <<BYTE_ACK>>}
        /\ State = "SEND_INIT" /\ b \in {BYTE_NAK, BYTE_ACK} => State' = "OFF" /\ out' = <<>>
    BY <1>6, ByteAssumption DEF SendCancel, SendIgnore, SendEot, counters
  <2>2. BlockAddress <= BlockAddress
    BY <1>2
  <2>3. /\ State' \in {"OFF", "SEND_INIT", "SEND_EOT"} /\ out' \in Seq(Byte)
        /\ BlockAddress' \in 0 .. MEMORY_BLOCKS /\ BlockAddress <= BlockAddress'
    BY <1>1, <1>5, <2>1, <2>2
  <2> QED BY <1>3, <2>1, <2>3
<1>7. CASE SendNextBlock(b)
  <2>1. /\ b \in {BYTE_NAK, BYTE_ACK} /\ Memory' = Memory
        /\ CurrentFrameNumber' = IF b = BYTE_NAK THEN FIRST_FRAME_NUMBER ELSE Inc(CurrentFrameNumber)
        /\ \/ /\ BlockAddress < MEMORY_BLOCKS
              /\ TerminalBuffer' = Memory[BlockAddress]
              /\ out' = FrameBytes(CurrentFrameNumber', TerminalBuffer')
              /\ BlockAddress' = NextAddress /\ State' = State
           \/ /\ ~(BlockAddress < MEMORY_BLOCKS)
              /\ out' = <<BYTE_EOT>> /\ State' = "SEND_EOT" /\ BlockAddress' = BlockAddress
        /\ State = "SEND_INIT"
    BY <1>7 DEF SendNextBlock, MemoryDownloadBlock
  <2>2. CurrentFrameNumber' \in Byte
    BY <1>1, <2>1, FirstNumber, ByteArithmetic
  <2>3. CASE BlockAddress < MEMORY_BLOCKS
    <3>1. /\ TerminalBuffer' = Memory[BlockAddress] /\ BlockAddress' = NextAddress /\ State' = State
          /\ out' = FrameBytes(CurrentFrameNumber', TerminalBuffer')
      BY <2>1, <2>3
    <3>2. BlockAddress' = BlockAddress + 1
      <4>1. BlockAddress + 1 \in Nat /\ BlockAddress + 1 < AddressMod
        BY <1>2, <2>3
      <4>2. (BlockAddress + 1) % AddressMod = BlockAddress + 1
        BY <1>2, <4>1, ModOfSmall
      <4> QED BY <3>1, <4>2 DEF NextAddress
    <3>3. TerminalBuffer' = DownFile[BlockAddress + 1] /\ TerminalBuffer' \in Block
      <4>1. PICK i \in 1 .. MEMORY_BLOCKS : i = BlockAddress + 1
        BY <1>2, <2>3
      <4>2. i - 1 = BlockAddress
        BY <1>2, <4>1
      <4>3. DownFile[i] \in Block /\ DownFile[i] = InitialMemory[i - 1]
        BY DownFileFacts
      <4> QED BY <1>1, <3>1, <4>1, <4>2, <4>3
    <3>4. out' \in Seq(Byte)
      <4>1. PICK n \in Byte, block \in Block : n = CurrentFrameNumber' /\ block = TerminalBuffer'
        BY <2>2, <3>3
      <4>2. FrameBytes(n, block) \in Seq(Byte)
        BY FrameShape
      <4> QED BY <3>1, <4>1, <4>2
    <3>5. BlockAddress' \in 0 .. MEMORY_BLOCKS /\ BlockAddress <= BlockAddress'
      BY <1>2, <2>3, <3>2
    <3> QED BY <1>3, <2>1, <2>2, <2>3, <3>1, <3>2, <3>3, <3>4, <3>5
  <2>4. CASE ~(BlockAddress < MEMORY_BLOCKS)
    <3>1. BlockAddress = MEMORY_BLOCKS /\ BlockAddress <= BlockAddress
      BY <1>1, <1>2, <2>4
    <3> QED BY <1>1, <1>3, <1>5, <2>1, <2>4, <3>1
  <2> QED BY <2>3, <2>4
<1> QED BY <1>4, <1>6, <1>7

(* An answer of the host brings the next frame, or EOT.                    *)
LEMMA AnswerTaken ==
  ASSUME DownInv, Asked, fromHost' = Tail(fromHost),
         \/ XModemProcessByte(Head(fromHost)) /\ toHost' = toHost \o out'
         \/ State = "OFF" /\ UNCHANGED <<vars, toHost>>,
         UNCHANGED <<host, packetCounter, hostBlock, received, damage>>
  PROVE  DownUnderWay'
<1>1. /\ host = "PKT_ID" /\ toHost = <<>> /\ Len(fromHost) = 1 /\ Head(fromHost) \in {BYTE_NAK, BYTE_ACK}
      /\ Tail(fromHost) = <<>> /\ State \in {"SEND_INIT", "OFF"}
      /\ damage = 0 => /\ Len(received) = BlockAddress
                       /\ Head(fromHost) = BYTE_NAK => packetCounter = FIRST_FRAME_NUMBER
                       /\ Head(fromHost) = BYTE_ACK => packetCounter = Inc(CurrentFrameNumber)
  <2>1. BYTE_NAK # BYTE_ACK
    BY ByteAssumption
  <2>2. CASE fromHost = <<BYTE_NAK>>
    <3>1. Head(fromHost) = BYTE_NAK /\ Tail(fromHost) = <<>> /\ Len(fromHost) = 1
      BY <2>2
    <3>2. <<BYTE_NAK>> # <<BYTE_ACK>>
      BY <2>1
    <3> QED BY <2>1, <2>2, <3>1, <3>2 DEF Asked
  <2>3. CASE fromHost = <<BYTE_ACK>>
    <3>1. Head(fromHost) = BYTE_ACK /\ Tail(fromHost) = <<>> /\ Len(fromHost) = 1
      BY <2>3
    <3>2. <<BYTE_NAK>> # <<BYTE_ACK>>
      BY <2>1
    <3> QED BY <2>1, <2>3, <3>1, <3>2 DEF Asked
  <2> QED BY <2>2, <2>3 DEF Asked
<1>2. DownTypes /\ XMODEM_BLOCK_SIZE \in Nat \ {0} /\ BlockAddress \in Nat /\ FrameSize \in Nat
      /\ MEMORY_BLOCKS \in Nat /\ BlockAddress \in 0 .. MEMORY_BLOCKS
  BY Sizes DEF DownInv, DownTypes
<1>3. toHost' = <<>> => Stuck'
  <2>1. Len(<<>>) = 0 /\ 0 <= XMODEM_BLOCK_SIZE + 1
    BY <1>2
  <2> QED BY <1>1, <2>1 DEF Stuck
<1>4. CASE State = "OFF" /\ UNCHANGED <<vars, toHost>>
  BY <1>1, <1>3, <1>4 DEF DownUnderWay
<1>5. CASE XModemProcessByte(Head(fromHost)) /\ toHost' = toHost \o out'
  <2>1. out' \in Seq(Byte) /\ toHost' = out'
    <3>1. out' \in Seq(Byte)
      BY <1>2, <1>5, SenderTakes
    <3> QED BY <1>1, <1>5, <3>1, NothingBefore
  <2>2. State = "SEND_INIT"
    BY <1>1, <1>5 DEF XModemProcessByte, ReceiveWait, ReceiveFrameNum1, ReceiveFrameNum2, ReceiveData,
              ReceiveProcess, AcceptBlock, RefuseBlock, DamagedBlock, UnexpectedBlock,
              SendNextBlock, SendCancel, SendIgnore, SendEot
  <2>3. \/ /\ BlockAddress < MEMORY_BLOCKS /\ BlockAddress' = BlockAddress + 1
           /\ State' = "SEND_INIT"
           /\ CurrentFrameNumber' \in Byte
           /\ CurrentFrameNumber' = IF Head(fromHost) = BYTE_NAK THEN FIRST_FRAME_NUMBER
                                    ELSE Inc(CurrentFrameNumber)
           /\ out' = FrameBytes(CurrentFrameNumber', DownFile[BlockAddress + 1])
        \/ /\ BlockAddress = MEMORY_BLOCKS /\ BlockAddress' = BlockAddress
           /\ State' = "SEND_EOT" /\ out' = <<BYTE_EOT>>
        \/ State' = "OFF" /\ out' = <<>> /\ BlockAddress' = BlockAddress
    BY <1>1, <1>2, <1>5, <2>2, SenderTakes
  <2>4. CASE State' = "OFF" /\ out' = <<>>
    BY <1>3, <2>1, <2>4 DEF DownUnderWay
  <2>5. CASE /\ BlockAddress = MEMORY_BLOCKS /\ BlockAddress' = BlockAddress
             /\ State' = "SEND_EOT" /\ out' = <<BYTE_EOT>>
    <3>1. Ended'
      BY <1>1, <2>1, <2>5 DEF Ended
    <3> QED BY <3>1 DEF DownUnderWay
  <2>6. CASE /\ BlockAddress < MEMORY_BLOCKS /\ BlockAddress' = BlockAddress + 1
             /\ State' = "SEND_INIT" /\ CurrentFrameNumber' \in Byte
             /\ CurrentFrameNumber' = IF Head(fromHost) = BYTE_NAK THEN FIRST_FRAME_NUMBER
                                      ELSE Inc(CurrentFrameNumber)
             /\ out' = FrameBytes(CurrentFrameNumber', DownFile[BlockAddress + 1])
    <3>1. PICK n \in Byte : n = CurrentFrameNumber'
      BY <2>6
    <3>2. PICK block \in Block : block = DownFile[BlockAddress + 1]
      <4>1. BlockAddress + 1 \in 1 .. MEMORY_BLOCKS
        BY <1>2, <2>6
      <4> QED BY <4>1, DownFileFacts
    <3>3. /\ toHost' = FrameBytes(n, block) /\ Len(FrameBytes(n, block)) = FrameSize
          /\ \A k \in 1 .. FrameSize :
               FrameBytes(n, block)[k] = FrameByte(n, block, CalcChecksum(block), k)
      BY <2>1, <2>6, <3>1, <3>2, FrameShape
    <3>4. HostPlace' = 0 /\ ~(HostPlace' > 1) /\ FrameSize - 0 = FrameSize
      <4>1. HostPlace' = 0
        BY <1>1 DEF HostPlace
      <4> QED BY <1>2, <4>1
    <3>5. Lies(toHost', 0 - HostPlace', n, block, CalcChecksum(block))
      <4>1. \A k \in 1 .. FrameSize : (0 - 0) + k = k
        BY <1>2
      <4> QED BY <3>3, <3>4, <4>1 DEF Lies
    <3>6. Lies(toHost, 0 - HostPlace, CurrentFrameNumber, block, CalcChecksum(DownFile[BlockAddress]))'
      BY <2>6, <3>1, <3>2, <3>5 DEF Lies
    <3>7. /\ host' \in Receiving /\ fromHost' = <<>> /\ State' \in {"SEND_INIT", "OFF"}
          /\ BlockAddress' > 0 /\ host' # "CHECKSUM"
      BY <1>1, <1>2, <2>6 DEF Receiving
    <3>8. InOrderBelow(received, DownFile, BlockAddress)'
      BY <2>6 DEF DownInv, InOrderBelow
    <3>9. damage = 0 => packetCounter = CurrentFrameNumber' /\ Len(received) = BlockAddress' - 1
      <4>1. (BlockAddress + 1) - 1 = BlockAddress
        BY <1>2
      <4> QED BY <1>1, <2>6, <4>1
    <3>10. Served(block)'
      BY <2>6, <3>2, <3>3, <3>4, <3>6, <3>7, <3>8, <3>9 DEF Served
    <3> QED BY <3>10 DEF DownUnderWay
  <2> QED BY <2>3, <2>4, <2>5, <2>6
<1> QED BY <1>4, <1>5

(* The device takes an answer, or, when it is off, drops it.               *)
LEMMA DownTakes == ASSUME DownInv, DownSlow!DeviceByte
                   PROVE  DownInv' /\ DownStep /\ UNCHANGED damage
<1>1. /\ fromHost # <<>> /\ fromHost' = Tail(fromHost)
      /\ UNCHANGED <<host, packetCounter, hostBlock, received, damage>>
      /\ \/ XModemProcessByte(Head(fromHost)) /\ toHost' = toHost \o out'
         \/ State = "OFF" /\ UNCHANGED <<vars, toHost>>
  BY SameDownSlow DEF DownSlow!DeviceByte, DownSlow!hostVars
<1>2. /\ DownTypes /\ fromHost' \in Seq(Byte)
      /\ BlockAddress \in 0 .. MEMORY_BLOCKS /\ BlockAddress \in Nat /\ MEMORY_BLOCKS \in Nat
  BY <1>1, OneByteLess, Sizes DEF DownInv, DownTypes
<1>3. /\ IInv' /\ Memory' = Memory /\ State' \in {"OFF", "SEND_INIT", "SEND_EOT"}
      /\ BlockAddress' \in 0 .. MEMORY_BLOCKS /\ BlockAddress <= BlockAddress' /\ toHost' \in Seq(Byte)
  <2>1. CASE State = "OFF" /\ UNCHANGED <<vars, toHost>>
    <3>1. IInv' /\ UNCHANGED <<State, BlockAddress, Memory>>
      BY <1>2, <2>1, DeviceRests DEF DownTypes
    <3>2. BlockAddress <= BlockAddress
      BY <1>2
    <3> QED BY <1>2, <2>1, <3>1, <3>2 DEF DownTypes
  <2>2. CASE XModemProcessByte(Head(fromHost)) /\ toHost' = toHost \o out'
    <3>1. out' \in Seq(Byte) /\ toHost \in Seq(Byte)
      BY <1>2, <2>2, SenderTakes DEF DownTypes
    <3>2. toHost' \in Seq(Byte)
      BY <2>2, <3>1, ConcatProperties
    <3> QED BY <1>2, <2>2, <3>2, SenderTakes
  <2> QED BY <1>1, <2>1, <2>2
<1>4. DownTypes'
  BY <1>1, <1>2, <1>3 DEF DownTypes
<1>5. InOrderBelow(received, DownFile, BlockAddress + 1)'
  <2>1. PICK p \in Nat, q \in Nat : p = BlockAddress + 1 /\ q = BlockAddress' + 1 /\ p <= q
    <3>1. BlockAddress + 1 \in Nat /\ BlockAddress' + 1 \in Nat /\ BlockAddress + 1 <= BlockAddress' + 1
      <4>1. /\ BlockAddress \in Nat /\ BlockAddress' \in Nat /\ BlockAddress <= BlockAddress'
        BY <1>2, <1>3
      <4>2. \A a, b \in Nat : a <= b => a + 1 \in Nat /\ b + 1 \in Nat /\ a + 1 <= b + 1
        OBVIOUS
      <4> QED BY <4>1, <4>2
    <3> QED BY <3>1
  <2>2. InOrderBelow(received, DownFile, q)
    BY <2>1, InOrderStays DEF DownInv
  <2> QED BY <1>1, <2>1, <2>2 DEF InOrderBelow
<1>6. DownStep
  BY <1>1 DEF DownStep
<1>7. host \in {"IDLE", "DONE", "BROKEN"} \/ DownUnderWay'
  <2>1. DownUnderWay => Asked
    BY <1>1 DEF DownUnderWay, Served, Ended, Stuck
  <2> QED BY <1>1, <2>1, AnswerTaken DEF DownInv
<1> QED BY <1>1, <1>4, <1>5, <1>6, <1>7 DEF DownInv

(* Every action of a download,                                             *)
LEMMA DownSlowStep == ASSUME DownInv, DownSlow!DownNext
                      PROVE  DownInv' /\ DownStep
BY DownStarts, DownReads, DownTimesOut, DownTakes, DownTicks, DownDamages DEF DownSlow!DownNext

(* ... and of a prompt one, which is not damaged.                          *)
LEMMA DownPromptStep == ASSUME DownInv, Down!DownNext
                        PROVE  DownInv' /\ DownStep /\ UNCHANGED damage
<1>1. ~Down!Damage
  <2>1. damage \in Nat
    BY DEF DownInv, DownTypes
  <2> QED BY <2>1 DEF Down!Damage
<1> QED BY <1>1, DownIsDownSlow, DownStarts, DownReads, DownTimesOut, DownTakes, DownTicks
        DEF Down!DownNext

(* A step of which a download sees nothing.                                *)
LEMMA DownRests ==
  ASSUME DownInv, UNCHANGED <<vars, host, packetCounter, hostBlock, hostClock, received, damage,
                              fromHost, toHost>>
  PROVE  DownInv' /\ DownStep
<1>1. IInv' /\ UNCHANGED <<State, BlockAddress, Memory, CurrentFrameNumber>>
  BY DeviceRests DEF DownInv, DownTypes
<1>2. DownTypes'
  BY <1>1 DEF DownInv, DownTypes
<1>3. Asked => Asked'
  BY <1>1 DEF Asked
<1>4. \A block \in Block : Served(block) => Served(block)'
  BY <1>1 DEF Served, Lies, HostPlace, InOrderBelow, OneOff
<1>5. Ended => Ended'
  BY <1>1 DEF Ended
<1>6. Stuck => Stuck'
  BY <1>1 DEF Stuck
<1>7. DownUnderWay => DownUnderWay'
  BY <1>3, <1>4, <1>5, <1>6 DEF DownUnderWay
<1>8. InOrderBelow(received, DownFile, BlockAddress + 1)'
  BY <1>1 DEF DownInv, InOrderBelow
<1> QED BY <1>2, <1>7, <1>8 DEF DownInv, DownStep

-----------------------------------------------------------------------------
(***************************************************************************)
(* The upload from a ChamTool that does not wait for answers: frames queue *)
(* up on the line.                                                         *)
(***************************************************************************)
(* The frames p to h of the file are on the line s, the q-th behind its    *)
(* first at[q] bytes and with the number num[q], and behind them at most   *)
(* EOT.                                                                    *)
Line(s, h, p, at, num) ==
  /\ \A q \in p .. h :
       /\ at[q + 1] = at[q] + FrameSize /\ at[q + 1] <= at[h + 1]
       /\ Lies(s, at[q], num[q], ShortFile[q], CalcChecksum(ShortFile[q]))
  /\ Len(s) <= at[h + 1] + 1
  /\ Len(s) = at[h + 1] + 1 => s[Len(s)] = BYTE_EOT

(* The same with one frame more.                                           *)
Extended(s, h, p, at, num) ==
  \E later \in [Nat -> Int], nums \in [Nat -> Byte] :
    /\ Line(s, h + 1, p, later, nums)
    /\ later[p] = at[p] /\ (p <= h => nums[p] = num[p])
    /\ Len(s) = later[(h + 1) + 1]

(* The host appends the next frame,                                        *)
LEMMA LineGrows ==
  ASSUME NEW s \in Seq(Byte), NEW h \in Nat, h < Len(ShortFile), NEW p \in 1 .. h + 1,
         NEW at \in [Nat -> Int], NEW num \in [Nat -> Byte], Line(s, h, p, at, num),
         Len(s) = at[h + 1], NEW m \in Byte
  PROVE  Extended(s \o FrameBytes(m, ShortFile[h + 1]), h, p, at, num)
<1>1. /\ p \in Nat /\ FrameSize \in Nat /\ Len(s) \in Nat /\ FrameSize # 0
      /\ ShortFile[h + 1] \in Block
  <2>1. h + 1 \in 1 .. Len(ShortFile)
    BY FileFacts
  <2> QED BY <2>1, FileFacts, Sizes, LenProperties
<1>2. PICK new \in Block : new = ShortFile[h + 1]
  BY <1>1
<1>3. PICK r : r = s \o FrameBytes(m, new)
  OBVIOUS
<1>4. /\ r \in Seq(Byte) /\ Len(r) = Len(s) + FrameSize
      /\ Lies(r, Len(s), m, new, CalcChecksum(new))
      /\ \A from \in Int : \A n, block, sum :
           from + FrameSize <= Len(s) /\ Lies(s, from, n, block, sum) => Lies(r, from, n, block, sum)
  BY <1>3, LiesAppend
<1> DEFINE later == [at EXCEPT ![h + 2] = at[h + 1] + FrameSize]
           nums  == [num EXCEPT ![h + 1] = m]
<1>5. /\ later \in [Nat -> Int] /\ nums \in [Nat -> Byte]
      /\ later[h + 2] = at[h + 1] + FrameSize /\ nums[h + 1] = m
      /\ \A q \in Nat : q # h + 2 => later[q] = at[q]
      /\ \A q \in Nat : q # h + 1 => nums[q] = num[q]
  <2>1. h + 2 \in Nat /\ h + 1 \in Nat /\ at[h + 1] \in Int /\ at[h + 1] + FrameSize \in Int
    BY <1>1
  <2> QED BY <2>1
<1> HIDE DEF later, nums
<1>6. later[h + 1] = at[h + 1] /\ at[h + 1] \in Int /\ later[h + 2] = Len(r)
  <2>1. h + 1 \in Nat /\ h + 1 # h + 2
    OBVIOUS
  <2> QED BY <1>4, <1>5, <2>1
<1>7. ASSUME NEW q \in p .. h + 1
      PROVE  /\ later[q + 1] = later[q] + FrameSize /\ later[q + 1] <= later[(h + 1) + 1]
             /\ Lies(r, later[q], nums[q], ShortFile[q], CalcChecksum(ShortFile[q]))
  <2>1. (h + 1) + 1 = h + 2 /\ q \in Nat
    BY <1>1
  <2>2. CASE q = h + 1
    <3>1. later[q] = Len(s) /\ q + 1 = h + 2 /\ nums[q] = m /\ ShortFile[q] = new
      BY <1>2, <1>5, <1>6, <2>2
    <3>2. later[q + 1] = later[q] + FrameSize /\ later[q + 1] <= later[(h + 1) + 1]
      <4>1. later[q + 1] = Len(r) /\ later[(h + 1) + 1] = Len(r)
        BY <1>6, <2>1, <3>1
      <4>2. Len(r) = Len(s) + FrameSize /\ Len(r) <= Len(r)
        BY <1>1, <1>4
      <4> QED BY <3>1, <4>1, <4>2
    <3> QED BY <1>4, <3>1, <3>2
  <2>3. CASE q \in p .. h
    <3>1. /\ later[q] = at[q] /\ later[q + 1] = at[q + 1] /\ nums[q] = num[q]
      <4>1. q # h + 2 /\ q + 1 # h + 2 /\ q # h + 1 /\ q + 1 \in Nat
        BY <2>1, <2>3
      <4> QED BY <1>5, <2>1, <4>1
    <3>2. /\ at[q + 1] = at[q] + FrameSize /\ at[q + 1] <= at[h + 1] /\ at[q] \in Int /\ at[q + 1] \in Int
          /\ Lies(s, at[q], num[q], ShortFile[q], CalcChecksum(ShortFile[q]))
      BY <2>1, <2>3 DEF Line
    <3>3. Lies(r, at[q], num[q], ShortFile[q], CalcChecksum(ShortFile[q]))
      <4>1. at[q] + FrameSize <= Len(s)
        BY <3>2
      <4> QED BY <1>4, <3>2, <4>1
    <3>4. at[q + 1] <= at[h + 1] + FrameSize
      <4>1. \A a, b \in Int, f \in Nat : a <= b => a <= b + f
        OBVIOUS
      <4>2. at[q + 1] <= at[h + 1] /\ at[q + 1] \in Int /\ at[h + 1] \in Int /\ FrameSize \in Nat
        BY <1>1, <1>6, <3>2
      <4> QED BY <4>1, <4>2
    <3> QED BY <1>5, <2>1, <3>1, <3>2, <3>3, <3>4
  <2> QED BY <1>1, <2>2, <2>3
<1>8. Len(r) = later[(h + 1) + 1] /\ Len(r) \in Nat
  <2>1. (h + 1) + 1 = h + 2
    OBVIOUS
  <2> QED BY <1>4, <1>6, <2>1, LenProperties
<1>9. Line(r, h + 1, p, later, nums)
  <2>1. Len(r) <= Len(r) + 1 /\ Len(r) # Len(r) + 1
    BY <1>8
  <2> QED BY <1>7, <1>8, <2>1 DEF Line
<1>10. later[p] = at[p] /\ (p <= h => nums[p] = num[p])
  <2>1. p # h + 2 /\ (p <= h => p # h + 1)
    BY <1>1
  <2> QED BY <1>1, <1>5, <2>1
<1> QED BY <1>2, <1>3, <1>5, <1>8, <1>9, <1>10 DEF Extended

(* ... or EOT;                                                             *)
LEMMA LineEnds ==
  ASSUME NEW s \in Seq(Byte), NEW h \in Nat, NEW p \in 1 .. h + 1,
         NEW at \in [Nat -> Int], NEW num \in [Nat -> Byte], Line(s, h, p, at, num),
         Len(s) = at[h + 1]
  PROVE  Append(s, BYTE_EOT) \in Seq(Byte) /\ Line(Append(s, BYTE_EOT), h, p, at, num)
<1>1. PICK r : r = Append(s, BYTE_EOT)
  OBVIOUS
<1>2. /\ r \in Seq(Byte) /\ Len(r) = Len(s) + 1 /\ r[Len(s) + 1] = BYTE_EOT
      /\ \A i \in 1 .. Len(s) : r[i] = s[i]
  BY <1>1, AppendProperties, ByteAssumption
<1>3. Len(s) \in Nat /\ FrameSize \in Nat /\ p \in Nat
  BY LenProperties, Sizes
<1>4. ASSUME NEW q \in p .. h
      PROVE  /\ at[q + 1] = at[q] + FrameSize /\ at[q + 1] <= at[h + 1]
             /\ Lies(r, at[q], num[q], ShortFile[q], CalcChecksum(ShortFile[q]))
  <2>1. /\ at[q + 1] = at[q] + FrameSize /\ at[q + 1] <= at[h + 1] /\ at[q] \in Int
        /\ Lies(s, at[q], num[q], ShortFile[q], CalcChecksum(ShortFile[q]))
    BY <1>3 DEF Line
  <2>2. at[q] + FrameSize <= Len(s)
    BY <2>1
  <2>3. ASSUME NEW k \in 1 .. FrameSize, at[q] + k \in 1 .. Len(r)
        PROVE  r[at[q] + k] = FrameByte(num[q], ShortFile[q], CalcChecksum(ShortFile[q]), k)
    <3>1. at[q] + k \in 1 .. Len(s)
      <4>1. \A a \in Int, f, m \in Nat : a + f <= m =>
              \A j \in 1 .. f : a + j \in 1 .. m + 1 => a + j \in 1 .. m
        OBVIOUS
      <4>2. at[q] \in Int /\ at[q] + FrameSize <= Len(s) /\ at[q] + k \in 1 .. Len(s) + 1
        BY <1>2, <2>1, <2>2, <2>3
      <4> QED BY <1>3, <4>1, <4>2
    <3> QED BY <1>2, <2>1, <3>1 DEF Lies
  <2> QED BY <2>1, <2>3 DEF Lies
<1>5. Len(r) <= at[h + 1] + 1 /\ r[Len(r)] = BYTE_EOT
  BY <1>2, <1>3
<1> QED BY <1>1, <1>2, <1>4, <1>5 DEF Line

(* the device takes a byte of frame p;                                     *)
LEMMA LineMoves ==
  ASSUME NEW s \in Seq(Byte), s # <<>>, NEW h \in Nat, NEW p \in 1 .. h,
         NEW at \in [Nat -> Int], NEW num \in [Nat -> Byte], Line(s, h, p, at, num),
         0 - at[p] < FrameSize
  PROVE  /\ [q \in Nat |-> at[q] - 1] \in [Nat -> Int]
         /\ Line(Tail(s), h, p, [q \in Nat |-> at[q] - 1], num)
<1> DEFINE later == [q \in Nat |-> at[q] - 1]
<1>1. later \in [Nat -> Int] /\ \A q \in Nat : later[q] = at[q] - 1 /\ at[q] \in Int
  OBVIOUS
<1> HIDE DEF later
<1>2. /\ Tail(s) \in Seq(Byte) /\ Len(s) \in Nat \ {0} /\ Len(Tail(s)) = Len(s) - 1
      /\ \A i \in 1 .. Len(s) - 1 : Tail(s)[i] = s[i + 1]
  BY OneByteLess
<1>3. p \in Nat /\ FrameSize \in Nat /\ h + 1 \in Nat
  BY Sizes
<1>4. ASSUME NEW q \in p .. h
      PROVE  /\ later[q + 1] = later[q] + FrameSize /\ later[q + 1] <= later[h + 1]
             /\ Lies(Tail(s), later[q], num[q], ShortFile[q], CalcChecksum(ShortFile[q]))
  <2>1. /\ at[q + 1] = at[q] + FrameSize /\ at[q + 1] <= at[h + 1]
        /\ Lies(s, at[q], num[q], ShortFile[q], CalcChecksum(ShortFile[q]))
    BY DEF Line
  <2>2. q \in Nat /\ q + 1 \in Nat
    BY <1>3
  <2>3. later[q + 1] = later[q] + FrameSize /\ later[q + 1] <= later[h + 1]
    <3>1. /\ later[q] = at[q] - 1 /\ later[q + 1] = at[q + 1] - 1 /\ later[h + 1] = at[h + 1] - 1
          /\ at[q] \in Int /\ at[q + 1] \in Int /\ at[h + 1] \in Int
      BY <1>1, <1>3, <2>2
    <3>2. \A a, b, c \in Int, f \in Nat : b = a + f /\ b <= c => b - 1 = (a - 1) + f /\ b - 1 <= c - 1
      OBVIOUS
    <3>3. at[q + 1] = at[q] + FrameSize /\ at[q + 1] <= at[h + 1] /\ FrameSize \in Nat
      BY <1>3, <2>1
    <3>4. at[q] \in Int /\ at[q + 1] \in Int /\ at[h + 1] \in Int
      BY <3>1
    <3>5. at[q + 1] - 1 = (at[q] - 1) + FrameSize /\ at[q + 1] - 1 <= at[h + 1] - 1
      BY <3>2, <3>3, <3>4
    <3> QED BY <3>1, <3>5
  <2>4. Lies(Tail(s), at[q] - 1, num[q], ShortFile[q], CalcChecksum(ShortFile[q]))
    BY <1>1, <2>1, <2>2, LiesTail
  <2> QED BY <1>1, <2>2, <2>3, <2>4
<1>5. Len(Tail(s)) <= later[h + 1] + 1
  <2>1. Len(s) <= at[h + 1] + 1 /\ later[h + 1] = at[h + 1] - 1 /\ at[h + 1] \in Int
    BY <1>1, <1>3 DEF Line
  <2> QED BY <1>2, <2>1
<1>6. Len(Tail(s)) = later[h + 1] + 1 => Tail(s)[Len(Tail(s))] = BYTE_EOT
  <2> SUFFICES ASSUME Len(Tail(s)) = later[h + 1] + 1 PROVE Tail(s)[Len(Tail(s))] = BYTE_EOT
    OBVIOUS
  <2>1. /\ later[h + 1] = at[h + 1] - 1 /\ at[h + 1] \in Int /\ at[p] \in Int /\ at[p + 1] \in Int
    BY <1>1, <1>3
  <2>2. at[p + 1] = at[p] + FrameSize /\ at[p + 1] <= at[h + 1]
    <3>1. p \in p .. h
      BY <1>3
    <3> QED BY <3>1 DEF Line
  <2>3. at[h + 1] >= 1
    BY <1>3, <2>1, <2>2
  <2>4. Len(s) = at[h + 1] + 1 /\ Len(s) - 1 \in 1 .. Len(s) - 1 /\ (Len(s) - 1) + 1 = Len(s)
    <3>1. Len(s) - 1 = (at[h + 1] - 1) + 1 /\ Len(s) \in Nat /\ Len(Tail(s)) = Len(s) - 1
      BY <1>2, <2>1
    <3>2. \A m \in Nat, a \in Int : m - 1 = (a - 1) + 1 /\ a >= 1 =>
            m = a + 1 /\ m - 1 \in 1 .. m - 1 /\ (m - 1) + 1 = m
      OBVIOUS
    <3> QED BY <2>1, <2>3, <3>1, <3>2
  <2>5. s[Len(s)] = BYTE_EOT
    BY <2>4 DEF Line
  <2>6. Tail(s)[Len(s) - 1] = s[(Len(s) - 1) + 1]
    BY <1>2, <2>4
  <2> QED BY <1>2, <2>4, <2>5, <2>6
<1>7. Line(Tail(s), h, p, later, num)
  BY <1>4, <1>5, <1>6 DEF Line
<1> QED BY <1>1, <1>7 DEF later

(* the line loses all but its first k bytes.                               *)
LEMMA LineCut ==
  ASSUME NEW s \in Seq(Byte), NEW k \in 0 .. Len(s), NEW h \in Nat, NEW p \in 1 .. h + 1,
         NEW at \in [Nat -> Int], NEW num \in [Nat -> Byte], Line(s, h, p, at, num)
  PROVE  /\ SubSeq(s, 1, k) \in Seq(Byte)
         /\ Line(SubSeq(s, 1, k), h, p, at, num)
<1>1. Len(s) \in Nat /\ p \in Nat
  BY LenProperties
<1>2. PICK r : r = SubSeq(s, 1, k)
  OBVIOUS
<1>3. r \in Seq(Byte) /\ Len(r) = k /\ \A i \in 1 .. k : r[i] = s[i]
  <2>1. \A i \in 1 .. k : i \in 1 .. Len(s)
    BY <1>1
  <2>2. \A i \in 1 .. k : s[i] \in Byte
    BY <2>1, ElementOfSeq
  <2>3. /\ r \in Seq(Byte)
        /\ Len(r) = IF 1 <= k THEN k - 1 + 1 ELSE 0
        /\ \A i \in 1 .. k - 1 + 1 : r[i] = s[1 + i - 1]
    BY <1>1, <1>2, <2>2, SubSeqProperties
  <2>4. k - 1 + 1 = k /\ (1 <= k \/ k = 0) /\ \A i \in 1 .. k : 1 + i - 1 = i
    BY <1>1
  <2> QED BY <2>3, <2>4
<1>4. ASSUME NEW q \in p .. h
      PROVE  Lies(r, at[q], num[q], ShortFile[q], CalcChecksum(ShortFile[q]))
  <2>1. Lies(s, at[q], num[q], ShortFile[q], CalcChecksum(ShortFile[q])) /\ at[q] \in Int
    BY <1>1 DEF Line
  <2> QED BY <1>2, <2>1, LiesPrefix
<1>5. Len(r) <= at[h + 1] + 1 /\ (Len(r) = at[h + 1] + 1 => r[Len(r)] = BYTE_EOT)
  <2>1. Len(s) <= at[h + 1] + 1 /\ (Len(s) = at[h + 1] + 1 => s[Len(s)] = BYTE_EOT) /\ at[h + 1] \in Int
    BY DEF Line
  <2>2. k <= Len(s) /\ k \in Nat
    BY <1>1
  <2>3. Len(r) <= at[h + 1] + 1
    BY <1>1, <1>3, <2>1, <2>2
  <2>4. ASSUME Len(r) = at[h + 1] + 1 PROVE r[Len(r)] = BYTE_EOT
    <3>1. k = Len(s)
      BY <1>1, <1>3, <2>1, <2>2, <2>4
    <3>2. k = 0 \/ k \in 1 .. k
      BY <2>2
    <3>3. k = 0 => r = s
      BY <1>3, <3>1, EmptySeq
    <3> QED BY <1>3, <2>1, <2>4, <3>1, <3>2, <3>3
  <2> QED BY <2>3, <2>4
<1> QED BY <1>2, <1>3, <1>4, <1>5 DEF Line

-----------------------------------------------------------------------------
(* The last block is left out if it ends in bytes of connect.              *)
Whole == IF joined THEN BlockAddress - 1 ELSE BlockAddress

StoredBlocks == [i \in (1 .. Whole) \cap (1 .. MEMORY_BLOCKS) |-> Memory[i - 1]]

(* The device takes the p-th frame next, or is in the middle of it.        *)
Stream(p, at, num) ==
  /\ p \in 1 .. hostPos + 1 /\ at[p] = 0 - Place
  /\ Place > 0 => p <= hostPos
  /\ p <= hostPos => Started(num[p], ShortFile[p])
  /\ Line(fromHost, hostPos, p, at, num)
  /\ host \in {"AWAIT_NAK", "AWAIT_ACK"} => Len(fromHost) = at[hostPos + 1]

(* The cable was pulled, and the device gets the bytes of connect, none of *)
(* which begins a frame.                                                   *)
Greeted ==
  /\ host = "CONNECTING" \/ (host = "GONE" /\ fromHost = <<>>)
  /\ \A i \in 1 .. Len(fromHost) : fromHost[i] # BYTE_SOH
  /\ joined => State \in {"RECEIVE_INIT", "RECEIVE_WAIT"}

SlowUnderWay(p) ==
  \/ State = "OFF"
  \/ /\ State \in ReceiveStates /\ ~joined /\ host \notin {"IDLE", "CONNECTING"}
     /\ \E at \in [Nat -> Int], num \in [Nat -> Byte] : Stream(p, at, num)
  \/ State \in ReceiveStates /\ Greeted

SlowTypes ==
  /\ IInv /\ fromHost \in Seq(Byte) /\ packetCounter \in Byte
  /\ hostPos \in 0 .. Len(ShortFile) /\ joined \in BOOLEAN

(* What is stored comes before the p-th block of the file.                 *)
StoredBelow(p) ==
  /\ p \in 1 .. Len(ShortFile) + 1 /\ Whole < p
  /\ InOrderBelow(StoredBlocks, ShortFile, p)

SlowInv == SlowTypes /\ \E p \in Nat : StoredBelow(p) /\ SlowUnderWay(p)

(* What is stored stays.                                                   *)
LEMMA StoredStays ==
  ASSUME NEW p, StoredBelow(p), UNCHANGED <<BlockAddress, Memory, joined>>
  PROVE  StoredBelow(p)'
<1>1. Whole' = Whole
  BY DEF Whole
<1>2. StoredBlocks' = StoredBlocks
  BY <1>1 DEF StoredBlocks
<1> QED BY <1>1, <1>2 DEF StoredBelow, InOrderBelow

(* A step of the host that leaves the line alone.                          *)
LEMMA StreamStays ==
  ASSUME IInv, NEW p, NEW at, NEW num, Stream(p, at, num), UNCHANGED vars,
         UNCHANGED <<fromHost, hostPos>>, host' = host \/ host' \notin {"AWAIT_NAK", "AWAIT_ACK"}
  PROVE  Stream(p, at, num)'
<1>1. Place' = Place /\ \A n, block : Started(n, block)' <=> Started(n, block)
  BY DeviceRests
<1> QED BY <1>1 DEF Stream, Line, Lies

(* UPLOAD on an idle line.                                                 *)
LEMMA SlowStarts == ASSUME SlowInv, UpSlow!StartUpload PROVE SlowInv'
<1>1. /\ XModemReceive /\ fromHost = <<>> /\ fromHost' = fromHost /\ host' = "AWAIT_NAK"
      /\ packetCounter' = 1 /\ hostPos' = 0 /\ joined' = FALSE
  BY SameUpSlow DEF UpSlow!StartUpload, UpSlow!line
<1>2. IInv' /\ State' = "RECEIVE_INIT" /\ BlockAddress' = 0
  BY <1>1, CommandsPreserve DEF SlowInv, SlowTypes, XModemReceive
<1>3. Len(ShortFile) \in Nat /\ 0 \in 0 .. Len(ShortFile) /\ 1 \in 1 .. Len(ShortFile) + 1 /\ 1 \in Byte
  BY FileFacts, FirstNumber
<1>4. SlowTypes'
  BY <1>1, <1>2, <1>3 DEF SlowInv, SlowTypes
<1>5. StoredBelow(1)'
  <2>1. DOMAIN StoredBlocks' = {}
    BY <1>1, <1>2 DEF StoredBlocks, Whole
  <2>2. InOrderBelow(StoredBlocks', ShortFile, 1)
    BY <2>1, NothingInOrder
  <2>3. InOrderBelow(StoredBlocks, ShortFile, 1)'
    BY <2>2 DEF InOrderBelow
  <2>4. 0 < 1
    OBVIOUS
  <2> QED BY <1>1, <1>2, <1>3, <2>3, <2>4 DEF StoredBelow, Whole
<1> DEFINE at  == [q \in Nat |-> 0]
           num == [q \in Nat |-> 0]
<1>6. at \in [Nat -> Int] /\ num \in [Nat -> Byte] /\ at[1] = 0 /\ at[0 + 1] = 0 /\ 1 .. 0 = {} /\ Len(<<>>) = 0
  BY ByteAssumption DEF Byte
<1> HIDE DEF at, num
<1>7. Line(<<>>, 0, 1, at, num)
  BY <1>6 DEF Line
<1>8. Stream(1, at, num)'
  <2>1. Place' = 0
    BY <1>2 DEF Place
  <2>2. Line(fromHost, hostPos, 1, at, num)'
    BY <1>1, <1>7 DEF Line, Lies
  <2>3. Len(fromHost') = at[hostPos' + 1] /\ at[1] = 0 - Place' /\ ~(Place' > 0) /\ ~(1 <= hostPos')
    BY <1>1, <1>6, <2>1
  <2>4. 1 \in 1 .. hostPos' + 1
    BY <1>1
  <2> QED BY <1>6, <2>2, <2>3, <2>4 DEF Stream
<1>9. SlowUnderWay(1)'
  BY <1>1, <1>2, <1>6, <1>8 DEF SlowUnderWay, ReceiveStates
<1> QED BY <1>4, <1>5, <1>9 DEF SlowInv

(* A frame, or EOT, is put behind what is on the line.                     *)
LEMMA SlowSends ==
  ASSUME SlowInv, UNCHANGED <<vars, joined>>, host \in {"AWAIT_NAK", "AWAIT_ACK"}, packetCounter' \in Byte,
         NEW m \in Byte, UpSlow!SendNext(m)
  PROVE  SlowInv'
<1>1. PICK p \in Nat : StoredBelow(p) /\ SlowUnderWay(p)
  BY DEF SlowInv
<1>2. /\ IInv' /\ UNCHANGED <<State, BlockAddress, Memory>> /\ Place' = Place
      /\ \A n, block : Started(n, block)' <=> Started(n, block)
  BY DeviceRests DEF SlowInv, SlowTypes
<1>3. StoredBelow(p)'
  BY <1>1, <1>2, StoredStays
<1>4. /\ fromHost \in Seq(Byte) /\ hostPos \in 0 .. Len(ShortFile) /\ hostPos \in Nat /\ Len(ShortFile) \in Nat
      /\ p \in Nat /\ Place \in Nat
  <2>1. Place \in Nat
    BY PlaceRange, Sizes DEF SlowInv, SlowTypes
  <2> QED BY <2>1, FileFacts DEF SlowInv, SlowTypes
<1>5. ASSUME State # "OFF"
      PROVE  /\ ~joined
             /\ \E at \in [Nat -> Int], num \in [Nat -> Byte] : Stream(p, at, num) /\ State \in ReceiveStates
  BY <1>1, <1>5 DEF SlowUnderWay, Greeted
<1>6. CASE hostPos < Len(ShortFile)
  <2>1. /\ host' = "AWAIT_ACK" /\ hostPos' = hostPos + 1
        /\ fromHost' = fromHost \o FrameBytes(m, ShortFile[hostPos + 1])
    BY <1>6, SameUpSlow DEF UpSlow!SendNext
  <2>2. SlowTypes'
    <3>1. hostPos + 1 \in 0 .. Len(ShortFile) /\ hostPos + 1 \in 1 .. Len(ShortFile)
      BY <1>4, <1>6
    <3>2. fromHost' \in Seq(Byte)
      BY <1>4, <2>1, <3>1, FileFacts, LiesAppend
    <3> QED BY <1>2, <2>1, <3>1, <3>2 DEF SlowInv, SlowTypes
  <2>3. ASSUME State # "OFF" PROVE SlowUnderWay(p)'
    <3>1. PICK at \in [Nat -> Int], num \in [Nat -> Byte] : Stream(p, at, num) /\ State \in ReceiveStates /\ ~joined
      BY <1>5, <2>3
    <3>2. PICK r : r = fromHost \o FrameBytes(m, ShortFile[hostPos + 1])
      OBVIOUS
    <3>3. PICK h \in Nat : h = hostPos
      BY <1>4
    <3>4. /\ Line(fromHost, h, p, at, num) /\ Len(fromHost) = at[h + 1] /\ p \in 1 .. h + 1
          /\ h < Len(ShortFile) /\ r = fromHost \o FrameBytes(m, ShortFile[h + 1])
      BY <1>6, <3>1, <3>2, <3>3 DEF Stream
    <3>5. Extended(r, h, p, at, num)
      <4>1. Extended(fromHost \o FrameBytes(m, ShortFile[h + 1]), h, p, at, num)
        <5>1. /\ fromHost \in Seq(Byte) /\ p \in 1 .. h + 1 /\ h < Len(ShortFile)
              /\ Line(fromHost, h, p, at, num) /\ Len(fromHost) = at[h + 1]
          BY <1>4, <3>4
        <5> QED BY <5>1, LineGrows
      <4> QED BY <3>4, <4>1
    <3>6. PICK later \in [Nat -> Int], nums \in [Nat -> Byte] :
            /\ Line(r, h + 1, p, later, nums)
            /\ later[p] = at[p] /\ (p <= h => nums[p] = num[p])
            /\ Len(r) = later[(h + 1) + 1]
      BY <3>5 DEF Extended
    <3>7. Line(fromHost, hostPos, p, later, nums)' /\ Len(fromHost') = later[hostPos' + 1]
      BY <2>1, <3>2, <3>3, <3>6 DEF Line, Lies
    <3>8. p \in 1 .. hostPos' + 1 /\ (Place' > 0 => p <= hostPos')
      BY <1>2, <1>4, <2>1, <3>1, <3>3, <3>4 DEF Stream
    <3>9. p <= hostPos' => Started(nums[p], ShortFile[p])
      <4>1. CASE p <= h
        BY <3>1, <3>3, <3>6, <4>1 DEF Stream
      <4>2. CASE ~(p <= h)
        <5>1. Place = 0
          BY <1>4, <3>1, <3>3, <4>2 DEF Stream
        <5> QED BY <5>1 DEF Started
      <4> QED BY <4>1, <4>2
    <3>10. later[p] = 0 - Place'
      BY <1>2, <3>1, <3>6 DEF Stream
    <3>11. Stream(p, later, nums)'
      BY <1>2, <3>7, <3>8, <3>9, <3>10 DEF Stream
    <3> QED BY <1>2, <2>1, <3>1, <3>11 DEF SlowUnderWay
  <2>4. State = "OFF" => SlowUnderWay(p)'
    BY <1>2 DEF SlowUnderWay
  <2> QED BY <1>3, <2>2, <2>3, <2>4 DEF SlowInv
<1>7. CASE ~(hostPos < Len(ShortFile))
  <2>1. /\ host' = "AWAIT_EOT_ACK" /\ hostPos' = hostPos /\ fromHost' = Append(fromHost, BYTE_EOT)
    BY <1>7 DEF UpSlow!SendNext
  <2>2. SlowTypes'
    <3>1. Append(fromHost, BYTE_EOT) \in Seq(Byte)
      BY <1>4, ByteAssumption, AppendProperties
    <3> QED BY <1>2, <1>4, <2>1, <3>1 DEF SlowInv, SlowTypes
  <2>3. ASSUME State # "OFF" PROVE SlowUnderWay(p)'
    <3>1. PICK at \in [Nat -> Int], num \in [Nat -> Byte] : Stream(p, at, num) /\ State \in ReceiveStates /\ ~joined
      BY <1>5, <2>3
    <3>2. PICK h \in Nat : h = hostPos
      BY <1>4
    <3>3. Line(fromHost, h, p, at, num) /\ Len(fromHost) = at[h + 1] /\ p \in 1 .. h + 1
      BY <3>1, <3>2 DEF Stream
    <3>4. Line(Append(fromHost, BYTE_EOT), h, p, at, num)
      BY <1>4, <3>3, LineEnds
    <3>5. Line(fromHost, hostPos, p, at, num)'
      BY <2>1, <3>2, <3>4 DEF Line, Lies
    <3>6. Stream(p, at, num)'
      BY <1>2, <2>1, <3>1, <3>5 DEF Stream
    <3> QED BY <1>2, <2>1, <3>1, <3>6 DEF SlowUnderWay
  <2>4. State = "OFF" => SlowUnderWay(p)'
    BY <1>2 DEF SlowUnderWay
  <2> QED BY <1>3, <2>2, <2>3, <2>4 DEF SlowInv
<1> QED BY <1>6, <1>7

(* The host stops where it is.                                             *)
LEMMA SlowStops ==
  ASSUME SlowInv, UNCHANGED <<vars, joined, hostPos, fromHost, packetCounter>>,
         host \in {"AWAIT_NAK", "AWAIT_ACK", "AWAIT_EOT_ACK"}, host' \in {"DONE", "FAILED"}
  PROVE  SlowInv'
<1>1. PICK p \in Nat : StoredBelow(p) /\ SlowUnderWay(p)
  BY DEF SlowInv
<1>2. IInv /\ IInv' /\ UNCHANGED <<State, BlockAddress, Memory>>
  BY DeviceRests DEF SlowInv, SlowTypes
<1>3. StoredBelow(p)' /\ SlowTypes'
  BY <1>1, <1>2, StoredStays DEF SlowInv, SlowTypes
<1>4. \A at, num : Stream(p, at, num) => Stream(p, at, num)'
  BY <1>2, StreamStays
<1>5. SlowUnderWay(p)'
  BY <1>1, <1>2, <1>4 DEF SlowUnderWay, Greeted
<1> QED BY <1>3, <1>5 DEF SlowInv

(* Whatever a read returns, the host sends the next frame or stops.        *)
LEMMA SlowContinues ==
  ASSUME SlowInv, UNCHANGED <<vars, joined>>, NEW answer, UpSlow!HostContinue(answer)
  PROVE  SlowInv'
<1>1. packetCounter \in Byte /\ Inc(packetCounter) \in Byte
  BY ByteArithmetic DEF SlowInv, SlowTypes
<1>2. CASE host = "AWAIT_NAK"
  <2>1. /\ UNCHANGED packetCounter
        /\ \/ UpSlow!SendNext(packetCounter)
           \/ host' = "FAILED" /\ UNCHANGED <<hostPos, fromHost>>
    BY <1>2 DEF UpSlow!HostContinue
  <2> QED BY <1>1, <1>2, <2>1, SlowSends, SlowStops
<1>3. CASE host = "AWAIT_ACK"
  <2>1. /\ packetCounter' \in Byte /\ UpSlow!SendNext(packetCounter')
    BY <1>1, <1>3, SameUpSlow DEF UpSlow!HostContinue
  <2>2. PICK m \in Byte : m = packetCounter'
    BY <2>1
  <2> QED BY <1>3, <2>1, <2>2, SlowSends
<1>4. CASE host = "AWAIT_EOT_ACK"
  <2>1. host' = "DONE" /\ UNCHANGED <<packetCounter, hostPos, fromHost>>
    BY <1>4 DEF UpSlow!HostContinue
  <2> QED BY <1>4, <2>1, SlowStops
<1> QED BY <1>2, <1>3, <1>4 DEF UpSlow!HostContinue

-----------------------------------------------------------------------------
(* A complete block is stored, or not.                                     *)
LEMMA Judged ==
  ASSUME IInv, NEW p \in Nat, StoredBelow(p), p <= Len(ShortFile), State = "RECEIVE_PROCESS",
         TerminalBuffer = ShortFile[p], NEW b, ReceiveProcess(b), ~joined, ~joined'
  PROVE  StoredBelow(p + 1)' /\ State' \in {"RECEIVE_WAIT", "OFF"}
<1>1. /\ BlockAddress \in Nat /\ Memory \in [0 .. MEMORY_BLOCKS - 1 -> Block]
      /\ AddressMod \in Nat /\ MEMORY_BLOCKS \in Nat /\ BlockAddress < p /\ p # 0
      /\ Len(ShortFile) \in Nat /\ Len(ShortFile) < AddressMod /\ p + 1 \in Nat /\ p <= p + 1
      /\ p + 1 \in 1 .. Len(ShortFile) + 1
  <2>1. BlockAddress \in Nat /\ BlockAddress < p /\ Len(ShortFile) \in Nat
    BY Sizes, FileFacts DEF IInv, TypeOK, StoredBelow, Whole
  <2>2. p # 0 /\ p + 1 \in Nat /\ p <= p + 1 /\ p + 1 \in 1 .. Len(ShortFile) + 1
    BY <2>1
  <2> QED BY <2>1, <2>2, Sizes, FileFacts DEF IInv, TypeOK
<1>2. InOrderBelow(StoredBlocks, ShortFile, p)
  BY DEF StoredBelow
<1>3. CASE UNCHANGED <<BlockAddress, Memory>> /\ State' \in {"RECEIVE_WAIT", "OFF"}
  <2>1. InOrderBelow(StoredBlocks, ShortFile, p + 1)
    BY <1>1, <1>2, InOrderStays
  <2>2. InOrderBelow(StoredBlocks, ShortFile, p + 1)'
    BY <1>3, <2>1 DEF InOrderBelow, StoredBlocks, Whole
  <2>3. BlockAddress < p + 1
    BY <1>1
  <2> QED BY <1>1, <1>3, <2>2, <2>3 DEF StoredBelow, Whole
<1>4. CASE AcceptBlock(b)
  <2>1. /\ Memory' = IF BlockAddress < MEMORY_BLOCKS THEN [Memory EXCEPT ![BlockAddress] = TerminalBuffer] ELSE Memory
        /\ BlockAddress' = NextAddress /\ State' = "RECEIVE_WAIT"
    BY <1>4 DEF AcceptBlock, MemoryUploadBlock
  <2>2. BlockAddress' = BlockAddress + 1 /\ BlockAddress + 1 \in Nat /\ BlockAddress + 1 < p + 1
    <3>1. BlockAddress + 1 \in Nat /\ BlockAddress + 1 < AddressMod /\ BlockAddress + 1 < p + 1
      BY <1>1
    <3>2. (BlockAddress + 1) % AddressMod = BlockAddress + 1
      BY <1>1, <3>1, ModOfSmall
    <3> QED BY <2>1, <3>1, <3>2 DEF NextAddress
  <2>3. PICK old, more : old = StoredBlocks /\ more = StoredBlocks'
    OBVIOUS
  <2>4. /\ DOMAIN old = (1 .. BlockAddress) \cap (1 .. MEMORY_BLOCKS)
        /\ DOMAIN more = (1 .. BlockAddress + 1) \cap (1 .. MEMORY_BLOCKS)
        /\ \A i \in DOMAIN old : old[i] = Memory[i - 1]
        /\ \A i \in DOMAIN more : more[i] = Memory'[i - 1]
    BY <2>2, <2>3 DEF StoredBlocks, Whole
  <2>5. \A i \in DOMAIN old : more[i] = old[i] /\ i \in DOMAIN more
    <3> TAKE i \in DOMAIN old
    <3>1. i \in DOMAIN more /\ i - 1 # BlockAddress /\ i - 1 \in 0 .. MEMORY_BLOCKS - 1
      BY <1>1, <2>4
    <3>2. Memory'[i - 1] = Memory[i - 1]
      BY <1>1, <2>1, <3>1
    <3> QED BY <2>4, <3>1, <3>2
  <2>6. InOrderBelow(more, ShortFile, p + 1)
    <3>1. CASE BlockAddress < MEMORY_BLOCKS
      <4>1. PICK k \in Nat : k = BlockAddress + 1
        BY <2>2
      <4>2. DOMAIN more = DOMAIN old \cup {k} /\ DOMAIN old \subseteq Nat /\ \A i \in DOMAIN old : i < k
        BY <1>1, <2>4, <3>1, <4>1
      <4>3. more[k] = ShortFile[p]
        <5>1. k \in DOMAIN more /\ k - 1 = BlockAddress /\ BlockAddress \in 0 .. MEMORY_BLOCKS - 1
          BY <1>1, <3>1, <4>1, <4>2
        <5>2. Memory'[BlockAddress] = TerminalBuffer
          BY <1>1, <2>1, <3>1, <5>1
        <5> QED BY <2>4, <5>1, <5>2
      <4>4. p \in Nat \ {0} /\ \A i \in DOMAIN old : more[i] = old[i]
        BY <1>1, <2>5
      <4> QED BY <1>2, <2>3, <4>2, <4>3, <4>4, OneMoreInOrder
    <3>2. CASE ~(BlockAddress < MEMORY_BLOCKS)
      <4>1. (1 .. BlockAddress + 1) \cap (1 .. MEMORY_BLOCKS) = (1 .. BlockAddress) \cap (1 .. MEMORY_BLOCKS)
        BY <1>1, <3>2
      <4>2. Memory' = Memory
        BY <2>1, <3>2
      <4>3. more = old
        BY <2>2, <2>3, <4>1, <4>2 DEF StoredBlocks, Whole
      <4> QED BY <1>1, <1>2, <2>3, <4>3, InOrderStays
    <3> QED BY <3>1, <3>2
  <2>7. InOrderBelow(StoredBlocks, ShortFile, p + 1)'
    BY <2>3, <2>6 DEF InOrderBelow
  <2> QED BY <1>1, <2>1, <2>2, <2>7 DEF StoredBelow, Whole
<1> QED BY <1>3, <1>4 DEF ReceiveProcess, RefuseBlock, DamagedBlock, UnexpectedBlock, counters

(* The bytes on the line when the device takes the first.                  *)
LEMMA LineMovesOn ==
  ASSUME fromHost \in Seq(Byte), fromHost # <<>>, hostPos \in Nat, NEW p \in 1 .. hostPos,
         NEW at \in [Nat -> Int], NEW num \in [Nat -> Byte], Line(fromHost, hostPos, p, at, num),
         0 - at[p] < FrameSize, NEW later, later = [q \in Nat |-> at[q] - 1]
  PROVE  later \in [Nat -> Int] /\ Line(Tail(fromHost), hostPos, p, later, num)
<1>1. PICK s \in Seq(Byte), h \in Nat : s = fromHost /\ h = hostPos
  OBVIOUS
<1>2. s # <<>> /\ p \in 1 .. h /\ Line(s, h, p, at, num)
  BY <1>1
<1>3. [q \in Nat |-> at[q] - 1] \in [Nat -> Int] /\ Line(Tail(s), h, p, [q \in Nat |-> at[q] - 1], num)
  BY <1>2, LineMoves
<1> QED BY <1>1, <1>3

(* The device takes a byte of the p-th frame.                              *)
LEMMA SlowTakesFrame ==
  ASSUME SlowTypes, NEW p \in Nat, StoredBelow(p), NEW at \in [Nat -> Int], NEW num \in [Nat -> Byte],
         Stream(p, at, num), State \in ReceiveStates, host \notin {"IDLE", "CONNECTING"}, p <= hostPos,
         fromHost # <<>>, fromHost' = Tail(fromHost), XModemProcessByte(Head(fromHost)),
         ~joined, UNCHANGED <<host, packetCounter, hostPos, joined>>
  PROVE  SlowInv'
<1>1. /\ IInv /\ fromHost \in Seq(Byte) /\ hostPos \in Nat /\ hostPos <= Len(ShortFile) /\ Len(ShortFile) \in Nat
      /\ p \in 1 .. hostPos /\ p \in 1 .. Len(ShortFile)
      /\ Place \in Nat /\ Place + 1 \in 1 .. FrameSize /\ FrameSize \in Nat
      /\ Place + 1 = FrameSize <=> State = "RECEIVE_PROCESS"
  <2>1. IInv /\ fromHost \in Seq(Byte) /\ hostPos \in Nat /\ hostPos <= Len(ShortFile) /\ Len(ShortFile) \in Nat
    BY FileFacts DEF SlowTypes
  <2>2. p \in 1 .. hostPos /\ p \in 1 .. Len(ShortFile)
    BY <2>1 DEF Stream
  <2>3. /\ Place \in 0 .. XMODEM_BLOCK_SIZE + 3 /\ Place + 1 \in 1 .. FrameSize
        /\ State = "RECEIVE_PROCESS" <=> Place = XMODEM_BLOCK_SIZE + 3
    BY <2>1, PlaceRange
  <2>4. /\ Place \in Nat /\ FrameSize \in Nat
        /\ Place + 1 = FrameSize <=> Place = XMODEM_BLOCK_SIZE + 3
    BY <2>3, Sizes
  <2> QED BY <2>1, <2>2, <2>3, <2>4
<1>2. PICK block \in Block : block = ShortFile[p]
  BY <1>1, FileFacts
<1>3. PICK n \in Byte : n = num[p]
  OBVIOUS
<1>4. PICK sum \in Byte : sum = CalcChecksum(block)
  BY ChecksumIsByte
<1>5. /\ at[p] = 0 - Place /\ Started(n, block) /\ Line(fromHost, hostPos, p, at, num)
      /\ host \in {"AWAIT_NAK", "AWAIT_ACK"} => Len(fromHost) = at[hostPos + 1]
  BY <1>2, <1>3 DEF Stream
<1>6. Head(fromHost) = FrameByte(n, block, sum, Place + 1)
  <2>1. p \in p .. hostPos
    BY <1>1
  <2>2. Lies(fromHost, 0 - Place, n, block, sum)
    BY <1>2, <1>3, <1>4, <1>5, <2>1 DEF Line
  <2> QED BY <1>1, <2>2, NextByte
<1>7. PICK later : later = [q \in Nat |-> at[q] - 1]
  OBVIOUS
<1>8. /\ later \in [Nat -> Int] /\ Line(fromHost', hostPos, p, later, num)
      /\ \A q \in Nat : later[q] = at[q] - 1
  <2>1. 0 - at[p] < FrameSize
    BY <1>1, <1>5
  <2>2. later \in [Nat -> Int] /\ Line(Tail(fromHost), hostPos, p, later, num)
    BY <1>1, <1>5, <1>7, <2>1, LineMovesOn
  <2> QED BY <1>7, <2>2
<1>9. fromHost' \in Seq(Byte) /\ Len(fromHost') = Len(fromHost) - 1
  BY <1>1, OneByteLess
<1>10. host' \in {"AWAIT_NAK", "AWAIT_ACK"} => Len(fromHost') = later[hostPos + 1]
  <2>1. hostPos + 1 \in Nat
    BY <1>1
  <2> QED BY <1>5, <1>8, <1>9, <2>1
<1>11. XModemProcessByte(FrameByte(n, block, sum, Place + 1))
  BY <1>6
<1>12. CASE State # "RECEIVE_PROCESS"
  <2>1. /\ IInv' /\ Started(n, block)' /\ Place' = Place + 1 /\ State' \in ReceiveStates
        /\ UNCHANGED <<counters, Memory>>
    BY <1>1, <1>5, <1>11, <1>12, TakesByte
  <2>2. StoredBelow(p)'
    BY <2>1, StoredStays DEF counters
  <2>3. Stream(p, later, num)'
    <3>1. later[p] = 0 - Place'
      <4>1. (0 - Place) - 1 = 0 - (Place + 1)
        BY <1>1
      <4> QED BY <1>5, <1>8, <2>1, <4>1
    <3>2. p \in 1 .. hostPos + 1 /\ p <= hostPos
      BY <1>1
    <3>3. Line(fromHost, hostPos, p, later, num)'
      BY <1>8 DEF Line, Lies
    <3>4. Started(num[p], ShortFile[p])'
      BY <1>2, <1>3, <2>1 DEF Started
    <3> QED BY <1>10, <3>1, <3>2, <3>3, <3>4 DEF Stream
  <2>4. SlowTypes'
    BY <1>9, <2>1 DEF SlowTypes
  <2>5. SlowUnderWay(p)'
    BY <1>8, <2>1, <2>3 DEF SlowUnderWay
  <2> QED BY <2>2, <2>4, <2>5 DEF SlowInv
<1>13. CASE State = "RECEIVE_PROCESS"
  <2>1. /\ IInv' /\ TerminalBuffer = block /\ Place + 1 = FrameSize /\ ReceiveProcess(sum)
    BY <1>1, <1>5, <1>11, <1>13, TakesChecksum
  <2>2. StoredBelow(p + 1)' /\ State' \in {"RECEIVE_WAIT", "OFF"}
    <3>1. p <= Len(ShortFile)
      BY <1>1
    <3> QED BY <1>1, <1>2, <1>13, <2>1, <3>1, Judged
  <2>3. SlowTypes'
    BY <1>9, <2>1 DEF SlowTypes
  <2>4. ASSUME State' = "RECEIVE_WAIT" PROVE SlowUnderWay(p + 1)'
    <3>1. Place' = 0 /\ State' \in ReceiveStates
      BY <2>4 DEF Place, ReceiveStates
    <3>2. later[p + 1] = 0 - Place'
      <4>1. at[p + 1] = at[p] + FrameSize /\ later[p + 1] = at[p + 1] - 1 /\ at[p] = 0 - Place
        <5>1. p \in p .. hostPos /\ p + 1 \in Nat
          BY <1>1
        <5> QED BY <1>5, <1>8, <5>1 DEF Line
      <4>2. ((0 - Place) + FrameSize) - 1 = 0 - 0
        BY <1>1, <2>1
      <4> QED BY <3>1, <4>1, <4>2
    <3>3. Line(fromHost, hostPos, p + 1, later, num)'
      <4>1. \A q \in p + 1 .. hostPos : q \in p .. hostPos
        BY <1>1
      <4> QED BY <1>8, <4>1 DEF Line, Lies
    <3>4. p + 1 \in 1 .. hostPos + 1 /\ ~(Place' > 0)
      BY <1>1, <3>1
    <3>5. Started(num[p + 1], ShortFile[p + 1])'
      BY <3>1 DEF Started
    <3>6. Stream(p + 1, later, num)'
      BY <1>10, <3>2, <3>3, <3>4, <3>5 DEF Stream
    <3> QED BY <1>8, <3>1, <3>6 DEF SlowUnderWay
  <2>5. State' = "OFF" => SlowUnderWay(p + 1)'
    BY DEF SlowUnderWay
  <2> QED BY <1>1, <2>2, <2>3, <2>4, <2>5 DEF SlowInv
<1> QED BY <1>12, <1>13

(* Behind the last frame there is only EOT.                                *)
LEMMA SlowTakesEot ==
  ASSUME SlowTypes, NEW p \in Nat, StoredBelow(p), NEW at, NEW num,
         Stream(p, at, num), State \in ReceiveStates, ~(p <= hostPos),
         fromHost # <<>>, fromHost' = Tail(fromHost), XModemProcessByte(Head(fromHost)),
         UNCHANGED <<host, packetCounter, hostPos, joined>>
  PROVE  SlowInv'
<1>1. /\ IInv /\ fromHost \in Seq(Byte) /\ hostPos \in Nat /\ Place \in Nat
      /\ State \in {"OFF", "RECEIVE_INIT", "RECEIVE_WAIT", "SEND_INIT", "SEND_EOT"} <=> Place = 0
  BY PlaceRange, Sizes, FileFacts DEF SlowTypes
<1>2. Place = 0 /\ p = hostPos + 1
  BY <1>1 DEF Stream
<1>3. State \in {"RECEIVE_INIT", "RECEIVE_WAIT"}
  BY <1>1, <1>2 DEF ReceiveStates
<1>4. Head(fromHost) = BYTE_EOT
  <2>1. Len(fromHost) <= at[hostPos + 1] + 1 /\ at[hostPos + 1] = 0 - 0
        /\ (Len(fromHost) = at[hostPos + 1] + 1 => fromHost[Len(fromHost)] = BYTE_EOT)
    BY <1>2 DEF Stream, Line
  <2>2. Head(fromHost) = fromHost[1] /\ Len(fromHost) \in Nat \ {0}
    BY <1>1, OneByteLess
  <2>3. Len(fromHost) = 1
    <3>1. PICK k : k = Len(fromHost)
      OBVIOUS
    <3>2. at[hostPos + 1] = 0
      BY <2>1
    <3>3. k \in Nat \ {0} /\ k <= 0 + 1
      BY <2>1, <2>2, <3>1, <3>2
    <3>4. \A i \in Nat \ {0} : i <= 0 + 1 => i = 1
      OBVIOUS
    <3>5. k = 1
      BY <3>3, <3>4
    <3> QED BY <3>1, <3>5
  <2> QED BY <2>1, <2>2, <2>3
<1>5. IInv' /\ State' = "OFF" /\ UNCHANGED <<BlockAddress, Memory>>
  BY <1>1, <1>3, <1>4, EotTaken
<1>6. SlowTypes'
  BY <1>1, <1>5, OneByteLess DEF SlowTypes
<1> QED BY <1>5, <1>6, StoredStays DEF SlowInv, SlowUnderWay

(* Only the verdict on a block changes what is stored.                     *)
LEMMA ByteStoresNothing ==
  ASSUME IInv, State \in ReceiveStates, State # "RECEIVE_PROCESS", NEW b, XModemProcessByte(b)
  PROVE  UNCHANGED <<BlockAddress, Memory>> /\ State' \in ReceiveStates \cup {"OFF"}
<1>1. ReceiveWait(b) \/ ReceiveFrameNum1(b) \/ ReceiveFrameNum2(b) \/ ReceiveData(b)
  BY Dispatch DEF ReceiveStates
<1> QED BY <1>1 DEF ReceiveWait, ReceiveFrameNum1, ReceiveFrameNum2, ReceiveData, counters, ReceiveStates

(* Outside a frame, nothing but the first byte of one matters.             *)
LEMMA ByteBetween ==
  ASSUME IInv, State \in {"RECEIVE_INIT", "RECEIVE_WAIT"}, NEW b, b # BYTE_SOH, XModemProcessByte(b)
  PROVE  UNCHANGED <<BlockAddress, Memory>> /\ State' \in {"RECEIVE_INIT", "RECEIVE_WAIT", "OFF"}
<1>1. ReceiveWait(b)
  BY Dispatch
<1> QED BY <1>1 DEF ReceiveWait, counters

(* A block the bytes of connect complete is left out, and what is before   *)
(* it stays.                                                               *)
LEMMA JoinedStores ==
  ASSUME IInv, NEW p \in Nat, StoredBelow(p), State = "RECEIVE_PROCESS", NEW b, ReceiveProcess(b),
         joined = FALSE, joined' = (BlockAddress' # BlockAddress)
  PROVE  StoredBelow(p)' /\ State' \in {"RECEIVE_WAIT", "OFF"}
<1>1. CASE UNCHANGED <<BlockAddress, Memory>> /\ State' \in {"RECEIVE_WAIT", "OFF"}
  <2>1. BlockAddress' = BlockAddress /\ Memory' = Memory
    BY <1>1
  <2>2. ~joined'
    BY <2>1
  <2>3. joined' = FALSE
    BY <2>2, Zenon
  <2> QED BY <1>1, <2>1, <2>3, StoredStays
<1>2. CASE AcceptBlock(b)
  <2>1. /\ Memory' = IF BlockAddress < MEMORY_BLOCKS THEN [Memory EXCEPT ![BlockAddress] = TerminalBuffer] ELSE Memory
        /\ BlockAddress' = NextAddress /\ State' = "RECEIVE_WAIT"
    BY <1>2 DEF AcceptBlock, MemoryUploadBlock
  <2>2. /\ BlockAddress \in Nat /\ BlockAddress < AddressMod /\ AddressMod \in Nat /\ AddressMod > 1
        /\ MEMORY_BLOCKS \in Nat /\ Memory \in [0 .. MEMORY_BLOCKS - 1 -> Block] /\ BlockAddress < p
    BY SizeAssumption, Sizes DEF IInv, TypeOK, StoredBelow, Whole
  <2>3. CASE BlockAddress + 1 = AddressMod
    <3>1. BlockAddress' = 0 /\ 0 # BlockAddress
      BY <2>1, <2>2, <2>3 DEF NextAddress
    <3>2. joined' = TRUE
      BY <3>1, Zenon
    <3>3. Whole' = 0 - 1 /\ 0 - 1 < p
      BY <3>1, <3>2 DEF Whole
    <3>4. DOMAIN StoredBlocks' = {}
      BY <3>3 DEF StoredBlocks
    <3>5. InOrderBelow(StoredBlocks', ShortFile, p)
      BY <3>4, NothingInOrder
    <3>6. InOrderBelow(StoredBlocks, ShortFile, p)'
      BY <3>5 DEF InOrderBelow
    <3> QED BY <2>1, <3>3, <3>6 DEF StoredBelow
  <2>4. CASE BlockAddress + 1 # AddressMod
    <3>1. BlockAddress' = BlockAddress + 1
      BY <2>1, <2>2, <2>4, ModOfSmall DEF NextAddress
    <3>2. joined' = TRUE
      <4>1. BlockAddress' # BlockAddress
        BY <2>2, <3>1
      <4> QED BY <4>1, Zenon
    <3>3. Whole' = BlockAddress /\ Whole = BlockAddress
      BY <2>2, <3>1, <3>2 DEF Whole
    <3>4. \A i \in (1 .. BlockAddress) \cap (1 .. MEMORY_BLOCKS) : Memory'[i - 1] = Memory[i - 1]
      <4> TAKE i \in (1 .. BlockAddress) \cap (1 .. MEMORY_BLOCKS)
      <4>1. i - 1 # BlockAddress /\ i - 1 \in 0 .. MEMORY_BLOCKS - 1
        BY <2>2
      <4> QED BY <2>1, <2>2, <4>1
    <3>5. StoredBlocks' = StoredBlocks
      BY <3>3, <3>4 DEF StoredBlocks
    <3> QED BY <2>1, <3>3, <3>5 DEF StoredBelow, InOrderBelow
  <2> QED BY <2>3, <2>4
<1> QED BY <1>1, <1>2 DEF ReceiveProcess, RefuseBlock, DamagedBlock, UnexpectedBlock, counters

(* The device takes a byte of connect.                                     *)
LEMMA SlowTakesGreeting ==
  ASSUME SlowTypes, NEW p \in Nat, StoredBelow(p), State \in ReceiveStates, Greeted,
         fromHost # <<>>, fromHost' = Tail(fromHost), XModemProcessByte(Head(fromHost)),
         joined' = (joined \/ (host = "CONNECTING" /\ BlockAddress' # BlockAddress)),
         host = "CONNECTING", UNCHANGED <<host, packetCounter, hostPos>>
  PROVE  SlowInv'
<1>1. /\ IInv /\ fromHost \in Seq(Byte) /\ Head(fromHost) \in Byte /\ fromHost' \in Seq(Byte)
      /\ Len(fromHost) \in Nat \ {0} /\ Len(fromHost') = Len(fromHost) - 1
      /\ Head(fromHost) = fromHost[1] /\ \A i \in 1 .. Len(fromHost') : fromHost'[i] = fromHost[i + 1]
  BY OneByteLess, HeadTailProperties, ElementOfSeq DEF SlowTypes
<1>2. Head(fromHost) # BYTE_SOH /\ \A i \in 1 .. Len(fromHost') : fromHost'[i] # BYTE_SOH
  <2>1. 1 \in 1 .. Len(fromHost) /\ \A i \in 1 .. Len(fromHost') : i + 1 \in 1 .. Len(fromHost)
    BY <1>1
  <2> QED BY <1>1, <2>1 DEF Greeted
<1>3. joined' \in BOOLEAN
  OBVIOUS
<1>4. IInv' /\ SlowTypes'
  BY <1>1, <1>3, BytePreserves DEF SlowTypes
<1>5. CASE joined
  <2>1. UNCHANGED <<BlockAddress, Memory>> /\ State' \in {"RECEIVE_INIT", "RECEIVE_WAIT", "OFF"}
    BY <1>1, <1>2, <1>5, ByteBetween DEF Greeted
  <2>2. joined' = joined
    BY <1>5 DEF SlowTypes
  <2>3. StoredBelow(p)'
    BY <2>1, <2>2, StoredStays
  <2>4. SlowUnderWay(p)'
    BY <1>2, <2>1 DEF SlowUnderWay, Greeted, ReceiveStates
  <2> QED BY <1>4, <2>3, <2>4 DEF SlowInv
<1>6. CASE ~joined /\ State # "RECEIVE_PROCESS"
  <2>1. UNCHANGED <<BlockAddress, Memory>> /\ State' \in ReceiveStates \cup {"OFF"}
    BY <1>1, <1>6, ByteStoresNothing
  <2>2. joined' = joined /\ ~joined'
    BY <1>6, <2>1 DEF SlowTypes
  <2>3. StoredBelow(p)'
    BY <2>1, <2>2, StoredStays
  <2>4. SlowUnderWay(p)'
    BY <1>2, <2>1, <2>2 DEF SlowUnderWay, Greeted
  <2> QED BY <1>4, <2>3, <2>4 DEF SlowInv
<1>7. CASE ~joined /\ State = "RECEIVE_PROCESS"
  <2>1. ReceiveProcess(Head(fromHost))
    BY <1>7, Dispatch
  <2>2. joined' = (BlockAddress' # BlockAddress) /\ joined = FALSE
    BY <1>7 DEF SlowTypes
  <2>3. StoredBelow(p)' /\ State' \in {"RECEIVE_WAIT", "OFF"}
    BY <1>1, <1>7, <2>1, <2>2, JoinedStores
  <2>4. SlowUnderWay(p)'
    BY <1>2, <2>3 DEF SlowUnderWay, Greeted, ReceiveStates
  <2> QED BY <1>4, <2>3, <2>4 DEF SlowInv
<1> QED BY <1>5, <1>6, <1>7

(* All bytes.                                                              *)
LEMMA SlowTakes == ASSUME SlowInv, UpSlow!DeviceByte PROVE SlowInv'
<1>1. /\ fromHost # <<>> /\ fromHost' = Tail(fromHost) /\ UNCHANGED <<host, packetCounter, hostPos>>
      /\ XModemProcessByte(Head(fromHost)) \/ (State = "OFF" /\ UNCHANGED vars)
      /\ joined' = (joined \/ (host = "CONNECTING" /\ BlockAddress' # BlockAddress))
  BY SameUpSlow DEF UpSlow!DeviceByte, UpSlow!hostVars
<1>2. PICK p \in Nat : StoredBelow(p) /\ SlowUnderWay(p)
  BY DEF SlowInv
<1>3. SlowTypes /\ IInv /\ fromHost' \in Seq(Byte)
  BY <1>1, OneByteLess DEF SlowInv, SlowTypes
<1>4. CASE State = "OFF"
  <2>1. UNCHANGED vars
    BY <1>1, <1>4, Dispatch
  <2>2. IInv' /\ UNCHANGED <<State, BlockAddress, Memory>>
    BY <1>3, <2>1, DeviceRests
  <2>3. joined' = joined
    BY <1>1, <1>3, <2>2 DEF SlowTypes
  <2>4. SlowTypes'
    BY <1>1, <1>3, <2>2, <2>3 DEF SlowTypes
  <2> QED BY <1>2, <1>4, <2>2, <2>3, <2>4, StoredStays DEF SlowInv, SlowUnderWay
<1>5. CASE State # "OFF"
  <2>1. State \in ReceiveStates /\ XModemProcessByte(Head(fromHost))
    BY <1>1, <1>2, <1>5 DEF SlowUnderWay
  <2>2. ASSUME NEW at \in [Nat -> Int], NEW num \in [Nat -> Byte], Stream(p, at, num),
               host \notin {"IDLE", "CONNECTING"}, ~joined
        PROVE  SlowInv'
    <3>1. joined' = joined
      BY <1>1, <1>3, <2>2 DEF SlowTypes
    <3> QED BY <1>1, <1>2, <1>3, <2>1, <2>2, <3>1, SlowTakesFrame, SlowTakesEot
  <2>3. CASE Greeted /\ host = "CONNECTING"
    BY <1>1, <1>2, <1>3, <2>1, <2>3, SlowTakesGreeting
  <2> QED BY <1>1, <1>2, <1>5, <2>2, <2>3 DEF SlowUnderWay, Greeted
<1> QED BY <1>4, <1>5

-----------------------------------------------------------------------------
(* A tick leaves the bytes taken of a frame alone, or ends the transfer.   *)
LEMMA SlowTicks == ASSUME SlowInv, UpSlow!Tick PROVE SlowInv'
<1>1. /\ XModemTick \/ UNCHANGED vars
      /\ UNCHANGED <<host, packetCounter, hostPos, fromHost, joined>>
  BY SameUpSlow DEF UpSlow!Tick
<1>2. PICK p \in Nat : StoredBelow(p) /\ SlowUnderWay(p)
  BY DEF SlowInv
<1>3. IInv /\ IInv'
  BY <1>1, TickPreserves, UnchangedIInv DEF SlowInv, SlowTypes
<1>4. UNCHANGED <<BlockAddress, Memory, BufferIdx, TerminalBuffer, ReceivedFrameNumber>>
  BY <1>1 DEF XModemTick, ReceiveTick, SendTick, frame, vars, counters
<1>5. SlowTypes' /\ StoredBelow(p)'
  BY <1>1, <1>2, <1>3, <1>4, StoredStays DEF SlowInv, SlowTypes
<1>6. CASE State' = "OFF"
  BY <1>2, <1>5, <1>6 DEF SlowInv, SlowUnderWay
<1>7. CASE State' = State
  <2>1. Place' = Place
    BY <1>4, <1>7 DEF Place
  <2>2. \A n, block : Started(n, block) => Started(n, block)'
    BY <1>4, <2>1 DEF Started
  <2>3. \A at, num : Stream(p, at, num) => Stream(p, at, num)'
    BY <1>1, <2>1, <2>2 DEF Stream, Line, Lies
  <2>4. SlowUnderWay(p)'
    BY <1>1, <1>2, <1>4, <1>7, <2>3 DEF SlowUnderWay, Greeted
  <2> QED BY <1>5, <2>4 DEF SlowInv
<1>8. State' = State \/ State' = "OFF"
  <2>1. State \in ReceiveStates \cup {"OFF"}
    BY <1>2 DEF SlowUnderWay
  <2> QED BY <1>1, <2>1 DEF XModemTick, ReceiveTick, SendTick, ReceiveStates, vars
<1> QED BY <1>6, <1>7, <1>8

(* A pulled cable leaves the first bytes of what was under way.            *)
LEMMA SlowDisconnects == ASSUME SlowInv, UpSlow!Disconnect PROVE SlowInv'
<1>1. /\ UNCHANGED <<vars, packetCounter, hostPos, joined>> /\ host' = "GONE"
      /\ host \in {"AWAIT_NAK", "AWAIT_ACK", "AWAIT_EOT_ACK"}
  BY SameUpSlow DEF UpSlow!Disconnect, UpSlow!HostReading
<1>2. PICK k \in 0 .. Len(fromHost) : fromHost' = SubSeq(fromHost, 1, k)
  BY DEF UpSlow!Disconnect
<1>3. PICK p \in Nat : StoredBelow(p) /\ SlowUnderWay(p)
  BY DEF SlowInv
<1>4. /\ IInv /\ IInv' /\ UNCHANGED <<State, BlockAddress, Memory>> /\ Place' = Place
      /\ \A n, block : Started(n, block)' <=> Started(n, block)
  BY <1>1, DeviceRests DEF SlowInv, SlowTypes
<1>5. fromHost \in Seq(Byte) /\ hostPos \in 0 .. Len(ShortFile) /\ hostPos \in Nat
  BY FileFacts DEF SlowInv, SlowTypes
<1>6. fromHost' \in Seq(Byte)
  <2>1. \A i \in 1 .. k : fromHost[i] \in Byte
    <3>1. Len(fromHost) \in Nat
      BY <1>5, LenProperties
    <3>2. \A i \in 1 .. k : i \in 1 .. Len(fromHost)
      BY <3>1
    <3> QED BY <1>5, <3>2, ElementOfSeq
  <2> QED BY <1>2, <1>5, <2>1, SubSeqProperties
<1>7. SlowTypes' /\ StoredBelow(p)'
  BY <1>1, <1>3, <1>4, <1>5, <1>6, StoredStays DEF SlowInv, SlowTypes
<1>8. CASE State = "OFF"
  BY <1>3, <1>4, <1>7, <1>8 DEF SlowInv, SlowUnderWay
<1>9. CASE State # "OFF"
  <2>1. PICK at \in [Nat -> Int], num \in [Nat -> Byte] : Stream(p, at, num) /\ State \in ReceiveStates /\ ~joined
    BY <1>1, <1>3, <1>9 DEF SlowUnderWay, Greeted
  <2>2. PICK h \in Nat : h = hostPos
    BY <1>5
  <2>3. Line(fromHost, h, p, at, num) /\ p \in 1 .. h + 1
    BY <2>1, <2>2 DEF Stream
  <2>4. Line(SubSeq(fromHost, 1, k), h, p, at, num)
    BY <1>2, <1>5, <2>3, LineCut
  <2>5. Line(fromHost, hostPos, p, at, num)'
    BY <1>1, <1>2, <2>2, <2>4 DEF Line, Lies
  <2>6. Stream(p, at, num)'
    BY <1>1, <1>4, <2>1, <2>5 DEF Stream
  <2>7. SlowUnderWay(p)'
    BY <1>1, <1>4, <2>1, <2>6 DEF SlowUnderWay
  <2> QED BY <1>7, <2>7 DEF SlowInv
<1> QED BY <1>8, <1>9

(* A sequence over a set is one over any larger set.                       *)
LEMMA SeqOfMore == ASSUME NEW S, NEW T, S \subseteq T, NEW s \in Seq(S) PROVE s \in Seq(T)
OBVIOUS

(* A new connection, once the device has read what was left.               *)
LEMMA SlowConnects == ASSUME SlowInv, UpSlow!Connect PROVE SlowInv'
<1>1. /\ UNCHANGED <<vars, packetCounter, hostPos, joined>> /\ host = "GONE" /\ host' = "CONNECTING"
      /\ fromHost = <<>> /\ fromHost' = <<BYTE_ESC>> \o VersionCommand
  BY SameUpSlow DEF UpSlow!Connect
<1>2. PICK p \in Nat : StoredBelow(p) /\ SlowUnderWay(p)
  BY DEF SlowInv
<1>3. /\ IInv /\ IInv' /\ UNCHANGED <<State, BlockAddress, Memory>>
  BY <1>1, DeviceRests DEF SlowInv, SlowTypes
<1>4. fromHost' \in Seq(Byte) /\ \A i \in 1 .. Len(fromHost') : fromHost'[i] # BYTE_SOH
  <2>1. <<BYTE_ESC>> \in Seq(Byte \ {BYTE_SOH})
    BY ByteAssumption
  <2>2. fromHost' \in Seq(Byte \ {BYTE_SOH})
    BY <1>1, <2>1, LinkAssumption
  <2>3. Byte \ {BYTE_SOH} \subseteq Byte
    OBVIOUS
  <2>4. \A i \in 1 .. Len(fromHost') : fromHost'[i] \in Byte \ {BYTE_SOH}
    BY <2>2, ElementOfSeq
  <2> QED BY <2>2, <2>3, <2>4, SeqOfMore
<1>5. SlowTypes' /\ StoredBelow(p)'
  BY <1>1, <1>2, <1>3, <1>4, StoredStays DEF SlowInv, SlowTypes
<1>6. SlowUnderWay(p)'
  BY <1>1, <1>2, <1>3, <1>4 DEF SlowUnderWay, Greeted
<1> QED BY <1>5, <1>6 DEF SlowInv

(* connect has the version, or not.                                        *)
LEMMA SlowConnected == ASSUME SlowInv, UpSlow!ConnectReturns PROVE SlowInv'
<1>1. /\ UNCHANGED <<vars, packetCounter, hostPos, joined, fromHost>> /\ host = "CONNECTING" /\ fromHost = <<>>
      /\ State # "OFF" => host' = "GONE"
  BY SameUpSlow DEF UpSlow!ConnectReturns
<1>2. PICK p \in Nat : StoredBelow(p) /\ SlowUnderWay(p)
  BY DEF SlowInv
<1>3. /\ IInv /\ IInv' /\ UNCHANGED <<State, BlockAddress, Memory>>
  BY <1>1, DeviceRests DEF SlowInv, SlowTypes
<1>4. SlowTypes' /\ StoredBelow(p)'
  BY <1>1, <1>2, <1>3, StoredStays DEF SlowInv, SlowTypes
<1>5. SlowUnderWay(p)'
  BY <1>1, <1>2, <1>3 DEF SlowUnderWay, Greeted
<1> QED BY <1>4, <1>5 DEF SlowInv

(* Every action of a slow upload.                                          *)
LEMMA SlowStep == ASSUME SlowInv, UpSlow!UpNext PROVE SlowInv'
<1>1. ASSUME UpSlow!HostRead \/ UpSlow!HostTimeout PROVE SlowInv'
  BY <1>1, SameUpSlow, SlowContinues DEF UpSlow!HostRead, UpSlow!HostTimeout
<1> QED BY <1>1, SlowStarts, SlowTakes, SlowTicks, SlowDisconnects, SlowConnects,
          SlowConnected DEF UpSlow!UpNext

(* A step of which a slow upload sees nothing.                             *)
LEMMA SlowRests ==
  ASSUME SlowInv, UNCHANGED <<vars, host, packetCounter, hostPos, fromHost, joined>>
  PROVE  SlowInv'
<1>1. PICK p \in Nat : StoredBelow(p) /\ SlowUnderWay(p)
  BY DEF SlowInv
<1>2. IInv /\ IInv' /\ UNCHANGED <<State, BlockAddress, Memory, TerminalBuffer>>
  BY DeviceRests DEF SlowInv, SlowTypes
<1>3. StoredBelow(p)' /\ SlowTypes'
  BY <1>1, <1>2, StoredStays DEF SlowInv, SlowTypes
<1>4. \A at, num : Stream(p, at, num) => Stream(p, at, num)'
  BY <1>2, StreamStays
<1>5. SlowUnderWay(p)'
  BY <1>1, <1>2, <1>4 DEF SlowUnderWay, Greeted
<1> QED BY <1>3, <1>5 DEF SlowInv

-----------------------------------------------------------------------------
(***************************************************************************)
(* All of them together.                                                   *)
(***************************************************************************)
Scenarios == {"upload", "upload_slow", "download", "download_slow", "retry"}

LinkInv ==
  /\ scenario \in Scenarios
  /\ scenario = "upload" => UpInv
  /\ scenario = "upload_slow" => SlowInv
  /\ scenario = "download" => DownInv /\ damage = 0
  /\ scenario = "download_slow" => DownInv
  /\ scenario = "retry" => RetryInv

(* What the host sees of a step.                                           *)
LinkMoves ==
  /\ UNCHANGED scenario
  /\ scenario = "upload" => TransferStep(LongFile)
  /\ scenario = "download" => DownStep
  /\ scenario = "retry" => TransferStep(ShortFile)

(* No transfer has begun.                                                  *)
LEMMA LinkInitInv == LinkInit => LinkInv
<1> SUFFICES ASSUME LinkInit PROVE LinkInv
  OBVIOUS
<1>1. /\ Init /\ IInv /\ scenario \in Scenarios
      /\ host = "IDLE" /\ cuts = 0 /\ packetCounter = 1 /\ hostPos = 0 /\ hostClock = 0
      /\ fromHost = <<>> /\ toHost = <<>> /\ joined = FALSE
      /\ received = <<>> /\ damage = 0
      /\ number = FIRST_FRAME_NUMBER /\ acked = 0
  <2>1. Init /\ IInv
    BY SameUp, InitIInv DEF LinkInit, Up!UpInit
  <2>2. number = FIRST_FRAME_NUMBER
    BY SameRetry DEF LinkInit, Retry!RetryInit
  <2> QED BY <2>1, <2>2 DEF LinkInit, Up!UpInit, Down!DownInit, Retry!RetryInit, Scenarios
<1>2. State = "OFF" /\ BlockAddress = 0 /\ Memory = InitialMemory
  BY <1>1 DEF Init
<1>3. /\ <<>> \in Seq(Byte) /\ <<>> \in Seq(Block) /\ 0 \in Nat /\ 1 \in Byte
      /\ 0 \in 0 .. Len(ShortFile) /\ 0 \in 0 .. MEMORY_BLOCKS
      /\ 1 \in 1 .. Len(ShortFile) + 1 /\ 0 < 1
  <2>1. Len(ShortFile) \in Nat /\ MEMORY_BLOCKS \in Nat
    BY FileFacts, Sizes
  <2>2. 1 \in Byte
    BY FirstNumber
  <2> QED BY <2>1, <2>2
<1>4. UpInv
  BY <1>1, <1>3 DEF UpInv, Over
<1>5. SlowInv
  <2>1. StoredBelow(1)
    <3>1. DOMAIN StoredBlocks = {}
      BY <1>1, <1>2 DEF StoredBlocks, Whole
    <3> QED BY <1>1, <1>2, <1>3, <3>1, NothingInOrder DEF StoredBelow, Whole
  <2>2. SlowUnderWay(1)
    BY <1>2 DEF SlowUnderWay
  <2>3. SlowTypes
    BY <1>1, <1>3 DEF SlowTypes
  <2> QED BY <2>1, <2>2, <2>3 DEF SlowInv
<1>6. DownInv /\ damage = 0
  <2>1. DownTypes
    BY <1>1, <1>2, <1>3 DEF DownTypes
  <2>2. InOrderBelow(received, DownFile, BlockAddress + 1)
    <3>1. DOMAIN received = {}
      BY <1>1
    <3> QED BY <3>1, NothingInOrder
  <2>3. \A i \in 1 .. Len(received) : received[i] = DownFile[i]
    BY <1>1
  <2> QED BY <1>1, <2>1, <2>2, <2>3 DEF DownInv
<1>7. RetryInv
  <2>1. FIRST_FRAME_NUMBER = (FIRST_FRAME_NUMBER + 0) % ByteMod
    BY ByteAssumption DEF FIRST_FRAME_NUMBER
  <2> QED BY <1>1, <1>3, <2>1 DEF RetryInv, Over
<1> QED BY <1>1, <1>4, <1>5, <1>6, <1>7 DEF LinkInv

(* A step of the scenario keeps its invariant, any other leaves it alone.  *)
LEMMA LinkStep == LinkInv /\ [LinkNext]_linkVars => LinkInv' /\ LinkMoves
<1> SUFFICES ASSUME LinkInv, [LinkNext]_linkVars PROVE LinkInv' /\ LinkMoves
  OBVIOUS
<1>1. CASE UNCHANGED linkVars
  <2>1. UNCHANGED <<vars, scenario, host, packetCounter, hostClock, fromHost, toHost, cuts, hostPos, joined,
                    hostBlock, received, damage, number, acked>>
    BY <1>1 DEF linkVars, upOnly, downOnly, retryOnly
  <2>2. scenario = "upload" => UpInv' /\ TransferStep(LongFile)
    BY <2>1, UpRests DEF LinkInv
  <2>3. scenario = "upload_slow" => SlowInv'
    BY <2>1, SlowRests DEF LinkInv
  <2>4. scenario \in {"download", "download_slow"} => DownInv' /\ DownStep
    BY <2>1, DownRests DEF LinkInv
  <2>5. scenario = "retry" => RetryInv' /\ TransferStep(ShortFile)
    BY <2>1, RetryRests DEF LinkInv
  <2> QED BY <2>1, <2>2, <2>3, <2>4, <2>5 DEF LinkInv, LinkMoves
<1>2. CASE InUpload /\ Up!UpNext
  BY <1>2, UpStep DEF LinkInv, LinkMoves, InUpload
<1>3. CASE InUpSlow /\ UpSlow!UpNext
  BY <1>3, SlowStep DEF LinkInv, LinkMoves, InUpSlow
<1>4. CASE InDownload /\ Down!DownNext
  BY <1>4, DownPromptStep DEF LinkInv, LinkMoves, InDownload
<1>5. CASE InDownSlow /\ DownSlow!DownNext
  BY <1>5, DownSlowStep DEF LinkInv, LinkMoves, InDownSlow
<1>6. CASE InRetry /\ Retry!RetryNext
  BY <1>6, RetryStep DEF LinkInv, LinkMoves, InRetry
<1> QED BY <1>1, <1>2, <1>3, <1>4, <1>5, <1>6 DEF LinkNext

(* A repeating sender is never ahead of the device, and behind it by at    *)
(* most the one block whose ACK is still to come: what it takes for        *)
(* acknowledged is stored, whatever the line damages and loses.            *)
THEOREM SenderNeverAhead == LinkSpec => []AckedBlocksStored
<1>1. LinkInv => AckedBlocksStored
  <2> SUFFICES ASSUME scenario = "retry", RetryInv, host \in Reading
               PROVE  acked <= BlockAddress /\ BlockAddress <= acked + 1
    BY DEF LinkInv, AckedBlocksStored, Retry!AckedBlocksStored, Retry!HostReading, Reading
  <2>1. acked \in Nat /\ BlockAddress \in {acked, acked + 1}
    BY FileFacts DEF RetryInv, RetryUnderWay, Reading, Over, AwaitNak, AwaitAck, AwaitEotAck
  <2> QED BY <2>1
<1> QED BY LinkInitInv, LinkStep, <1>1, PTL DEF LinkSpec

(* What a slow ChamTool, a pulled cable or a line that damages a frame     *)
(* leave in the memory or in the host's file are blocks of the file, in    *)
(* the order of the file, but for the one block that lost the cable in its *)
(* middle and that the bytes of the next connect complete.                 *)
THEOREM BlocksIntactAndInOrder == LinkSpec => []IntactAndInOrder
<1>1. LinkInv => IntactAndInOrder
  <2>1. ASSUME SlowInv PROVE UpSlow!StoredInFileOrder
    <3>1. PICK p \in Nat : StoredBelow(p)
      BY <2>1 DEF SlowInv
    <3>2. /\ Len(ShortFile) \in Nat /\ DOMAIN ShortFile = 1 .. Len(ShortFile)
          /\ p <= Len(ShortFile) + 1
      BY <3>1, FileFacts, LenProperties DEF StoredBelow
    <3>3. InFileOrder(StoredBlocks, ShortFile)
      BY <3>1, <3>2, InOrderIsFileOrder DEF StoredBelow
    <3>4. UpSlow!Stored = StoredBlocks
      BY DEF UpSlow!Stored, StoredBlocks, Whole
    <3> QED BY <3>3, <3>4 DEF UpSlow!StoredInFileOrder, UpSlow!InFileOrder, InFileOrder,
                            UpSlow!Range, Range
  <2>2. ASSUME DownInv PROVE DownSlow!ReceivedInFileOrder
    <3>1. PICK p \in Nat : p = BlockAddress + 1 /\ p <= MEMORY_BLOCKS + 1
      BY <2>2, Sizes DEF DownInv, DownTypes
    <3>2. InFileOrder(received, DownFile)
      <4>1. MEMORY_BLOCKS \in Nat /\ DOMAIN DownFile = 1 .. MEMORY_BLOCKS
        BY DownFileFacts, Sizes
      <4>2. InOrderBelow(received, DownFile, p)
        BY <2>2, <3>1 DEF DownInv
      <4> QED BY <3>1, <4>1, <4>2, InOrderIsFileOrder
    <3>3. DownSlow!File = DownFile
      BY <2>2 DEF DownInv, DownTypes, DownSlow!File, DownFile
    <3> QED BY <3>2, <3>3 DEF DownSlow!ReceivedInFileOrder, DownSlow!InFileOrder, InFileOrder,
                            DownSlow!Range, Range
  <2> QED BY <2>1, <2>2 DEF LinkInv, IntactAndInOrder
<1> QED BY LinkInitInv, LinkStep, <1>1, PTL DEF LinkSpec

-----------------------------------------------------------------------------
(***************************************************************************)
(* A transfer is a transfer of the file.                                   *)
(***************************************************************************)
Phase == CASE host \in Reading \cup Receiving -> "running"
           [] host = "DONE" -> "done"
           [] OTHER -> "idle"

(* The names of FileTransfer under the refinement mapping.                 *)
LEMMA TransferMeans ==
  /\ Transfer!transferVars = <<FileToMove, HeldBlocks, HostPhase>>
  /\ Transfer!transferVars' = <<FileToMove', HeldBlocks', HostPhase'>>
  /\ scenario = "upload" => /\ FileToMove = LongFile /\ HostPhase = Phase
                            /\ HeldBlocks = IF host = "IDLE" THEN <<>> ELSE BlocksTaken(LongFile)
  /\ scenario = "retry" => /\ FileToMove = ShortFile /\ HostPhase = Phase
                           /\ HeldBlocks = IF host = "IDLE" THEN <<>> ELSE BlocksTaken(ShortFile)
  /\ scenario = "download" => FileToMove = DownFile /\ HostPhase = Phase /\ HeldBlocks = received
  /\ scenario \in {"upload_slow", "download_slow"} =>
       FileToMove = DownFile /\ HostPhase = "idle" /\ HeldBlocks = <<>>
<1>1. scenario \in {"upload", "retry", "download"} => HostPhase = Phase
  BY DEF HostPhase, Phase, Watched, Up!HostReading, Down!HostReading, Reading, Receiving
<1>2. scenario \in {"upload_slow", "download_slow"} => HostPhase = "idle"
  BY DEF HostPhase, Watched
<1>3. Up!Taken = BlocksTaken(LongFile) /\ Retry!Taken = BlocksTaken(ShortFile)
  BY DEF Up!Taken, Retry!Taken, BlocksTaken
<1> QED BY <1>1, <1>2, <1>3 DEF FileToMove, HeldBlocks, DownFile, Transfer!transferVars

(* The same in the next state.                                             *)
LEMMA TransferMeansNext ==
  /\ scenario' = "upload" => /\ FileToMove' = LongFile /\ HostPhase' = Phase'
                             /\ HeldBlocks' = IF host' = "IDLE" THEN <<>> ELSE BlocksTaken(LongFile)'
  /\ scenario' = "retry" => /\ FileToMove' = ShortFile /\ HostPhase' = Phase'
                            /\ HeldBlocks' = IF host' = "IDLE" THEN <<>> ELSE BlocksTaken(ShortFile)'
  /\ scenario' = "download" => FileToMove' = DownFile /\ HostPhase' = Phase' /\ HeldBlocks' = received'
  /\ scenario' \in {"upload_slow", "download_slow"} =>
       FileToMove' = DownFile /\ HostPhase' = "idle" /\ HeldBlocks' = <<>>
<1>1. scenario' \in {"upload", "retry", "download"} => HostPhase' = Phase'
  BY DEF HostPhase, Phase, Watched, Up!HostReading, Down!HostReading, Reading, Receiving
<1>2. scenario' \in {"upload_slow", "download_slow"} => HostPhase' = "idle"
  BY DEF HostPhase, Watched
<1>3. Up!Taken' = BlocksTaken(LongFile)' /\ Retry!Taken' = BlocksTaken(ShortFile)'
  BY DEF Up!Taken, Retry!Taken, BlocksTaken
<1> QED BY <1>1, <1>2, <1>3 DEF FileToMove, HeldBlocks, DownFile

(* The blocks taken over are the first of the file.                        *)
LEMMA KeptIsPrefix ==
  ASSUME NEW file \in Seq(Block), Kept(file), BlockAddress \in Nat, BlockAddress <= Len(file)
  PROVE  /\ BlocksTaken(file) = [i \in 1 .. BlockAddress |-> file[i]]
         /\ BlocksTaken(file) \in Seq(Block) /\ Len(BlocksTaken(file)) = BlockAddress
<1>1. \A i \in 1 .. BlockAddress : (IF i <= MEMORY_BLOCKS THEN Memory[i - 1] ELSE file[i]) = file[i]
  BY DEF Kept
<1>2. BlocksTaken(file) = [i \in 1 .. BlockAddress |-> file[i]]
  BY <1>1 DEF BlocksTaken
<1>3. \A i \in 1 .. BlockAddress : file[i] \in Block
  <2>1. \A i \in 1 .. BlockAddress : i \in 1 .. Len(file)
    BY LenProperties
  <2> QED BY <2>1, ElementOfSeq
<1>4. PICK n \in Nat : n = BlockAddress
  OBVIOUS
<1>5. [i \in 1 .. n |-> file[i]] \in Seq(Block) /\ Len([i \in 1 .. n |-> file[i]]) = n
  BY <1>3, <1>4, SeqDef
<1> QED BY <1>2, <1>4, <1>5

(* The first n + 1 blocks of a file, and all of them.                      *)
LEMMA PrefixGrows ==
  ASSUME NEW file \in Seq(Block), NEW n \in Nat, n < Len(file)
  PROVE  Append([i \in 1 .. n |-> file[i]], file[n + 1]) = [i \in 1 .. n + 1 |-> file[i]]
OBVIOUS

LEMMA WholeFile ==
  ASSUME NEW file \in Seq(Block)
  PROVE  [i \in 1 .. Len(file) |-> file[i]] = file
OBVIOUS

(* An upload, as its host sees it.                                         *)
LEMMA UploadMoves ==
  ASSUME NEW file \in Seq(Block), TransferStep(file), BlockAddress \in Nat, BlockAddress' \in Nat,
         FileToMove = file, FileToMove' = file, HostPhase = Phase, HostPhase' = Phase',
         HeldBlocks = IF host = "IDLE" THEN <<>> ELSE BlocksTaken(file),
         HeldBlocks' = IF host' = "IDLE" THEN <<>> ELSE BlocksTaken(file)'
  PROVE  [Transfer!Next]_(Transfer!transferVars)
<1>1. CASE host \in Over /\ host' \in Reading /\ BlockAddress' = 0
  <2>1. HeldBlocks' = <<>>
    <3>1. host' # "IDLE" /\ 1 .. 0 = {}
      BY <1>1 DEF Reading
    <3>2. BlocksTaken(file)' = <<>>
      BY <1>1, <3>1 DEF BlocksTaken
    <3> QED BY <3>1, <3>2
  <2>2. HostPhase \in {"idle", "done"} /\ HostPhase' = "running"
    BY <1>1 DEF Phase, Over, Reading, Receiving
  <2> QED BY <2>1, <2>2 DEF Transfer!Next, Transfer!Begin
<1>2. CASE /\ host' = host \/ (host \in Reading /\ host' \in Reading)
           /\ UNCHANGED <<BlockAddress, Memory>>
  <2>1. BlocksTaken(file)' = BlocksTaken(file)
    BY <1>2 DEF BlocksTaken
  <2>2. HeldBlocks' = HeldBlocks
    BY <1>2, <2>1 DEF Reading
  <2>3. HostPhase' = HostPhase
    BY <1>2 DEF Phase, Reading, Receiving
  <2> QED BY <2>2, <2>3, TransferMeans
<1>3. CASE /\ host \in Reading /\ host' \in {"DONE", "FAILED"}
           /\ UNCHANGED <<BlockAddress, Memory>>
           /\ host' = "DONE" => BlockAddress = Len(file) /\ Kept(file)
  <2>1. BlocksTaken(file)' = BlocksTaken(file)
    BY <1>3 DEF BlocksTaken
  <2>2. HeldBlocks' = HeldBlocks /\ HeldBlocks = BlocksTaken(file)
    BY <1>3, <2>1 DEF Reading
  <2>3. HostPhase = "running"
    BY <1>3 DEF Phase, Reading, Receiving
  <2>4. CASE host' = "DONE"
    <3>1. Len(file) \in Nat /\ BlockAddress <= Len(file)
      BY <1>3, <2>4, LenProperties
    <3>2. HeldBlocks = file
      BY <1>3, <2>2, <2>4, <3>1, KeptIsPrefix, WholeFile
    <3>3. HostPhase' = "done"
      BY <2>4 DEF Phase, Reading, Receiving
    <3> QED BY <2>2, <2>3, <3>2, <3>3 DEF Transfer!Next, Transfer!Finish
  <2>5. CASE host' = "FAILED"
    <3>1. HostPhase' = "idle"
      BY <2>5 DEF Phase, Reading, Receiving
    <3> QED BY <2>2, <2>3, <3>1 DEF Transfer!Next, Transfer!Abort
  <2> QED BY <1>3, <2>4, <2>5
<1>4. CASE /\ host \in Reading /\ host' = host
           /\ Kept(file) /\ Kept(file)'
           /\ BlockAddress' = BlockAddress + 1 /\ BlockAddress < Len(file)
  <2>1. HostPhase = "running" /\ HostPhase' = "running" /\ host # "IDLE" /\ host' # "IDLE"
    BY <1>4 DEF Phase, Reading
  <2>2. Len(file) \in Nat /\ BlockAddress <= Len(file) /\ BlockAddress' <= Len(file)
    BY <1>4, LenProperties
  <2>3. BlocksTaken(file) = [i \in 1 .. BlockAddress |-> file[i]] /\ Len(BlocksTaken(file)) = BlockAddress
    BY <1>4, <2>2, KeptIsPrefix
  <2>4. BlocksTaken(file)' = [i \in 1 .. BlockAddress + 1 |-> file[i]]
    <3>1. \A i \in 1 .. BlockAddress' : (IF i <= MEMORY_BLOCKS THEN Memory'[i - 1] ELSE file[i]) = file[i]
      BY <1>4 DEF Kept
    <3> QED BY <1>4, <3>1 DEF BlocksTaken
  <2>5. BlocksTaken(file)' = Append(BlocksTaken(file), file[BlockAddress + 1])
    BY <1>4, <2>3, <2>4, PrefixGrows
  <2>6. HeldBlocks' = Append(HeldBlocks, file[Len(HeldBlocks) + 1]) /\ Len(HeldBlocks) < Len(file)
    BY <1>4, <2>1, <2>3, <2>5
  <2> QED BY <2>1, <2>6 DEF Transfer!Next, Transfer!Deliver
<1> QED BY <1>1, <1>2, <1>3, <1>4 DEF TransferStep

(* A download, as its host sees it.                                        *)
LEMMA DownloadMoves ==
  ASSUME DownStep, damage = 0, FileToMove = DownFile, FileToMove' = DownFile,
         HostPhase = Phase, HostPhase' = Phase', HeldBlocks = received, HeldBlocks' = received'
  PROVE  [Transfer!Next]_(Transfer!transferVars)
<1>1. CASE host \in {"IDLE", "DONE"} /\ host' \in Receiving /\ received' = <<>>
  <2>1. HostPhase \in {"idle", "done"} /\ HostPhase' = "running"
    BY <1>1 DEF Phase, Reading, Receiving
  <2> QED BY <1>1, <2>1 DEF Transfer!Next, Transfer!Begin
<1>2. CASE /\ host' = host \/ (host \in Receiving /\ host' \in Receiving)
           /\ UNCHANGED received
  <2>1. HostPhase' = HostPhase
    BY <1>2 DEF Phase, Reading, Receiving
  <2> QED BY <1>2, <2>1, TransferMeans
<1>3. CASE /\ host \in Receiving /\ host' \in {"DONE", "BROKEN"}
           /\ UNCHANGED received
           /\ host' = "DONE" => received = DownFile
  <2>1. HostPhase = "running" /\ HostPhase' = IF host' = "DONE" THEN "done" ELSE "idle"
    BY <1>3 DEF Phase, Reading, Receiving
  <2> QED BY <1>3, <2>1 DEF Transfer!Next, Transfer!Finish, Transfer!Abort
<1>4. CASE /\ host \in Receiving /\ host' \in Receiving /\ Len(received) < MEMORY_BLOCKS
           /\ received' = Append(received, DownFile[Len(received) + 1])
  <2>1. HostPhase = "running" /\ HostPhase' = "running"
    BY <1>4 DEF Phase, Reading, Receiving
  <2>2. Len(DownFile) = MEMORY_BLOCKS
    BY DownFileFacts
  <2> QED BY <1>4, <2>1, <2>2 DEF Transfer!Next, Transfer!Deliver
<1> QED BY <1>1, <1>2, <1>3, <1>4 DEF DownStep

(* An undisturbed transfer in either direction, and one from a repeating   *)
(* sender over a faulty line, implements FileTransfer: every block in its  *)
(* turn, and done only when all of them are there.                         *)
THEOREM TransfersAreFaithful == LinkSpec => TransferIsFaithful
<1>1. LinkInit => Transfer!Init
  <2> SUFFICES ASSUME LinkInit PROVE Transfer!Init
    OBVIOUS
  <2>1. host = "IDLE" /\ received = <<>> /\ scenario \in Scenarios
    BY DEF LinkInit, Up!UpInit, Down!DownInit, Scenarios
  <2>2. Phase = "idle"
    BY <2>1 DEF Phase, Reading, Receiving
  <2> QED BY <2>1, <2>2, TransferMeans DEF Transfer!Init, Scenarios
<1>2. LinkInv /\ LinkInv' /\ LinkMoves => [Transfer!Next]_(Transfer!transferVars)
  <2> SUFFICES ASSUME LinkInv, LinkInv', LinkMoves
               PROVE  [Transfer!Next]_(Transfer!transferVars)
    OBVIOUS
  <2>1. LongFile \in Seq(Block) /\ ShortFile \in Seq(Block)
    BY FileFacts
  <2>2. CASE scenario = "upload"
    <3>1. TransferStep(LongFile) /\ BlockAddress \in Nat /\ BlockAddress' \in Nat /\ scenario' = "upload"
      BY <2>2, Sizes DEF LinkInv, LinkMoves, UpInv, IInv, TypeOK
    <3> QED BY <2>1, <2>2, <3>1, TransferMeans, TransferMeansNext, UploadMoves
  <2>3. CASE scenario = "retry"
    <3>1. TransferStep(ShortFile) /\ BlockAddress \in Nat /\ BlockAddress' \in Nat /\ scenario' = "retry"
      BY <2>3, Sizes DEF LinkInv, LinkMoves, RetryInv, IInv, TypeOK
    <3> QED BY <2>1, <2>3, <3>1, TransferMeans, TransferMeansNext, UploadMoves
  <2>4. CASE scenario = "download"
    <3>1. DownStep /\ damage = 0 /\ scenario' = "download"
      BY <2>4 DEF LinkInv, LinkMoves
    <3> QED BY <2>4, <3>1, TransferMeans, TransferMeansNext, DownloadMoves
  <2>5. CASE scenario \in {"upload_slow", "download_slow"}
    <3>1. scenario' = scenario
      BY DEF LinkMoves
    <3>2. UNCHANGED <<FileToMove, HeldBlocks, HostPhase>>
      BY <2>5, <3>1, TransferMeans, TransferMeansNext
    <3> QED BY <3>2, TransferMeans
  <2> QED BY <2>2, <2>3, <2>4, <2>5 DEF LinkInv, Scenarios
<1> QED BY LinkInitInv, LinkStep, <1>1, <1>2, PTL DEF LinkSpec, TransferIsFaithful, Transfer!Spec
=============================================================================
