---------------------------- MODULE XModemProofs ----------------------------
(***************************************************************************)
(* What holds of the device side of XMODEM for every block size, every     *)
(* range of bytes and addresses, and every sequence of bytes and ticks;    *)
(* what its checksum tells apart; and how it takes a frame byte by byte.   *)
(***************************************************************************)
EXTENDS XModem, SequenceTheorems, FiniteSetTheorems, WellFoundedInduction, TLAPS

USE DEF Byte, Block

(* The strengthening needed for the invariants: they are inductive         *)
(* together, the type of BufferIdx resting on BufferInRange.               *)
IInv == TypeOK /\ BufferInRange /\ FrameNumberTracksAddress

(* 8-bit arithmetic stays in a byte.                                       *)
LEMMA ByteArithmetic ==
  ASSUME NEW n \in Byte
  PROVE  Inc(n) \in Byte /\ Dec(n) \in Byte
  BY ByteAssumption DEF Inc, Dec

(* Two facts of modular arithmetic the solver needs in pieces.             *)
LEMMA Remainder ==
  ASSUME NEW m \in Nat, m > 1, NEW q \in Nat, NEW r \in 0 .. m - 1
  PROVE  (m * q + r) % m = r
  OBVIOUS

LEMMA SuccessorMod ==
  ASSUME NEW m \in Nat, m > 1, NEW x \in Nat
  PROVE  ((x % m) + 1) % m = (x + 1) % m
<1> DEFINE q == x \div m
           r == x % m
<1>1. r \in 0 .. m - 1 /\ q \in Nat /\ x = m * q + r
  OBVIOUS
<1>2. CASE r + 1 < m
  <2>1. x + 1 = m * q + (r + 1)
    BY <1>1
  <2>2. r + 1 \in 0 .. m - 1
    BY <1>1, <1>2
  <2>3. (x + 1) % m = r + 1
    <3>1. q \in Nat
      BY <1>1
    <3> HIDE DEF q, r
    <3>2. (m * q + (r + 1)) % m = r + 1
      BY <3>1, <2>2, Remainder
    <3> QED BY <2>1, <3>2
  <2>4. (r + 1) % m = r + 1
    BY <1>1, <1>2
  <2> QED BY <2>3, <2>4
<1>3. CASE r + 1 = m
  <2>1. x + 1 = m * (q + 1) + 0
    BY <1>1, <1>3
  <2>2. (x + 1) % m = 0
    <3>1. q + 1 \in Nat /\ 0 \in 0 .. m - 1
      BY <1>1
    <3> HIDE DEF q
    <3>2. (m * (q + 1) + 0) % m = 0
      BY <3>1, Remainder
    <3> QED BY <2>1, <3>2
  <2>3. (r + 1) % m = 0
    BY <1>3
  <2> QED BY <2>2, <2>3
<1> QED BY <1>1, <1>2, <1>3

(* Counting frames modulo 256 and blocks modulo 2^25 is counting the same  *)
(* thing: the range of the address is a multiple of the range of a byte.   *)
LEMMA NumberFollowsAddress ==
  ASSUME NEW a \in 0 .. AddressMod - 1
  PROVE  /\ (a + 1) % AddressMod \in 0 .. AddressMod - 1
         /\ (a + 1) % AddressMod # a
         /\ Inc((FIRST_FRAME_NUMBER + a) % ByteMod)
              = (FIRST_FRAME_NUMBER + ((a + 1) % AddressMod)) % ByteMod
<1>1. CASE a + 1 < AddressMod
  <2>1. (a + 1) % AddressMod = a + 1
    BY <1>1, SizeAssumption
  <2>2. (((1 + a) % ByteMod) + 1) % ByteMod = (1 + (a + 1)) % ByteMod
    <3>1. 1 + a \in Nat /\ (1 + a) + 1 = 1 + (a + 1)
      BY SizeAssumption
    <3>2. ByteMod \in Nat /\ ByteMod > 1
      BY ByteAssumption
    <3>3. \A x \in Nat : ((x % ByteMod) + 1) % ByteMod = (x + 1) % ByteMod
      BY <3>2, SuccessorMod
    <3> QED BY <3>1, <3>3
  <2> QED BY <1>1, <2>1, <2>2, SizeAssumption DEF Inc, FIRST_FRAME_NUMBER
<1>2. CASE a + 1 = AddressMod
  <2>1. (a + 1) % AddressMod = 0
    BY <1>2, SizeAssumption
  <2>2. (1 + a) % ByteMod = 0
    BY <1>2, SizeAssumption
  <2> QED BY <1>2, <2>1, <2>2, SizeAssumption, ByteAssumption
          DEF Inc, FIRST_FRAME_NUMBER
<1> QED BY <1>1, <1>2, SizeAssumption

(* The device is off at first.                                             *)
LEMMA InitIInv == Init => IInv
  BY ByteAssumption, SizeAssumption, MemoryAssumption
  DEF Init, IInv, TypeOK, BufferInRange, FrameNumberTracksAddress,
      ReceiveStates

(* UPLOAD and DOWNLOAD arm the device.                                     *)
LEMMA CommandsPreserve == IInv /\ (XModemReceive \/ XModemSend) => IInv'
<1> SUFFICES ASSUME IInv, XModemReceive \/ XModemSend PROVE IInv'
  OBVIOUS
<1> USE DEF IInv, TypeOK, BufferInRange, FrameNumberTracksAddress,
            ReceiveStates, SendStates, frame
<1>1. CASE XModemReceive
  <2>1. (FIRST_FRAME_NUMBER + 0) % ByteMod = FIRST_FRAME_NUMBER
    BY ByteAssumption DEF FIRST_FRAME_NUMBER
  <2> QED BY <1>1, <2>1, ByteAssumption, TimeoutAssumption, SizeAssumption
          DEF XModemReceive, FIRST_FRAME_NUMBER
<1>2. CASE XModemSend
  BY <1>2, TimeoutAssumption, SizeAssumption DEF XModemSend
<1> QED BY <1>1, <1>2

(* A tick repeats the NAK, counts down or gives up.                        *)
LEMMA TickPreserves == IInv /\ XModemTick => IInv'
<1> SUFFICES ASSUME IInv, XModemTick PROVE IInv'
  OBVIOUS
<1> USE DEF IInv, TypeOK, BufferInRange, FrameNumberTracksAddress,
            ReceiveStates, SendStates, frame
<1>1. CASE ReceiveTick
  <2>1. RetryTimeout' \in Nat
    BY <1>1, TimeoutAssumption DEF ReceiveTick
  <2>2. Dec(RetryCount) \in Byte
    BY ByteArithmetic
  <2>3. RetryCount' \in Byte
    BY <1>1, <2>2 DEF ReceiveTick
  <2>4. State' \in {"RECEIVE_INIT", "OFF"}
    BY <1>1 DEF ReceiveTick
  <2> QED BY <1>1, <2>1, <2>3, <2>4 DEF ReceiveTick
<1>2. CASE SendTick
  BY <1>2 DEF SendTick, WordMax
<1> QED BY <1>1, <1>2 DEF XModemTick

(* A byte received: one step per state of the switch.  Where it is taken   *)
(* for more than a comparison it has to be one.                            *)
LEMMA BytePreserves ==
  ASSUME IInv, NEW b, XModemProcessByte(b),
         State \in {"RECEIVE_FRAMENUM1", "RECEIVE_DATA"} => b \in Byte
  PROVE  IInv'
<1> USE DEF IInv, TypeOK, BufferInRange, FrameNumberTracksAddress,
            ReceiveStates, SendStates, frame, counters
<1>1. CASE ReceiveWait(b)
  <2>1. /\ BufferIdx' \in {0, BufferIdx}
        /\ State' = "RECEIVE_FRAMENUM1" => BufferIdx' = 0
    BY <1>1 DEF ReceiveWait
  <2>2. State' \in {"RECEIVE_INIT", "RECEIVE_WAIT", "RECEIVE_FRAMENUM1", "OFF"}
    BY <1>1 DEF ReceiveWait
  <2>3. UNCHANGED <<CurrentFrameNumber, RetryCount, RetryTimeout, BlockAddress,
                    ReceivedFrameNumber, TerminalBuffer, Memory>>
    BY <1>1 DEF ReceiveWait
  <2>4. BufferIdx' \in 0 .. XMODEM_BLOCK_SIZE
    BY <2>1, SizeAssumption
  <2>5. State \in ReceiveStates
    BY <1>1 DEF ReceiveWait
  <2> QED BY <2>1, <2>2, <2>3, <2>4, <2>5
<1>2. CASE ReceiveFrameNum1(b)
  BY <1>2 DEF ReceiveFrameNum1
<1>3. CASE ReceiveFrameNum2(b)
  BY <1>3, SizeAssumption DEF ReceiveFrameNum2
<1>4. CASE ReceiveData(b)
  <2>1. BufferIdx < XMODEM_BLOCK_SIZE
    BY <1>4 DEF ReceiveData
  <2>2. BufferIdx' = BufferIdx + 1 /\ BufferIdx' \in 0 .. XMODEM_BLOCK_SIZE
    BY <1>4, <2>1, SizeAssumption DEF ReceiveData
  <2>3. State' = IF BufferIdx' = XMODEM_BLOCK_SIZE
                 THEN "RECEIVE_PROCESS" ELSE "RECEIVE_DATA"
    BY <1>4 DEF ReceiveData, BlockFull
  <2>4. State' = "RECEIVE_DATA" => BufferIdx' < XMODEM_BLOCK_SIZE
    BY <2>2, <2>3, SizeAssumption
  <2>5. TerminalBuffer' \in Block
    BY <1>4 DEF ReceiveData
  <2>6. UNCHANGED <<CurrentFrameNumber, RetryCount, RetryTimeout, BlockAddress,
                    ReceivedFrameNumber, Memory>>
    BY <1>4 DEF ReceiveData
  <2> QED BY <1>4, <2>2, <2>3, <2>4, <2>5, <2>6 DEF ReceiveData
<1>5. CASE AcceptBlock(b)
  <2>1. /\ CurrentFrameNumber' \in Byte
        /\ CurrentFrameNumber' = (FIRST_FRAME_NUMBER + BlockAddress') % ByteMod
    BY <1>5, ByteArithmetic, NumberFollowsAddress DEF AcceptBlock, NextAddress
  <2>2. BlockAddress' \in 0 .. AddressMod - 1
    BY <1>5, NumberFollowsAddress DEF AcceptBlock, NextAddress
  <2>3. Memory' \in [0 .. MEMORY_BLOCKS - 1 -> Block]
    BY <1>5 DEF AcceptBlock, MemoryUploadBlock
  <2> QED BY <1>5, <2>1, <2>2, <2>3 DEF AcceptBlock
<1>6. CASE RefuseBlock(b) \/ DamagedBlock(b) \/ UnexpectedBlock
  BY <1>6 DEF RefuseBlock, DamagedBlock, UnexpectedBlock
<1>7. CASE SendNextBlock(b)
  <2>1. CurrentFrameNumber' \in Byte
    <3>1. FIRST_FRAME_NUMBER \in Byte
      BY ByteAssumption DEF FIRST_FRAME_NUMBER
    <3>2. Inc(CurrentFrameNumber) \in Byte
      BY ByteArithmetic
    <3> QED BY <1>7, <3>1, <3>2 DEF SendNextBlock
  <2>2. BlockAddress' \in 0 .. AddressMod - 1
    BY <1>7, NumberFollowsAddress DEF SendNextBlock, NextAddress
  <2>3. TerminalBuffer' \in Block
    <3>1. CASE BlockAddress < MEMORY_BLOCKS
      <4>1. BlockAddress \in 0 .. MEMORY_BLOCKS - 1
        BY <3>1, SizeAssumption
      <4>2. Memory[BlockAddress] \in Block
        BY <4>1
      <4> QED BY <1>7, <3>1, <4>2 DEF SendNextBlock, MemoryDownloadBlock
    <3>2. CASE ~(BlockAddress < MEMORY_BLOCKS)
      BY <1>7, <3>2 DEF SendNextBlock, MemoryDownloadBlock
    <3> QED BY <3>1, <3>2
  <2> QED BY <1>7, <2>1, <2>2, <2>3 DEF SendNextBlock
<1>8. CASE SendCancel(b) \/ SendIgnore(b) \/ SendEot
  BY <1>8 DEF SendCancel, SendIgnore, SendEot
<1> QED BY <1>1, <1>2, <1>3, <1>4, <1>5, <1>6, <1>7, <1>8
        DEF XModemProcessByte, ReceiveProcess

(* Every step of the device.                                               *)
LEMMA StepIInv == IInv /\ [Next]_vars => IInv'
<1> SUFFICES ASSUME IInv, [Next]_vars PROVE IInv'
  OBVIOUS
<1>1. CASE UNCHANGED vars
  BY <1>1 DEF IInv, TypeOK, BufferInRange, FrameNumberTracksAddress, vars,
              counters, frame
<1> QED BY <1>1, CommandsPreserve, TickPreserves, BytePreserves DEF Next

(* The device never leaves its types: in particular BufferIdx stays in the *)
(* block and BlockAddress in its range, whatever the host sends.           *)
THEOREM TypeCorrect == Spec => []TypeOK
<1>1. IInv => TypeOK
  BY DEF IInv
<1> QED BY InitIInv, StepIInv, <1>1, PTL DEF Spec

(* While data is collected there is room for it (XModem.c:113-122).        *)
THEOREM BufferSafe == Spec => []BufferInRange
<1>1. IInv => BufferInRange
  BY DEF IInv
<1> QED BY InitIInv, StepIInv, <1>1, PTL DEF Spec

(* Frame number and block address stay in step for ever (XModem.c:132).    *)
THEOREM NumberTracks == Spec => []FrameNumberTracksAddress
<1>1. IInv => FrameNumberTracksAddress
  BY DEF IInv
<1> QED BY InitIInv, StepIInv, <1>1, PTL DEF Spec

(* Outside STATE_RECEIVE_PROCESS no step touches the memory.               *)
LEMMA MemoryUntouched ==
  ASSUME [Next]_vars, State # "RECEIVE_PROCESS" PROVE UNCHANGED Memory
  BY DEF Next, vars, XModemReceive, XModemSend, XModemTick, ReceiveTick,
         SendTick, XModemProcessByte, ReceiveWait, ReceiveFrameNum1,
         ReceiveFrameNum2, ReceiveData, ReceiveProcess, AcceptBlock,
         RefuseBlock, DamagedBlock, UnexpectedBlock, SendNextBlock,
         SendCancel, SendIgnore, SendEot

(* In STATE_RECEIVE_PROCESS only the verdict on the frame can happen.      *)
LEMMA VerdictOnly ==
  ASSUME Next, State = "RECEIVE_PROCESS"
  PROVE  \E b \in Byte : ReceiveProcess(b)
  BY DEF Next, XModemReceive, XModemSend, XModemTick, ReceiveTick,
         SendTick, XModemProcessByte, ReceiveWait, ReceiveFrameNum1,
         ReceiveFrameNum2, ReceiveData, SendNextBlock, SendCancel,
         SendIgnore, SendEot

(* An ACK for a frame is a commitment (XModem.c:124-155).                  *)
THEOREM AckCommits == Spec => AckIsCommit
<1> DEFINE A == State = "RECEIVE_PROCESS" /\ out' = <<BYTE_ACK>> =>
       \/ /\ BlockAddress < MEMORY_BLOCKS =>
               Memory' = [Memory EXCEPT ![BlockAddress] = TerminalBuffer]
          /\ ReceivedFrameNumber = (FIRST_FRAME_NUMBER + BlockAddress) % ByteMod
          /\ BlockAddress' # BlockAddress
       \/ /\ ReceivedFrameNumber + 1 = CurrentFrameNumber
          /\ UNCHANGED <<Memory, BlockAddress, CurrentFrameNumber>>
<1>1. IInv /\ [Next]_vars => [A]_vars
  <2> SUFFICES ASSUME IInv, Next, State = "RECEIVE_PROCESS",
                      out' = <<BYTE_ACK>>
               PROVE  A
    OBVIOUS
  <2>1. PICK b \in Byte : ReceiveProcess(b)
    BY VerdictOnly
  <2>2. CASE AcceptBlock(b)
    BY <2>2, NumberFollowsAddress
    DEF AcceptBlock, MemoryUploadBlock, NextAddress, IsExpected, IInv, TypeOK,
        FrameNumberTracksAddress, ReceiveStates
  <2>3. CASE RefuseBlock(b)
    <3>1. Len(out') = 2
      BY <2>3 DEF RefuseBlock
    <3> QED BY <3>1
  <2>4. CASE DamagedBlock(b)
    <3>1. out'[1] = BYTE_NAK
      BY <2>4 DEF DamagedBlock
    <3> QED BY <3>1, ByteAssumption
  <2>5. CASE UnexpectedBlock
    <3>1. CASE ~IsRetransmission
      <4>1. out'[1] = BYTE_CAN
        BY <2>5, <3>1 DEF UnexpectedBlock
      <4> QED BY <4>1, ByteAssumption
    <3>2. CASE IsRetransmission
      BY <2>5, <3>2 DEF UnexpectedBlock, IsRetransmission, counters
    <3> QED BY <3>1, <3>2
  <2> QED BY <2>1, <2>2, <2>3, <2>4, <2>5 DEF ReceiveProcess
<1> QED BY InitIInv, StepIInv, <1>1, PTL DEF Spec, AckIsCommit

(* Memory changes only where an accepted block is stored (XModem.c:130,    *)
(* Memory.c:412-426).                                                      *)
THEOREM StoresOnlyAccepted == Spec => OnlyAcceptedBlocksStored
<1> DEFINE A == Memory' # Memory =>
       /\ State = "RECEIVE_PROCESS"
       /\ out' = <<BYTE_ACK>>
       /\ \A a \in DOMAIN Memory \ {BlockAddress} : Memory'[a] = Memory[a]
<1>1. IInv /\ [Next]_vars => [A]_vars
  <2> SUFFICES ASSUME IInv, Next, Memory' # Memory PROVE A
    OBVIOUS
  <2>1. State = "RECEIVE_PROCESS"
    BY MemoryUntouched
  <2>2. PICK b \in Byte : ReceiveProcess(b)
    BY <2>1, VerdictOnly
  <2>3. AcceptBlock(b)
    BY <2>2 DEF ReceiveProcess, RefuseBlock, DamagedBlock, UnexpectedBlock
  <2> QED BY <2>1, <2>3 DEF AcceptBlock, MemoryUploadBlock, IInv, TypeOK
<1> QED BY InitIInv, StepIInv, <1>1, PTL DEF Spec, OnlyAcceptedBlocksStored
-----------------------------------------------------------------------------
(***************************************************************************)
(* The checksum: an 8-bit sum.                                             *)
(***************************************************************************)
(* Induction over the naturals, for a set: the least number outside it has *)
(* a predecessor inside it.                                                *)
LEMMA InductionOnNat ==
  ASSUME NEW T, 0 \in T, \A n \in Nat : n \in T => n + 1 \in T
  PROVE  Nat \subseteq T
<1> SUFFICES ASSUME Nat \ T # {} PROVE FALSE
  OBVIOUS
<1> DEFINE R == OpToRel(<, Nat)
<1>1. PICK n \in Nat \ T : \A m \in Nat \ T : ~ (<<m, n>> \in R)
  <2>1. IsWellFoundedOn(R, Nat)
    BY NatLessThanWellFounded
  <2> HIDE DEF R
  <2> QED BY <2>1, WFMin, Nat \ T \subseteq Nat
<1>2. \A m \in Nat \ T : ~(m < n)
  BY <1>1 DEF OpToRel
<1>3. n # 0 /\ n - 1 \in Nat /\ n - 1 < n /\ (n - 1) + 1 = n
  OBVIOUS
<1> QED BY <1>2, <1>3

(* The sum of a function over the subsets of its domain, as the library    *)
(* computes it: one element after the other, in an order it chooses.       *)
AnyOf(s) == CHOOSE x \in s : TRUE
IsSum(g, f, S) == g = [s \in SUBSET S |-> IF s = {} THEN 0 ELSE f[AnyOf(s)] + g[s \ {AnyOf(s)}]]

(* The sum of a function is the one value its recursion determines.        *)
LEMMA SumUnfolds == ASSUME NEW f PROVE SumFunction(f) = (CHOOSE g : IsSum(g, f, DOMAIN f))[DOMAIN f]
  BY DEF SumFunction, SumFunctionOnSet, FoldFunctionOnSet, MapThenFoldSet, IsSum, AnyOf
(* The same for the subsets with at most k elements.                       *)
SumsTo(g, f, S, k) ==
  \A s \in SUBSET S : Cardinality(s) <= k =>
    g[s] = IF s = {} THEN 0 ELSE f[AnyOf(s)] + g[s \ {AnyOf(s)}]

(* A set without the element the sum takes first.                          *)
LEMMA OneOut ==
  ASSUME NEW S, IsFiniteSet(S), NEW s \in SUBSET S, s # {}
  PROVE  /\ AnyOf(s) \in s /\ s \ {AnyOf(s)} \in SUBSET S
         /\ IsFiniteSet(s) /\ Cardinality(s) \in Nat \ {0}
         /\ Cardinality(s \ {AnyOf(s)}) = Cardinality(s) - 1
<1>1. AnyOf(s) \in s
  BY DEF AnyOf
<1>2. IsFiniteSet(s) /\ Cardinality(s) \in Nat /\ Cardinality(s) # 0
  BY FS_Subset, FS_CardinalityType, FS_EmptySet
<1> QED BY <1>1, <1>2, FS_RemoveElement

(* There is such a function: from the subsets of k elements to those of    *)
(* k + 1.                                                                  *)
LEMMA SumExists ==
  ASSUME NEW S, IsFiniteSet(S), NEW f
  PROVE  IsSum(CHOOSE g : IsSum(g, f, S), f, S)
<1> DEFINE T == {k \in Nat : \E g : SumsTo(g, f, S, k)}
<1>1. 0 \in T
  <2> DEFINE g == [s \in SUBSET S |-> 0]
  <2>1. \A s \in SUBSET S : Cardinality(s) <= 0 => s = {}
    BY FS_Subset, FS_CardinalityType, FS_EmptySet
  <2>2. SumsTo(g, f, S, 0)
    BY <2>1 DEF SumsTo
  <2> QED BY <2>2
<1>2. ASSUME NEW k \in Nat, k \in T PROVE k + 1 \in T
  <2>1. PICK g : SumsTo(g, f, S, k)
    BY <1>2
  <2> DEFINE h == [s \in SUBSET S |-> IF s = {} THEN 0 ELSE f[AnyOf(s)] + g[s \ {AnyOf(s)}]]
  <2>2. ASSUME NEW s \in SUBSET S, Cardinality(s) <= k PROVE h[s] = g[s]
    BY <2>1, <2>2 DEF SumsTo
  <2>3. SumsTo(h, f, S, k + 1)
    <3> SUFFICES ASSUME NEW s \in SUBSET S, Cardinality(s) <= k + 1, s # {}
                 PROVE  h[s] = f[AnyOf(s)] + h[s \ {AnyOf(s)}]
      BY DEF SumsTo
    <3>1. s \ {AnyOf(s)} \in SUBSET S /\ Cardinality(s \ {AnyOf(s)}) <= k
      BY OneOut
    <3>2. h[s \ {AnyOf(s)}] = g[s \ {AnyOf(s)}]
      BY <3>1, <2>2
    <3> QED BY <3>2
  <2> QED BY <2>3
<1> HIDE DEF T
<1>3. Cardinality(S) \in T
  BY <1>1, <1>2, InductionOnNat, FS_CardinalityType
<1>4. PICK g : SumsTo(g, f, S, Cardinality(S))
  BY <1>3 DEF T
<1> DEFINE h == [s \in SUBSET S |-> IF s = {} THEN 0 ELSE f[AnyOf(s)] + g[s \ {AnyOf(s)}]]
<1>5. \A s \in SUBSET S : h[s] = g[s]
  BY <1>4, FS_Subset DEF SumsTo
<1>6. \A s \in SUBSET S : s \ {AnyOf(s)} \in SUBSET S
  OBVIOUS
<1>7. IsSum(h, f, S)
  BY <1>5, <1>6 DEF IsSum
<1> QED BY <1>7

(* The sums x and y of two functions that differ in one place, where they  *)
(* have the values p and q.                                                *)
DifferBy(x, y, p, q) == x \in Nat /\ y \in Nat /\ x + q = y + p

(* Two functions that differ at i have sums that differ by as much.        *)
LEMMA SumsOneApart ==
  ASSUME NEW S, IsFiniteSet(S), NEW f \in [S -> Nat], NEW h \in [S -> Nat], NEW i \in S,
         \A j \in S \ {i} : f[j] = h[j],
         NEW g, IsSum(g, f, S), NEW e, IsSum(e, h, S)
  PROVE  DifferBy(g[S], e[S], f[i], h[i])
<1> DEFINE Fits(s) == /\ g[s] \in Nat /\ e[s] \in Nat
                      /\ i \notin s => g[s] = e[s]
                      /\ i \in s => g[s] + h[i] = e[s] + f[i]
           T == {k \in Nat : \A s \in SUBSET S : Cardinality(s) = k => Fits(s)}
<1>0. \A s \in SUBSET S :
        /\ g[s] = IF s = {} THEN 0 ELSE f[AnyOf(s)] + g[s \ {AnyOf(s)}]
        /\ e[s] = IF s = {} THEN 0 ELSE h[AnyOf(s)] + e[s \ {AnyOf(s)}]
  BY DEF IsSum
<1>1. 0 \in T
  <2>1. \A s \in SUBSET S : Cardinality(s) = 0 => s = {}
    BY FS_Subset, FS_EmptySet
  <2>2. g[{}] = 0 /\ e[{}] = 0
    BY <1>0
  <2>3. \A s \in SUBSET S : Cardinality(s) = 0 => Fits(s)
    BY <2>1, <2>2
  <2> QED BY <2>3
<1>2. ASSUME NEW k \in Nat, k \in T PROVE k + 1 \in T
  <2> SUFFICES ASSUME NEW s \in SUBSET S, Cardinality(s) = k + 1 PROVE Fits(s)
    OBVIOUS
  <2> DEFINE x == AnyOf(s)
             r == s \ {x}
  <2>1. s # {}
    BY FS_EmptySet
  <2>2. x \in s /\ r \in SUBSET S /\ Cardinality(r) = k
    BY <2>1, OneOut
  <2>3. g[s] = f[x] + g[r] /\ e[s] = h[x] + e[r]
    BY <1>0, <2>1
  <2>4. Fits(r)
    BY <1>2, <2>2
  <2>5. f[x] \in Nat /\ h[x] \in Nat /\ f[i] \in Nat /\ h[i] \in Nat
    BY <2>2
  <2>6. CASE x = i
    <3>1. i \notin r /\ i \in s
      BY <2>2, <2>6
    <3> QED BY <2>3, <2>4, <2>5, <2>6, <3>1
  <2>7. CASE x # i
    <3>1. f[x] = h[x] /\ (i \in s <=> i \in r)
      BY <2>2, <2>7
    <3> HIDE DEF x, r
    <3> QED BY <2>3, <2>4, <2>5, <3>1
  <2> QED BY <2>6, <2>7
<1> HIDE DEF T
<1>3. Cardinality(S) \in T
  BY <1>1, <1>2, InductionOnNat, FS_CardinalityType
<1> QED BY <1>3 DEF T, DifferBy

(* The same for two blocks.                                                *)
LEMMA BlockSums ==
  ASSUME NEW a \in Block, NEW b \in Block, NEW i \in 1 .. XMODEM_BLOCK_SIZE,
         \A j \in 1 .. XMODEM_BLOCK_SIZE : j # i => a[j] = b[j]
  PROVE  /\ SumFunction(a) \in Nat /\ SumFunction(b) \in Nat
         /\ SumFunction(a) + b[i] = SumFunction(b) + a[i]
<1> DEFINE S == 1 .. XMODEM_BLOCK_SIZE
           g == CHOOSE g : IsSum(g, a, S)
           e == CHOOSE e : IsSum(e, b, S)
<1>1. IsFiniteSet(S)
  BY SizeAssumption, FS_Interval
<1>2. /\ a \in [S -> Nat] /\ b \in [S -> Nat]
  OBVIOUS
<1>3. IsSum(g, a, S) /\ IsSum(e, b, S)
  BY <1>1, SumExists
<1>4. SumFunction(a) = g[S] /\ SumFunction(b) = e[S]
  BY <1>2, SumUnfolds
<1> HIDE DEF g, e, S
<1>5. i \in S /\ \A j \in S \ {i} : a[j] = b[j]
  BY DEF S
<1>6. ASSUME NEW x, IsSum(x, a, S), NEW y, IsSum(y, b, S)
      PROVE  DifferBy(x[S], y[S], a[i], b[i])
  BY <1>1, <1>2, <1>5, <1>6, SumsOneApart, Zenon
<1> QED BY <1>3, <1>4, <1>6 DEF DifferBy

(* A checksum is a byte ...                                                *)
LEMMA ChecksumIsByte == ASSUME NEW a \in Block PROVE CalcChecksum(a) \in Byte
<1>1. 1 \in 1 .. XMODEM_BLOCK_SIZE
  BY SizeAssumption
<1>2. SumFunction(a) \in Nat
  BY <1>1, BlockSums
<1> QED BY <1>2, ByteAssumption DEF CalcChecksum, Byte

(* x and y are apart by p and q, and equal modulo m: so are p and q, which *)
(* below m makes them equal.                                               *)
LEMMA ModApart ==
  ASSUME NEW m \in Nat, NEW x \in Nat, NEW y \in Nat, NEW p \in 0 .. m - 1, NEW q \in 0 .. m - 1,
         x + q = y + p, x % m = y % m
  PROVE  p = q
<1>1. PICK u \in Nat, v \in Nat, r \in 0 .. m - 1 : x = m * u + r /\ y = m * v + r
  <2> DEFINE u == x \div m
             v == y \div m
             r == x % m
  <2>1. u \in Nat /\ r \in 0 .. m - 1 /\ x = m * u + r
    OBVIOUS
  <2>2. v \in Nat /\ y = m * v + r
    OBVIOUS
  <2> HIDE DEF u, v, r
  <2> QED BY <2>1, <2>2
<1>2. m * u + q = m * v + p
  BY <1>1
<1>3. (m * u + q) % m = q /\ (m * v + p) % m = p
  OBVIOUS
<1> QED BY <1>2, <1>3

(* ... and no change of a single byte of a block leaves it as it was       *)
(* (CalcChecksum, XModem.c:75-86).                                         *)
THEOREM OneByteChangesChecksum ==
  ASSUME NEW a \in Block, NEW b \in Block, NEW i \in 1 .. XMODEM_BLOCK_SIZE,
         \A j \in 1 .. XMODEM_BLOCK_SIZE : j # i => a[j] = b[j],
         CalcChecksum(a) = CalcChecksum(b)
  PROVE  a = b
<1>1. /\ SumFunction(a) \in Nat /\ SumFunction(b) \in Nat
      /\ SumFunction(a) + b[i] = SumFunction(b) + a[i]
  BY BlockSums
<1>2. a[i] \in 0 .. ByteMod - 1 /\ b[i] \in 0 .. ByteMod - 1 /\ ByteMod \in Nat
  BY ByteAssumption
<1>3. a[i] = b[i]
  BY <1>1, <1>2, ModApart DEF CalcChecksum
<1>4. \A j \in 1 .. XMODEM_BLOCK_SIZE : a[j] = b[j]
  BY <1>3
<1>5. a = [j \in 1 .. XMODEM_BLOCK_SIZE |-> a[j]] /\ b = [j \in 1 .. XMODEM_BLOCK_SIZE |-> b[j]]
  OBVIOUS
<1> QED BY <1>4, <1>5

-----------------------------------------------------------------------------
(***************************************************************************)
(* A frame, and the device in the middle of one.                           *)
(***************************************************************************)
FrameSize == XMODEM_BLOCK_SIZE + 4

(* Byte k of the frame with this number, block and checksum.               *)
FrameByte(n, block, sum, k) ==
  CASE k = 1 -> BYTE_SOH
    [] k = 2 -> n
    [] k = 3 -> ByteMod - 1 - n
    [] k \in 4 .. XMODEM_BLOCK_SIZE + 3 -> block[k - 3]
    [] OTHER -> sum

(* How many bytes of the frame under way the device has taken, and whether *)
(* it took them for those of this frame.                                   *)
Place ==
  CASE State = "RECEIVE_FRAMENUM1" -> 1
    [] State = "RECEIVE_FRAMENUM2" -> 2
    [] State \in {"RECEIVE_DATA", "RECEIVE_PROCESS"} -> BufferIdx + 3
    [] OTHER -> 0
Started(n, block) ==
  /\ Place > 1 => ReceivedFrameNumber = n
  /\ Place > 2 => \A i \in 1 .. BufferIdx : TerminalBuffer[i] = block[i]

(* The bytes of a frame are bytes.                                         *)
LEMMA FrameByteType ==
  ASSUME NEW n \in Byte, NEW block \in Block, NEW sum \in Byte, NEW k \in 1 .. FrameSize
  PROVE  FrameByte(n, block, sum, k) \in Byte
<1>1. XMODEM_BLOCK_SIZE \in Nat /\ ByteMod \in Nat /\ BYTE_SOH \in Byte
  BY SizeAssumption, ByteAssumption
<1>2. k \in 4 .. XMODEM_BLOCK_SIZE + 3 => block[k - 3] \in Byte
  BY <1>1
<1> QED BY <1>1, <1>2 DEF FrameByte

(* The bytes a sender puts on the line for a block.                        *)
LEMMA FrameShape ==
  ASSUME NEW n \in Byte, NEW block \in Block
  PROVE  /\ FrameBytes(n, block) \in Seq(Byte)
         /\ Len(FrameBytes(n, block)) = FrameSize
         /\ \A k \in 1 .. FrameSize :
              FrameBytes(n, block)[k] = FrameByte(n, block, CalcChecksum(block), k)
<1> DEFINE sum == CalcChecksum(block)
           head == <<BYTE_SOH, n, ByteMod - 1 - n>>
           two == head \o block
           f == two \o <<sum>>
<1>1. BYTE_SOH \in Byte /\ ByteMod - 1 - n \in Byte /\ XMODEM_BLOCK_SIZE \in Nat
  BY ByteAssumption, SizeAssumption
<1>2. head \in Seq(Byte) /\ Len(head) = 3 /\ head[1] = BYTE_SOH /\ head[2] = n /\ head[3] = ByteMod - 1 - n
  BY <1>1
<1>3. block \in Seq(Byte) /\ Len(block) = XMODEM_BLOCK_SIZE
  <2>1. block \in [1 .. XMODEM_BLOCK_SIZE -> Byte]
    OBVIOUS
  <2> HIDE DEF Byte
  <2>2. block \in Seq(Byte)
    BY <1>1, <2>1, SeqDef
  <2>3. Len(block) \in Nat /\ DOMAIN block = 1 .. Len(block) /\ DOMAIN block = 1 .. XMODEM_BLOCK_SIZE
    BY <2>1, <2>2, LenProperties
  <2> QED BY <1>1, <2>2, <2>3
<1>4. sum \in Byte
  BY ChecksumIsByte
<1> HIDE DEF sum, head
<1>5. /\ two \in Seq(Byte) /\ Len(two) = 3 + XMODEM_BLOCK_SIZE
      /\ \A i \in 1 .. 3 + XMODEM_BLOCK_SIZE : two[i] = IF i <= 3 THEN head[i] ELSE block[i - 3]
  <2> HIDE DEF Byte
  <2>1. /\ two \in Seq(Byte) /\ Len(two) = Len(head) + Len(block)
        /\ \A i \in 1 .. Len(head) + Len(block) :
             two[i] = IF i <= Len(head) THEN head[i] ELSE block[i - Len(head)]
    BY <1>2, <1>3, ConcatProperties
  <2> HIDE DEF two
  <2> QED BY <1>1, <1>2, <1>3, <2>1
<1> HIDE DEF two
<1>6. /\ f \in Seq(Byte) /\ Len(f) = XMODEM_BLOCK_SIZE + 4
      /\ \A i \in 1 .. XMODEM_BLOCK_SIZE + 4 : f[i] = IF i <= XMODEM_BLOCK_SIZE + 3 THEN two[i] ELSE sum
  <2> HIDE DEF Byte
  <2>1. <<sum>> \in Seq(Byte) /\ Len(<<sum>>) = 1 /\ <<sum>>[1] = sum
    BY <1>4
  <2> DEFINE one == <<sum>>
  <2> HIDE DEF one
  <2>2. /\ two \o one \in Seq(Byte) /\ Len(two \o one) = Len(two) + Len(one)
        /\ \A i \in 1 .. Len(two) + Len(one) :
             (two \o one)[i] = IF i <= Len(two) THEN two[i] ELSE one[i - Len(two)]
    BY <1>5, <2>1, ConcatProperties DEF one
  <2>3. f = two \o one
    BY DEF one
  <2>4. Len(one) = 1 /\ one[1] = sum
    BY <2>1 DEF one
  <2> HIDE DEF f
  <2>5. f \in Seq(Byte) /\ Len(f) = XMODEM_BLOCK_SIZE + 4
    BY <1>1, <1>5, <2>2, <2>3, <2>4
  <2>6. ASSUME NEW i \in 1 .. XMODEM_BLOCK_SIZE + 4
        PROVE  f[i] = IF i <= XMODEM_BLOCK_SIZE + 3 THEN two[i] ELSE sum
    <3>1. i \in 1 .. Len(two) + Len(one) /\ Len(two) = XMODEM_BLOCK_SIZE + 3
      BY <1>1, <1>5, <2>4
    <3>2. i <= XMODEM_BLOCK_SIZE + 3 \/ i - Len(two) = 1
      BY <1>1, <3>1
    <3> QED BY <2>2, <2>3, <2>4, <3>1, <3>2
  <2> QED BY <2>5, <2>6
<1> HIDE DEF f
<1>7. \A k \in 1 .. FrameSize : f[k] = FrameByte(n, block, sum, k)
  <2> TAKE k \in 1 .. FrameSize
  <2>1. k \in 1 .. XMODEM_BLOCK_SIZE + 4
    BY DEF FrameSize
  <2>2. CASE k \in 1 .. 3
    BY <1>1, <1>2, <1>5, <1>6, <2>1, <2>2 DEF FrameByte
  <2>3. CASE k \in 4 .. XMODEM_BLOCK_SIZE + 3
    <3>1. ~(k <= 3) /\ k \in 1 .. 3 + XMODEM_BLOCK_SIZE /\ k <= XMODEM_BLOCK_SIZE + 3 /\ k # 1 /\ k # 2 /\ k # 3
      BY <1>1, <2>3
    <3>2. f[k] = block[k - 3]
      BY <1>5, <1>6, <2>1, <3>1
    <3> QED BY <2>3, <3>1, <3>2 DEF FrameByte
  <2>4. CASE k = XMODEM_BLOCK_SIZE + 4
    <3>1. ~(k <= XMODEM_BLOCK_SIZE + 3) /\ k # 1 /\ k # 2 /\ k # 3 /\ k \notin 4 .. XMODEM_BLOCK_SIZE + 3
      BY <1>1, <2>4
    <3>2. f[k] = sum
      BY <1>6, <2>1, <3>1
    <3> QED BY <3>1, <3>2 DEF FrameByte
  <2> QED BY <1>1, <2>1, <2>2, <2>3, <2>4
<1>8. FrameBytes(n, block) = f
  BY DEF FrameBytes, f, two, head, sum
<1> QED BY <1>6, <1>7, <1>8 DEF FrameSize, sum

(* Which case of the switch a byte meets.                                  *)
LEMMA Dispatch ==
  ASSUME NEW b, XModemProcessByte(b)
  PROVE  /\ State # "OFF"
         /\ State \in {"RECEIVE_INIT", "RECEIVE_WAIT"} => ReceiveWait(b)
         /\ State = "RECEIVE_FRAMENUM1" => ReceiveFrameNum1(b)
         /\ State = "RECEIVE_FRAMENUM2" => ReceiveFrameNum2(b)
         /\ State = "RECEIVE_DATA" => ReceiveData(b)
         /\ State = "RECEIVE_PROCESS" => ReceiveProcess(b)
         /\ State = "SEND_INIT" => SendNextBlock(b) \/ SendCancel(b) \/ SendIgnore(b)
         /\ State = "SEND_EOT" => SendEot
BY DEF XModemProcessByte, ReceiveWait, ReceiveFrameNum1, ReceiveFrameNum2, ReceiveData,
       ReceiveProcess, AcceptBlock, RefuseBlock, DamagedBlock, UnexpectedBlock,
       SendNextBlock, SendCancel, SendIgnore, SendEot

(* The device is in one place of a frame; at the end of it, only the       *)
(* checksum is missing.                                                    *)
LEMMA PlaceRange ==
  ASSUME IInv
  PROVE  /\ Place \in 0 .. XMODEM_BLOCK_SIZE + 3
         /\ Place + 1 \in 1 .. FrameSize
         /\ State = "RECEIVE_PROCESS" <=> Place = XMODEM_BLOCK_SIZE + 3
         /\ State \in {"OFF", "RECEIVE_INIT", "RECEIVE_WAIT", "SEND_INIT", "SEND_EOT"} <=> Place = 0
<1>1. /\ XMODEM_BLOCK_SIZE \in Nat \ {0} /\ BufferIdx \in 0 .. XMODEM_BLOCK_SIZE
      /\ State \in {"OFF"} \cup ReceiveStates \cup SendStates /\ BufferInRange
  BY SizeAssumption DEF IInv, TypeOK
<1>2. CASE State \in {"OFF", "RECEIVE_INIT", "RECEIVE_WAIT", "SEND_INIT", "SEND_EOT"}
  BY <1>1, <1>2 DEF Place, FrameSize
<1>3. CASE State \in {"RECEIVE_FRAMENUM1", "RECEIVE_FRAMENUM2"}
  BY <1>1, <1>3 DEF Place, FrameSize
<1>4. CASE State = "RECEIVE_DATA"
  BY <1>1, <1>4 DEF Place, FrameSize, BufferInRange
<1>5. CASE State = "RECEIVE_PROCESS"
  BY <1>1, <1>5 DEF Place, FrameSize, BufferInRange
<1> QED BY <1>1, <1>2, <1>3, <1>4, <1>5 DEF ReceiveStates, SendStates

(* In the middle of a frame ...                                            *)
LEMMA TakesByte ==
  ASSUME IInv, State \in ReceiveStates, State # "RECEIVE_PROCESS",
         NEW n \in Byte, NEW block \in Block, NEW sum \in Byte, Started(n, block),
         XModemProcessByte(FrameByte(n, block, sum, Place + 1))
  PROVE  /\ IInv' /\ Started(n, block)' /\ Place' = Place + 1
         /\ State' \in ReceiveStates \ {"RECEIVE_INIT", "RECEIVE_WAIT"}
         /\ out' = <<>> /\ UNCHANGED <<counters, Memory>>
<1> DEFINE b == FrameByte(n, block, sum, Place + 1)
<1>1. XMODEM_BLOCK_SIZE \in Nat \ {0} /\ BufferIdx \in Nat /\ Place + 1 \in 1 .. FrameSize
  <2>1. XMODEM_BLOCK_SIZE \in Nat \ {0} /\ BufferIdx \in Nat
    BY SizeAssumption DEF IInv, TypeOK
  <2> QED BY <2>1, PlaceRange
<1>2. IInv'
  BY <1>1, FrameByteType, BytePreserves
<1>3. CASE State \in {"RECEIVE_INIT", "RECEIVE_WAIT"}
  <2>1. b = BYTE_SOH /\ Place = 0
    BY <1>3 DEF FrameByte, Place
  <2>2. ReceiveWait(BYTE_SOH)
    BY <1>3, <2>1, Dispatch
  <2> QED BY <1>2, <2>1, <2>2, ByteAssumption DEF ReceiveWait, Place, Started, ReceiveStates
<1>4. CASE State = "RECEIVE_FRAMENUM1"
  <2>1. b = n /\ Place = 1
    BY <1>4 DEF FrameByte, Place
  <2>2. ReceiveFrameNum1(n)
    BY <1>4, <2>1, Dispatch
  <2> QED BY <1>2, <2>1, <2>2 DEF ReceiveFrameNum1, Place, Started, ReceiveStates
<1>5. CASE State = "RECEIVE_FRAMENUM2"
  <2>1. b = ByteMod - 1 - n /\ Place = 2 /\ ReceivedFrameNumber = n /\ BufferIdx = 0
    BY <1>5 DEF FrameByte, Place, Started, IInv, BufferInRange
  <2>2. ReceiveFrameNum2(ByteMod - 1 - n)
    BY <1>5, <2>1, Dispatch
  <2> QED BY <1>2, <2>1, <2>2 DEF ReceiveFrameNum2, Place, Started, ReceiveStates, frame
<1>6. CASE State = "RECEIVE_DATA"
  <2>1. /\ Place = BufferIdx + 3 /\ BufferIdx < XMODEM_BLOCK_SIZE /\ ReceivedFrameNumber = n
        /\ \A i \in 1 .. BufferIdx : TerminalBuffer[i] = block[i]
    BY <1>1, <1>6 DEF Place, Started, IInv, BufferInRange
  <2>2. b = block[BufferIdx + 1]
    BY <1>1, <2>1 DEF FrameByte
  <2>3. ReceiveData(b)
    BY <1>6, Dispatch
  <2>4. /\ TerminalBuffer' = [TerminalBuffer EXCEPT ![BufferIdx + 1] = block[BufferIdx + 1]]
        /\ BufferIdx' = BufferIdx + 1 /\ ReceivedFrameNumber' = ReceivedFrameNumber
        /\ State' \in {"RECEIVE_DATA", "RECEIVE_PROCESS"}
        /\ out' = <<>> /\ UNCHANGED <<counters, Memory>>
    BY <1>6, <2>2, <2>3 DEF ReceiveData
  <2>5. \A i \in 1 .. BufferIdx' : TerminalBuffer'[i] = block[i]
    BY <1>1, <2>1, <2>4 DEF IInv, TypeOK
  <2>6. Place' = Place + 1
    BY <1>1, <2>1, <2>4 DEF Place
  <2> QED BY <1>2, <2>1, <2>4, <2>5, <2>6 DEF Started, ReceiveStates
<1> QED BY <1>3, <1>4, <1>5, <1>6 DEF ReceiveStates

(* ... and at the end of one, with the whole block in its buffer.          *)
LEMMA TakesChecksum ==
  ASSUME IInv, State = "RECEIVE_PROCESS",
         NEW n \in Byte, NEW block \in Block, NEW sum \in Byte, Started(n, block),
         XModemProcessByte(FrameByte(n, block, sum, Place + 1))
  PROVE  /\ IInv' /\ TerminalBuffer = block /\ ReceivedFrameNumber = n
         /\ Place + 1 = FrameSize /\ ReceiveProcess(sum)
<1>1. /\ XMODEM_BLOCK_SIZE \in Nat \ {0} /\ BufferIdx = XMODEM_BLOCK_SIZE
      /\ Place = XMODEM_BLOCK_SIZE + 3 /\ Place + 1 = FrameSize /\ Place + 1 \in 1 .. FrameSize
  BY SizeAssumption DEF IInv, BufferInRange, Place, FrameSize
<1>2. FrameByte(n, block, sum, Place + 1) = sum
  BY <1>1 DEF FrameByte, FrameSize
<1>3. IInv' /\ ReceiveProcess(sum)
  BY <1>2, BytePreserves, Dispatch
<1>4. ReceivedFrameNumber = n /\ \A i \in 1 .. XMODEM_BLOCK_SIZE : TerminalBuffer[i] = block[i]
  BY <1>1 DEF Started
<1>5. TerminalBuffer = block
  <2>1. TerminalBuffer \in Block
    BY DEF IInv, TypeOK
  <2>2. /\ TerminalBuffer = [i \in 1 .. XMODEM_BLOCK_SIZE |-> TerminalBuffer[i]]
        /\ block = [i \in 1 .. XMODEM_BLOCK_SIZE |-> block[i]]
    BY <2>1
  <2> QED BY <1>4, <2>2
<1> QED BY <1>1, <1>3, <1>4, <1>5
=============================================================================
