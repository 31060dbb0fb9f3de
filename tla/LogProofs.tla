----------------------------- MODULE LogProofs -----------------------------
(***************************************************************************)
(* Proofs about Log for every size of the two memories and every set of    *)
(* entries, those of interrupts included: what holds of the space counters *)
(* (SpaceAccounted, by an inductive invariant over the steps of an append, *)
(* a move and a clear), that the log implements EventLog, and that a       *)
(* download reads it.                                                      *)
(***************************************************************************)
EXTENDS Log, SequenceTheorems, TLAPS

(* Writing a sequence into a memory and reading a stretch of it back.      *)
LEMMA WriteType ==
  ASSUME NEW S, NEW D, NEW mem \in [D -> S], NEW at \in Int, NEW s \in Seq(S),
         D \subseteq Int
  PROVE  Write(mem, at, s) \in [D -> S]
<1>1. Write(mem, at, s) =
        [i \in D |-> IF i \in at .. at + Len(s) - 1 THEN s[i - at + 1] ELSE mem[i]]
  BY DEF Write
<1>2. ASSUME NEW i \in D, i \in at .. at + Len(s) - 1 PROVE s[i - at + 1] \in S
  <2>1. i - at + 1 \in 1 .. Len(s)
    BY <1>2
  <2> QED BY <2>1, ElementOfSeq
<1> QED BY <1>1, <1>2

LEMMA ReadType ==
  ASSUME NEW S, NEW a \in Int, NEW n \in Nat, NEW mem,
         \A i \in Int : a =< i /\ i < a + n => mem[i] \in S
  PROVE  /\ Read(mem, a, n) \in Seq(S)
         /\ Len(Read(mem, a, n)) = n
         /\ \A i \in 1 .. n : Read(mem, a, n)[i] = mem[a + i - 1]
<1>1. Read(mem, a, n) \in [1 .. n -> S]
  <2>1. \A i \in 1 .. n : a + i - 1 \in Int /\ a =< a + i - 1 /\ a + i - 1 < a + n
    OBVIOUS
  <2> QED BY <2>1 DEF Read
<1>2. Read(mem, a, n) \in Seq(S)
  BY <1>1, SeqDef
<1>3. Len(Read(mem, a, n)) = n
  BY <1>1, <1>2, LenProperties
<1> QED BY <1>1, <1>2, <1>3 DEF Read

(* A stretch that the written cells do not touch reads as before, ...      *)
LEMMA ReadFrame ==
  ASSUME NEW a \in Int, NEW n \in Nat, NEW at \in Int, a + n =< at, NEW s, NEW mem,
         \A i \in Int : a =< i /\ i < a + n => i \in DOMAIN mem
  PROVE  Read(Write(mem, at, s), a, n) = Read(mem, a, n)
<1>1. \A i \in 1 .. n : a + i - 1 \in DOMAIN mem /\ a + i - 1 < at /\ a + i - 1 \in Int
  <2>1. \A i \in 1 .. n : a + i - 1 \in Int /\ a =< a + i - 1 /\ a + i - 1 < a + n
    OBVIOUS
  <2> QED BY <2>1
<1>2. \A i \in 1 .. n : Write(mem, at, s)[a + i - 1] = mem[a + i - 1]
  <2> TAKE i \in 1 .. n
  <2>1. a + i - 1 \in DOMAIN mem /\ a + i - 1 \notin at .. at + Len(s) - 1
    BY <1>1
  <2> QED BY <2>1 DEF Write
<1> QED BY <1>2 DEF Read

(* ... and the written stretch reads as what was written.                  *)
LEMMA ReadBack ==
  ASSUME NEW S, NEW at \in Int, NEW s \in Seq(S), NEW mem,
         \A i \in Int : at =< i /\ i < at + Len(s) => i \in DOMAIN mem
  PROVE  Read(Write(mem, at, s), at, Len(s)) = s
<1>1. \A i \in 1 .. Len(s) : at + i - 1 \in at .. at + Len(s) - 1
  BY LenProperties
<1>2. \A i \in 1 .. Len(s) : (at + i - 1) - at + 1 = i /\ at + i - 1 \in DOMAIN mem
  BY LenProperties
<1>3. \A i \in 1 .. Len(s) : Write(mem, at, s)[at + i - 1] = s[i]
  BY <1>1, <1>2 DEF Write
<1>4. Read(Write(mem, at, s), at, Len(s)) = [i \in 1 .. Len(s) |-> s[i]]
  BY <1>3 DEF Read
<1> QED BY <1>4, LenProperties

LEMMA ReadOfBytes ==
  \A mem : \A a \in Int, n \in Nat :
    (\A i \in Int : a =< i /\ i < a + n => mem[i] \in Byte)
      => /\ Read(mem, a, n) \in Seq(Byte)
         /\ Len(Read(mem, a, n)) = n
         /\ \A i \in 1 .. n : Read(mem, a, n)[i] = mem[a + i - 1]
<1> TAKE mem
<1> TAKE a \in Int, n \in Nat
<1> HAVE \A i \in Int : a =< i /\ i < a + n => mem[i] \in Byte
<1> HIDE DEF Byte, Read
<1> QED BY ReadType

LEMMA ReadSplit ==
  ASSUME NEW mem, NEW a \in Int, NEW b \in Int,
         NEW m \in Nat, NEW n \in Nat, NEW k \in Nat
  PROVE  /\ b = a + m /\ k = m + n
         /\ \A i \in Int : a =< i /\ i < a + k => mem[i] \in Byte
         => Read(mem, a, k) = Read(mem, a, m) \o Read(mem, b, n)
<1>0. SUFFICES ASSUME b = a + m, k = m + n,
                      \A i \in Int : a =< i /\ i < a + k => mem[i] \in Byte
               PROVE  Read(mem, a, k) = Read(mem, a, m) \o Read(mem, b, n)
  OBVIOUS
<1>1. /\ Read(mem, a, m) \in Seq(Byte) /\ Len(Read(mem, a, m)) = m
      /\ \A i \in 1 .. m : Read(mem, a, m)[i] = mem[a + i - 1]
  <2>1. \A i \in Int : a =< i /\ i < a + m => mem[i] \in Byte
    BY <1>0
  <2> QED BY <2>1, ReadOfBytes, Zenon
<1>2. /\ Read(mem, b, n) \in Seq(Byte) /\ Len(Read(mem, b, n)) = n
      /\ \A i \in 1 .. n : Read(mem, b, n)[i] = mem[b + i - 1]
  <2>1. \A i \in Int : b =< i /\ i < b + n => mem[i] \in Byte
    BY <1>0
  <2> QED BY <2>1, ReadOfBytes, Zenon
<1>3. /\ Read(mem, a, k) \in Seq(Byte) /\ Len(Read(mem, a, k)) = k
      /\ \A i \in 1 .. k : Read(mem, a, k)[i] = mem[a + i - 1]
  <2>1. \A i \in Int : a =< i /\ i < a + k => mem[i] \in Byte
    BY <1>0
  <2> QED BY <2>1, ReadOfBytes, Zenon
<1> DEFINE l == Read(mem, a, m)  r == Read(mem, b, n)  w == Read(mem, a, k)
<1> HIDE DEF l, r, w
<1>4. /\ l \o r \in Seq(Byte) /\ Len(l \o r) = k
      /\ \A i \in 1 .. k : (l \o r)[i] = IF i =< m THEN l[i] ELSE r[i - m]
  <2>1. l \in Seq(Byte) /\ r \in Seq(Byte) /\ Len(l) = m /\ Len(r) = n
    BY <1>1, <1>2 DEF l, r
  <2> QED BY <2>1, <1>0, ConcatProperties
<1>5. ASSUME NEW i \in 1 .. k PROVE w[i] = (l \o r)[i]
  <2>1. CASE i =< m
    <3>1. i \in 1 .. m
      BY <2>1
    <3>2. w[i] = mem[a + i - 1] /\ l[i] = mem[a + i - 1]
      BY <3>1, <1>1, <1>3 DEF l, w
    <3> QED BY <3>2, <2>1, <1>4
  <2>2. CASE ~(i =< m)
    <3>1. i - m \in 1 .. n /\ b + (i - m) - 1 = a + i - 1
      BY <2>2, <1>0
    <3>2. w[i] = mem[a + i - 1] /\ r[i - m] = mem[b + (i - m) - 1]
      BY <3>1, <1>2, <1>3 DEF r, w
    <3> QED BY <2>2, <3>1, <3>2, <1>4
  <2> QED BY <2>1, <2>2
<1>6. w = l \o r
  <2>1. w \in Seq(Byte) /\ Len(w) = k
    BY <1>3 DEF w
  <2> QED BY <2>1, <1>4, <1>5, SeqEqual
<1> QED BY <1>6 DEF w, l, r

(* The same facts as quantified formulas.                                  *)
LEMMA ReadBackBytes ==
  \A mem : \A at \in Int, s \in Seq(Byte), n \in Nat :
    /\ Len(s) = n
    /\ \A i \in Int : at =< i /\ i < at + n => i \in DOMAIN mem
    => Read(Write(mem, at, s), at, n) = s
<1> SUFFICES ASSUME NEW mem, NEW at \in Int, NEW s \in Seq(Byte),
                    \A i \in Int : at =< i /\ i < at + Len(s) => i \in DOMAIN mem
             PROVE  Read(Write(mem, at, s), at, Len(s)) = s
  OBVIOUS
<1> QED BY ReadBack

LEMMA ReadSplitBytes ==
  \A mem : \A a \in Int, b \in Int, m \in Nat, n \in Nat, k \in Nat :
    /\ b = a + m /\ k = m + n
    /\ \A i \in Int : a =< i /\ i < a + k => mem[i] \in Byte
    => Read(mem, a, k) = Read(mem, a, m) \o Read(mem, b, n)
BY ReadSplit

-----------------------------------------------------------------------------
(* The inductive invariant: TypeOK and SpaceAccounted say what holds when  *)
(* the main loop is between two calls; InTheMiddle says what each step of  *)
(* an append, a move or a clear rests on, whatever interrupts did, and     *)
(* Untorn what it can rely on as long as none came in the wrong place.     *)
Running == powered /\ ~overrun

InTheMiddle ==
  /\ ~powered => step = "idle" /\ ~torn /\ ~clearing /\ ~overrun
  /\ powered => LogFRAMAddrValid
  /\ clearing => step \in {"emptied", "rewound", "cleared"}
  /\ Running =>
       /\ FRAMLogAddr =< LogFRAMAddr
       /\ clearing \/ step \notin {"counted", "emptied", "rewound", "cleared"}
            => FRAMLogAddr = LogFRAMAddr
       /\ step = "testing" => Len(rest) =< LogMemLeft
       /\ step \in {"part", "moved", "shrunk"} => FRAM_Free =< Used

Untorn ==
  Running /\ ~torn =>
    /\ step \in {"testing", "writing"} => rest \in Entries
    /\ step \in {"idle", "testing", "written", "counted", "part", "moved", "cleared"}
         => LogMemPtr + LogMemLeft = LOG_SIZE
    /\ step = "writing" => LogMemPtr + LogMemLeft + Len(rest) = LOG_SIZE
    /\ step = "shrunk" => LogMemPtr + LogMemLeft + FRAM_Free = LOG_SIZE
    /\ step = "rewound" => LogMemPtr = 0
    /\ step = "written" => /\ Used =< FRAM_Free
                           /\ Read(FRAM, LogFRAMAddr, Used) = Read(LogMem, 0, Used)
    /\ step = "part" => Read(FRAM, LogFRAMAddr, FRAM_Free) = Read(LogMem, 0, FRAM_Free)

IInv == TypeOK /\ SpaceAccounted /\ InTheMiddle /\ Untorn

LEMMA SizeFacts ==
  /\ LOG_SIZE \in Nat /\ LOG_SIZE > 0
  /\ FRAM_LOG_SIZE \in Nat /\ FRAM_LOG_SIZE > 0
  /\ FRAM_LOG_START_ADDR \in Nat
  /\ FRAMEnd \in Nat /\ FRAMEnd = FRAM_LOG_START_ADDR + FRAM_LOG_SIZE
  /\ LOG_EMPTY \in Byte /\ 0 \in Byte
BY SizeAssumption DEF FRAMEnd, Byte, LOG_EMPTY

LEMMA EntryFacts ==
  \A e \in Entries : e \in Seq(Byte) /\ Len(e) \in Nat /\ Len(e) > 0
<1> SUFFICES ASSUME NEW e \in Entries PROVE e \in Seq(Byte) /\ Len(e) \in Nat /\ Len(e) > 0
  OBVIOUS
<1>1. e \in Seq(Byte) /\ e # <<>>
  BY EntryAssumption
<1> QED BY <1>1, LenProperties, EmptySeq

(* The arithmetic of a running system.                                     *)
LEMMA SpaceFacts ==
  ASSUME IInv, Running
  PROVE  /\ LogMemPtr \in 0 .. LOG_SIZE /\ LogMemLeft \in 0 .. LOG_SIZE
         /\ Used \in 0 .. LOG_SIZE /\ Used + LogMemLeft = LOG_SIZE
         /\ LogFRAMAddr \in FRAM_LOG_START_ADDR .. FRAMEnd
         /\ FRAM_Free \in 0 .. FRAM_LOG_SIZE /\ LogFRAMAddr + FRAM_Free = FRAMEnd
         /\ SizeInFRAMStored \in 0 .. FRAM_LOG_SIZE
         /\ LogFRAMAddr = FRAM_LOG_START_ADDR + SizeInFRAMStored
         /\ FRAMLogAddr \in FRAM_LOG_START_ADDR .. LogFRAMAddr /\ LogFRAMAddrValid
BY SizeFacts DEF IInv, TypeOK, SpaceAccounted, InTheMiddle, Running, Used, FRAM_Free,
                 SizeInFRAMStored

LEMMA ReadLogMem ==
  ASSUME IInv, NEW a \in Int, NEW n \in Nat, 0 =< a, a + n =< LOG_SIZE
  PROVE  Read(LogMem, a, n) \in Seq(Byte) /\ Len(Read(LogMem, a, n)) = n
<1>1. \A i \in Int : a =< i /\ i < a + n => LogMem[i] \in Byte
  BY SizeFacts DEF IInv, TypeOK
<1> QED BY <1>1, ReadType

LEMMA ReadFRAM ==
  ASSUME IInv, NEW a \in Int, NEW n \in Nat, FRAM_LOG_START_ADDR =< a, a + n =< FRAMEnd
  PROVE  Read(FRAM, a, n) \in Seq(Byte) /\ Len(Read(FRAM, a, n)) = n
<1>1. \A i \in Int : a =< i /\ i < a + n => FRAM[i] \in Byte
  BY SizeFacts DEF IInv, TypeOK
<1> QED BY <1>1, ReadType

LEMMA InitIInv == Init => IInv
<1> SUFFICES ASSUME Init PROVE IInv
  OBVIOUS
<1>1. LogMem \in [0 .. LOG_SIZE - 1 -> Byte] /\ LogMemPtr \in 0 .. LOG_SIZE /\ LogMemPtr \in Int
      /\ LogMemLeft \in 0 .. LOG_SIZE /\ LogFRAMAddr \in FRAM_LOG_START_ADDR .. FRAMEnd
      /\ LogFRAMAddr \in Nat
  BY SizeFacts DEF Init
<1>2. FRAM \in [FRAM_LOG_START_ADDR .. FRAMEnd - 1 -> Byte]
  BY SizeFacts DEF Init
<1>3. FRAMLogAddr \in Nat
  BY StaleAssumption DEF Init
<1>4. rest \in Seq(Byte) /\ step \in Steps
  BY EmptySeq DEF Init, Steps, Harmless
<1> QED BY <1>1, <1>2, <1>3, <1>4
        DEF Init, IInv, TypeOK, SpaceAccounted, InTheMiddle, Untorn, Running, LogModes

-----------------------------------------------------------------------------
(* Steps of the main loop that change neither memory.                      *)
LEMMA TestRoomPreserves == ASSUME IInv, NEW e \in Entries, TestRoom(e) PROVE IInv'
<1>1. e \in Seq(Byte) /\ Len(e) \in Nat
  BY EntryFacts
<1>2. Running /\ step = "idle" /\ ~clearing /\ FRAMLogAddr = LogFRAMAddr /\ LogFRAMAddrValid
  BY DEF TestRoom, MainLoop, At, Running, IInv, InTheMiddle
<1>3. step' = "testing" /\ rest' = e /\ Len(e) =< LogMemLeft
      /\ UNCHANGED <<CurrentLogFunc, sram, LogFRAMAddr, powered, clearing, torn, overrun, permanent>>
  BY DEF TestRoom, Fits
<1>4. TypeOK'
  BY <1>1, <1>3 DEF IInv, TypeOK, Steps, InUpdate, sram, permanent
<1>5. SpaceAccounted'
  BY <1>2, <1>3 DEF IInv, SpaceAccounted, sram, permanent
<1>6. InTheMiddle'
  BY <1>2, <1>3 DEF IInv, InTheMiddle, Running, sram, permanent
<1>7. Untorn'
  BY <1>2, <1>3 DEF IInv, Untorn, Running, sram, permanent
<1> QED BY <1>4, <1>5, <1>6, <1>7 DEF IInv

LEMMA TakeRoomPreserves == ASSUME IInv, TakeRoom PROVE IInv'
<1>1. Running /\ step = "testing" /\ ~clearing /\ FRAMLogAddr = LogFRAMAddr /\ LogFRAMAddrValid
  BY DEF TakeRoom, At, Running, IInv, InTheMiddle
<1>2. step' = "writing" /\ LogMemLeft' = LogMemLeft - Len(rest)
      /\ UNCHANGED <<CurrentLogFunc, LogMem, LogMemPtr, LogFRAMAddr, powered, rest, clearing, torn, overrun, permanent>>
  BY DEF TakeRoom
<1>3. LogMemLeft \in 0 .. LOG_SIZE /\ Len(rest) \in Nat /\ Len(rest) =< LogMemLeft /\ LogMemPtr \in Int
  BY <1>1, LenProperties DEF IInv, TypeOK, InTheMiddle
<1>4. TypeOK'
  BY <1>2, <1>3, SizeFacts DEF IInv, TypeOK, Steps, InUpdate, permanent
<1>5. SpaceAccounted'
  BY <1>1, <1>2 DEF IInv, SpaceAccounted, permanent
<1>6. InTheMiddle'
  BY <1>1, <1>2 DEF IInv, InTheMiddle, Running, permanent
<1>7. Untorn'
  <2>1. ~torn => LogMemPtr + LogMemLeft = LOG_SIZE /\ rest \in Entries
    BY <1>1 DEF IInv, Untorn
  <2>2. ~torn => LogMemPtr + LogMemLeft' + Len(rest) = LOG_SIZE
    BY <1>2, <1>3, <2>1
  <2> QED BY <1>1, <1>2, <2>1, <2>2 DEF Untorn, Running, permanent
<1> QED BY <1>4, <1>5, <1>6, <1>7 DEF IInv

LEMMA CountCopiedPreserves == ASSUME IInv, CountCopied PROVE IInv'
<1>1. Running /\ step = "written" /\ ~clearing /\ FRAMLogAddr = LogFRAMAddr /\ LogFRAMAddrValid
  BY DEF CountCopied, At, Running, IInv, InTheMiddle
<1>2. step' = "counted" /\ LogFRAMAddr' = LogFRAMAddr + Used /\ (overrun' <=> LogFRAMAddr' > FRAMEnd) /\ overrun' \in BOOLEAN
      /\ UNCHANGED <<CurrentLogFunc, sram, powered, rest, clearing, torn, permanent>>
  <2>1. overrun' = (LogFRAMAddr' > FRAMEnd)
    BY DEF CountCopied
  <2>2. (LogFRAMAddr' > FRAMEnd) \in BOOLEAN
    OBVIOUS
  <2>3. (overrun' <=> LogFRAMAddr' > FRAMEnd) /\ overrun' \in BOOLEAN
    BY <2>1, <2>2, Zenon
  <2> QED BY <2>3 DEF CountCopied
<1>3. /\ LogFRAMAddr \in Nat /\ Used \in Nat /\ FRAM_LOG_START_ADDR =< LogFRAMAddr
      /\ LogFRAMAddr + FRAM_Free = FRAMEnd /\ FRAM_Free \in Nat
      /\ ~torn => Used =< FRAM_Free
  BY <1>1, SpaceFacts, SizeFacts DEF IInv, Untorn
<1>4. TypeOK'
  BY <1>1, <1>2, <1>3, SizeFacts DEF IInv, TypeOK, Steps, InMove, sram, permanent, Running
<1>5. SpaceAccounted'
  <2>1. overrun' => torn'
    BY <1>2, <1>3, SizeFacts
  <2> QED BY <1>2, <2>1 DEF IInv, SpaceAccounted, permanent
<1>6. InTheMiddle'
  BY <1>1, <1>2, <1>3 DEF IInv, InTheMiddle, Running, permanent, sram
<1>7. Untorn'
  BY <1>1, <1>2 DEF IInv, Untorn, Running, permanent, sram
<1> QED BY <1>4, <1>5, <1>6, <1>7 DEF IInv

LEMMA RewindPreserves == ASSUME IInv, Rewind PROVE IInv'
<1>1. Running /\ step = "emptied" /\ LogFRAMAddrValid
  BY DEF Rewind, At, Running, IInv, InTheMiddle
<1>2. step' = "rewound" /\ LogMemPtr' = 0
      /\ UNCHANGED <<CurrentLogFunc, LogMem, LogMemLeft, LogFRAMAddr, powered, rest, clearing, torn, overrun, permanent>>
  BY DEF Rewind
<1>4. TypeOK'
  BY <1>1, <1>2, SizeFacts DEF IInv, TypeOK, Steps, InMove, permanent, Running
<1>5. SpaceAccounted'
  BY <1>1, <1>2 DEF IInv, SpaceAccounted, permanent
<1>6. InTheMiddle'
  BY <1>1, <1>2 DEF IInv, InTheMiddle, Running, permanent
<1>7. Untorn'
  BY <1>1, <1>2 DEF IInv, Untorn, Running, permanent
<1> QED BY <1>4, <1>5, <1>6, <1>7 DEF IInv

LEMMA FreeAllPreserves == ASSUME IInv, FreeAll PROVE IInv'
<1>1. Running /\ step = "rewound" /\ LogFRAMAddrValid
  BY DEF FreeAll, At, Running, IInv, InTheMiddle
<1>2. step' = "cleared" /\ LogMemLeft' = LOG_SIZE
      /\ UNCHANGED <<CurrentLogFunc, LogMem, LogMemPtr, LogFRAMAddr, powered, rest, clearing, torn, overrun, permanent>>
  BY DEF FreeAll
<1>4. TypeOK'
  BY <1>1, <1>2, SizeFacts DEF IInv, TypeOK, Steps, Harmless, permanent, Running
<1>5. SpaceAccounted'
  BY <1>1, <1>2 DEF IInv, SpaceAccounted, permanent
<1>6. InTheMiddle'
  BY <1>1, <1>2 DEF IInv, InTheMiddle, Running, permanent
<1>7. Untorn'
  <2>1. ~torn => LogMemPtr = 0
    BY <1>1 DEF IInv, Untorn
  <2>2. ~torn => LogMemPtr' + LogMemLeft' = LOG_SIZE
    BY <1>2, <2>1, SizeFacts
  <2> QED BY <1>1, <1>2, <2>2 DEF Untorn, Running, permanent
<1> QED BY <1>4, <1>5, <1>6, <1>7 DEF IInv

LEMMA MovePtrPreserves == ASSUME IInv, MovePtr PROVE IInv'
<1>1. Running /\ step = "moved" /\ ~clearing /\ FRAMLogAddr = LogFRAMAddr /\ LogFRAMAddrValid
      /\ FRAM_Free =< Used
  BY DEF MovePtr, At, Running, IInv, InTheMiddle
<1>2. step' = "shrunk" /\ LogMemPtr' = LogMemPtr - FRAM_Free /\ (overrun' <=> LogMemPtr' < 0) /\ overrun' \in BOOLEAN
      /\ UNCHANGED <<CurrentLogFunc, LogMem, LogMemLeft, LogFRAMAddr, powered, rest, clearing, torn, permanent>>
  <2>1. overrun' = (LogMemPtr' < 0)
    BY DEF MovePtr
  <2>2. (LogMemPtr' < 0) \in BOOLEAN
    OBVIOUS
  <2>3. (overrun' <=> LogMemPtr' < 0) /\ overrun' \in BOOLEAN
    BY <2>1, <2>2, Zenon
  <2> QED BY <2>3 DEF MovePtr
<1>3. /\ LogMemPtr \in 0 .. LOG_SIZE /\ FRAM_Free \in Nat /\ LogMemLeft \in Nat
      /\ Used + LogMemLeft = LOG_SIZE /\ Used \in Nat
      /\ ~torn => LogMemPtr + LogMemLeft = LOG_SIZE
  BY <1>1, SpaceFacts, SizeFacts DEF IInv, Untorn
<1>4. TypeOK'
  <2>1. LogMemPtr' \in Int /\ (~overrun' => LogMemPtr' \in 0 .. LOG_SIZE)
    BY <1>2, <1>3, SizeFacts
  <2>2. overrun' \in BOOLEAN /\ ~overrun /\ step' \in Steps
    BY <1>1, <1>2 DEF Running, Steps, InUpdate
  <2> QED BY <1>2, <2>1, <2>2 DEF IInv, TypeOK, permanent
<1>5. SpaceAccounted'
  <2>1. overrun' => torn'
    BY <1>1, <1>2, <1>3, SizeFacts
  <2> QED BY <1>2, <2>1 DEF IInv, SpaceAccounted, permanent
<1>6. InTheMiddle'
  <2>1. FRAM_Free' = FRAM_Free /\ Used' = Used
    BY <1>2 DEF FRAM_Free, Used
  <2> QED BY <1>1, <1>2, <2>1 DEF IInv, InTheMiddle, Running, permanent
<1>7. Untorn'
  <2>1. FRAM_Free' = FRAM_Free
    BY <1>2 DEF FRAM_Free
  <2>2. ~torn => LogMemPtr' + LogMemLeft' + FRAM_Free' = LOG_SIZE
    BY <1>2, <1>3, <2>1, SizeFacts
  <2> QED BY <1>1, <1>2, <2>2 DEF Untorn, Running, permanent
<1> QED BY <1>4, <1>5, <1>6, <1>7 DEF IInv

LEMMA CountMovedPreserves == ASSUME IInv, CountMoved PROVE IInv'
<1>1. Running /\ step = "shrunk" /\ ~clearing /\ FRAMLogAddr = LogFRAMAddr /\ LogFRAMAddrValid
      /\ FRAM_Free =< Used
  BY DEF CountMoved, At, Running, IInv, InTheMiddle
<1>2. step' = "cleared" /\ LogMemLeft' = LogMemLeft + FRAM_Free /\ LogFRAMAddr' = LogFRAMAddr + FRAM_Free
      /\ UNCHANGED <<CurrentLogFunc, LogMem, LogMemPtr, powered, rest, clearing, torn, overrun, permanent>>
  BY DEF CountMoved
<1>3. /\ LogMemPtr \in 0 .. LOG_SIZE /\ FRAM_Free \in Nat /\ LogMemLeft \in Nat
      /\ Used + LogMemLeft = LOG_SIZE /\ Used \in Nat
      /\ LogFRAMAddr \in Nat /\ LogFRAMAddr + FRAM_Free = FRAMEnd /\ FRAM_LOG_START_ADDR =< FRAMEnd
      /\ ~torn => LogMemPtr + LogMemLeft + FRAM_Free = LOG_SIZE
  BY <1>1, SpaceFacts, SizeFacts DEF IInv, Untorn
<1>4. TypeOK'
  BY <1>1, <1>2, <1>3, SizeFacts DEF IInv, TypeOK, Steps, Harmless, permanent, Running
<1>5. SpaceAccounted'
  BY <1>1, <1>2, <1>3, SizeFacts DEF IInv, SpaceAccounted, permanent
<1>6. InTheMiddle'
  BY <1>1, <1>2, <1>3 DEF IInv, InTheMiddle, Running, permanent
<1>7. Untorn'
  <2>2. ~torn => LogMemPtr' + LogMemLeft' = LOG_SIZE
    BY <1>2, <1>3, SizeFacts
  <2> QED BY <1>1, <1>2, <2>2 DEF Untorn, Running, permanent
<1> QED BY <1>4, <1>5, <1>6, <1>7 DEF IInv

LEMMA StoreAddrPreserves == ASSUME IInv, StoreAddr PROVE IInv'
<1>1. Running /\ step = "cleared" /\ LogFRAMAddrValid
  BY DEF StoreAddr, At, Running, IInv, InTheMiddle
<1>2. step' = "idle" /\ clearing' = FALSE /\ FRAMLogAddr' = LogFRAMAddr'
      /\ LogFRAMAddr' = (IF clearing THEN FRAM_LOG_START_ADDR ELSE LogFRAMAddr)
      /\ UNCHANGED <<CurrentLogFunc, sram, powered, rest, torn, overrun, FRAM, LogFRAMAddrValid, StoredLogMode>>
  BY DEF StoreAddr
<1>3. LogFRAMAddr' \in FRAM_LOG_START_ADDR .. FRAMEnd /\ LogFRAMAddr' \in Nat
  BY <1>1, <1>2, SpaceFacts, SizeFacts
<1>4. TypeOK'
  BY <1>1, <1>2, <1>3 DEF IInv, TypeOK, Steps, Harmless, sram, Running
<1>5. SpaceAccounted'
  BY <1>1, <1>2, <1>3 DEF IInv, SpaceAccounted, sram, Running, Untorn
<1>6. InTheMiddle'
  <2>1. LogFRAMAddr' =< LogFRAMAddr'
    BY <1>3, SizeFacts
  <2> QED BY <1>1, <1>2, <2>1 DEF IInv, InTheMiddle, Running
<1>7. Untorn'
  BY <1>1, <1>2 DEF IInv, Untorn, Running, sram
<1> QED BY <1>4, <1>5, <1>6, <1>7 DEF IInv

-----------------------------------------------------------------------------
(* Steps of the main loop that write to a memory.                          *)
LEMMA WriteLogMem ==
  ASSUME IInv, NEW at \in Int, NEW s \in Seq(Byte)
  PROVE  Write(LogMem, at, s) \in [0 .. LOG_SIZE - 1 -> Byte]
<1>1. 0 .. LOG_SIZE - 1 \subseteq Int /\ LogMem \in [0 .. LOG_SIZE - 1 -> Byte]
  BY DEF IInv, TypeOK
<1> QED BY <1>1, WriteType

LEMMA WriteFRAM ==
  ASSUME IInv, NEW at \in Int, NEW s \in Seq(Byte)
  PROVE  Write(FRAM, at, s) \in [FRAM_LOG_START_ADDR .. FRAMEnd - 1 -> Byte]
<1>1. FRAM_LOG_START_ADDR .. FRAMEnd - 1 \subseteq Int
      /\ FRAM \in [FRAM_LOG_START_ADDR .. FRAMEnd - 1 -> Byte]
  BY SizeFacts DEF IInv, TypeOK
<1> QED BY <1>1, WriteType

LEMMA WriteEntryPreserves == ASSUME IInv, WriteEntry PROVE IInv'
<1>1. Running /\ step = "writing" /\ ~clearing /\ FRAMLogAddr = LogFRAMAddr /\ LogFRAMAddrValid
  BY DEF WriteEntry, At, Running, IInv, InTheMiddle
<1>2. /\ LogMem' = Write(LogMem, LogMemPtr, rest) /\ LogMemPtr' = LogMemPtr + Len(rest)
      /\ (overrun' <=> LogMemPtr' > LOG_SIZE) /\ overrun' \in BOOLEAN /\ step' = "idle" /\ rest' = <<>>
      /\ UNCHANGED <<CurrentLogFunc, LogMemLeft, LogFRAMAddr, powered, clearing, torn, permanent>>
  <2>1. overrun' = (LogMemPtr' > LOG_SIZE)
    BY DEF WriteEntry
  <2>2. (LogMemPtr' > LOG_SIZE) \in BOOLEAN
    OBVIOUS
  <2>3. (overrun' <=> LogMemPtr' > LOG_SIZE) /\ overrun' \in BOOLEAN
    BY <2>1, <2>2, Zenon
  <2> QED BY <2>3 DEF WriteEntry
<1>3. /\ LogMemPtr \in 0 .. LOG_SIZE /\ LogMemLeft \in Nat /\ rest \in Seq(Byte) /\ Len(rest) \in Nat
      /\ ~torn => LogMemPtr + LogMemLeft + Len(rest) = LOG_SIZE
  BY <1>1, SpaceFacts, LenProperties DEF IInv, TypeOK, Untorn
<1>4. TypeOK'
  <2>1. LogMemPtr' \in Int /\ (~overrun' => LogMemPtr' \in 0 .. LOG_SIZE) /\ overrun' \in BOOLEAN
    BY <1>2, <1>3, SizeFacts
  <2>2. LogMem' \in [0 .. LOG_SIZE - 1 -> Byte]
    BY <1>2, <1>3, WriteLogMem
  <2>3. step' \in Steps /\ rest' \in Seq(Byte) /\ ~overrun
    BY <1>1, <1>2, EmptySeq DEF Steps, Harmless, Running
  <2> QED BY <1>2, <2>1, <2>2, <2>3 DEF IInv, TypeOK, permanent
<1>5. SpaceAccounted'
  <2>1. /\ overrun' => torn'
        /\ ~torn' => LogMemPtr' + LogMemLeft' = LOG_SIZE
    BY <1>2, <1>3, SizeFacts
  <2> QED BY <1>1, <1>2, <2>1 DEF IInv, SpaceAccounted, permanent
<1>6. InTheMiddle'
  BY <1>1, <1>2 DEF IInv, InTheMiddle, Running, permanent
<1>7. Untorn'
  BY <1>2, <1>5 DEF Untorn, Running, SpaceAccounted
<1> QED BY <1>4, <1>5, <1>6, <1>7 DEF IInv

LEMMA EmptyCellsPreserves ==
  ASSUME IInv, EmptyCells,
         (At("counted") /\ UNCHANGED clearing) \/ (MainLoop /\ clearing' = TRUE)
  PROVE  IInv'
<1>1. Running /\ LogFRAMAddrValid /\ (clearing' => FRAMLogAddr = LogFRAMAddr)
      /\ clearing' \in BOOLEAN
  <2>1. clearing \in BOOLEAN
    BY DEF IInv, TypeOK
  <2>2. CASE At("counted") /\ UNCHANGED clearing
    BY <2>1, <2>2 DEF At, Running, IInv, InTheMiddle
  <2>3. CASE MainLoop /\ clearing' = TRUE
    BY <2>3 DEF MainLoop, At, Running, IInv, InTheMiddle
  <2> QED BY <2>2, <2>3
<1>2. /\ LogMem' = [i \in 0 .. LOG_SIZE - 1 |-> IF i < Used THEN LOG_EMPTY ELSE LogMem[i]]
      /\ step' = "emptied" /\ torn' = FALSE
      /\ UNCHANGED <<CurrentLogFunc, LogMemPtr, LogMemLeft, LogFRAMAddr, powered, rest, overrun, permanent>>
  BY DEF EmptyCells
<1>4. TypeOK'
  <2>1. LogMem' \in [0 .. LOG_SIZE - 1 -> Byte]
    BY <1>2, SizeFacts DEF IInv, TypeOK
  <2>2. step' \in Steps
    BY <1>2 DEF Steps, InMove
  <2> QED BY <1>1, <1>2, <2>1, <2>2 DEF IInv, TypeOK, permanent
<1>5. SpaceAccounted'
  BY <1>1, <1>2 DEF IInv, SpaceAccounted, permanent, Running
<1>6. InTheMiddle'
  BY <1>1, <1>2 DEF IInv, InTheMiddle, Running, permanent
<1>7. Untorn'
  BY <1>2 DEF Untorn
<1> QED BY <1>4, <1>5, <1>6, <1>7 DEF IInv

(* What a copy has written behind the log in the FRAM reads back.          *)
LEMMA CopyReadsBack ==
  ASSUME IInv, Running, NEW n \in Nat, n =< LOG_SIZE, n =< FRAM_Free
  PROVE  /\ Read(LogMem, 0, n) \in Seq(Byte)
         /\ Read(Write(FRAM, LogFRAMAddr, Read(LogMem, 0, n)), LogFRAMAddr, n) = Read(LogMem, 0, n)
<1>1. Read(LogMem, 0, n) \in Seq(Byte) /\ Len(Read(LogMem, 0, n)) = n
  <2>1. 0 \in Int /\ 0 =< 0 /\ 0 + n =< LOG_SIZE
    OBVIOUS
  <2> QED BY <2>1, ReadLogMem
<1>2. \A i \in Int : LogFRAMAddr =< i /\ i < LogFRAMAddr + n => i \in DOMAIN FRAM
  BY SpaceFacts, SizeFacts DEF IInv, TypeOK
<1>3. LogFRAMAddr \in Int
  BY SpaceFacts, SizeFacts
<1> QED BY <1>1, <1>2, <1>3, ReadBackBytes, Zenon

LEMMA CopyAllPreserves == ASSUME IInv, CopyAll PROVE IInv'
<1>1. Running /\ step = "idle" /\ ~clearing /\ FRAMLogAddr = LogFRAMAddr /\ LogFRAMAddrValid
  BY DEF CopyAll, MainLoop, At, Running, IInv, InTheMiddle
<1>2. /\ FRAM' = Write(FRAM, LogFRAMAddr, Read(LogMem, 0, Used)) /\ step' = "written" /\ Used =< FRAM_Free
      /\ UNCHANGED <<CurrentLogFunc, sram, LogFRAMAddr, powered, rest, clearing, torn, overrun,
                     FRAMLogAddr, LogFRAMAddrValid, StoredLogMode>>
  BY DEF CopyAll
<1>3. Used \in Nat /\ Used =< LOG_SIZE /\ LogFRAMAddr \in Int
  BY <1>1, SpaceFacts, SizeFacts
<1>4. TypeOK'
  <2>1. FRAM' \in [FRAM_LOG_START_ADDR .. FRAMEnd - 1 -> Byte]
    BY <1>1, <1>2, <1>3, CopyReadsBack, WriteFRAM
  <2>2. step' \in Steps
    BY <1>2 DEF Steps, InMove
  <2> QED BY <1>2, <2>1, <2>2 DEF IInv, TypeOK, sram
<1>5. SpaceAccounted'
  BY <1>1, <1>2 DEF IInv, SpaceAccounted, sram
<1>6. InTheMiddle'
  BY <1>1, <1>2 DEF IInv, InTheMiddle, Running
<1>7. Untorn'
  <2>1. Used' = Used /\ FRAM_Free' = FRAM_Free /\ LogMem' = LogMem
    BY <1>2 DEF Used, FRAM_Free, sram
  <2>2. Read(FRAM, LogFRAMAddr, Used)' = Read(LogMem, 0, Used)'
    BY <1>1, <1>2, <1>3, <2>1, CopyReadsBack DEF Read
  <2>3. ~torn => LogMemPtr + LogMemLeft = LOG_SIZE
    BY <1>1 DEF IInv, Untorn
  <2> QED BY <1>2, <2>1, <2>2, <2>3 DEF Untorn, Running, sram
<1> QED BY <1>4, <1>5, <1>6, <1>7 DEF IInv

LEMMA CopyPartPreserves == ASSUME IInv, CopyPart PROVE IInv'
<1>1. Running /\ step = "idle" /\ ~clearing /\ FRAMLogAddr = LogFRAMAddr /\ LogFRAMAddrValid
  BY DEF CopyPart, MainLoop, At, Running, IInv, InTheMiddle
<1>2. /\ FRAM' = Write(FRAM, LogFRAMAddr, Read(LogMem, 0, FRAM_Free)) /\ step' = "part" /\ FRAM_Free < Used
      /\ UNCHANGED <<CurrentLogFunc, sram, LogFRAMAddr, powered, rest, clearing, torn, overrun,
                     FRAMLogAddr, LogFRAMAddrValid, StoredLogMode>>
  BY DEF CopyPart
<1>3. FRAM_Free \in Nat /\ FRAM_Free =< LOG_SIZE /\ LogFRAMAddr \in Int /\ FRAM_Free =< Used /\ FRAM_Free =< FRAM_Free
  BY <1>1, <1>2, SpaceFacts, SizeFacts
<1>4. TypeOK'
  <2>1. FRAM' \in [FRAM_LOG_START_ADDR .. FRAMEnd - 1 -> Byte]
    <3> HIDE DEF FRAM_Free
    <3> QED BY <1>1, <1>2, <1>3, CopyReadsBack, WriteFRAM
  <2>2. step' \in Steps
    BY <1>2 DEF Steps, Harmless
  <2> QED BY <1>2, <2>1, <2>2 DEF IInv, TypeOK, sram
<1>5. SpaceAccounted'
  BY <1>1, <1>2 DEF IInv, SpaceAccounted, sram
<1>a. Used' = Used /\ FRAM_Free' = FRAM_Free /\ LogMem' = LogMem
  BY <1>2 DEF Used, FRAM_Free, sram
<1>6. InTheMiddle'
  BY <1>1, <1>2, <1>3, <1>a DEF IInv, InTheMiddle, Running
<1>7. Untorn'
  <2>2. Read(FRAM, LogFRAMAddr, FRAM_Free)' = Read(LogMem, 0, FRAM_Free)'
    BY <1>1, <1>2, <1>3, <1>a, CopyReadsBack DEF Read
  <2>3. ~torn => LogMemPtr + LogMemLeft = LOG_SIZE
    BY <1>1 DEF IInv, Untorn
  <2> QED BY <1>2, <2>2, <2>3 DEF Untorn, Running, sram
<1> QED BY <1>4, <1>5, <1>6, <1>7 DEF IInv

LEMMA MoveUpPreserves == ASSUME IInv, MoveUp PROVE IInv'
<1>1. Running /\ step = "part" /\ ~clearing /\ FRAMLogAddr = LogFRAMAddr /\ LogFRAMAddrValid
      /\ FRAM_Free =< Used
  BY DEF MoveUp, At, Running, IInv, InTheMiddle
<1>2. /\ LogMem' = Write(LogMem, 0, Read(LogMem, FRAM_Free, LOG_SIZE - FRAM_Free)) /\ step' = "moved"
      /\ UNCHANGED <<CurrentLogFunc, LogMemPtr, LogMemLeft, LogFRAMAddr, powered, rest, clearing,
                     torn, overrun, permanent>>
  BY DEF MoveUp
<1>3. /\ FRAM_Free \in Nat /\ LOG_SIZE - FRAM_Free \in Nat
      /\ FRAM_Free + (LOG_SIZE - FRAM_Free) =< LOG_SIZE
  BY <1>1, SpaceFacts, SizeFacts
<1>4. TypeOK'
  <2>1. Read(LogMem, FRAM_Free, LOG_SIZE - FRAM_Free) \in Seq(Byte)
    BY <1>3, ReadLogMem
  <2>2. LogMem' \in [0 .. LOG_SIZE - 1 -> Byte]
    BY <1>2, <2>1, WriteLogMem
  <2>3. step' \in Steps
    BY <1>2 DEF Steps, InUpdate
  <2> QED BY <1>2, <2>2, <2>3 DEF IInv, TypeOK, permanent
<1>5. SpaceAccounted'
  BY <1>1, <1>2 DEF IInv, SpaceAccounted, permanent
<1>6. InTheMiddle'
  <2>1. FRAM_Free' = FRAM_Free /\ Used' = Used
    BY <1>2 DEF FRAM_Free, Used
  <2> QED BY <1>1, <1>2, <2>1 DEF IInv, InTheMiddle, Running, permanent
<1>7. Untorn'
  BY <1>1, <1>2 DEF IInv, Untorn, Running, permanent
<1> QED BY <1>4, <1>5, <1>6, <1>7 DEF IInv

-----------------------------------------------------------------------------
(* Entries of interrupts.                                                  *)

LEMMA InterruptedPreserves == ASSUME IInv, NEW e \in InterruptEntries, Interrupted(e) PROVE IInv'
<1>0. e \in Seq(Byte) /\ Len(e) \in Nat
  BY EntryFacts, EntryAssumption
<1>1. Running /\ LogFRAMAddrValid /\ step \in Harmless \cup InMove
  BY DEF Interrupted, Interrupts, Running, IInv, InTheMiddle
<1>2. /\ LogMem' = Write(LogMem, LogMemPtr, e) /\ LogMemPtr' = LogMemPtr + Len(e)
      /\ LogMemLeft' = LogMemLeft - Len(e) /\ Len(e) =< LogMemLeft
      /\ torn' = (torn \/ step \notin Harmless)
      /\ UNCHANGED <<CurrentLogFunc, LogFRAMAddr, powered, step, rest, clearing, permanent>>
      /\ (overrun' <=> LogMemPtr' > LOG_SIZE) /\ overrun' \in BOOLEAN
  <2>1. overrun' = (LogMemPtr' > LOG_SIZE)
    BY DEF Interrupted
  <2>2. (LogMemPtr' > LOG_SIZE) \in BOOLEAN
    OBVIOUS
  <2>3. (overrun' <=> LogMemPtr' > LOG_SIZE) /\ overrun' \in BOOLEAN
    BY <2>1, <2>2, Zenon
  <2> QED BY <2>3 DEF Interrupted, Interrupts, Fits
<1>3. /\ LogMemPtr \in 0 .. LOG_SIZE /\ LogMemLeft \in 0 .. LOG_SIZE
      /\ Used \in Nat /\ Used + LogMemLeft = LOG_SIZE /\ FRAM_Free \in Nat
  BY <1>1, SpaceFacts, SizeFacts
<1>4. /\ LogMemPtr' \in Nat /\ (~overrun' => LogMemPtr' \in 0 .. LOG_SIZE)
      /\ LogMemLeft' \in 0 .. LOG_SIZE
      /\ LogMemPtr' + LogMemLeft' = LogMemPtr + LogMemLeft
      /\ LogMemPtr + LogMemLeft = LOG_SIZE => ~overrun'
  BY <1>0, <1>2, <1>3, SizeFacts
<1>5. torn' \in BOOLEAN /\ (~torn' => ~torn /\ step \in Harmless)
  BY <1>2 DEF IInv, TypeOK
<1>6. TypeOK'
  <2>1. LogMem' \in [0 .. LOG_SIZE - 1 -> Byte]
    BY <1>0, <1>2, <1>3, WriteLogMem
  <2> QED BY <1>1, <1>2, <1>4, <1>5, <2>1 DEF IInv, TypeOK, permanent, Running
<1>7. SpaceAccounted'
  <2>1. ~torn' => LogMemPtr + LogMemLeft = LOG_SIZE
    BY <1>1, <1>5 DEF IInv, Untorn, Harmless
  <2>2. overrun' => torn'
    BY <1>4, <2>1
  <2>3. powered /\ step = "idle" => FRAMLogAddr = LogFRAMAddr
    BY <1>1 DEF IInv, SpaceAccounted, Running
  <2> QED BY <1>1, <1>2, <1>4, <2>1, <2>2, <2>3 DEF IInv, SpaceAccounted, permanent
<1>8. InTheMiddle'
  <2>1. step # "testing" /\ powered /\ powered'
    BY <1>1, <1>2 DEF Harmless, InMove, Running
  <2>2. FRAM_Free' = FRAM_Free
    BY <1>2 DEF FRAM_Free
  <2>3. FRAM_Free =< Used => FRAM_Free' =< Used'
    <3>1. Used' = Used + Len(e)
      BY <1>0, <1>2, <1>3, SizeFacts DEF Used
    <3> QED BY <3>1, <2>2, <1>0, <1>3
  <2> QED BY <1>1, <1>2, <2>1, <2>2, <2>3 DEF IInv, InTheMiddle, Running, permanent
<1>9. Untorn'
  <2> SUFFICES ASSUME ~torn' PROVE Untorn'
    BY DEF Untorn
  <2>1. /\ ~torn /\ step \in Harmless /\ LogMemPtr + LogMemLeft = LOG_SIZE
        /\ step = "part" => Read(FRAM, LogFRAMAddr, FRAM_Free) = Read(LogMem, 0, FRAM_Free)
                            /\ FRAM_Free =< Used
    BY <1>1, <1>5 DEF IInv, Untorn, InTheMiddle, Harmless
  <2>2. step = "part" => Read(LogMem', 0, FRAM_Free) = Read(LogMem, 0, FRAM_Free)
    <3> SUFFICES ASSUME step = "part"
                 PROVE  Read(LogMem', 0, FRAM_Free) = Read(LogMem, 0, FRAM_Free)
      OBVIOUS
    <3> DEFINE f == FRAM_Free
    <3>1. f \in Nat /\ 0 + f =< LogMemPtr /\ LogMemPtr =< LOG_SIZE /\ 0 \in Int /\ LogMemPtr \in Int
      BY <1>3, <2>1, SizeFacts
    <3> HIDE DEF f
    <3>2. \A i \in Int : 0 =< i /\ i < 0 + f => i \in DOMAIN LogMem
      BY <3>1, SizeFacts DEF IInv, TypeOK
    <3>3. Read(Write(LogMem, LogMemPtr, e), 0, f) = Read(LogMem, 0, f)
      BY <3>1, <3>2, ReadFrame
    <3> QED BY <3>3, <1>2 DEF f
  <2>3. FRAM_Free' = FRAM_Free /\ FRAM' = FRAM
    BY <1>2 DEF FRAM_Free, permanent
  <2>4. step = "part" => Read(FRAM, LogFRAMAddr, FRAM_Free)' = Read(LogMem, 0, FRAM_Free)'
    BY <1>2, <2>1, <2>2, <2>3 DEF Read
  <2> QED BY <1>2, <1>4, <2>1, <2>4 DEF Untorn, Harmless
<1> QED BY <1>6, <1>7, <1>8, <1>9 DEF IInv

LEMMA CutSequence ==
  ASSUME NEW s \in Seq(Byte), NEW k \in 0 .. Len(s)
  PROVE  /\ SubSeq(s, 1, k) \in Seq(Byte) /\ Len(SubSeq(s, 1, k)) = k
         /\ SubSeq(s, k + 1, Len(s)) \in Seq(Byte) /\ Len(SubSeq(s, k + 1, Len(s))) = Len(s) - k
<1> HIDE DEF Byte
<1>1. Len(s) \in Nat /\ k \in Nat /\ k =< Len(s) /\ \A i \in 1 .. Len(s) : s[i] \in Byte
  BY LenProperties, ElementOfSeq
<1>2. \A m \in Int, n \in Int :
        (\A i \in m .. n : s[i] \in Byte)
          => /\ SubSeq(s, m, n) \in Seq(Byte)
             /\ Len(SubSeq(s, m, n)) = IF m <= n THEN n - m + 1 ELSE 0
  BY SubSeqProperties
<1>3. (\A i \in 1 .. k : s[i] \in Byte) /\ (\A i \in k + 1 .. Len(s) : s[i] \in Byte)
      /\ 1 \in Int /\ k \in Int /\ k + 1 \in Int /\ Len(s) \in Int
  BY <1>1
<1>4. /\ SubSeq(s, 1, k) \in Seq(Byte)
      /\ Len(SubSeq(s, 1, k)) = IF 1 <= k THEN k - 1 + 1 ELSE 0
      /\ SubSeq(s, k + 1, Len(s)) \in Seq(Byte)
      /\ Len(SubSeq(s, k + 1, Len(s))) = IF k + 1 <= Len(s) THEN Len(s) - (k + 1) + 1 ELSE 0
  BY <1>2, <1>3, Zenon
<1> QED BY <1>1, <1>4

LEMMA InterruptedInUpdatePreserves ==
  ASSUME IInv, NEW e \in InterruptEntries, InterruptedInUpdate(e) PROVE IInv'
<1>0. e \in Seq(Byte) /\ Len(e) \in Nat
  BY EntryFacts, EntryAssumption
<1>1. Running /\ LogFRAMAddrValid /\ step \in InUpdate /\ torn'
      /\ FRAMLogAddr = LogFRAMAddr
  BY DEF InterruptedInUpdate, Interrupts, Running, IInv, InTheMiddle, InUpdate, Harmless
<1>2. PICK k \in 0 .. Len(rest) :
       /\ k > 0 => step = "writing"
       /\ LogMem' = Write(LogMem, LogMemPtr, SubSeq(rest, 1, k) \o e)
       /\ LogMemPtr' = LogMemPtr + k + Len(e) \/ LogMemPtr' = LogMemPtr + k
       /\ rest' = SubSeq(rest, k + 1, Len(rest))
       /\ overrun' = (LogMemPtr + k + Len(e) > LOG_SIZE)
  BY DEF InterruptedInUpdate
<1>3. (overrun' <=> LogMemPtr + k + Len(e) > LOG_SIZE) /\ overrun' \in BOOLEAN
  <2>2. (LogMemPtr + k + Len(e) > LOG_SIZE) \in BOOLEAN
    OBVIOUS
  <2> QED BY <1>2, <2>2, Zenon
<1>4. /\ LogMemLeft' = LogMemLeft - Len(e) \/ LogMemLeft' = LogMemLeft
      /\ step = "testing" => LogMemLeft' = LogMemLeft
      /\ Len(e) =< LogMemLeft
      /\ UNCHANGED <<CurrentLogFunc, LogFRAMAddr, powered, step, clearing, permanent>>
  BY DEF InterruptedInUpdate, Interrupts, Fits
<1>5. /\ LogMemPtr \in 0 .. LOG_SIZE /\ LogMemLeft \in 0 .. LOG_SIZE
      /\ Used \in Nat /\ Used + LogMemLeft = LOG_SIZE /\ FRAM_Free \in Nat
  BY <1>1, SpaceFacts, SizeFacts
<1>6. rest \in Seq(Byte) /\ Len(rest) \in Nat
  BY LenProperties DEF IInv, TypeOK
<1>7. /\ SubSeq(rest, 1, k) \in Seq(Byte) /\ rest' \in Seq(Byte) /\ Len(rest') = Len(rest) - k
  BY <1>2, <1>6, CutSequence
<1>8. LogMem' \in [0 .. LOG_SIZE - 1 -> Byte]
  <2>1. SubSeq(rest, 1, k) \o e \in Seq(Byte)
    BY <1>0, <1>7, ConcatProperties
  <2>2. LogMemPtr \in Int
    BY <1>5
  <2> DEFINE s == SubSeq(rest, 1, k) \o e
  <2>3. LogMem' = Write(LogMem, LogMemPtr, s) /\ s \in Seq(Byte)
    BY <1>2, <2>1
  <2> HIDE DEF s
  <2> QED BY <2>2, <2>3, WriteLogMem
<1>9. /\ LogMemPtr' \in Nat /\ (~overrun' => LogMemPtr' \in 0 .. LOG_SIZE)
      /\ LogMemLeft' \in 0 .. LOG_SIZE
  BY <1>0, <1>2, <1>3, <1>4, <1>5, <1>6, SizeFacts
<1>10. TypeOK'
  <2>1. torn' \in BOOLEAN
    BY DEF InterruptedInUpdate, Interrupts
  <2> QED BY <1>1, <1>3, <1>4, <1>7, <1>8, <1>9, <2>1 DEF IInv, TypeOK, permanent, Running
<1>11. SpaceAccounted'
  BY <1>1, <1>4 DEF IInv, SpaceAccounted, permanent, InUpdate
<1>12. InTheMiddle'
  <2>1. step = "testing" => Len(rest') =< LogMemLeft'
    <3>1. step = "testing" => Len(rest) =< LogMemLeft /\ k = 0
      BY <1>1, <1>2 DEF IInv, InTheMiddle
    <3> QED BY <3>1, <1>4, <1>6, <1>7
  <2>2. FRAM_Free' = FRAM_Free
    BY <1>4 DEF FRAM_Free
  <2>3. FRAM_Free =< Used => FRAM_Free' =< Used'
    <3>1. Used' = Used + Len(e) \/ Used' = Used
      BY <1>0, <1>4, <1>5, SizeFacts DEF Used
    <3> QED BY <3>1, <2>2, <1>0, <1>5
  <2> QED BY <1>1, <1>4, <2>1, <2>2, <2>3 DEF IInv, InTheMiddle, Running, permanent, InUpdate
<1>13. Untorn'
  BY <1>1 DEF Untorn
<1> QED BY <1>10, <1>11, <1>12, <1>13 DEF IInv

-----------------------------------------------------------------------------
(* Start-up, loss of power, and every step.                                *)

LEMMA LogInitPreserves == ASSUME IInv, LogInit PROVE IInv'
<1> DEFINE boot == IF StoredLogMode = "MEMORY" THEN BootEntry ELSE <<>>
           empty == [i \in 0 .. LOG_SIZE - 1 |-> LOG_EMPTY]
<1>1. boot \in Seq(Byte) /\ Len(boot) \in 0 .. LOG_SIZE
  <2>1. BootEntry \in Seq(Byte) /\ Len(BootEntry) \in Nat /\ Len(BootEntry) =< LOG_SIZE
    BY EntryAssumption, LenProperties
  <2>2. <<>> \in Seq(Byte) /\ Len(<<>>) = 0
    BY EmptySeq
  <2> QED BY <2>1, <2>2, SizeFacts
<1>2. LogMem' = Write(empty, 0, boot) /\ LogMemPtr' = Len(boot)
      /\ LogMemLeft' = LOG_SIZE - Len(boot)
  BY DEF LogInit
<1>3. Write(empty, 0, boot) \in [0 .. LOG_SIZE - 1 -> Byte]
  <2>1. empty \in [0 .. LOG_SIZE - 1 -> Byte] /\ 0 .. LOG_SIZE - 1 \subseteq Int /\ 0 \in Int
    BY SizeFacts
  <2> QED BY <2>1, <1>1, WriteType
<1> HIDE DEF boot, empty
<1>4. LogMemPtr' \in 0 .. LOG_SIZE /\ LogMemPtr' \in Int /\ LogMemLeft' \in 0 .. LOG_SIZE
      /\ LogMemPtr' + LogMemLeft' = LOG_SIZE
  BY <1>1, <1>2, SizeFacts
<1>5. InitialFRAMAddr \in FRAM_LOG_START_ADDR .. FRAMEnd /\ InitialFRAMAddr \in Nat
  BY SizeFacts DEF InitialFRAMAddr, IInv, TypeOK, SpaceAccounted
<1>6. /\ ~powered /\ step = "idle" /\ ~torn /\ ~clearing /\ ~overrun
  BY DEF LogInit, IInv, InTheMiddle
<1>7. /\ powered' = TRUE /\ CurrentLogFunc' = StoredLogMode
      /\ LogFRAMAddr' = InitialFRAMAddr /\ FRAMLogAddr' = InitialFRAMAddr /\ LogFRAMAddrValid' = TRUE
      /\ UNCHANGED <<step, rest, clearing, torn, overrun, FRAM, StoredLogMode>>
  BY DEF LogInit, place
<1>8. TypeOK'
  BY <1>2, <1>3, <1>4, <1>5, <1>7 DEF IInv, TypeOK
<1>9. SpaceAccounted'
  BY <1>4, <1>5, <1>6, <1>7 DEF SpaceAccounted
<1>10. InTheMiddle'
  <2>1. InitialFRAMAddr =< InitialFRAMAddr
    BY <1>5
  <2> QED BY <1>6, <1>7, <2>1 DEF InTheMiddle
<1>11. Untorn'
  BY <1>4, <1>6, <1>7 DEF Untorn
<1> QED BY <1>8, <1>9, <1>10, <1>11 DEF IInv

LEMMA LoseRamPreserves ==
  ASSUME IInv, LoseRam, UNCHANGED <<FRAMLogAddr, LogFRAMAddrValid, StoredLogMode>>,
         FRAM' \in [FRAM_LOG_START_ADDR .. FRAMEnd - 1 -> Byte]
  PROVE  IInv'
<1>1. /\ LogMem' \in [0 .. LOG_SIZE - 1 -> Byte]
      /\ LogMemPtr' \in 0 .. LOG_SIZE /\ LogMemPtr' \in Int /\ LogMemLeft' \in 0 .. LOG_SIZE
      /\ LogFRAMAddr' \in FRAM_LOG_START_ADDR .. FRAMEnd /\ LogFRAMAddr' \in Nat
      /\ CurrentLogFunc' \in LogModes /\ powered' = FALSE
      /\ step' = "idle" /\ step' \in Steps /\ rest' \in Seq(Byte)
      /\ clearing' = FALSE /\ torn' = FALSE /\ overrun' = FALSE
  BY SizeFacts, EmptySeq DEF LoseRam, LogModes, Steps, Harmless
<1>2. TypeOK'
  BY <1>1 DEF IInv, TypeOK
<1> QED BY <1>1, <1>2 DEF IInv, SpaceAccounted, InTheMiddle, Untorn, Running

LEMMA LosePowerMovingPreserves == ASSUME IInv, LosePowerMoving PROVE IInv'
<1>1. Running
  BY DEF LosePowerMoving, MainLoop, At, Running
<1>2. PICK k \in 1 .. LOG_SIZE : FRAM' = Write(FRAM, LogFRAMAddr, Read(LogMem, 0, k))
  BY DEF LosePowerMoving
<1>3. k \in Nat /\ 0 \in Int /\ 0 =< 0 /\ 0 + k =< LOG_SIZE
  BY SizeFacts
<1>4. Read(LogMem, 0, k) \in Seq(Byte)
  BY <1>3, ReadLogMem
<1>5. LogFRAMAddr \in Int
  BY <1>1, SpaceFacts, SizeFacts
<1>6. FRAM' \in [FRAM_LOG_START_ADDR .. FRAMEnd - 1 -> Byte]
  BY <1>2, <1>4, <1>5, WriteFRAM
<1> QED BY <1>6, LoseRamPreserves DEF LosePowerMoving

LEMMA StepIInv == IInv /\ [Next]_vars => IInv'
<1> SUFFICES ASSUME IInv, [Next]_vars PROVE IInv'
  OBVIOUS
<1>1. ASSUME NEW e \in Entries, TestRoom(e) PROVE IInv'
  BY <1>1, TestRoomPreserves
<1>2. ASSUME NEW e \in Entries, LogFull(e) PROVE IInv'
  <2>1. CurrentLogFunc' \in LogModes
        /\ UNCHANGED <<sram, LogFRAMAddr, powered, place, torn, overrun, permanent>>
    BY <1>2 DEF LogFull, LogModes
  <2> QED BY <2>1 DEF sram, place, permanent, IInv, TypeOK, SpaceAccounted, InTheMiddle, Untorn,
                      Running, Used, FRAM_Free
<1>3. ASSUME NEW e \in InterruptEntries, Interrupted(e) PROVE IInv'
  BY <1>3, InterruptedPreserves
<1>4. ASSUME NEW e \in InterruptEntries, InterruptedInUpdate(e) PROVE IInv'
  BY <1>4, InterruptedInUpdatePreserves
<1>5. ASSUME NEW mode \in LogModes, LogSetMode(mode) PROVE IInv'
  <2>1. CurrentLogFunc' \in LogModes /\ StoredLogMode' \in LogModes
        /\ UNCHANGED <<sram, LogFRAMAddr, powered, place, torn, overrun, FRAM, FRAMLogAddr, LogFRAMAddrValid>>
    BY <1>5 DEF LogSetMode
  <2> QED BY <2>1 DEF sram, place, IInv, TypeOK, SpaceAccounted, InTheMiddle, Untorn,
                      Running, Used, FRAM_Free
<1>6. CASE AppendEntry
  BY <1>6, TakeRoomPreserves, WriteEntryPreserves DEF AppendEntry
<1>7. CASE LogTick \/ StoreLog
  BY <1>7, CopyAllPreserves, CopyPartPreserves DEF LogTick, StoreLog, LogSRAMToFRAM
<1>8. CASE MoveOn
  <2>1. CASE LogSRAMClear
    <3>1. CASE At("counted") /\ EmptyCells /\ UNCHANGED clearing
      <4>1. (At("counted") /\ UNCHANGED clearing) \/ (MainLoop /\ clearing' = TRUE)
        BY <3>1
      <4> QED BY <3>1, <4>1, EmptyCellsPreserves, Zenon
    <3> QED BY <2>1, <3>1, RewindPreserves, FreeAllPreserves DEF LogSRAMClear
  <2>2. CASE CountCopied \/ MoveUp \/ MovePtr \/ CountMoved \/ StoreAddr
    BY <2>2, CountCopiedPreserves, MoveUpPreserves, MovePtrPreserves, CountMovedPreserves,
       StoreAddrPreserves
  <2> QED BY <1>8, <2>1, <2>2 DEF MoveOn
<1>9. CASE LogMemClear
  BY <1>9, EmptyCellsPreserves DEF LogMemClear
<1>10. CASE LogInit
  BY <1>10, LogInitPreserves
<1>11. CASE LosePower
  <2>1. LoseRam /\ UNCHANGED <<FRAM, FRAMLogAddr, LogFRAMAddrValid, StoredLogMode>>
    BY <1>11 DEF LosePower, permanent
  <2> QED BY <2>1, LoseRamPreserves DEF IInv, TypeOK
<1>12. CASE LosePowerMoving
  BY <1>12, LosePowerMovingPreserves
<1>13. CASE LosePowerInInit
  <2>1. /\ ~powered /\ ~LogFRAMAddrValid /\ FRAMLogAddr' = FRAM_LOG_START_ADDR
        /\ UNCHANGED <<CurrentLogFunc, sram, LogFRAMAddr, powered, place, torn, overrun,
                       FRAM, LogFRAMAddrValid, StoredLogMode>>
    BY <1>13 DEF LosePowerInInit, ram
  <2> QED BY <2>1, SizeFacts
          DEF sram, place, IInv, TypeOK, SpaceAccounted, InTheMiddle, Untorn, Running
<1>14. CASE UNCHANGED vars \/ Undefined
  BY <1>14 DEF Undefined, vars, ram, sram, place, permanent, IInv, TypeOK, SpaceAccounted,
               InTheMiddle, Untorn, Running, Used, FRAM_Free
<1> QED BY <1>1, <1>2, <1>3, <1>4, <1>5, <1>6, <1>7, <1>8, <1>9, <1>10, <1>11, <1>12, <1>13,
           <1>14 DEF Next

(* TypeOK holds in every state of every log.                               *)
THEOREM TypeCorrect == Spec => []TypeOK
<1>1. IInv => TypeOK
  BY DEF IInv
<1> QED BY InitIInv, StepIInv, <1>1, PTL DEF Spec

(* The space counters of SRAM and FRAM agree, across restarts, unless an   *)
(* interrupt logged in the middle of an append, a move or a clear; and the *)
(* address in the FRAM is the one in RAM whatever interrupts do.           *)
THEOREM SpaceIsAccounted == Spec => []SpaceAccounted
<1>1. IInv => SpaceAccounted
  BY DEF IInv
<1> QED BY InitIInv, StepIInv, <1>1, PTL DEF Spec

-----------------------------------------------------------------------------
(* The refinement: where the bytes are.                                    *)
InFRAMBytes == Read(FRAM, FRAM_LOG_START_ADDR, FRAMCount)
InSRAMBytes == Read(LogMem, 0, SRAMCount)

LEMMA PrefixOfConcat ==
  ASSUME NEW S, NEW s \in Seq(S), NEW t \in Seq(S)
  PROVE  SubSeq(s \o t, 1, Len(s)) = s
<1>1. /\ s \o t \in Seq(S) /\ Len(s) \in Nat /\ Len(t) \in Nat
      /\ \A i \in 1 .. Len(s) : (s \o t)[i] = s[i] /\ s[i] \in S
  BY ConcatProperties, LenProperties, ElementOfSeq
<1>2. /\ SubSeq(s \o t, 1, Len(s)) \in Seq(S)
      /\ Len(SubSeq(s \o t, 1, Len(s))) = Len(s)
      /\ \A i \in 1 .. Len(s) : SubSeq(s \o t, 1, Len(s))[i] = s[i]
  <2>1. \A i \in 1 .. Len(s) : (s \o t)[i] \in S
    BY <1>1
  <2>2. 1 \in Int /\ Len(s) \in Int
    BY <1>1
  <2>3. /\ SubSeq(s \o t, 1, Len(s)) \in Seq(S)
        /\ Len(SubSeq(s \o t, 1, Len(s))) = IF 1 <= Len(s) THEN Len(s) - 1 + 1 ELSE 0
        /\ \A i \in 1 .. Len(s) - 1 + 1 : SubSeq(s \o t, 1, Len(s))[i] = (s \o t)[1 + i - 1]
    BY <2>1, <2>2, SubSeqProperties
  <2>4. Len(SubSeq(s \o t, 1, Len(s))) = Len(s)
    BY <2>3, <1>1
  <2>5. ASSUME NEW i \in 1 .. Len(s) PROVE SubSeq(s \o t, 1, Len(s))[i] = s[i]
    <3>1. i \in 1 .. Len(s) - 1 + 1 /\ 1 + i - 1 = i
      BY <1>1
    <3> QED BY <3>1, <2>3, <1>1
  <2> QED BY <2>3, <2>4, <2>5
<1> QED BY <1>2, SeqEqual

LEMMA ConcatAssoc == \A s, t, u \in Seq(Byte) : (s \o t) \o u = s \o (t \o u)
BY ConcatAssociative

LEMMA ReadNothing ==
  ASSUME NEW a, NEW mem PROVE Read(mem, a, 0) = <<>>
<1>1. 1 .. 0 = {}
  OBVIOUS
<1>2. Read(mem, a, 0) = [i \in {} |-> mem[a + i - 1]]
  BY <1>1 DEF Read
<1> QED BY <1>2

LEMMA SuffixOfConcat ==
  ASSUME NEW s \in Seq(Byte), NEW t \in Seq(Byte), NEW n, n = Len(s)
  PROVE  SubSeq(s \o t, n + 1, Len(s \o t)) = t
<1> HIDE DEF Byte
<1> DEFINE u == s \o t  v == SubSeq(u, n + 1, Len(u))
<1>1. /\ u \in Seq(Byte) /\ Len(u) = Len(s) + Len(t) /\ Len(s) \in Nat /\ Len(t) \in Nat
      /\ \A i \in 1 .. Len(s) + Len(t) : u[i] = IF i <= Len(s) THEN s[i] ELSE t[i - Len(s)]
      /\ \A i \in 1 .. Len(u) : u[i] \in Byte
  BY ConcatProperties, LenProperties, ElementOfSeq
<1> HIDE DEF u
<1>2. /\ v \in Seq(Byte)
      /\ Len(v) = IF n + 1 <= Len(u) THEN Len(u) - (n + 1) + 1 ELSE 0
      /\ \A i \in 1 .. Len(u) - (n + 1) + 1 : v[i] = u[(n + 1) + i - 1]
  <2>1. n + 1 \in Int /\ Len(u) \in Int /\ \A i \in (n + 1) .. Len(u) : u[i] \in Byte
    BY <1>1
  <2> QED BY <2>1, SubSeqProperties
<1> HIDE DEF v
<1>3. Len(v) = Len(t)
  BY <1>1, <1>2
<1>4. ASSUME NEW i \in 1 .. Len(t) PROVE v[i] = t[i]
  <2>1. /\ i \in 1 .. Len(u) - (n + 1) + 1 /\ (n + 1) + i - 1 = Len(s) + i
        /\ Len(s) + i \in 1 .. Len(s) + Len(t) /\ ~(Len(s) + i <= Len(s)) /\ (Len(s) + i) - Len(s) = i
    BY <1>1
  <2>2. u[Len(s) + i] = t[(Len(s) + i) - Len(s)]
    BY <1>1, <2>1
  <2> QED BY <1>2, <2>1, <2>2
<1>5. v = t
  BY <1>2, <1>3, <1>4, SeqEqual
<1> QED BY <1>5 DEF v, u

(* What the log consists of, at every step.                                *)
LEMMA LogParts ==
  ASSUME IInv, Running
  PROVE  /\ LoggedBytes = InFRAMBytes \o InSRAMBytes
         /\ FRAMCount \in Nat /\ FRAM_LOG_START_ADDR + FRAMCount =< FRAMEnd
         /\ InFRAMBytes \in Seq(Byte) /\ Len(InFRAMBytes) = FRAMCount
         /\ SRAMCount \in Int /\ SRAMCount =< LOG_SIZE /\ InSRAMBytes \in Seq(Byte)
         /\ SRAMCount \in Nat => Len(InSRAMBytes) = SRAMCount
         /\ KeptBytes = FRAMLogAddr - FRAM_LOG_START_ADDR /\ KeptBytes \in 0 .. FRAMCount
<1>0. powered /\ ~overrun
  BY DEF Running
<1>1. KeptBytes = FRAMLogAddr - FRAM_LOG_START_ADDR /\ KeptBytes \in 0 .. SizeInFRAMStored
      /\ SizeInFRAMStored \in 0 .. FRAM_LOG_SIZE
  BY SpaceFacts, SizeFacts DEF KeptBytes, InitialFRAMAddr
<1>2. FRAMCount \in KeptBytes .. FRAM_LOG_SIZE
  BY <1>1, SizeFacts DEF FRAMCount
<1>3. FRAMCount \in Nat /\ FRAM_LOG_START_ADDR + FRAMCount =< FRAMEnd /\ KeptBytes \in 0 .. FRAMCount
  BY <1>1, <1>2, SizeFacts
<1>4. InFRAMBytes \in Seq(Byte) /\ Len(InFRAMBytes) = FRAMCount
  <2>1. FRAM_LOG_START_ADDR \in Int /\ FRAM_LOG_START_ADDR =< FRAM_LOG_START_ADDR
    BY SizeFacts
  <2> QED BY <2>1, <1>3, ReadFRAM DEF InFRAMBytes
<1>5. SRAMCount \in Int /\ SRAMCount =< LOG_SIZE
  <2>1. LogMemPtr \in 0 .. LOG_SIZE /\ FRAM_Free \in Nat /\ LOG_SIZE \in Nat
    BY SpaceFacts, SizeFacts
  <2> HIDE DEF FRAM_Free
  <2> QED BY <2>1 DEF SRAMCount
<1>6. InSRAMBytes \in Seq(Byte) /\ (SRAMCount \in Nat => Len(InSRAMBytes) = SRAMCount)
  <2>1. CASE SRAMCount \in Nat
    <3>1. 0 \in Int /\ 0 =< 0 /\ 0 + SRAMCount =< LOG_SIZE
      BY <1>5
    <3> QED BY <2>1, <3>1, ReadLogMem DEF InSRAMBytes
  <2>2. CASE SRAMCount \notin Nat
    <3>1. 1 .. SRAMCount = {}
      BY <1>5, <2>2
    <3>2. InSRAMBytes = [i \in {} |-> LogMem[0 + i - 1]]
      BY <3>1 DEF InSRAMBytes, Read
    <3>3. InSRAMBytes = <<>>
      BY <3>2
    <3> QED BY <2>2, <3>3, EmptySeq
  <2> QED BY <2>1, <2>2
<1>7. LoggedBytes = InFRAMBytes \o InSRAMBytes
  BY <1>0 DEF LoggedBytes, InFRAMBytes, InSRAMBytes
<1> QED BY <1>1, <1>3, <1>4, <1>5, <1>6, <1>7

(* The bytes in the FRAM, split at any place.                              *)
LEMMA SplitFRAM ==
  ASSUME IInv, NEW m \in Nat, NEW n \in Nat, FRAM_LOG_START_ADDR + m + n =< FRAMEnd
  PROVE  /\ Read(FRAM, FRAM_LOG_START_ADDR, m + n)
              = Read(FRAM, FRAM_LOG_START_ADDR, m) \o Read(FRAM, FRAM_LOG_START_ADDR + m, n)
         /\ Read(FRAM, FRAM_LOG_START_ADDR, m) \in Seq(Byte)
         /\ Len(Read(FRAM, FRAM_LOG_START_ADDR, m)) = m
         /\ Read(FRAM, FRAM_LOG_START_ADDR + m, n) \in Seq(Byte)
<1>1. /\ FRAM_LOG_START_ADDR \in Int /\ FRAM_LOG_START_ADDR + m \in Int /\ m + n \in Nat
      /\ FRAM_LOG_START_ADDR =< FRAM_LOG_START_ADDR /\ FRAM_LOG_START_ADDR =< FRAM_LOG_START_ADDR + m
      /\ FRAM_LOG_START_ADDR + m =< FRAMEnd /\ (FRAM_LOG_START_ADDR + m) + n =< FRAMEnd
  BY SizeFacts
<1>2. \A i \in Int : FRAM_LOG_START_ADDR =< i /\ i < FRAM_LOG_START_ADDR + (m + n) => FRAM[i] \in Byte
  BY <1>1, SizeFacts DEF IInv, TypeOK
<1>3. Read(FRAM, FRAM_LOG_START_ADDR, m + n)
        = Read(FRAM, FRAM_LOG_START_ADDR, m) \o Read(FRAM, FRAM_LOG_START_ADDR + m, n)
  <2>1. m + n \in Nat /\ FRAM_LOG_START_ADDR \in Int /\ FRAM_LOG_START_ADDR + m \in Int
        /\ m \in Nat /\ n \in Nat
    BY <1>1
  <2>2. \A mm : \A a \in Int, x \in Nat, y \in Nat :
          (\A i \in Int : a =< i /\ i < a + (x + y) => mm[i] \in Byte)
            => Read(mm, a, x + y) = Read(mm, a, x) \o Read(mm, a + x, y)
    <3> SUFFICES ASSUME NEW mm, NEW a \in Int, NEW x \in Nat, NEW y \in Nat,
                        \A i \in Int : a =< i /\ i < a + (x + y) => mm[i] \in Byte
                 PROVE  Read(mm, a, x + y) = Read(mm, a, x) \o Read(mm, a + x, y)
      OBVIOUS
    <3>1. a + x \in Int /\ x + y \in Nat
      OBVIOUS
    <3> HIDE DEF Byte
    <3> QED BY <3>1, ReadSplit
  <2> HIDE DEF Byte
  <2> QED BY <1>2, <2>1, <2>2, Zenon
<1> QED BY <1>1, <1>3, ReadFRAM

(* The first bytes of the log are those the address in the FRAM bounds.    *)
LEMMA KeptPrefix ==
  IInv /\ Running =>
    SubSeq(LoggedBytes, 1, KeptBytes) = Read(FRAM, FRAM_LOG_START_ADDR, KeptBytes)
<1> SUFFICES ASSUME IInv, Running
             PROVE  SubSeq(LoggedBytes, 1, KeptBytes) = Read(FRAM, FRAM_LOG_START_ADDR, KeptBytes)
  OBVIOUS
<1> DEFINE k == KeptBytes  n == FRAMCount - k
           head == Read(FRAM, FRAM_LOG_START_ADDR, k)
           tail == Read(FRAM, FRAM_LOG_START_ADDR + k, n)
<1>1. k \in Nat /\ n \in Nat /\ FRAM_LOG_START_ADDR + k + n =< FRAMEnd /\ FRAMCount = k + n
  BY LogParts, SizeFacts
<1>2. InFRAMBytes = head \o tail /\ head \in Seq(Byte) /\ Len(head) = k /\ tail \in Seq(Byte)
  <2> HIDE DEF k, n
  <2> QED BY <1>1, SplitFRAM DEF InFRAMBytes
<1>3. LoggedBytes = (head \o tail) \o InSRAMBytes /\ InSRAMBytes \in Seq(Byte)
  BY <1>2, LogParts
<1> HIDE DEF head, tail, k, n
<1>4. LoggedBytes = head \o (tail \o InSRAMBytes) /\ tail \o InSRAMBytes \in Seq(Byte)
  BY <1>2, <1>3, ConcatAssoc, ConcatProperties
<1>5. SubSeq(head \o (tail \o InSRAMBytes), 1, Len(head)) = head
  BY <1>2, <1>4, PrefixOfConcat
<1>6. SubSeq(LoggedBytes, 1, k) = head
  BY <1>2, <1>4, <1>5
<1> QED BY <1>6 DEF k, head

LEMMA InitRefines == Init => Recorder!Init
<1> SUFFICES ASSUME Init PROVE Recorder!Init
  OBVIOUS
<1>1. powered = FALSE /\ overrun = FALSE /\ clearing = FALSE /\ InitialFRAMAddr = FRAM_LOG_START_ADDR
  BY DEF Init, InitialFRAMAddr
<1>2. InitialFRAMAddr - FRAM_LOG_START_ADDR = 0
  BY <1>1, SizeFacts
<1>3. LoggedBytes = <<>>
  BY <1>1, <1>2, ReadNothing DEF LoggedBytes
<1> QED BY <1>1, <1>2, <1>3 DEF Recorder!Init, KeptBytes

(* A step that leaves the FRAM alone is at worst a Tear, ...               *)
LEMMA StepTears ==
  ASSUME IInv, IInv', Running, Running',
         UNCHANGED <<FRAM, FRAMLogAddr, LogFRAMAddrValid, clearing, powered>>
  PROVE  Recorder!Tear /\ KeptBytes' = KeptBytes
<1>1. SubSeq(LoggedBytes, 1, KeptBytes) = Read(FRAM, FRAM_LOG_START_ADDR, KeptBytes)
  BY KeptPrefix
<1>2. SubSeq(LoggedBytes', 1, KeptBytes') = Read(FRAM', FRAM_LOG_START_ADDR, KeptBytes')
  <2>1. (IInv /\ Running => SubSeq(LoggedBytes, 1, KeptBytes) = Read(FRAM, FRAM_LOG_START_ADDR, KeptBytes))'
    BY KeptPrefix, PTL
  <2> QED BY <2>1 DEF Read
<1>3. KeptBytes' = KeptBytes /\ KeptBytes \in Nat
  BY LogParts DEF KeptBytes, InitialFRAMAddr
<1>4. KeptBytes' >= KeptBytes
  BY <1>3
<1>5. powered
  BY DEF Running
<1>6. SubSeq(LoggedBytes', 1, KeptBytes) = SubSeq(LoggedBytes, 1, KeptBytes)
  BY <1>1, <1>2, <1>3
<1> QED BY <1>3, <1>4, <1>5, <1>6 DEF Recorder!Tear

(* ... and one that moves no borders either leaves the log as it is.       *)
LEMMA SameLog ==
  ASSUME Running, Running', UNCHANGED <<FRAM, FRAMLogAddr, LogFRAMAddrValid, clearing, powered, LogMem>>,
         FRAMCount' = FRAMCount, SRAMCount' = SRAMCount
  PROVE  UNCHANGED Recorder!vars
<1>1. LoggedBytes' = LoggedBytes
  BY DEF LoggedBytes, Running, Read
<1>2. KeptBytes' = KeptBytes
  BY DEF KeptBytes, InitialFRAMAddr
<1> QED BY <1>1, <1>2 DEF Recorder!vars

(* An entry at the end of LogMem is one at the end of the log.             *)
LEMMA AppendBytes ==
  ASSUME IInv, IInv', Running, Running', NEW s \in Seq(Byte),
         SRAMCount = LogMemPtr, LogMemPtr + Len(s) =< LOG_SIZE,
         LogMem' = Write(LogMem, LogMemPtr, s), SRAMCount' = LogMemPtr + Len(s),
         UNCHANGED FRAM, FRAMCount' = FRAMCount
  PROVE  LoggedBytes' = LoggedBytes \o s
<1>1. Len(s) \in Nat /\ LogMemPtr \in Nat /\ LogMemPtr \in Int
  BY SpaceFacts, LenProperties
<1>2. InFRAMBytes' = InFRAMBytes
  BY DEF InFRAMBytes, Read
<1>3. InSRAMBytes' = InSRAMBytes \o s
  <2> DEFINE new == Write(LogMem, LogMemPtr, s)
  <2>2. Read(new, 0, LogMemPtr) = Read(LogMem, 0, LogMemPtr)
    <3>1. \A i \in Int : 0 =< i /\ i < 0 + LogMemPtr => i \in DOMAIN LogMem
      BY <1>1, SizeFacts DEF IInv, TypeOK
    <3> QED BY <3>1, <1>1, ReadFrame
  <2>3. Read(new, LogMemPtr, Len(s)) = s
    <3>1. \A i \in Int : LogMemPtr =< i /\ i < LogMemPtr + Len(s) => i \in DOMAIN LogMem
      BY <1>1, SizeFacts DEF IInv, TypeOK
    <3> QED BY <3>1, <1>1, ReadBack
  <2>4. Read(new, 0, LogMemPtr + Len(s)) = Read(new, 0, LogMemPtr) \o Read(new, LogMemPtr, Len(s))
    <3>1. \A i \in Int : 0 =< i /\ i < 0 + (LogMemPtr + Len(s)) => new[i] \in Byte
      <4>1. new \in [0 .. LOG_SIZE - 1 -> Byte]
        BY <1>1, WriteLogMem
      <4> QED BY <4>1, <1>1, SizeFacts
    <3>2. LogMemPtr = 0 + LogMemPtr /\ LogMemPtr + Len(s) \in Nat
      BY <1>1
    <3> HIDE DEF new
    <3> QED BY <3>1, <3>2, <1>1, ReadSplit
  <2>5. InSRAMBytes' = Read(new, 0, LogMemPtr + Len(s))
    BY DEF InSRAMBytes, Read
  <2> HIDE DEF new
  <2> QED BY <2>2, <2>3, <2>4, <2>5 DEF InSRAMBytes
<1>4. LoggedBytes' = InFRAMBytes' \o InSRAMBytes'
  BY DEF LoggedBytes, InFRAMBytes, InSRAMBytes, Running
<1>5. LoggedBytes = InFRAMBytes \o InSRAMBytes /\ InFRAMBytes \in Seq(Byte) /\ InSRAMBytes \in Seq(Byte)
  BY LogParts
<1>6. (InFRAMBytes \o InSRAMBytes) \o s = InFRAMBytes \o (InSRAMBytes \o s)
  BY <1>5, ConcatAssoc, Zenon
<1> QED BY <1>2, <1>3, <1>4, <1>5, <1>6

(* One disjunct of LogIsKept, for short.                                   *)
Refined ==
  \/ overrun'
  \/ Recorder!Next
  \/ (torn \/ torn') /\ Recorder!Tear
  \/ UNCHANGED Recorder!vars

LEMMA WriteEntryRefines == ASSUME IInv, IInv', WriteEntry PROVE Refined
<1> SUFFICES ASSUME ~overrun' PROVE Refined
  BY DEF Refined
<1>1. Running /\ Running' /\ step = "writing" /\ ~clearing
  BY DEF WriteEntry, At, Running, IInv, InTheMiddle
<1>2. /\ LogMem' = Write(LogMem, LogMemPtr, rest) /\ LogMemPtr' = LogMemPtr + Len(rest) /\ step' = "idle"
      /\ UNCHANGED <<LogMemLeft, LogFRAMAddr, powered, clearing, torn, FRAM, FRAMLogAddr, LogFRAMAddrValid>>
  BY DEF WriteEntry, permanent
<1>3. CASE torn
  BY <1>1, <1>2, <1>3, StepTears DEF Refined
<1>4. CASE ~torn
  <2>1. rest \in Entries /\ rest \in Seq(Byte)
        /\ LogMemPtr + LogMemLeft + Len(rest) = LOG_SIZE
    BY <1>1, <1>4, EntryFacts DEF IInv, Untorn
  <2>2. LogMemPtr + Len(rest) =< LOG_SIZE
    <3>1. Len(rest) \in Nat /\ LogMemPtr \in Nat /\ LogMemLeft \in Nat
      BY <1>1, <2>1, SpaceFacts, EntryFacts, SizeFacts
    <3> QED BY <2>1, <3>1
  <2>3. SRAMCount = LogMemPtr /\ SRAMCount' = LogMemPtr + Len(rest) /\ FRAMCount' = FRAMCount
    BY <1>1, <1>2 DEF SRAMCount, FRAMCount, SizeInFRAMStored
  <2>4. LoggedBytes' = LoggedBytes \o rest
    BY <1>1, <1>2, <2>1, <2>2, <2>3, AppendBytes
  <2>5. KeptBytes' = KeptBytes /\ powered
    BY <1>1, <1>2 DEF KeptBytes, InitialFRAMAddr, Running
  <2>6. Recorder!Record(rest)
    BY <1>2, <2>4, <2>5 DEF Recorder!Record
  <2> QED BY <2>1, <2>6 DEF Refined, Recorder!Next
<1> QED BY <1>3, <1>4

LEMMA InterruptedRefines ==
  ASSUME IInv, IInv', NEW e \in InterruptEntries, Interrupted(e) PROVE Refined
<1> SUFFICES ASSUME ~overrun' PROVE Refined
  BY DEF Refined
<1>0. e \in Entries /\ e \in Seq(Byte) /\ Len(e) \in Nat
  BY EntryFacts, EntryAssumption
<1>1. Running /\ Running' /\ step \in Harmless \cup InMove
  BY DEF Interrupted, Interrupts, Running, IInv, InTheMiddle
<1>2. /\ LogMem' = Write(LogMem, LogMemPtr, e) /\ LogMemPtr' = LogMemPtr + Len(e)
      /\ UNCHANGED <<LogFRAMAddr, powered, step, clearing, FRAM, FRAMLogAddr, LogFRAMAddrValid>>
      /\ step \notin Harmless => torn'
  BY DEF Interrupted, Interrupts, permanent
<1>3. CASE step \notin Harmless
  BY <1>1, <1>2, <1>3, StepTears DEF Refined
<1>4. CASE step \in Harmless
  <2>1. LogMemPtr + Len(e) =< LOG_SIZE
    BY <1>0, <1>1, <1>2 DEF IInv, TypeOK, Running
  <2>2. SRAMCount = LogMemPtr /\ SRAMCount' = LogMemPtr + Len(e) /\ FRAMCount' = FRAMCount
    BY <1>2, <1>4 DEF SRAMCount, FRAMCount, SizeInFRAMStored, Harmless
  <2>3. LoggedBytes' = LoggedBytes \o e
    BY <1>0, <1>1, <1>2, <2>1, <2>2, AppendBytes
  <2>4. KeptBytes' = KeptBytes /\ powered
    BY <1>1, <1>2 DEF KeptBytes, InitialFRAMAddr, Running
  <2>5. Recorder!Record(e)
    BY <1>2, <2>3, <2>4 DEF Recorder!Record
  <2> QED BY <1>0, <2>5 DEF Refined, Recorder!Next
<1> QED BY <1>3, <1>4

LEMMA InterruptedInUpdateRefines ==
  ASSUME IInv, IInv', NEW e \in InterruptEntries, InterruptedInUpdate(e) PROVE Refined
<1> SUFFICES ASSUME ~overrun' PROVE Refined
  BY DEF Refined
<1>1. /\ Running /\ Running' /\ torn'
      /\ UNCHANGED <<FRAM, FRAMLogAddr, LogFRAMAddrValid, clearing, powered>>
  BY DEF InterruptedInUpdate, Interrupts, Running, permanent, InUpdate, Harmless
<1> QED BY <1>1, StepTears DEF Refined

LEMMA CountCopiedRefines == ASSUME IInv, IInv', CountCopied PROVE Refined
<1> SUFFICES ASSUME ~overrun' PROVE Refined
  BY DEF Refined
<1>1. Running /\ Running' /\ step = "written" /\ ~clearing
  BY DEF CountCopied, At, Running, IInv, InTheMiddle
<1>2. /\ LogFRAMAddr' = LogFRAMAddr + Used /\ step' = "counted"
      /\ UNCHANGED <<LogMem, LogMemPtr, powered, clearing, torn, FRAM, FRAMLogAddr, LogFRAMAddrValid>>
  BY DEF CountCopied, sram, permanent
<1>3. CASE torn
  BY <1>1, <1>2, <1>3, StepTears DEF Refined
<1>4. CASE ~torn
  <2>1. /\ Used =< FRAM_Free /\ LogMemPtr + LogMemLeft = LOG_SIZE
        /\ Read(FRAM, LogFRAMAddr, Used) = Read(LogMem, 0, Used)
    BY <1>1, <1>4 DEF IInv, Untorn
  <2>2. /\ LogMemPtr = Used /\ Used \in Nat /\ SizeInFRAMStored \in Nat
        /\ LogFRAMAddr = FRAM_LOG_START_ADDR + SizeInFRAMStored
        /\ FRAM_LOG_START_ADDR + SizeInFRAMStored + Used =< FRAMEnd
    BY <1>1, <2>1, SpaceFacts, SizeFacts
  <2>3. SRAMCount = Used /\ SRAMCount' = 0
        /\ FRAMCount = SizeInFRAMStored /\ FRAMCount' = SizeInFRAMStored + Used
    BY <1>1, <1>2, <2>2, SizeFacts DEF SRAMCount, FRAMCount, SizeInFRAMStored
  <2>4. InFRAMBytes' = InFRAMBytes \o InSRAMBytes
    <3>1. InFRAMBytes' = Read(FRAM, FRAM_LOG_START_ADDR, SizeInFRAMStored + Used)
      BY <1>2, <2>3 DEF InFRAMBytes, Read
    <3>2. Read(FRAM, FRAM_LOG_START_ADDR, SizeInFRAMStored + Used)
            = Read(FRAM, FRAM_LOG_START_ADDR, SizeInFRAMStored)
                \o Read(FRAM, FRAM_LOG_START_ADDR + SizeInFRAMStored, Used)
      BY <2>2, SplitFRAM
    <3> QED BY <2>1, <2>2, <2>3, <3>1, <3>2 DEF InFRAMBytes, InSRAMBytes
  <2>5. InSRAMBytes' = <<>>
    BY <2>3, ReadNothing DEF InSRAMBytes
  <2>6. LoggedBytes' = InFRAMBytes' \o InSRAMBytes'
    BY <1>1 DEF LoggedBytes, InFRAMBytes, InSRAMBytes, Running
  <2>7. LoggedBytes = InFRAMBytes \o InSRAMBytes /\ LoggedBytes \in Seq(Byte)
    BY <1>1, LogParts, ConcatProperties
  <2>8. LoggedBytes \o <<>> = LoggedBytes
    BY <2>7, ConcatEmptySeq
  <2>9. LoggedBytes' = LoggedBytes
    BY <2>4, <2>5, <2>6, <2>7, <2>8
  <2>10. KeptBytes' = KeptBytes
    BY <1>2 DEF KeptBytes, InitialFRAMAddr
  <2> QED BY <1>2, <2>9, <2>10 DEF Refined, Recorder!vars
<1> QED BY <1>3, <1>4

LEMMA FreeAllRefines == ASSUME IInv, IInv', FreeAll PROVE Refined
<1>1. Running /\ Running' /\ step = "rewound"
  BY DEF FreeAll, At, Running
<1>2. /\ step' = "cleared" /\ UNCHANGED <<LogMem, LogMemPtr, LogFRAMAddr, powered, clearing, torn, FRAM,
                                          FRAMLogAddr, LogFRAMAddrValid>>
  BY DEF FreeAll, permanent
<1>3. CASE torn
  BY <1>1, <1>2, <1>3, StepTears DEF Refined
<1>4. CASE ~torn
  <2>1. LogMemPtr = 0
    BY <1>1, <1>4 DEF IInv, Untorn
  <2>2. SRAMCount' = SRAMCount /\ FRAMCount' = FRAMCount
    BY <1>1, <1>2, <2>1 DEF SRAMCount, FRAMCount, SizeInFRAMStored
  <2> QED BY <1>1, <1>2, <2>2, SameLog DEF Refined
<1> QED BY <1>3, <1>4

(* The copied cells count as bytes in the FRAM from the moment the others  *)
(* have moved up over them.                                                *)
LEMMA MoveUpRefines == ASSUME IInv, IInv', MoveUp PROVE Refined
<1> DEFINE f == FRAM_Free
           head == Read(LogMem, 0, f)
           others == Read(LogMem, f, Used - f)
           tail == Read(LogMem, f, LOG_SIZE - f)
<1>1. Running /\ Running' /\ step = "part" /\ ~clearing /\ f =< Used
  BY DEF MoveUp, At, Running, IInv, InTheMiddle
<1>2. /\ LogMem' = Write(LogMem, 0, tail) /\ step' = "moved"
      /\ UNCHANGED <<LogMemPtr, LogFRAMAddr, powered, clearing, torn, FRAM, FRAMLogAddr, LogFRAMAddrValid>>
  BY DEF MoveUp, permanent
<1>3. CASE torn
  BY <1>1, <1>2, <1>3, StepTears DEF Refined
<1>4. CASE ~torn
  <2>1. LogMemPtr + LogMemLeft = LOG_SIZE /\ Read(FRAM, LogFRAMAddr, f) = head
    BY <1>1, <1>4 DEF IInv, Untorn
  <2>2. /\ LogMemPtr = Used /\ Used \in Nat /\ Used =< LOG_SIZE /\ f \in Nat /\ Used - f \in Nat
        /\ SizeInFRAMStored \in Nat
        /\ LogFRAMAddr = FRAM_LOG_START_ADDR + SizeInFRAMStored
        /\ FRAM_LOG_START_ADDR + SizeInFRAMStored + f =< FRAMEnd
        /\ SizeInFRAMStored + f = FRAM_LOG_SIZE
    BY <1>1, <2>1, SpaceFacts, SizeFacts
  <2>3. /\ SRAMCount = Used /\ SRAMCount' = Used - f
        /\ FRAMCount = SizeInFRAMStored /\ FRAMCount' = SizeInFRAMStored + f
    <3>1. FRAM_Free' = FRAM_Free
      BY <1>2 DEF FRAM_Free
    <3>2. FRAMCount' = FRAM_LOG_SIZE /\ FRAMCount = SizeInFRAMStored
      BY <1>1, <1>2 DEF FRAMCount
    <3>3. SRAMCount = LogMemPtr /\ SRAMCount' = LogMemPtr - FRAM_Free
      BY <1>1, <1>2, <3>1 DEF SRAMCount
    <3> QED BY <2>2, <3>2, <3>3
  <2>4. InFRAMBytes' = InFRAMBytes \o head
    <3> HIDE DEF f, head
    <3>1. InFRAMBytes' = Read(FRAM, FRAM_LOG_START_ADDR, SizeInFRAMStored + f)
      BY <1>2, <2>3 DEF InFRAMBytes, Read
    <3>2. Read(FRAM, FRAM_LOG_START_ADDR, SizeInFRAMStored + f)
            = Read(FRAM, FRAM_LOG_START_ADDR, SizeInFRAMStored)
                \o Read(FRAM, FRAM_LOG_START_ADDR + SizeInFRAMStored, f)
      BY <2>2, SplitFRAM
    <3> QED BY <2>1, <2>2, <2>3, <3>1, <3>2 DEF InFRAMBytes
  <2>5. InSRAMBytes' = others
    <3>1. ASSUME NEW i \in 1 .. Used - f
          PROVE  Write(LogMem, 0, tail)[0 + i - 1] = LogMem[f + i - 1]
      <4>1. Len(tail) = LOG_SIZE - f
        <5>1. f \in Int /\ 0 =< f /\ LOG_SIZE - f \in Nat /\ f + (LOG_SIZE - f) =< LOG_SIZE
          BY <1>1, <2>2, SizeFacts
        <5> HIDE DEF f
        <5> QED BY <5>1, ReadLogMem
      <4>2. /\ 0 + i - 1 \in 0 .. LOG_SIZE - 1 /\ 0 + i - 1 \in 0 .. 0 + (LOG_SIZE - f) - 1
            /\ (0 + i - 1) - 0 + 1 = i /\ i \in 1 .. LOG_SIZE - f
        <5> HIDE DEF f
        <5> QED BY <1>1, <2>2, SizeFacts
      <4>3. DOMAIN LogMem = 0 .. LOG_SIZE - 1
        BY DEF IInv, TypeOK
      <4>4. tail[i] = LogMem[f + i - 1]
        BY <4>2 DEF Read
      <4> HIDE DEF tail
      <4> QED BY <4>1, <4>2, <4>3, <4>4 DEF Write
    <3>2. Read(Write(LogMem, 0, tail), 0, Used - f) = others
      BY <3>1 DEF Read
    <3>3. InSRAMBytes' = Read(Write(LogMem, 0, tail), 0, Used - f)
      <4> HIDE DEF f, tail
      <4> QED BY <1>2, <2>3 DEF InSRAMBytes, Read
    <3> QED BY <3>2, <3>3
  <2> HIDE DEF f, head, others, tail
  <2>6. InSRAMBytes = head \o others /\ head \in Seq(Byte) /\ others \in Seq(Byte)
    <3>1. \A i \in Int : 0 =< i /\ i < 0 + Used => LogMem[i] \in Byte
      BY <2>2, SizeFacts DEF IInv, TypeOK
    <3>2. /\ 0 \in Int /\ f \in Int /\ f = 0 + f /\ Used = f + (Used - f) /\ 0 =< 0 /\ 0 =< f
          /\ 0 + f =< LOG_SIZE /\ f + (Used - f) =< LOG_SIZE
      BY <1>1, <2>2, SizeFacts
    <3>3. Read(LogMem, 0, Used) = Read(LogMem, 0, f) \o Read(LogMem, f, Used - f)
      <4>1. \A b \in Int, m \in Nat, n \in Nat, k \in Nat :
              /\ b = 0 + m /\ k = m + n
              /\ \A i \in Int : 0 =< i /\ i < 0 + k => LogMem[i] \in Byte
              => Read(LogMem, 0, k) = Read(LogMem, 0, m) \o Read(LogMem, b, n)
        BY <3>2, ReadSplitBytes, Zenon
      <4>2. f \in Int /\ f \in Nat /\ Used - f \in Nat /\ Used \in Nat
        BY <2>2, <3>2
      <4>3. f = 0 + f /\ Used = f + (Used - f)
        BY <3>2
      <4> QED BY <3>1, <4>1, <4>2, <4>3, Zenon
    <3>4. Read(LogMem, 0, f) \in Seq(Byte) /\ Read(LogMem, f, Used - f) \in Seq(Byte)
      BY <2>2, <3>2, ReadLogMem
    <3> QED BY <2>3, <3>3, <3>4 DEF InSRAMBytes, head, others
  <2>7. LoggedBytes' = InFRAMBytes' \o InSRAMBytes'
    BY <1>1 DEF LoggedBytes, InFRAMBytes, InSRAMBytes, Running
  <2>8. LoggedBytes = InFRAMBytes \o InSRAMBytes /\ InFRAMBytes \in Seq(Byte)
    BY <1>1, LogParts
  <2>9. (InFRAMBytes \o head) \o others = InFRAMBytes \o (head \o others)
    BY <2>6, <2>8, ConcatAssoc, Zenon
  <2>10. LoggedBytes' = LoggedBytes
    BY <2>4, <2>5, <2>6, <2>7, <2>8, <2>9
  <2>11. KeptBytes' = KeptBytes
    BY <1>2 DEF KeptBytes, InitialFRAMAddr
  <2> QED BY <1>2, <2>10, <2>11 DEF Refined, Recorder!vars
<1> QED BY <1>3, <1>4

(* A copy goes behind everything the log already has in the FRAM.          *)
LEMMA CopyRefines ==
  ASSUME IInv, IInv', Running, Running', step = "idle", step' \in {"written", "part"},
         NEW n \in Nat, FRAM' = Write(FRAM, LogFRAMAddr, Read(LogMem, 0, n)),
         UNCHANGED <<LogMem, LogMemPtr, LogFRAMAddr, powered, clearing, FRAMLogAddr, LogFRAMAddrValid>>
  PROVE  UNCHANGED Recorder!vars
<1>1. ~clearing
  BY DEF IInv, InTheMiddle
<1>2. SRAMCount = LogMemPtr /\ SRAMCount' = LogMemPtr
      /\ FRAMCount = SizeInFRAMStored /\ FRAMCount' = SizeInFRAMStored
  BY <1>1 DEF SRAMCount, FRAMCount, SizeInFRAMStored
<1>3. Read(Write(FRAM, LogFRAMAddr, Read(LogMem, 0, n)), FRAM_LOG_START_ADDR, SizeInFRAMStored)
        = Read(FRAM, FRAM_LOG_START_ADDR, SizeInFRAMStored)
  <2>1. \A i \in Int : FRAM_LOG_START_ADDR =< i /\ i < FRAM_LOG_START_ADDR + SizeInFRAMStored
          => i \in DOMAIN FRAM
    BY SpaceFacts, SizeFacts DEF IInv, TypeOK
  <2>2. /\ SizeInFRAMStored \in Nat /\ FRAM_LOG_START_ADDR \in Int /\ LogFRAMAddr \in Int
        /\ FRAM_LOG_START_ADDR + SizeInFRAMStored =< LogFRAMAddr
    BY SpaceFacts, SizeFacts
  <2> QED BY <2>1, <2>2, ReadFrame
<1>4. LoggedBytes' = LoggedBytes
  <2>1. LoggedBytes = Read(FRAM, FRAM_LOG_START_ADDR, SizeInFRAMStored) \o Read(LogMem, 0, LogMemPtr)
    BY <1>2 DEF LoggedBytes, Running
  <2>2. LoggedBytes' = Read(FRAM', FRAM_LOG_START_ADDR, SizeInFRAMStored) \o Read(LogMem', 0, LogMemPtr)
    BY <1>2 DEF LoggedBytes, Running, Read
  <2> QED BY <1>3, <2>1, <2>2
<1>5. KeptBytes' = KeptBytes
  BY DEF KeptBytes, InitialFRAMAddr
<1> QED BY <1>4, <1>5 DEF Recorder!vars

(* LogInit finds the permanent bytes and may add the boot entry.           *)
LEMMA BootRefines == ASSUME IInv, IInv', LogInit PROVE Recorder!Boot
<1> DEFINE boot == IF StoredLogMode = "MEMORY" THEN BootEntry ELSE <<>>
           empty == [i \in 0 .. LOG_SIZE - 1 |-> LOG_EMPTY]
<1>0. ~powered /\ step = "idle" /\ ~clearing /\ ~overrun
  BY DEF LogInit, IInv, InTheMiddle
<1>1. /\ powered' = TRUE /\ UNCHANGED <<step, clearing, overrun, FRAM>>
      /\ LogMem' = Write(empty, 0, boot) /\ LogMemPtr' = Len(boot)
      /\ LogFRAMAddr' = InitialFRAMAddr /\ FRAMLogAddr' = InitialFRAMAddr
      /\ LogFRAMAddrValid' = TRUE
  BY DEF LogInit, place
<1>2. boot \in Seq(Byte) /\ Len(boot) \in Nat /\ Len(boot) =< LOG_SIZE
  <2>1. BootEntry \in Seq(Byte) /\ Len(BootEntry) \in Nat /\ Len(BootEntry) =< LOG_SIZE
    BY EntryAssumption, LenProperties
  <2>2. <<>> \in Seq(Byte) /\ Len(<<>>) = 0
    BY EmptySeq
  <2> QED BY <2>1, <2>2, SizeFacts
<1>3. boot \in {BootEntry, <<>>}
  OBVIOUS
<1>4. SRAMCount' = Len(boot) /\ FRAMCount' = InitialFRAMAddr - FRAM_LOG_START_ADDR
  <2> HIDE DEF boot
  <2> QED BY <1>0, <1>1 DEF SRAMCount, FRAMCount, SizeInFRAMStored
<1>5. Read(LogMem', 0, Len(boot)) = boot
  <2>1. \A i \in Int : 0 =< i /\ i < 0 + Len(boot) => i \in DOMAIN empty
    <3> HIDE DEF boot
    <3> QED BY <1>2, SizeFacts
  <2>2. 0 \in Int
    OBVIOUS
  <2> HIDE DEF boot, empty
  <2>3. Read(Write(empty, 0, boot), 0, Len(boot)) = boot
    BY <2>1, <2>2, <1>2, ReadBackBytes, Zenon
  <2> QED BY <2>3, <1>1
<1>6. LoggedBytes = Read(FRAM, FRAM_LOG_START_ADDR, InitialFRAMAddr - FRAM_LOG_START_ADDR)
  BY <1>0 DEF LoggedBytes
<1>7. LoggedBytes' = Read(FRAM', FRAM_LOG_START_ADDR, FRAMCount') \o Read(LogMem', 0, SRAMCount')
  BY <1>0, <1>1 DEF LoggedBytes, Read
<1>8. LoggedBytes \in Seq(Byte)
  <2>1. InitialFRAMAddr - FRAM_LOG_START_ADDR \in Nat
        /\ FRAM_LOG_START_ADDR + (InitialFRAMAddr - FRAM_LOG_START_ADDR) =< FRAMEnd
    BY SizeFacts DEF InitialFRAMAddr, IInv, TypeOK, SpaceAccounted
  <2>2. FRAM_LOG_START_ADDR \in Int /\ FRAM_LOG_START_ADDR =< FRAM_LOG_START_ADDR
    BY SizeFacts
  <2>3. Read(FRAM, FRAM_LOG_START_ADDR, InitialFRAMAddr - FRAM_LOG_START_ADDR) \in Seq(Byte)
    BY <2>1, <2>2, ReadFRAM
  <2> QED BY <2>3, <1>6
<1>9. LoggedBytes' \in {LoggedBytes, LoggedBytes \o BootEntry}
  <2> HIDE DEF boot, empty
  <2>1. LoggedBytes' = LoggedBytes \o boot
    BY <1>1, <1>4, <1>5, <1>6, <1>7
  <2>2. LoggedBytes \o <<>> = LoggedBytes
    BY <1>8, ConcatEmptySeq
  <2> QED BY <1>3, <2>1, <2>2
<1>10. KeptBytes' = KeptBytes
  BY <1>1 DEF KeptBytes, InitialFRAMAddr
<1> QED BY <1>0, <1>1, <1>9, <1>10 DEF Recorder!Boot

(* LOGCLEAR: first what is in SRAM, ...                                    *)
LEMMA LogMemClearRefines == ASSUME IInv, IInv', LogMemClear PROVE Recorder!BeginClear
<1>1. Running /\ Running' /\ step = "idle" /\ ~clearing
  BY DEF LogMemClear, EmptyCells, MainLoop, At, Running, IInv, InTheMiddle
<1>2. /\ step' = "emptied" /\ clearing' = TRUE
      /\ UNCHANGED <<powered, LogFRAMAddr, FRAM, FRAMLogAddr, LogFRAMAddrValid>>
  BY DEF LogMemClear, EmptyCells, permanent
<1>3. KeptBytes' = KeptBytes /\ KeptBytes = FRAMLogAddr - FRAM_LOG_START_ADDR /\ KeptBytes \in Nat
      /\ FRAM_LOG_START_ADDR + KeptBytes =< FRAMEnd
  BY <1>1, <1>2, LogParts, SizeFacts DEF KeptBytes, InitialFRAMAddr
<1>4. FRAMCount' = KeptBytes /\ SRAMCount' = 0
  BY <1>2, <1>3 DEF FRAMCount, SRAMCount
<1>5. LoggedBytes' = Read(FRAM, FRAM_LOG_START_ADDR, KeptBytes) \o Read(LogMem', 0, 0)
  BY <1>1, <1>2, <1>4 DEF LoggedBytes, Running, Read
<1>6. Read(FRAM, FRAM_LOG_START_ADDR, KeptBytes) \in Seq(Byte)
  <2>1. FRAM_LOG_START_ADDR \in Int /\ FRAM_LOG_START_ADDR =< FRAM_LOG_START_ADDR
    BY SizeFacts
  <2> QED BY <1>3, <2>1, ReadFRAM
<1>7. LoggedBytes' = Read(FRAM, FRAM_LOG_START_ADDR, KeptBytes)
  <2>1. Read(LogMem', 0, 0) = <<>>
    BY ReadNothing
  <2> DEFINE s == Read(FRAM, FRAM_LOG_START_ADDR, KeptBytes)
  <2> HIDE DEF s
  <2>2. s \o <<>> = s
    BY <1>6, ConcatEmptySeq DEF s
  <2> QED BY <1>5, <2>1, <2>2 DEF s
<1>8. LoggedBytes' = SubSeq(LoggedBytes, 1, KeptBytes)
  BY <1>1, <1>7, KeptPrefix
<1> QED BY <1>1, <1>2, <1>3, <1>8 DEF Recorder!BeginClear, Running

(* ... and at the end what is in the FRAM; of a move, the last step makes  *)
(* the moved bytes permanent.                                              *)
LEMMA StoreAddrRefines == ASSUME IInv, IInv', StoreAddr PROVE Recorder!EndClear \/ Recorder!Secure
<1>1. Running /\ Running' /\ step = "cleared"
  BY DEF StoreAddr, At, Running
<1>2. /\ step' = "idle" /\ clearing' = FALSE /\ FRAMLogAddr' = LogFRAMAddr'
      /\ LogFRAMAddr' = (IF clearing THEN FRAM_LOG_START_ADDR ELSE LogFRAMAddr)
      /\ UNCHANGED <<LogMem, LogMemPtr, powered, FRAM, LogFRAMAddrValid>>
  BY DEF StoreAddr, sram
<1>3. LogFRAMAddrValid /\ SRAMCount = LogMemPtr /\ SRAMCount' = LogMemPtr
  BY <1>1, <1>2, SpaceFacts DEF SRAMCount
<1>4. KeptBytes' = LogFRAMAddr' - FRAM_LOG_START_ADDR
  BY <1>2, <1>3 DEF KeptBytes, InitialFRAMAddr
<1>p. /\ LoggedBytes = InFRAMBytes \o InSRAMBytes /\ InFRAMBytes \in Seq(Byte)
      /\ InSRAMBytes \in Seq(Byte) /\ Len(InFRAMBytes) = FRAMCount /\ FRAMCount \in Nat
      /\ KeptBytes = FRAMLogAddr - FRAM_LOG_START_ADDR /\ KeptBytes \in 0 .. FRAMCount
  BY <1>1, LogParts
<1>5. CASE clearing
  <2>1. LogFRAMAddr' = FRAM_LOG_START_ADDR /\ KeptBytes' = 0
    BY <1>2, <1>4, <1>5, SizeFacts
  <2>2. FRAMCount = KeptBytes /\ FRAMCount' = 0
    BY <1>2, <1>5, <1>p, <2>1, SizeFacts DEF FRAMCount, SizeInFRAMStored
  <2>3. LoggedBytes' = Read(FRAM', FRAM_LOG_START_ADDR, 0) \o InSRAMBytes
    BY <1>1, <1>2, <1>3, <2>2 DEF LoggedBytes, Running, Read, InSRAMBytes
  <2>4. LoggedBytes' = InSRAMBytes
    <3>1. Read(FRAM', FRAM_LOG_START_ADDR, 0) = <<>>
      BY ReadNothing
    <3>2. <<>> \o InSRAMBytes = InSRAMBytes
      BY <1>p, ConcatEmptySeq
    <3> QED BY <2>3, <3>1, <3>2
  <2>5. LoggedBytes' = SubSeq(LoggedBytes, KeptBytes + 1, Len(LoggedBytes))
    BY <1>p, <2>2, <2>4, SuffixOfConcat
  <2> QED BY <1>1, <1>2, <1>5, <2>1, <2>5 DEF Recorder!EndClear, Running
<1>6. CASE ~clearing
  <2>1. LogFRAMAddr' = LogFRAMAddr /\ KeptBytes' = SizeInFRAMStored
    BY <1>2, <1>4, <1>6 DEF SizeInFRAMStored
  <2>2. FRAMCount = SizeInFRAMStored /\ FRAMCount' = SizeInFRAMStored
    BY <1>1, <1>2, <1>6, <2>1 DEF FRAMCount, SizeInFRAMStored
  <2>3. LoggedBytes' = LoggedBytes
    BY <1>1, <1>2, <1>3, <2>2 DEF LoggedBytes, Running, Read
  <2>4. Len(LoggedBytes) = FRAMCount + Len(InSRAMBytes) /\ Len(InSRAMBytes) \in Nat
    BY <1>p, ConcatProperties, LenProperties
  <2>5. KeptBytes' \in KeptBytes .. Len(LoggedBytes)
    BY <1>p, <2>1, <2>2, <2>4
  <2>6. clearing' = clearing
    BY <1>2, <1>6 DEF IInv, TypeOK
  <2> QED BY <1>1, <1>2, <1>6, <2>3, <2>5, <2>6 DEF Recorder!Secure, Running
<1> QED BY <1>5, <1>6

(* Without power there is what the stored address bounds.                  *)
LEMMA LossRefines ==
  ASSUME IInv, IInv', Running, LoseRam, UNCHANGED <<FRAMLogAddr, LogFRAMAddrValid>>,
         Read(FRAM', FRAM_LOG_START_ADDR, KeptBytes) = Read(FRAM, FRAM_LOG_START_ADDR, KeptBytes)
  PROVE  Recorder!LosePower
<1>1. KeptBytes' = KeptBytes /\ powered' = FALSE /\ clearing' = FALSE /\ overrun' = FALSE
      /\ InitialFRAMAddr' - FRAM_LOG_START_ADDR = KeptBytes
  BY DEF InitialFRAMAddr, KeptBytes, LoseRam
<1>2. LoggedBytes' = Read(FRAM', FRAM_LOG_START_ADDR, KeptBytes)
  BY <1>1 DEF LoggedBytes, Read
<1>3. LoggedBytes' = SubSeq(LoggedBytes, 1, KeptBytes)
  BY <1>2, KeptPrefix
<1> QED BY <1>1, <1>3 DEF Recorder!LosePower

LEMMA LossWhileMovingRefines ==
  ASSUME IInv, IInv', LosePowerMoving PROVE Recorder!LosePower
<1>1. Running /\ LoseRam /\ UNCHANGED <<FRAMLogAddr, LogFRAMAddrValid>>
  BY DEF LosePowerMoving, MainLoop, At, Running
<1>2. PICK k \in 1 .. LOG_SIZE :
        FRAM' = Write(FRAM, LogFRAMAddr, Read(LogMem, 0, k))
  BY DEF LosePowerMoving
<1>3. /\ KeptBytes \in Nat /\ LogFRAMAddr \in Int /\ FRAM_LOG_START_ADDR \in Int
      /\ FRAM_LOG_START_ADDR + KeptBytes =< LogFRAMAddr
  BY <1>1, LogParts, SpaceFacts, SizeFacts
<1>4. \A i \in Int : FRAM_LOG_START_ADDR =< i /\ i < FRAM_LOG_START_ADDR + KeptBytes
        => i \in DOMAIN FRAM
  BY <1>1, <1>3, SpaceFacts, SizeFacts DEF IInv, TypeOK
<1>5. Read(Write(FRAM, LogFRAMAddr, Read(LogMem, 0, k)), FRAM_LOG_START_ADDR, KeptBytes)
        = Read(FRAM, FRAM_LOG_START_ADDR, KeptBytes)
  BY <1>3, <1>4, ReadFrame
<1> QED BY <1>1, <1>2, <1>5, LossRefines

LEMMA StepRefines == ASSUME IInv, IInv', [Next]_vars PROVE Refined
<1> USE DEF Refined, Recorder!Next
<1>1. ASSUME NEW e \in Entries, TestRoom(e) PROVE Refined
  <2>1. /\ Running /\ Running' /\ step = "idle" /\ step' = "testing"
        /\ UNCHANGED <<LogMem, LogMemPtr, LogFRAMAddr, powered, clearing, FRAM, FRAMLogAddr, LogFRAMAddrValid>>
    BY <1>1 DEF TestRoom, MainLoop, At, Running, sram, permanent
  <2>2. SRAMCount' = SRAMCount /\ FRAMCount' = FRAMCount
    BY <2>1 DEF SRAMCount, FRAMCount, SizeInFRAMStored
  <2> QED BY <2>1, <2>2, SameLog
<1>2. ASSUME NEW e \in Entries, LogFull(e) PROVE Refined
  <2>1. UNCHANGED <<sram, LogFRAMAddr, powered, place, torn, overrun, permanent>>
    BY <1>2 DEF LogFull
  <2> QED BY <2>1 DEF sram, place, permanent, LoggedBytes, KeptBytes, InitialFRAMAddr, FRAMCount, SRAMCount,
                  SizeInFRAMStored, FRAM_Free, Read, Recorder!vars
<1>3. ASSUME NEW e \in InterruptEntries, Interrupted(e) PROVE Refined
  BY <1>3, InterruptedRefines
<1>4. ASSUME NEW e \in InterruptEntries, InterruptedInUpdate(e) PROVE Refined
  BY <1>4, InterruptedInUpdateRefines
<1>5. ASSUME NEW mode \in LogModes, LogSetMode(mode) PROVE Refined
  <2>1. UNCHANGED <<sram, LogFRAMAddr, powered, place, torn, overrun, FRAM, FRAMLogAddr, LogFRAMAddrValid>>
    BY <1>5 DEF LogSetMode
  <2> QED BY <2>1 DEF sram, place, LoggedBytes, KeptBytes, InitialFRAMAddr, FRAMCount, SRAMCount,
                  SizeInFRAMStored, FRAM_Free, Read, Recorder!vars
<1>6. CASE TakeRoom
  <2>1. /\ Running /\ Running' /\ step = "testing" /\ step' = "writing"
        /\ UNCHANGED <<LogMem, LogMemPtr, LogFRAMAddr, powered, clearing, FRAM, FRAMLogAddr, LogFRAMAddrValid>>
    BY <1>6 DEF TakeRoom, At, Running, permanent
  <2>2. SRAMCount' = SRAMCount /\ FRAMCount' = FRAMCount
    BY <2>1 DEF SRAMCount, FRAMCount, SizeInFRAMStored
  <2> QED BY <2>1, <2>2, SameLog
<1>7. CASE LogTick \/ StoreLog
  <2>1. CASE CopyAll
    <3>1. /\ Running /\ Running' /\ step = "idle" /\ step' = "written"
          /\ FRAM' = Write(FRAM, LogFRAMAddr, Read(LogMem, 0, Used))
          /\ UNCHANGED <<LogMem, LogMemPtr, LogFRAMAddr, powered, clearing, FRAMLogAddr, LogFRAMAddrValid>>
      BY <2>1 DEF CopyAll, MainLoop, At, Running, sram
    <3>2. Used \in Nat
      BY <3>1, SpaceFacts, SizeFacts
    <3> QED BY <3>1, <3>2, CopyRefines DEF Recorder!vars
  <2>2. CASE CopyPart
    <3>1. /\ Running /\ Running' /\ step = "idle" /\ step' = "part"
          /\ FRAM' = Write(FRAM, LogFRAMAddr, Read(LogMem, 0, FRAM_Free))
          /\ UNCHANGED <<LogMem, LogMemPtr, LogFRAMAddr, powered, clearing, FRAMLogAddr, LogFRAMAddrValid>>
      BY <2>2 DEF CopyPart, MainLoop, At, Running, sram
    <3>2. FRAM_Free \in Nat
      BY <3>1, SpaceFacts, SizeFacts
    <3> QED BY <3>1, <3>2, CopyRefines DEF Recorder!vars
  <2> QED BY <1>7, <2>1, <2>2 DEF LogTick, StoreLog, LogSRAMToFRAM
<1>8. CASE At("counted") /\ EmptyCells /\ UNCHANGED clearing
  <2>1. /\ Running /\ Running' /\ step = "counted" /\ step' = "emptied"
        /\ UNCHANGED <<LogMemPtr, LogFRAMAddr, powered, clearing, FRAM, FRAMLogAddr, LogFRAMAddrValid>>
    BY <1>8 DEF EmptyCells, At, Running, permanent
  <2>2. SRAMCount = 0 /\ SRAMCount' = 0 /\ FRAMCount' = FRAMCount
    BY <2>1 DEF SRAMCount, FRAMCount, SizeInFRAMStored
  <2>3. Read(LogMem', 0, 0) = <<>> /\ Read(LogMem, 0, 0) = <<>>
    BY ReadNothing
  <2>4. LoggedBytes' = LoggedBytes
    BY <2>1, <2>2, <2>3 DEF LoggedBytes, Running, Read
  <2>5. KeptBytes' = KeptBytes
    BY <2>1 DEF KeptBytes, InitialFRAMAddr
  <2> QED BY <2>1, <2>4, <2>5 DEF Recorder!vars
<1>9. CASE Rewind
  <2>1. /\ Running /\ Running' /\ step = "emptied" /\ step' = "rewound"
        /\ UNCHANGED <<LogMem, LogFRAMAddr, powered, clearing, FRAM, FRAMLogAddr, LogFRAMAddrValid>>
    BY <1>9 DEF Rewind, At, Running, permanent
  <2>2. SRAMCount' = SRAMCount /\ FRAMCount' = FRAMCount
    BY <2>1 DEF SRAMCount, FRAMCount, SizeInFRAMStored
  <2> QED BY <2>1, <2>2, SameLog
<1>10. CASE MovePtr
  <2> SUFFICES ASSUME ~overrun' PROVE Refined
    OBVIOUS
  <2>1. /\ Running /\ Running' /\ step = "moved" /\ step' = "shrunk" /\ LogMemPtr' = LogMemPtr - FRAM_Free
        /\ UNCHANGED <<LogMem, LogFRAMAddr, powered, clearing, FRAM, FRAMLogAddr, LogFRAMAddrValid>>
    BY <1>10 DEF MovePtr, At, Running, permanent
  <2>2. SRAMCount' = SRAMCount /\ FRAMCount' = FRAMCount
    BY <2>1 DEF SRAMCount, FRAMCount
  <2> QED BY <2>1, <2>2, SameLog
<1>11. CASE CountMoved
  <2>1. /\ Running /\ Running' /\ step = "shrunk" /\ step' = "cleared" /\ LogFRAMAddr' = LogFRAMAddr + FRAM_Free
        /\ UNCHANGED <<LogMem, LogMemPtr, powered, clearing, FRAM, FRAMLogAddr, LogFRAMAddrValid>>
        /\ ~clearing
    BY <1>11 DEF CountMoved, At, Running, permanent, IInv, InTheMiddle
  <2>2. SRAMCount' = SRAMCount
    BY <2>1 DEF SRAMCount
  <2>3. FRAMCount = FRAM_LOG_SIZE /\ FRAMCount' = LogFRAMAddr' - FRAM_LOG_START_ADDR
    BY <2>1 DEF FRAMCount, SizeInFRAMStored
  <2>4. FRAMCount' = FRAMCount
    BY <2>1, <2>3, SpaceFacts, SizeFacts
  <2> QED BY <2>1, <2>2, <2>4, SameLog
<1>12. CASE MoveOn
  BY <1>12, CountCopiedRefines, <1>8, <1>9, FreeAllRefines, MoveUpRefines, <1>10, <1>11,
     StoreAddrRefines DEF MoveOn, LogSRAMClear
<1>13. CASE LogMemClear
  BY <1>13, LogMemClearRefines
<1>14. CASE LogInit
  BY <1>14, BootRefines
<1>15. CASE LosePower
  <2>1. Running /\ LoseRam /\ UNCHANGED <<FRAM, FRAMLogAddr, LogFRAMAddrValid>>
    BY <1>15 DEF LosePower, permanent, Running
  <2>2. Read(FRAM', FRAM_LOG_START_ADDR, KeptBytes) = Read(FRAM, FRAM_LOG_START_ADDR, KeptBytes)
    BY <2>1
  <2> QED BY <2>1, <2>2, LossRefines
<1>16. CASE LosePowerMoving
  BY <1>16, LossWhileMovingRefines
<1>17. CASE LosePowerInInit
  <2>1. ~powered /\ ~LogFRAMAddrValid /\ UNCHANGED <<powered, place, overrun, FRAM, LogFRAMAddrValid>>
    BY <1>17 DEF LosePowerInInit, ram
  <2> QED BY <2>1 DEF place, LoggedBytes, KeptBytes, InitialFRAMAddr, Recorder!vars
<1>18. CASE UNCHANGED vars \/ Undefined
  <2>1. UNCHANGED <<sram, LogFRAMAddr, powered, place, torn, overrun, FRAM, FRAMLogAddr, LogFRAMAddrValid>>
    BY <1>18 DEF Undefined, vars, ram, permanent
  <2> QED BY <2>1 DEF sram, place, LoggedBytes, KeptBytes, InitialFRAMAddr, FRAMCount, SRAMCount,
                  SizeInFRAMStored, FRAM_Free, Read, Recorder!vars
<1>19. CASE WriteEntry
  BY <1>19, WriteEntryRefines
<1> QED BY <1>1, <1>2, <1>3, <1>4, <1>5, <1>6, <1>7, <1>12, <1>13, <1>14, <1>15, <1>16, <1>17,
           <1>18, <1>19 DEF Next, AppendEntry

(* Log implements EventLog, for memories of every size: no byte is doubled *)
(* or reordered on its way to the FRAM, a loss of power at any step leaves *)
(* exactly the bytes the stored address accounts for, and those are also   *)
(* safe from an interrupt that logs in the middle of an append, a move or  *)
(* a clear, which the bytes in SRAM are not.                               *)
THEOREM LogKeepsItsBytes == Spec => LogIsKept
<1>1. IInv /\ IInv' /\ [Next]_vars
        => [overrun' \/ Recorder!Next \/ ((torn \/ torn') /\ Recorder!Tear)]_(Recorder!vars)
  BY StepRefines DEF Refined
<1>2. Init /\ [][Next]_vars => LogIsKept
  BY InitIInv, StepIInv, InitRefines, <1>1, PTL DEF LogIsKept
<1> QED BY <1>2, PTL DEF Spec

-----------------------------------------------------------------------------
(* Between two calls of the main loop the borders are where LogMemLoadBlock *)
(* takes them to be.                                                       *)
LEMMA MainLoopParts ==
  ASSUME IInv, MainLoop
  PROVE  /\ LoggedBytes = InFRAMBytes \o InSRAMBytes
         /\ InFRAMBytes = Read(FRAM, FRAM_LOG_START_ADDR, SizeInFRAMStored)
         /\ InSRAMBytes = Read(LogMem, 0, LogMemPtr)
         /\ InFRAMBytes \in Seq(Byte) /\ Len(InFRAMBytes) = SizeInFRAMStored
         /\ InSRAMBytes \in Seq(Byte) /\ Len(InSRAMBytes) = LogMemPtr
         /\ SizeInFRAMStored \in Nat /\ FRAM_LOG_START_ADDR + SizeInFRAMStored =< FRAMEnd
         /\ SizeInFRAMStored =< FRAM_LOG_SIZE
         /\ LogMemPtr \in Nat /\ LogMemPtr =< LOG_SIZE
<1>1. Running /\ step = "idle" /\ ~clearing
  BY DEF MainLoop, At, Running, IInv, InTheMiddle
<1>2. FRAMCount = SizeInFRAMStored /\ SRAMCount = LogMemPtr
  BY <1>1 DEF FRAMCount, SRAMCount
<1>3. /\ SizeInFRAMStored \in Nat /\ FRAM_LOG_START_ADDR + SizeInFRAMStored =< FRAMEnd
      /\ SizeInFRAMStored =< FRAM_LOG_SIZE
      /\ LogMemPtr \in Nat /\ LogMemPtr =< LOG_SIZE
  BY <1>1, SpaceFacts, SizeFacts
<1> QED BY <1>1, <1>2, <1>3, LogParts DEF InFRAMBytes, InSRAMBytes

(* Reading blocks: where byte p of the log is.                             *)
Stored(p) ==
  IF p < SizeInFRAMStored THEN FRAM[FRAM_LOG_START_ADDR + p]
                          ELSE LogMem[p - SizeInFRAMStored]

(* A stretch of FRAM bytes, ...                                            *)
LEMMA FRAMStretch ==
  ASSUME IInv, MainLoop, NEW a \in Nat, NEW n \in Nat, a + n =< SizeInFRAMStored
  PROVE  LET s == Read(FRAM, a + FRAM_LOG_START_ADDR, n)
         IN /\ s \in Seq(Byte) /\ Len(s) = n
            /\ \A i \in 1 .. n : s[i] = Stored(a + i - 1)
<1> DEFINE s == Read(FRAM, a + FRAM_LOG_START_ADDR, n)
<1>1. /\ a + FRAM_LOG_START_ADDR \in Int /\ FRAM_LOG_START_ADDR =< a + FRAM_LOG_START_ADDR
      /\ a + FRAM_LOG_START_ADDR + n =< FRAMEnd /\ SizeInFRAMStored \in Nat
  BY MainLoopParts, SizeFacts
<1>2. s \in Seq(Byte) /\ Len(s) = n
  BY <1>1, ReadFRAM
<1>3. \A i \in 1 .. n : s[i] = Stored(a + i - 1)
  <2> TAKE i \in 1 .. n
  <2>1. s[i] = FRAM[a + FRAM_LOG_START_ADDR + i - 1]
    BY DEF Read
  <2>2. /\ a + i - 1 < SizeInFRAMStored
        /\ a + FRAM_LOG_START_ADDR + i - 1 = FRAM_LOG_START_ADDR + (a + i - 1)
    BY <1>1, SizeFacts
  <2> QED BY <2>1, <2>2 DEF Stored
<1> QED BY <1>2, <1>3

(* ... and one of bytes that are still in SRAM.                            *)
LEMMA SRAMStretch ==
  ASSUME IInv, MainLoop, NEW k \in Nat, NEW n \in Nat, k + n =< LOG_SIZE
  PROVE  LET s == Read(LogMem, k, n)
         IN /\ s \in Seq(Byte) /\ Len(s) = n
            /\ \A i \in 1 .. n : s[i] = Stored(SizeInFRAMStored + k + i - 1)
<1> DEFINE s == Read(LogMem, k, n)
<1>1. k \in Int /\ 0 =< k /\ SizeInFRAMStored \in Nat
  BY MainLoopParts
<1>2. s \in Seq(Byte) /\ Len(s) = n
  BY <1>1, ReadLogMem
<1>3. \A i \in 1 .. n : s[i] = Stored(SizeInFRAMStored + k + i - 1)
  <2> TAKE i \in 1 .. n
  <2>1. s[i] = LogMem[k + i - 1]
    BY DEF Read
  <2> DEFINE x == SizeInFRAMStored + k + i - 1
  <2>2. ~(x < SizeInFRAMStored) /\ x - SizeInFRAMStored = k + i - 1
    BY <1>1
  <2> HIDE DEF x
  <2>3. Stored(x) = LogMem[k + i - 1]
    BY <2>2 DEF Stored
  <2> QED BY <2>1, <2>3 DEF x
<1> QED BY <1>2, <1>3

(* Two stretches, one behind the other.                                    *)
LEMMA JoinStretches ==
  ASSUME NEW s \in Seq(Byte), NEW t \in Seq(Byte), NEW a \in Nat,
         \A i \in 1 .. Len(s) : s[i] = Stored(a + i - 1),
         \A i \in 1 .. Len(t) : t[i] = Stored(a + Len(s) + i - 1)
  PROVE  /\ s \o t \in Seq(Byte) /\ Len(s \o t) = Len(s) + Len(t)
         /\ \A i \in 1 .. Len(s) + Len(t) : (s \o t)[i] = Stored(a + i - 1)
<1>1. /\ s \o t \in Seq(Byte) /\ Len(s \o t) = Len(s) + Len(t)
      /\ Len(s) \in Nat /\ Len(t) \in Nat
      /\ \A i \in 1 .. Len(s) + Len(t) : (s \o t)[i] = IF i <= Len(s) THEN s[i] ELSE t[i - Len(s)]
  BY ConcatProperties, LenProperties
<1>2. ASSUME NEW i \in 1 .. Len(s) + Len(t) PROVE (s \o t)[i] = Stored(a + i - 1)
  <2>1. CASE i <= Len(s)
    <3>1. i \in 1 .. Len(s)
      BY <1>1, <2>1
    <3> QED BY <1>1, <2>1, <3>1
  <2>2. CASE ~(i <= Len(s))
    <3>1. i - Len(s) \in 1 .. Len(t) /\ a + Len(s) + (i - Len(s)) - 1 = a + i - 1
      BY <1>1, <2>2
    <3>2. t[i - Len(s)] = Stored(a + Len(s) + (i - Len(s)) - 1)
      BY <3>1
    <3> QED BY <1>1, <2>2, <3>1, <3>2
  <2> QED BY <2>1, <2>2
<1> QED BY <1>1, <1>2

(* The log itself is one such stretch.                                     *)
LEMMA LogStretch ==
  ASSUME IInv, MainLoop
  PROVE  /\ Len(LoggedBytes) = SizeInFRAMStored + LogMemPtr
         /\ \A p \in 0 .. SizeInFRAMStored + LogMemPtr - 1 : LoggedBytes[p + 1] = Stored(p)
<1>1. /\ SizeInFRAMStored \in Nat /\ LogMemPtr \in Nat /\ LogMemPtr =< LOG_SIZE
      /\ LoggedBytes = InFRAMBytes \o InSRAMBytes
      /\ InFRAMBytes \in Seq(Byte) /\ Len(InFRAMBytes) = SizeInFRAMStored
      /\ InSRAMBytes \in Seq(Byte) /\ Len(InSRAMBytes) = LogMemPtr
  BY MainLoopParts, SizeFacts
<1>2. \A i \in 1 .. Len(InFRAMBytes) : InFRAMBytes[i] = Stored(0 + i - 1)
  <2>1. 0 \in Nat /\ 0 + SizeInFRAMStored =< SizeInFRAMStored /\ 0 + FRAM_LOG_START_ADDR = FRAM_LOG_START_ADDR
    BY <1>1, SizeFacts
  <2>2. \A i \in 1 .. SizeInFRAMStored : Read(FRAM, 0 + FRAM_LOG_START_ADDR, SizeInFRAMStored)[i] = Stored(0 + i - 1)
    BY <2>1, <1>1, FRAMStretch
  <2> QED BY <2>1, <2>2, <1>1, MainLoopParts
<1>3. \A i \in 1 .. Len(InSRAMBytes) : InSRAMBytes[i] = Stored(0 + Len(InFRAMBytes) + i - 1)
  <2>1. 0 \in Nat /\ 0 + LogMemPtr =< LOG_SIZE
    BY <1>1
  <2>2. \A i \in 1 .. LogMemPtr : Read(LogMem, 0, LogMemPtr)[i] = Stored(SizeInFRAMStored + 0 + i - 1)
    BY <2>1, <1>1, SRAMStretch
  <2>3. SizeInFRAMStored + 0 = 0 + Len(InFRAMBytes)
    BY <1>1
  <2> QED BY <2>2, <2>3, <1>1, MainLoopParts
<1>4. /\ Len(LoggedBytes) = Len(InFRAMBytes) + Len(InSRAMBytes)
      /\ \A i \in 1 .. Len(InFRAMBytes) + Len(InSRAMBytes) : LoggedBytes[i] = Stored(0 + i - 1)
  <2>1. 0 \in Nat
    OBVIOUS
  <2>2. /\ Len(InFRAMBytes \o InSRAMBytes) = Len(InFRAMBytes) + Len(InSRAMBytes)
        /\ \A i \in 1 .. Len(InFRAMBytes) + Len(InSRAMBytes) : (InFRAMBytes \o InSRAMBytes)[i] = Stored(0 + i - 1)
    BY <2>1, <1>1, <1>2, <1>3, JoinStretches
  <2> QED BY <2>2, <1>1
<1>5. ASSUME NEW p \in 0 .. SizeInFRAMStored + LogMemPtr - 1 PROVE LoggedBytes[p + 1] = Stored(p)
  <2>1. p + 1 \in 1 .. Len(InFRAMBytes) + Len(InSRAMBytes) /\ 0 + (p + 1) - 1 = p
    BY <1>1
  <2> QED BY <2>1, <1>4
<1> QED BY <1>1, <1>4, <1>5

(* A block that starts in the log is n bytes, the first count of them the  *)
(* bytes at their places, whichever way LogMemLoadBlock takes.             *)
LEMMA BlockStretch ==
  ASSUME IInv, MainLoop, NEW a \in Nat, NEW n \in Nat \ {0}, a < LOG_SIZE + SizeInFRAMStored
  PROVE  /\ Len(LogMemLoadBlock(a, n)) = n
         /\ \A i \in 1 .. n : a + i - 1 < LOG_SIZE + SizeInFRAMStored =>
              LogMemLoadBlock(a, n)[i] = Stored(a + i - 1)
<1> DEFINE all == LOG_SIZE + SizeInFRAMStored
           count == IF a + n >= all THEN all - a ELSE n
           inFRAM == SizeInFRAMStored - a
           data == IF InFRAM(a, count)
                   THEN Read(FRAM, a + FRAM_LOG_START_ADDR, count)
                   ELSE IF a < SizeInFRAMStored
                   THEN Read(FRAM, a + FRAM_LOG_START_ADDR, inFRAM) \o Read(LogMem, 0, count - inFRAM)
                   ELSE Read(LogMem, SRAMIndex(a), count)
           pad == [i \in 1 .. n - count |-> 0]
<1>1. SizeInFRAMStored \in Nat /\ LOG_SIZE \in Nat
  BY MainLoopParts, SizeFacts
<1>2. /\ count \in 1 .. n /\ a + count =< all
      /\ \A i \in 1 .. n : a + i - 1 < all => i \in 1 .. count
  BY <1>1
<1>3. data \in Seq(Byte) /\ Len(data) = count /\ \A i \in 1 .. count : data[i] = Stored(a + i - 1)
  <2> HIDE DEF count, all
  <2>1. CASE InFRAM(a, count)
    <3>1. a + count =< SizeInFRAMStored /\ count \in Nat
      BY <2>1, <1>1, <1>2 DEF InFRAM
    <3> QED BY <2>1, <3>1, FRAMStretch
  <2>2. CASE ~InFRAM(a, count) /\ a < SizeInFRAMStored
    <3> DEFINE s == Read(FRAM, a + FRAM_LOG_START_ADDR, inFRAM)
               t == Read(LogMem, 0, count - inFRAM)
    <3>1. /\ inFRAM \in Nat /\ a + inFRAM =< SizeInFRAMStored /\ a + inFRAM = SizeInFRAMStored
          /\ count - inFRAM \in Nat /\ 0 + (count - inFRAM) =< LOG_SIZE /\ count \in Nat
      BY <2>2, <1>1, <1>2 DEF InFRAM, all
    <3> HIDE DEF inFRAM
    <3>2. s \in Seq(Byte) /\ Len(s) = inFRAM /\ \A i \in 1 .. Len(s) : s[i] = Stored(a + i - 1)
      BY <3>1, FRAMStretch
    <3>3. t \in Seq(Byte) /\ Len(t) = count - inFRAM /\ \A i \in 1 .. Len(t) : t[i] = Stored(a + Len(s) + i - 1)
      <4>1. t \in Seq(Byte) /\ Len(t) = count - inFRAM
            /\ \A i \in 1 .. count - inFRAM : t[i] = Stored(SizeInFRAMStored + 0 + i - 1)
        BY <3>1, SRAMStretch
      <4>2. SizeInFRAMStored + 0 = a + Len(s)
        <5> HIDE DEF s
        <5> QED BY <3>1, <3>2, <1>1
      <4> QED BY <4>1, <4>2
    <3> HIDE DEF s, t
    <3>4. Len(s) + Len(t) = count
      BY <3>1, <3>2, <3>3
    <3>5. s \o t \in Seq(Byte) /\ Len(s \o t) = Len(s) + Len(t)
          /\ \A i \in 1 .. Len(s) + Len(t) : (s \o t)[i] = Stored(a + i - 1)
      BY <3>2, <3>3, JoinStretches
    <3>6. data = s \o t
      BY <2>2 DEF s, t
    <3> QED BY <3>4, <3>5, <3>6
  <2>3. CASE ~InFRAM(a, count) /\ ~(a < SizeInFRAMStored)
    <3> DEFINE k == a - SizeInFRAMStored
    <3>1. k \in Nat /\ count \in Nat /\ k + count =< LOG_SIZE /\ SizeInFRAMStored + k = a
      BY <2>3, <1>1, <1>2 DEF all
    <3>2. data = Read(LogMem, k, count)
      BY <2>3 DEF SRAMIndex
    <3> HIDE DEF k, data
    <3> QED BY <3>1, <3>2, SRAMStretch
  <2> QED BY <2>1, <2>2, <2>3
<1>4. pad \in Seq(Byte) /\ Len(pad) = n - count
  <2> HIDE DEF count
  <2>1. n - count \in Nat
    BY <1>2
  <2>2. pad \in [1 .. n - count -> Byte]
    BY SizeFacts
  <2>3. pad \in Seq(Byte)
    BY <2>1, <2>2, SeqDef
  <2> QED BY <2>1, <2>2, <2>3, LenProperties
<1>5. LogMemLoadBlock(a, n) = data \o pad
  BY DEF LogMemLoadBlock
<1> HIDE DEF data, pad, count, all
<1>6. Len(data \o pad) = n /\ \A i \in 1 .. count : (data \o pad)[i] = data[i]
  <2>1. /\ Len(data \o pad) = Len(data) + Len(pad)
        /\ \A i \in 1 .. Len(data) + Len(pad) :
             (data \o pad)[i] = IF i <= Len(data) THEN data[i] ELSE pad[i - Len(data)]
    BY <1>3, <1>4, ConcatProperties
  <2>2. count \in Int /\ count <= n
    BY <1>2
  <2> QED BY <2>1, <2>2, <1>3, <1>4
<1> QED BY <1>2, <1>3, <1>5, <1>6 DEF all

(* A download through blocks sees the log as it is, at every moment and    *)
(* for any place the border between FRAM and SRAM may have.                *)
THEOREM BlocksReadTheLog == Spec => []BlocksMatchLog
<1>1. IInv => BlocksMatchLog
  <2> SUFFICES ASSUME IInv, MainLoop, NEW a \in 0 .. LOG_SIZE + FRAM_LOG_SIZE, NEW n \in 1 .. 3,
                      NEW p \in a .. a + n - 1, p < Len(LoggedBytes)
               PROVE  /\ Len(LogMemLoadBlock(a, n)) = n
                      /\ LogMemLoadBlock(a, n)[p - a + 1] = LoggedBytes[p + 1]
    BY DEF BlocksMatchLog
  <2>1. /\ a \in Nat /\ n \in Nat \ {0} /\ p \in Nat /\ a =< p
        /\ SizeInFRAMStored \in Nat /\ LogMemPtr \in Nat /\ LogMemPtr =< LOG_SIZE
        /\ Len(LoggedBytes) = SizeInFRAMStored + LogMemPtr
    BY SizeFacts, MainLoopParts, LogStretch
  <2>2. /\ a < LOG_SIZE + SizeInFRAMStored /\ p < LOG_SIZE + SizeInFRAMStored
        /\ p \in 0 .. SizeInFRAMStored + LogMemPtr - 1
        /\ p - a + 1 \in 1 .. n /\ a + (p - a + 1) - 1 = p
    BY <2>1, SizeFacts
  <2>3. LoggedBytes[p + 1] = Stored(p)
    BY <2>2, LogStretch
  <2>4. Len(LogMemLoadBlock(a, n)) = n /\ LogMemLoadBlock(a, n)[p - a + 1] = Stored(p)
    BY <2>1, <2>2, BlockStretch
  <2> QED BY <2>3, <2>4
<1> QED BY InitIInv, StepIInv, <1>1, PTL DEF Spec
=============================================================================
