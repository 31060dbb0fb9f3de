-------------------------------- MODULE Log --------------------------------
(***************************************************************************)
(* The event log of Log.c in its modes OFF and MEMORY: entries go to       *)
(* LogMem in SRAM, LogTick moves them to the second half of the FRAM, the  *)
(* address of the first free FRAM byte is kept in RAM and, behind every    *)
(* move, in the FRAM itself, and a flag in the EEPROM says that the FRAM   *)
(* holds such an address. The supply can go away at any step, in the       *)
(* middle of a move or of LogInit too; a write of the two-byte address is  *)
(* taken to happen or not. Mode LIVE uses the same SRAM for its own list   *)
(* of blocks and is the subject of LiveLog.                                *)
(*                                                                         *)
(* Nothing here switches interrupts off, and the ISO 15693 sniffer logs    *)
(* from one (InterruptEntries; empty in every other configuration).  So an *)
(* append, a move and a clear of the main loop are sequences of steps, and *)
(* an entry of an interrupt can come between any two of them, or between   *)
(* the load and the store of a counter.  torn is a history variable: such  *)
(* an entry came where it does harm, and LogMem has not been emptied       *)
(* since.  When the counters that were torn let something be written       *)
(* behind LogMem or behind the FRAM, the model stops (overrun).            *)
(*                                                                         *)
(* Pointers are indices: LogMemPtr is an index of LogMem, and of the FRAM  *)
(* only the log region is modelled, by its addresses. Timestamps, lengths  *)
(* and payloads are cells of an entry.                                     *)
(***************************************************************************)
EXTENDS Integers, Sequences

CONSTANTS LOG_SIZE, FRAM_LOG_START_ADDR, FRAM_LOG_SIZE,
          Cell,          \* the byte values of entries
          Entries,       \* the entries that can be logged, headers included
          InterruptEntries,  \* those that an interrupt logs
          BootEntry,     \* LOG_INFO_SYSTEM_BOOT
          StaleAddrs     \* what the FRAM holds as address before the first boot

LOG_EMPTY == 0
Byte == Cell \union {LOG_EMPTY}
FRAMEnd == FRAM_LOG_START_ADDR + FRAM_LOG_SIZE
LogModes == {"OFF", "MEMORY"}

ASSUME SizeAssumption ==
  /\ LOG_SIZE \in Nat \ {0}
  /\ FRAM_LOG_SIZE \in Nat \ {0}
  /\ FRAM_LOG_START_ADDR \in Nat
ASSUME EntryAssumption ==
  /\ Entries \subseteq Seq(Byte) \ {<<>>} /\ InterruptEntries \subseteq Entries
  /\ BootEntry \in Seq(Byte) \ {<<>>}
  /\ Len(BootEntry) =< LOG_SIZE
ASSUME StaleAssumption == StaleAddrs \subseteq Nat

VARIABLES CurrentLogFunc,     \* the mode whose function LogEntry calls
          LogMem, LogMemPtr, LogMemLeft, LogFRAMAddr,
          powered,
          step,               \* where the main loop is in an append, a move or a clear
          rest,               \* of the entry it appends: what is still to be written
          clearing,           \* it is in LogMemClear
          torn, overrun,
          FRAM,               \* FRAM: the log region
          FRAMLogAddr,        \* FRAM: the word at FRAM_LOG_ADDR_ADDR
          LogFRAMAddrValid,   \* EEPROM
          StoredLogMode       \* EEPROM: LogMode of the stored settings

sram == <<LogMem, LogMemPtr, LogMemLeft>>
place == <<step, rest, clearing>>
ram == <<CurrentLogFunc, sram, LogFRAMAddr, powered, place, torn, overrun>>
permanent == <<FRAM, FRAMLogAddr, LogFRAMAddrValid, StoredLogMode>>
vars == <<ram, permanent>>

(* Steps at which an interrupt's entry does no harm, and the others: the   *)
(* counters are being changed, or the entry falls into what is copied and  *)
(* emptied.                                                                *)
Harmless == {"idle", "part", "cleared"}
InUpdate == {"testing", "writing", "moved", "shrunk"}
InMove == {"written", "counted", "emptied", "rewound"}

-----------------------------------------------------------------------------
(* A memory with the cells of s written from index at on.                  *)
Write(memory, at, s) ==
  [i \in DOMAIN memory |-> IF i \in at .. at + Len(s) - 1 THEN s[i - at + 1] ELSE memory[i]]

(* The n cells of a memory from index at on.                               *)
Read(memory, at, n) == [i \in 1 .. n |-> memory[at + i - 1]]

Used == LOG_SIZE - LogMemLeft
FRAM_Free == FRAM_LOG_SIZE - (LogFRAMAddr - FRAM_LOG_START_ADDR)

Init ==
  /\ powered = FALSE
  /\ CurrentLogFunc = "OFF"
  /\ LogMem = [i \in 0 .. LOG_SIZE - 1 |-> 0]
  /\ LogMemPtr = 0 /\ LogMemLeft = 0
  /\ LogFRAMAddr = FRAM_LOG_START_ADDR
  /\ step = "idle" /\ rest = <<>> /\ clearing = FALSE
  /\ torn = FALSE /\ overrun = FALSE
  /\ FRAM = [a \in FRAM_LOG_START_ADDR .. FRAMEnd - 1 |-> LOG_EMPTY]
  /\ FRAMLogAddr \in StaleAddrs
  /\ LogFRAMAddrValid = FALSE
  /\ StoredLogMode = "OFF"

(* RAM as the start-up code of the program leaves it.                      *)
LoseRam ==
  /\ powered' = FALSE
  /\ CurrentLogFunc' = "OFF"
  /\ LogMem' = [i \in 0 .. LOG_SIZE - 1 |-> 0]
  /\ LogMemPtr' = 0 /\ LogMemLeft' = 0
  /\ LogFRAMAddr' = FRAM_LOG_START_ADDR
  /\ step' = "idle" /\ rest' = <<>> /\ clearing' = FALSE
  /\ torn' = FALSE /\ overrun' = FALSE

At(s) == powered /\ ~overrun /\ step = s
MainLoop == At("idle")

-----------------------------------------------------------------------------
(* LogFuncMemory: an entry is written whole or, for want of room, not at   *)
(* all, and then logging is switched off (in RAM, not in the EEPROM).      *)
FitsSlip(e, left) == left + 1 >= Len(e)
Fits(e, left) == left >= Len(e)

(* LogMemLeft is loaded, once, and found large enough, ...                 *)
TestRoom(e) ==
  /\ MainLoop /\ CurrentLogFunc = "MEMORY" /\ Fits(e, LogMemLeft)
  /\ step' = "testing" /\ rest' = e
  /\ UNCHANGED <<CurrentLogFunc, sram, LogFRAMAddr, powered, clearing, torn, overrun, permanent>>

(* ... the difference is stored, ...                                       *)
TakeRoom ==
  /\ At("testing")
  /\ LogMemLeft' = LogMemLeft - Len(rest)
  /\ step' = "writing"
  /\ UNCHANGED <<CurrentLogFunc, LogMem, LogMemPtr, LogFRAMAddr, powered, rest, clearing,
                 torn, overrun, permanent>>

(* ... and the entry, or what an interrupt has left of it, is written.     *)
WriteEntry ==
  /\ At("writing")
  /\ LogMem' = Write(LogMem, LogMemPtr, rest)
  /\ LogMemPtr' = LogMemPtr + Len(rest)
  /\ overrun' = (LogMemPtr' > LOG_SIZE)
  /\ step' = "idle" /\ rest' = <<>>
  /\ UNCHANGED <<CurrentLogFunc, LogMemLeft, LogFRAMAddr, powered, clearing, torn, permanent>>

AppendEntry == TakeRoom \/ WriteEntry

(* In the main loop or in an interrupt *)
LogFull(e) ==
  /\ powered /\ ~overrun /\ (step = "idle" \/ e \in InterruptEntries)
  /\ CurrentLogFunc = "MEMORY" /\ ~Fits(e, LogMemLeft)
  /\ CurrentLogFunc' = "OFF"
  /\ UNCHANGED <<sram, LogFRAMAddr, powered, place, torn, overrun, permanent>>

Interrupts(e) ==
  /\ powered /\ ~overrun /\ CurrentLogFunc = "MEMORY" /\ Fits(e, LogMemLeft)
  /\ torn' = (torn \/ step \notin Harmless)
  /\ UNCHANGED <<CurrentLogFunc, LogFRAMAddr, powered, step, clearing, permanent>>

(* An interrupt logs between two statements of the main loop.              *)
Interrupted(e) ==
  /\ step \in Harmless \cup InMove
  /\ Interrupts(e)
  /\ LogMemLeft' = LogMemLeft - Len(e)
  /\ LogMem' = Write(LogMem, LogMemPtr, e)
  /\ LogMemPtr' = LogMemPtr + Len(e)
  /\ overrun' = (LogMemPtr' > LOG_SIZE)
  /\ UNCHANGED rest

(* An interrupt logs when the main loop has loaded a counter, or is about  *)
(* to, and then stores it: what the interrupt added or took is forgotten,  *)
(* or not.  Of an entry under way the first k cells are written before the *)
(* one of the interrupt and the others behind it.                          *)
InterruptedInUpdate(e) ==
  /\ step \in InUpdate
  /\ Interrupts(e)
  /\ \E k \in 0 .. Len(rest) :
       /\ k > 0 => step = "writing"
       /\ LogMem' = Write(LogMem, LogMemPtr, SubSeq(rest, 1, k) \o e)
       /\ \/ LogMemPtr' = LogMemPtr + k + Len(e)
          \/ step \in {"writing", "moved"} /\ LogMemPtr' = LogMemPtr + k
       /\ rest' = SubSeq(rest, k + 1, Len(rest))
       /\ overrun' = (LogMemPtr + k + Len(e) > LOG_SIZE)
  /\ \/ step # "testing" /\ LogMemLeft' = LogMemLeft - Len(e)
     \/ step \in {"testing", "shrunk"} /\ LogMemLeft' = LogMemLeft

-----------------------------------------------------------------------------
(* LogInit, before interrupts are on. The boot entry is the first thing in *)
(* an empty LogMem.                                                        *)
InitialFRAMAddr ==
  IF LogFRAMAddrValid THEN FRAMLogAddr ELSE FRAM_LOG_START_ADDR

LogInit ==
  /\ ~powered
  /\ powered' = TRUE
  /\ CurrentLogFunc' = StoredLogMode
  /\ LET boot == IF StoredLogMode = "MEMORY" THEN BootEntry ELSE <<>>
         empty == [i \in 0 .. LOG_SIZE - 1 |-> LOG_EMPTY]
     IN /\ LogMem' = Write(empty, 0, boot)
        /\ LogMemPtr' = Len(boot)
        /\ LogMemLeft' = LOG_SIZE - Len(boot)
  /\ LogFRAMAddr' = InitialFRAMAddr
  /\ FRAMLogAddr' = InitialFRAMAddr
  /\ LogFRAMAddrValid' = TRUE
  /\ UNCHANGED <<place, torn, overrun, FRAM, StoredLogMode>>

-----------------------------------------------------------------------------
(* LogSRAMToFRAM when all of LogMem fits behind the FRAM log: the bytes    *)
(* are written, ...                                                        *)
CopyAll ==
  /\ MainLoop /\ Used > 0 /\ FRAM_Free >= Used
  /\ FRAM' = Write(FRAM, LogFRAMAddr, Read(LogMem, 0, Used))
  /\ step' = "written"
  /\ UNCHANGED <<CurrentLogFunc, sram, LogFRAMAddr, powered, rest, clearing, torn, overrun,
                 FRAMLogAddr, LogFRAMAddrValid, StoredLogMode>>

(* ... then counted, from LogMemLeft anew, ...                             *)
CountCopied ==
  /\ At("written")
  /\ LogFRAMAddr' = LogFRAMAddr + Used
  /\ overrun' = (LogFRAMAddr' > FRAMEnd)
  /\ step' = "counted"
  /\ UNCHANGED <<CurrentLogFunc, sram, powered, rest, clearing, torn, permanent>>

(* ... and LogMem is emptied.  LogSRAMClear: only the cells that are in    *)
(* use are emptied, before the two counters are set.                       *)
EmptyCells ==
  /\ LogMem' = [i \in 0 .. LOG_SIZE - 1 |-> IF i < Used THEN LOG_EMPTY ELSE LogMem[i]]
  /\ step' = "emptied" /\ torn' = FALSE
  /\ UNCHANGED <<CurrentLogFunc, LogMemPtr, LogMemLeft, LogFRAMAddr, powered, rest, overrun, permanent>>

Rewind ==
  /\ At("emptied")
  /\ LogMemPtr' = 0
  /\ step' = "rewound"
  /\ UNCHANGED <<CurrentLogFunc, LogMem, LogMemLeft, LogFRAMAddr, powered, rest, clearing,
                 torn, overrun, permanent>>

FreeAll ==
  /\ At("rewound")
  /\ LogMemLeft' = LOG_SIZE
  /\ step' = "cleared"
  /\ UNCHANGED <<CurrentLogFunc, LogMem, LogMemPtr, LogFRAMAddr, powered, rest, clearing,
                 torn, overrun, permanent>>

LogSRAMClear == (At("counted") /\ EmptyCells /\ UNCHANGED clearing) \/ Rewind \/ FreeAll

(* When only the first FRAM_Free cells fit, they are written, ...          *)
CopyPart ==
  /\ MainLoop /\ 0 < FRAM_Free /\ FRAM_Free < Used
  /\ FRAM' = Write(FRAM, LogFRAMAddr, Read(LogMem, 0, FRAM_Free))
  /\ step' = "part"
  /\ UNCHANGED <<CurrentLogFunc, sram, LogFRAMAddr, powered, rest, clearing, torn, overrun,
                 FRAMLogAddr, LogFRAMAddrValid, StoredLogMode>>

(* ... the others move up, the last FRAM_Free cells of LogMem keeping what *)
(* they held, ...                                                          *)
MoveUp ==
  /\ At("part")
  /\ LogMem' = Write(LogMem, 0, Read(LogMem, FRAM_Free, LOG_SIZE - FRAM_Free))
  /\ step' = "moved"
  /\ UNCHANGED <<CurrentLogFunc, LogMemPtr, LogMemLeft, LogFRAMAddr, powered, rest, clearing,
                 torn, overrun, permanent>>

(* ... and three counters are adjusted.                                    *)
MovePtrSlip ==
  /\ At("moved")
  /\ LogMemPtr' = LogMemPtr
  /\ overrun' = (LogMemPtr' < 0)
  /\ step' = "shrunk"
  /\ UNCHANGED <<CurrentLogFunc, LogMem, LogMemLeft, LogFRAMAddr, powered, rest, clearing,
                 torn, permanent>>
MovePtr ==
  /\ At("moved")
  /\ LogMemPtr' = LogMemPtr - FRAM_Free
  /\ overrun' = (LogMemPtr' < 0)
  /\ step' = "shrunk"
  /\ UNCHANGED <<CurrentLogFunc, LogMem, LogMemLeft, LogFRAMAddr, powered, rest, clearing,
                 torn, permanent>>

CountMoved ==
  /\ At("shrunk")
  /\ LogMemLeft' = LogMemLeft + FRAM_Free
  /\ LogFRAMAddr' = LogFRAMAddr + FRAM_Free
  /\ step' = "cleared"
  /\ UNCHANGED <<CurrentLogFunc, LogMem, LogMemPtr, powered, rest, clearing, torn, overrun, permanent>>

(* The last statements of LogSRAMToFRAM and of LogMemClear.                *)
StoreAddr ==
  /\ At("cleared")
  /\ LogFRAMAddr' = IF clearing THEN FRAM_LOG_START_ADDR ELSE LogFRAMAddr
  /\ FRAMLogAddr' = LogFRAMAddr'
  /\ step' = "idle" /\ clearing' = FALSE
  /\ UNCHANGED <<CurrentLogFunc, sram, powered, rest, torn, overrun,
                 FRAM, LogFRAMAddrValid, StoredLogMode>>

(* With a full FRAM only a LED blinks.                                     *)
LogSRAMToFRAM == CopyAll \/ CopyPart

MoveOn == CountCopied \/ LogSRAMClear \/ MoveUp \/ MovePtr \/ CountMoved \/ StoreAddr

LogMemClear == MainLoop /\ EmptyCells /\ clearing' = TRUE

(* EnableLogSRAMtoFRAM is set by LogSetModeById exactly for mode MEMORY.   *)
LogTickSlip == CurrentLogFunc = "OFF" /\ LogSRAMToFRAM
LogTick == CurrentLogFunc = "MEMORY" /\ LogSRAMToFRAM

(* The command LOGSTORE and the button action STORE_LOG.                   *)
StoreLog == LogSRAMToFRAM

(* LOGMODE=<mode>: LogSetModeById for all settings and SettingsSave.       *)
LogSetMode(mode) ==
  /\ MainLoop
  /\ CurrentLogFunc' = mode
  /\ StoredLogMode' = mode
  /\ UNCHANGED <<sram, LogFRAMAddr, powered, place, torn, overrun, FRAM, FRAMLogAddr, LogFRAMAddrValid>>

-----------------------------------------------------------------------------
(* The supply goes away between two steps of the program, ...              *)
LosePower ==
  /\ powered /\ ~overrun
  /\ LoseRam
  /\ UNCHANGED permanent

(* ... while a move has written k cells to the FRAM and no address yet,    *)
LosePowerMovingSlip ==
  /\ MainLoop
  /\ \E k \in 1 .. LOG_SIZE :
       /\ k =< Used /\ k =< FRAM_Free
       /\ FRAMLogAddr' = LogFRAMAddr + k
  /\ LoseRam
  /\ UNCHANGED <<FRAM, LogFRAMAddrValid, StoredLogMode>>
LosePowerMoving ==
  /\ MainLoop
  /\ \E k \in 1 .. LOG_SIZE :
       /\ k =< Used /\ k =< FRAM_Free
       /\ FRAM' = Write(FRAM, LogFRAMAddr, Read(LogMem, 0, k))
  /\ LoseRam
  /\ UNCHANGED <<FRAMLogAddr, LogFRAMAddrValid, StoredLogMode>>

(* ... or when the first LogInit has written the address but not the flag. *)
LosePowerInInit ==
  /\ ~powered /\ ~LogFRAMAddrValid
  /\ FRAMLogAddr' = FRAM_LOG_START_ADDR
  /\ UNCHANGED <<ram, FRAM, LogFRAMAddrValid, StoredLogMode>>

(* Something was written behind LogMem or counted behind the FRAM: nothing *)
(* is known of what follows.                                               *)
Undefined == overrun /\ UNCHANGED vars

Next ==
  \/ \E e \in Entries : TestRoom(e) \/ LogFull(e)
  \/ \E e \in InterruptEntries : Interrupted(e) \/ InterruptedInUpdate(e)
  \/ \E mode \in LogModes : LogSetMode(mode)
  \/ AppendEntry \/ LogTick \/ StoreLog \/ MoveOn \/ LogMemClear
  \/ LogInit \/ LosePower \/ LosePowerMoving \/ LosePowerInInit
  \/ Undefined

(* The main loop calls LogTick every 100 ms, whatever else goes on, and    *)
(* every call runs to its end.                                             *)
Spec == Init /\ [][Next]_vars /\ WF_vars(LogTick) /\ WF_vars(MoveOn) /\ WF_vars(AppendEntry)

-----------------------------------------------------------------------------
(* Reading the log back.                                                   *)

SizeInFRAMStored == LogFRAMAddr - FRAM_LOG_START_ADDR

(* LogMemLoadBlock: the callback XModemSend reads n bytes at BlockAddress  *)
(* through; <<>> stands for its result false.                              *)
InFRAM(BlockAddress, n) ==
  BlockAddress < SizeInFRAMStored /\ BlockAddress + n < SizeInFRAMStored

SRAMIndexSlip(BlockAddress) == 0
SRAMIndex(BlockAddress) == BlockAddress - SizeInFRAMStored

LogMemLoadBlock(BlockAddress, n) ==
  LET all == LOG_SIZE + SizeInFRAMStored
      count == IF BlockAddress + n >= all THEN all - BlockAddress ELSE n
      inFRAM == SizeInFRAMStored - BlockAddress
      data == IF InFRAM(BlockAddress, count)
              THEN Read(FRAM, BlockAddress + FRAM_LOG_START_ADDR, count)
              ELSE IF BlockAddress < SizeInFRAMStored
              THEN Read(FRAM, BlockAddress + FRAM_LOG_START_ADDR, inFRAM)
                     \o Read(LogMem, 0, count - inFRAM)
              ELSE Read(LogMem, SRAMIndex(BlockAddress), count)
  IN IF BlockAddress < all THEN data \o [i \in 1 .. n - count |-> 0] ELSE <<>>

(* What is logged and not cleared, and where it is when the main loop is   *)
(* in the middle of a move or a clear: a copy that is finished counts for  *)
(* the cells it was made of, and LOGCLEAR drops the bytes in SRAM before   *)
(* those in the FRAM, which are dropped when the address word is.          *)
FRAMCount ==
  IF clearing THEN FRAMLogAddr - FRAM_LOG_START_ADDR
  ELSE IF step \in {"moved", "shrunk"} THEN FRAM_LOG_SIZE
  ELSE SizeInFRAMStored

SRAMCount ==
  CASE step = "moved" -> LogMemPtr - FRAM_Free
    [] step \in {"counted", "emptied", "rewound"} -> 0
    [] OTHER -> LogMemPtr

LoggedBytes ==
  IF overrun THEN <<>>
  ELSE IF powered
  THEN Read(FRAM, FRAM_LOG_START_ADDR, FRAMCount) \o Read(LogMem, 0, SRAMCount)
  ELSE Read(FRAM, FRAM_LOG_START_ADDR, InitialFRAMAddr - FRAM_LOG_START_ADDR)

KeptBytes == InitialFRAMAddr - FRAM_LOG_START_ADDR

Recorder == INSTANCE EventLog WITH log <- LoggedBytes, kept <- KeptBytes

-----------------------------------------------------------------------------
(* Properties.                                                             *)

Steps == Harmless \cup InUpdate \cup InMove

TypeOK ==
  /\ CurrentLogFunc \in LogModes /\ StoredLogMode \in LogModes
  /\ {powered, LogFRAMAddrValid, clearing, torn, overrun} \subseteq BOOLEAN
  /\ step \in Steps /\ rest \in Seq(Byte)
  /\ LogMem \in [0 .. LOG_SIZE - 1 -> Byte]
  /\ LogMemPtr \in Int /\ LogMemLeft \in 0 .. LOG_SIZE /\ LogFRAMAddr \in Nat
  /\ ~overrun => LogMemPtr \in 0 .. LOG_SIZE /\ LogFRAMAddr \in FRAM_LOG_START_ADDR .. FRAMEnd
  /\ FRAM \in [FRAM_LOG_START_ADDR .. FRAMEnd - 1 -> Byte]
  /\ FRAMLogAddr \in Nat

(* Over any run of entries, moves, clears, restarts and interrupts: free   *)
(* and used cells of LogMem add up between two calls, and nothing is       *)
(* written past the end of LogMem or counted past that of the FRAM, unless *)
(* an interrupt logged in the middle of a move, a clear or an append since *)
(* LogMem was last emptied; and the address in the FRAM is the one in RAM  *)
(* whatever interrupts do, so that a restart finds everything that was     *)
(* moved and nothing else.                                                 *)
SpaceAccounted ==
  /\ overrun => torn
  /\ powered /\ step = "idle" /\ ~overrun =>
       /\ ~torn => LogMemPtr + LogMemLeft = LOG_SIZE
       /\ LogFRAMAddrValid
       /\ FRAMLogAddr = LogFRAMAddr
  /\ LogFRAMAddrValid => FRAMLogAddr \in FRAM_LOG_START_ADDR .. FRAMEnd

(* Moving bytes from SRAM to FRAM, in whole or in part, loses, doubles or  *)
(* reorders none of them; an entry is logged whole or not at all, those of *)
(* interrupts too; a loss of power costs the part that was in SRAM and no  *)
(* more, also when it cuts a move or a clear short.  An interrupt that     *)
(* logs where it does harm can cost or garble bytes in SRAM, but never     *)
(* one that the address in the FRAM accounts for.                          *)
LogIsKept ==
  Recorder!Init /\ [][overrun' \/ Recorder!Next \/ ((torn \/ torn') /\ Recorder!Tear)]_(Recorder!vars)

(* A download reads the log through blocks of any alignment, half in FRAM  *)
(* and half in SRAM, and sees each byte at the place it has in the log, at *)
(* every moment: moves between two blocks do not show.                     *)
BlocksMatchLog ==
  MainLoop =>
    \A a \in 0 .. LOG_SIZE + FRAM_LOG_SIZE : \A n \in 1 .. 3 :
      LET block == LogMemLoadBlock(a, n)
      IN \A p \in a .. a + n - 1 :
           p < Len(LoggedBytes) =>
             /\ Len(block) = n
             /\ block[p - a + 1] = LoggedBytes[p + 1]

(* In mode MEMORY the log does not stay in volatile memory: LogTick moves  *)
(* it, however fast entries come, until the FRAM has no room.              *)
LogReachesFRAM ==
  []<>(\/ ~powered \/ CurrentLogFunc # "MEMORY" \/ overrun
       \/ Used = 0 \/ FRAM_Free = 0)

(* LOGCLEAR "Clears the log memory (SRAM and FRAM)": afterwards a download *)
(* returns nothing but empty bytes.                                        *)
ClearEmptiesLog ==
  [][StoreAddr /\ clearing =>
       \A a \in 0 .. LOG_SIZE - 1 : LogMemLoadBlock(a, 1)' = <<LOG_EMPTY>>]_vars
=============================================================================
