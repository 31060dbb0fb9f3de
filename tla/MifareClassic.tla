--------------------------- MODULE MifareClassic ---------------------------
(***************************************************************************)
(* The emulation of a MIFARE Classic card (Application/MifareClassic.c):   *)
(* the state machine that answers one frame of a reader at a time, the     *)
(* access conditions it caches when a sector is opened, and the buffer the *)
(* value commands work on and TRANSFER stores.                             *)
(*                                                                         *)
(* A frame is its command, the block or the key it names, and whether its  *)
(* checksum holds.  Crypto1 is reduced to which key it was set up with: a  *)
(* reader answers the card's nonce rightly exactly when it uses that key.  *)
(* A block is either the trailer of a sector or four words, the three      *)
(* copies of a value and the word of address bytes.                        *)
(*                                                                         *)
(* session, unlocked, rewritten, pending and register are what a reader    *)
(* can tell from the frames and the answers alone.  The code keeps none of *)
(* them; the properties compare the code's state with them.                *)
(***************************************************************************)
EXTENDS Integers, Iso14443A

CONSTANTS
  Keys,               \* the keys of sectors and readers
  Accs,               \* the access bytes trailers hold: [c, n : triples of bits]
  MaxWord,            \* the largest value of a word, 2^32 - 1 in the code
  LastBlock,          \* the last block of the card
  SectorBlocks,       \* blocks of a small sector, 4 in the code
  BigStart,           \* the first block of the big sectors, 128 in the code
  BigSectorBlocks,    \* blocks of a big sector, 16 in the code
  NoAddress,          \* 0xff in the code: no sector begins there
  UidSize,            \* 4 or 7
  Opened,             \* bound: the blocks that readers authenticate to
  Addressed,          \* bound: the blocks that readers read and write
  Written,            \* bound: the contents that readers write
  Operands,           \* bound: the operands of the value commands
  InitialMemory       \* the content of the slot

VARIABLES
  State, FromHalt, CurrentAddress, KeyInUse, BlockBuffer, AccessConditions, AccessAddress,
  CipherKey,          \* the key Crypto1 was set up with
  Memory, ReadOnly,
  answer,             \* what the last frame was answered
  session, unlocked, rewritten, pending, register

card == <<State, FromHalt, CurrentAddress, KeyInUse, BlockBuffer, AccessConditions, AccessAddress, CipherKey>>
seen == <<session, unlocked, rewritten, pending, register>>
vars == <<card, Memory, ReadOnly, answer, seen>>

----------------------------------------------------------------------------
(* Blocks and sectors *)

Blocks == 0..LastBlock
Words == 0..MaxWord
Bits == {0, 1}
KeyNames == {"A", "B"}

ValueWords == [v : Words, inv : Words, copy : Words, adr : {"good", "bad"}]
Trailers == [A : Keys, acc : Accs, B : Keys]
Contents == ValueWords \cup Trailers

NoKey == "no key"
BrokenAcc == [c |-> <<0, 0, 0>>, n |-> <<0, 0, 0>>]

ASSUME Bounds ==
  /\ NoKey \notin Keys
  /\ Accs \subseteq [c : [1..3 -> {0, 1}], n : [1..3 -> {0, 1}]]
  /\ Opened \subseteq Blocks /\ Addressed \subseteq Blocks
  /\ Written \subseteq Contents
  /\ Operands \subseteq Words
  /\ InitialMemory \in [Blocks -> Contents]

SectorStart(b) == IF b >= BigStart THEN b - (b % BigSectorBlocks) ELSE b - (b % SectorBlocks)

TrailerOf(start) == start + (IF start >= BigStart THEN BigSectorBlocks ELSE SectorBlocks) - 1

Sectors == {SectorStart(b) : b \in Blocks}

(* NoAddress may be a block, as 255 is on a card of 4K, but not the first  *)
(* of a sector.                                                            *)
ASSUME Layout ==
  /\ MaxWord \in Nat /\ LastBlock \in Nat /\ NoAddress \in Nat
  /\ SectorBlocks \in Nat \ {0} /\ BigSectorBlocks \in Nat \ {0} /\ BigStart \in Nat
  /\ UidSize \in {4, 7}
  /\ Sectors \subseteq Blocks \ {NoAddress}
  /\ \A sector \in Sectors : TrailerOf(sector) \in Blocks

IsTrailer(b) == \/ b < BigStart /\ b % SectorBlocks = SectorBlocks - 1
                \/ b % BigSectorBlocks = BigSectorBlocks - 1

KeyOf(x, k) == IF x \in Trailers THEN x[k] ELSE NoKey
AccOf(x) == IF x \in Trailers THEN x.acc ELSE BrokenAcc

(* The condition of the trailer block; NO_ACCESS when the access bits do   *)
(* not match their inverted copies.                                        *)
NO_ACCESS == 7
GetAccessCondition(acc) ==
  IF \A i \in 1..3 : acc.n[i] = 1 - acc.c[i]
  THEN acc.c[1] + 2 * acc.c[2] + 4 * acc.c[3]
  ELSE NO_ACCESS

(* What a READ of a trailer shows under each condition and key: the        *)
(* general purpose byte, the access bytes too, or key B as well            *)
TrailorReads(cond, k) ==
  IF cond \in {0, 2, 4} THEN IF k = "A" THEN "acc and key B" ELSE "gpb"
                        ELSE "acc"

CheckValueIntegrity(x) ==
  x \in ValueWords /\ x.inv = MaxWord - x.v /\ x.copy = x.v /\ x.adr = "good"

(* Mutant: the third copy is forgotten *)
ValueToBlockSlip(x, value) == [x EXCEPT !.v = value, !.inv = MaxWord - value]

ValueToBlock(x, value) == [x EXCEPT !.v = value, !.inv = MaxWord - value, !.copy = value]

(* Mutant: the arithmetic is not that of 32 bits *)
ValueAfterSlip(op, value, operand) == IF op = "DECREMENT" THEN value - operand ELSE value + operand

(* The value after a DECREMENT, INCREMENT or RESTORE, in 32-bit arithmetic *)
ValueAfter(op, value, operand) ==
  CASE op = "DECREMENT" -> (value - operand) % (MaxWord + 1)
    [] op = "INCREMENT" -> (value + operand) % (MaxWord + 1)
    [] OTHER -> value

----------------------------------------------------------------------------
(* The reader's side *)

NoSession == [sector |-> NoAddress, key |-> "A", proved |-> FALSE]
NoPending == [op |-> "none", block |-> 0]
NoRegister == [v |-> -1]

Frame(c) == [cmd |-> c]
AuthFrame(b, k) == [cmd |-> "AUTH", block |-> b, key |-> k]

(* The card is being selected anew when it answers a wake-up; it has left  *)
(* the session when it is silent, except after the operand of a value      *)
(* command, which is never acknowledged.                                   *)
SessionAfter(f, a) ==
  CASE a = "nonce" -> [sector |-> SectorStart(f.block), key |-> f.key, proved |-> FALSE]
    [] a = "authed" -> [session EXCEPT !.proved = TRUE]
    [] a = "ATQA" \/ (a = "none" /\ f.cmd # "OPERAND") -> NoSession
    [] OTHER -> session

UnlockedAfter(f, a) ==
  CASE f.cmd = "UNLOCK" /\ a = "ACK" -> TRUE
    [] a = "ATQA" \/ (a = "none" /\ f.cmd = "HALT") \/ f.cmd = "FIELD_LOST" -> FALSE
    [] OTHER -> unlocked

(* The access bytes of the open sector have been rewritten since a sector  *)
(* that was not open before was opened.                                    *)
RewrittenAfter(f, a) ==
  IF a = "nonce" /\ SectorStart(f.block) # session.sector THEN FALSE
  ELSE \/ rewritten
       \/ /\ session # NoSession
          /\ AccOf(Memory'[TrailerOf(session.sector)]) # AccOf(Memory[TrailerOf(session.sector)])

PendingAfter(f, a) ==
  IF f.cmd \in {"DECREMENT", "INCREMENT", "RESTORE"} /\ a = "ACK" THEN [op |-> f.cmd, block |-> f.block] ELSE NoPending

Observe(f, a) ==
  /\ answer' = a
  /\ pending' = PendingAfter(f, a)
  /\ session' = SessionAfter(f, a)
  /\ unlocked' = UnlockedAfter(f, a)
  /\ rewritten' = RewrittenAfter(f, a)

----------------------------------------------------------------------------
(* Selection *)

MifareClassicAppInit ==
  /\ State = "IDLE"
  /\ FromHalt = FALSE

Init ==
  /\ MifareClassicAppInit
  /\ CurrentAddress = 0 /\ KeyInUse = "A" /\ AccessAddress = 0
  /\ BlockBuffer = [v |-> 0, inv |-> 0, copy |-> 0, adr |-> "bad"]
  /\ AccessConditions = BrokenAcc
  /\ CipherKey = NoKey
  /\ Memory = InitialMemory
  /\ ReadOnly \in BOOLEAN
  /\ answer = "none"
  /\ session = NoSession /\ unlocked = FALSE /\ rewritten = FALSE
  /\ pending = NoPending /\ register = NoRegister

(* REQA and WUPA as frames of seven bits are answered in every state,      *)
(* except REQA in HALT.                                                    *)
WakeUpAnyState(cmd) ==
  /\ WakesUp(cmd, State = "HALT")
  /\ FromHalt' = (State = "HALT")
  /\ AccessAddress' = NoAddress
  /\ State' = "READY1"
  /\ UNCHANGED <<CurrentAddress, KeyInUse, BlockBuffer, AccessConditions, CipherKey, Memory, ReadOnly, register>>
  /\ Observe(Frame(cmd), "ATQA")

(* Any other frame that begins like one of them, in IDLE or HALT *)
WakeUpIdle(cmd) ==
  /\ State \in {"IDLE", "HALT"}
  /\ FromHalt' = (State = "HALT")
  /\ WakesUp(cmd, FromHalt')
  /\ State' = "READY1"
  /\ UNCHANGED <<CurrentAddress, KeyInUse, BlockBuffer, AccessConditions, AccessAddress, CipherKey, Memory, ReadOnly, register>>
  /\ Observe(Frame(cmd), "ATQA")

IgnoreIdle ==
  /\ State \in {"IDLE", "HALT"}
  /\ FromHalt' = (State = "HALT")
  /\ UNCHANGED <<State, CurrentAddress, KeyInUse, BlockBuffer, AccessConditions, AccessAddress, CipherKey, Memory, ReadOnly, register>>
  /\ Observe(Frame("OTHER"), "none")

(* A step that changes only the state of the machine *)
Becomes(s, f, a) ==
  /\ State' = s
  /\ UNCHANGED <<FromHalt, CurrentAddress, KeyInUse, BlockBuffer, AccessConditions, AccessAddress, CipherKey,
                 Memory, ReadOnly, register>>
  /\ Observe(f, a)

WokenAgain(cmd) ==
  /\ State \in {"READY1", "READY2", "ACTIVE"}
  /\ WakesUp(cmd, FromHalt)
  /\ Becomes(IF FromHalt THEN "HALT" ELSE "IDLE", Frame(cmd), "none")

Select ==
  /\ State \in {"READY1", "READY2"}
  /\ LET last == UidSize = 4 \/ State = "READY2"
     IN  /\ State' = IF last THEN "ACTIVE" ELSE "READY2"
         /\ AccessAddress' = IF last THEN NoAddress ELSE AccessAddress
  /\ UNCHANGED <<FromHalt, CurrentAddress, KeyInUse, BlockBuffer, AccessConditions, CipherKey, Memory, ReadOnly, register>>
  /\ Observe(Frame("SELECT"), "SAK")

(* Anticollision, and a select with another card's UID *)
Anticollision(a) ==
  /\ State \in {"READY1", "READY2"}
  /\ a \in {"UID", "none"}
  /\ Becomes(State, Frame("SELECT"), a)

ReadyUnknown ==
  /\ State \in {"READY1", "READY2"}
  /\ Becomes("HALT", Frame("OTHER"), "none")

CMD_HALT ==
  /\ State \in {"ACTIVE", "AUTHED_IDLE", "CHINESE_IDLE"}
  /\ Becomes("HALT", Frame("HALT"), "none")

(* A command with a bad checksum, or a HALT with a bad argument *)
Refused ==
  /\ State \in {"ACTIVE", "AUTHED_IDLE", "CHINESE_IDLE"}
  /\ Becomes(State, Frame("BAD"), "NAK")

(* READ_SIG of the EV1 cards, with or without the signature's key *)
CMD_SIG_READ(a) ==
  /\ State = "ACTIVE"
  /\ a \in {"none", "NAK"}
  /\ Becomes(State, Frame("SIG_READ"), a)

NotAuthed ==
  /\ State = "ACTIVE"
  /\ Becomes("IDLE", Frame("READ"), "NAK")

Unknown ==
  /\ State \in {"ACTIVE", "AUTHED_IDLE"}
  /\ Becomes("IDLE", Frame("OTHER"), "none")

(* Mutant: the reset leaves the state *)
MifareClassicAppResetSlip == Becomes(State, Frame("FIELD_LOST"), "none")

(* The field goes away: AntennaLevelTick resets the application *)
MifareClassicAppReset == Becomes("IDLE", Frame("FIELD_LOST"), "none")

----------------------------------------------------------------------------
(* Authentication *)

(* The first authentication always reads the access conditions, a nested   *)
(* one only those of a sector that is not the one they are held for.       *)
Authenticate(b, k, reload) ==
  LET start == SectorStart(b)
      trailer == Memory[TrailerOf(start)]
  IN  /\ KeyInUse' = k
      /\ CurrentAddress' = start
      /\ AccessConditions' = IF reload THEN AccOf(trailer) ELSE AccessConditions
      /\ AccessAddress' = IF reload THEN start ELSE AccessAddress
      /\ CipherKey' = KeyOf(trailer, k)
      /\ State' = "AUTHING"
      /\ UNCHANGED <<FromHalt, BlockBuffer, Memory, ReadOnly, register>>
      /\ Observe(AuthFrame(b, k), "nonce")

AuthFirst(b, k) == State = "ACTIVE" /\ Authenticate(b, k, TRUE)

(* Mutant: a nested authentication never reads the access conditions *)
AuthNestedSlip(b, k) == State = "AUTHED_IDLE" /\ Authenticate(b, k, FALSE)

AuthNested(b, k) == State = "AUTHED_IDLE" /\ Authenticate(b, k, SectorStart(b) # AccessAddress)

(* The reader's answer to the nonce, made with the key it knows *)
Authing(key) ==
  /\ State = "AUTHING"
  /\ IF key = CipherKey
     THEN Becomes("AUTHED_IDLE", Frame("RESPONSE"), "authed")
     ELSE Becomes("IDLE", Frame("RESPONSE"), "none")

----------------------------------------------------------------------------
(* Blocks *)

CMD_READ(b) ==
  /\ State = "AUTHED_IDLE"
  /\ CurrentAddress' = IF IsTrailer(b) THEN b ELSE CurrentAddress
  /\ UNCHANGED <<State, FromHalt, KeyInUse, BlockBuffer, AccessConditions, AccessAddress, CipherKey, Memory, ReadOnly, register>>
  /\ Observe(Frame("READ"),
             IF IsTrailer(b)
             THEN TrailorReads(GetAccessCondition(AccessConditions), KeyInUse)
             ELSE "data")

(* WRITE, DECREMENT, INCREMENT and RESTORE name a block and wait for data *)
BlockCommand(cmd, b) ==
  /\ State = "AUTHED_IDLE"
  /\ CurrentAddress' = b
  /\ State' = cmd
  /\ UNCHANGED <<FromHalt, KeyInUse, BlockBuffer, AccessConditions, AccessAddress, CipherKey, Memory, ReadOnly, register>>
  /\ Observe([cmd |-> cmd, block |-> b], "ACK")

Store(b, x) == Memory' = IF ReadOnly THEN Memory ELSE [Memory EXCEPT ![b] = x]

WriteData(x) ==
  /\ State = "WRITE"
  /\ Store(CurrentAddress, x)
  /\ State' = "AUTHED_IDLE"
  /\ UNCHANGED <<FromHalt, CurrentAddress, KeyInUse, BlockBuffer, AccessConditions, AccessAddress, CipherKey, ReadOnly, register>>
  /\ Observe(Frame("DATA"), "ACK")

(* A bad checksum of the data or of the operand *)
DataRefused ==
  /\ State \in {"WRITE", "DECREMENT", "INCREMENT", "RESTORE"}
  /\ Becomes("AUTHED_IDLE", Frame("DATA"), "NAK")

(* The operand of a value command: the block is read into BlockBuffer even *)
(* when it turns out to be no value block.                                 *)
ValueOperand(operand) ==
  LET x == Memory[CurrentAddress]
      asked == Memory[pending.block]
  IN  /\ State \in {"DECREMENT", "INCREMENT", "RESTORE"}
      /\ BlockBuffer' = IF CheckValueIntegrity(x)
                        THEN ValueToBlock(x, ValueAfter(State, x.v, operand))
                        ELSE x
      /\ State' = "AUTHED_IDLE"
      /\ register' = IF CheckValueIntegrity(asked)
                     THEN [v |-> ValueAfter(pending.op, asked.v, operand)]
                     ELSE NoRegister
      /\ UNCHANGED <<FromHalt, CurrentAddress, KeyInUse, AccessConditions, AccessAddress, CipherKey, Memory, ReadOnly>>
      /\ Observe(Frame("OPERAND"), IF CheckValueIntegrity(x) THEN "none" ELSE "NAK")

CMD_TRANSFER(b) ==
  /\ State = "AUTHED_IDLE"
  /\ Store(b, BlockBuffer)
  /\ UNCHANGED <<card, ReadOnly, register>>
  /\ Observe(Frame("TRANSFER"), "ACK")

----------------------------------------------------------------------------
(* The commands of "magic" cards, which need no key *)

CMD_CHINESE_UNLOCK ==
  /\ State \in {"IDLE", "HALT"}
  /\ FromHalt' = (State = "HALT")
  /\ State' = "CHINESE_IDLE"
  /\ UNCHANGED <<CurrentAddress, KeyInUse, BlockBuffer, AccessConditions, AccessAddress, CipherKey, Memory, ReadOnly, register>>
  /\ Observe(Frame("UNLOCK"), "ACK")

(* UNLOCK_RW and WIPE are acknowledged and do nothing else; a READ shows   *)
(* any block; any other command is ignored.                                *)
ChineseIdle(cmd) ==
  /\ State = "CHINESE_IDLE"
  /\ Becomes(State, Frame(cmd),
             CASE cmd \in {"UNLOCK_RW", "WIPE"} -> "ACK" [] cmd = "READ" -> "data" [] OTHER -> "none")

ChineseWriteCommand(b) ==
  /\ State = "CHINESE_IDLE"
  /\ CurrentAddress' = b
  /\ State' = "CHINESE_WRITE"
  /\ UNCHANGED <<FromHalt, KeyInUse, BlockBuffer, AccessConditions, AccessAddress, CipherKey, Memory, ReadOnly, register>>
  /\ Observe(Frame("WRITE"), "ACK")

ChineseWrite(x) ==
  /\ State = "CHINESE_WRITE"
  /\ Store(CurrentAddress, x)
  /\ State' = "CHINESE_IDLE"
  /\ UNCHANGED <<FromHalt, CurrentAddress, KeyInUse, BlockBuffer, AccessConditions, AccessAddress, CipherKey, ReadOnly, register>>
  /\ Observe(Frame("DATA"), "ACK")

ChineseWriteRefused ==
  /\ State = "CHINESE_WRITE"
  /\ Becomes("CHINESE_IDLE", Frame("DATA"), "NAK")

----------------------------------------------------------------------------
WakeUps ==
  \E cmd \in {"REQA", "WUPA"} : WakeUpAnyState(cmd) \/ WakeUpIdle(cmd) \/ WokenAgain(cmd)

Selection ==
  \/ IgnoreIdle \/ Select \/ ReadyUnknown \/ CMD_HALT \/ Refused \/ NotAuthed \/ Unknown
  \/ \E a \in {"UID", "none", "NAK"} : Anticollision(a) \/ CMD_SIG_READ(a)

Authentication ==
  \/ \E b \in Opened, k \in KeyNames : AuthFirst(b, k) \/ AuthNested(b, k)
  \/ \E key \in Keys : Authing(key)

ReadAndWrite ==
  \/ \E b \in Addressed :
       CMD_READ(b) \/ CMD_TRANSFER(b) \/ \E cmd \in {"WRITE", "DECREMENT", "INCREMENT", "RESTORE"} : BlockCommand(cmd, b)
  \/ \E x \in Written : WriteData(x)
  \/ \E operand \in Operands : ValueOperand(operand)
  \/ DataRefused

Magic ==
  \/ CMD_CHINESE_UNLOCK \/ ChineseWriteRefused
  \/ \E cmd \in {"UNLOCK_RW", "WIPE", "READ", "OTHER"} : ChineseIdle(cmd)
  \/ \E b \in Addressed : ChineseWriteCommand(b)
  \/ \E x \in Written : ChineseWrite(x)

Next == WakeUps \/ Selection \/ MifareClassicAppReset \/ Authentication \/ ReadAndWrite \/ Magic

Spec == Init /\ [][Next]_vars

----------------------------------------------------------------------------
(* Properties *)

ValueStates == {"DECREMENT", "INCREMENT", "RESTORE"}
Authed == {"AUTHED_IDLE", "WRITE"} \cup ValueStates
States == {"HALT", "IDLE", "CHINESE_IDLE", "CHINESE_WRITE", "READY1", "READY2", "ACTIVE", "AUTHING"} \cup Authed

(* The variables of the card and of the reader stay in their ranges *)
TypeOK ==
  /\ State \in States
  /\ FromHalt \in BOOLEAN /\ ReadOnly \in BOOLEAN
  /\ CurrentAddress \in Blocks /\ AccessAddress \in Sectors \cup {NoAddress}
  /\ KeyInUse \in KeyNames /\ CipherKey \in Keys \cup {NoKey}
  /\ BlockBuffer \in Contents /\ Memory \in [Blocks -> Contents]
  /\ AccessConditions \in Accs \cup {BrokenAcc}
  /\ session \in [sector : Sectors \cup {NoAddress}, key : KeyNames, proved : BOOLEAN]
  /\ unlocked \in BOOLEAN /\ rewritten \in BOOLEAN
  /\ pending \in [op : {"none"} \cup ValueStates, block : Blocks]
  /\ register \in [v : Words \cup {-1}]

Serves == answer' \in {"data", "gpb", "acc", "acc and key B"}

ServedStep ==
  /\ Serves \/ Memory' # Memory => session.proved \/ unlocked
  /\ Memory' # Memory => ~ReadOnly

(* A block is shown or stored only to a reader that has given the key the  *)
(* sector it opened asked for, and has not since let the card go (or that  *)
(* has unlocked a magic card), and nothing is stored in a read-only slot:  *)
(* whatever the order of wake-ups, refusals, losses of the field and       *)
(* nested authentications.                                                 *)
ServedToKeyHolder == [][ServedStep]_vars

(* The key and the access conditions the code goes by are those of the     *)
(* sector and the key the reader authenticated with last; the conditions   *)
(* are those of the trailer in memory, unless the trailer was rewritten    *)
(* after its sector was opened: a nested authentication to the sector that *)
(* is open does not read them again.                                       *)
OpenSector ==
  State \in Authed =>
    /\ AccessAddress = session.sector
    /\ KeyInUse = session.key
    /\ ~rewritten => AccessConditions = AccOf(Memory[TrailerOf(AccessAddress)])

(* What TRANSFER stores after a value command that succeeded, on whatever  *)
(* block and in whatever session, is a value block that holds the result   *)
(* of the command in all its copies; a refused checksum leaves the result  *)
(* of the command before.                                                  *)
ValueRegister ==
  register # NoRegister => CheckValueIntegrity(BlockBuffer) /\ BlockBuffer.v = register.v
=============================================================================
