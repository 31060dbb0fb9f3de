-------------------------- MODULE MifareUltralight --------------------------
(***************************************************************************)
(* The emulation of the MIFARE Ultralight cards                            *)
(* (Application/MifareUltralight.c: EV0, C and EV1) and of NTAG215         *)
(* (Application/NTAG215.c), which repeats the EV1 code without counters.   *)
(*                                                                         *)
(* A page holds one word.  The configuration pages hold AUTH0, the access  *)
(* word and the key, one after the other: the password of EV1 and NTAG, or *)
(* the key of C.  Triple DES is reduced to the key the reader answered     *)
(* with.  The code reads AUTH0, the access word and the key of C when the  *)
(* card is started, and only then.                                         *)
(*                                                                         *)
(* shown, level, proof and allowed are the reader's side: what the last    *)
(* answer showed, how far the card has been selected, when the right       *)
(* password or key was last given, and which page the last COMPAT_WRITE    *)
(* was granted for.  The code keeps none of them.                          *)
(***************************************************************************)
EXTENDS Integers, Iso14443A

CONSTANTS
  Flavors,            \* subset of {"EV0", "C", "EV1", "NTAG215"}
  MaxPage,            \* the largest page address of a command, 255 in the code
  PageCount,          \* the pages of the card
  MaxWord,            \* the largest word of a page
  ProtWords,          \* the access words of EV1 and NTAG that have CONF_ACCESS_PROT set
  UlcConfigPage,      \* the page of AUTH0 on C, 0x2A in the code
  UlcCounterPage,     \* the page address that stands for the counter of C, 0x29 in the code
  UlcCounterAt,       \* the page the counter of C is kept in: byte 0x29 is in page 10
  UlcCounterMax,      \* 0xffff in the code
  Nibble,             \* 16 in the code
  CounterMax,         \* CNT_MAX_VALUE, 0x00FFFFFF in the code
  IncrementCode,      \* CMD_INCREMENT_CNT, 0xA5 in the code
  Addressed,          \* bound: the pages that readers read and write
  Written,            \* bound: the words that readers write and keys they try
  Steps,              \* bound: the first byte of an increment
  Counted,            \* bound: the counters that readers increment
  InitialMemory

VARIABLES
  Flavor, State, FromHalt, ArmedForCompatWrite, CompatWritePageAddress, Authenticated,
  FirstAuthenticatedPage, ReadAccessProtected, TripleDesKey,
  Memory, ReadOnly,
  shown, level, proof, allowed

conf == <<Flavor, FirstAuthenticatedPage, ReadAccessProtected, TripleDesKey, ReadOnly>>
armed == <<ArmedForCompatWrite, CompatWritePageAddress, allowed>>
vars == <<conf, armed, State, FromHalt, Authenticated, Memory, shown, level, proof>>

----------------------------------------------------------------------------
Pages == 0..MaxPage
Words == 0..MaxWord
NoPage == {}

PAGE_WRITE_MIN == 2
CNT_MAX == 2

CounterPages == PageCount..(PageCount + CNT_MAX)

(* The first configuration page: AUTH0, then the access word, then the key *)
ConfigPage == IF Flavor = "C" THEN UlcConfigPage ELSE PageCount - 4

KeyPage == ConfigPage + 2

(* The addend of INCREMENT_CNT is put together from the command byte, the  *)
(* number of the counter and the first byte after it.                      *)
Addend(id, step) == IncrementCode + (MaxPage + 1) * id + (MaxPage + 1) * (MaxPage + 1) * step

ASSUME Layout ==
  /\ Flavors \subseteq {"EV0", "C", "EV1", "NTAG215"}
  /\ MaxPage \in Nat /\ MaxWord \in Nat /\ Nibble \in Nat \ {0}
  /\ PageCount \in 6..(MaxPage - CNT_MAX)
  /\ UlcConfigPage \in PAGE_WRITE_MIN..(PageCount - 3)
  /\ UlcCounterPage \in Pages /\ UlcCounterAt \in Pages
  /\ UlcCounterMax \in Words /\ CounterMax \in Words
  /\ Addressed \subseteq Pages /\ Written \subseteq Words
  /\ Steps \subseteq Nat /\ Counted \subseteq 0..CNT_MAX
  /\ \A w \in Written : w <= UlcCounterMax
  /\ InitialMemory \in [Pages -> Words]

(* Addends and counters in their range have 24 bits, words have 32         *)
ASSUME WordsAreWide ==
  \A id \in Counted, step \in Steps :
    Addend(id, step) \in Nat /\ CounterMax + Addend(id, step) <= MaxWord

----------------------------------------------------------------------------
(* When the right password or key was last given: since the card was last  *)
(* selected, before that but since the field came up, in an earlier field  *)
(* but since the card was started, or never since then.                    *)
Proofs == {"SELECTION", "FIELD", "START", "NEVER"}

(* The card leaves the selection *)
Deselected(since) == IF since = "SELECTION" THEN "FIELD" ELSE since

(* The field goes away, and with it the reader *)
FieldGone(since) == IF since = "NEVER" THEN "NEVER" ELSE "START"

----------------------------------------------------------------------------
(* Starting the card *)

(* Mutant: the whole word is taken for AUTH0 *)
Auth0Slip == IF Flavor = "EV0" THEN MaxPage ELSE Memory[ConfigPage]

(* FirstAuthenticatedPage and ReadAccessProtected as the code finds them   *)
(* in the memory: AUTH0 is one byte of its word.                           *)
Auth0 == IF Flavor = "EV0" THEN MaxPage ELSE Memory[ConfigPage] % (MaxPage + 1)

Protected ==
  CASE Flavor = "EV0" -> FALSE
    [] Flavor = "C" -> Memory[ConfigPage + 1] = 0
    [] OTHER -> Memory[ConfigPage + 1] \in ProtWords

Init ==
  /\ Flavor \in Flavors /\ ReadOnly \in BOOLEAN
  /\ Memory = InitialMemory
  /\ State = "IDLE" /\ FromHalt = FALSE
  /\ ArmedForCompatWrite = FALSE /\ CompatWritePageAddress = 0
  /\ Authenticated = FALSE
  /\ FirstAuthenticatedPage = Auth0 /\ ReadAccessProtected = Protected /\ TripleDesKey = Memory[KeyPage]
  /\ shown = {} /\ level = 0 /\ proof = "NEVER" /\ allowed = NoPage

(* Mutant: a card that is started again stays armed *)
AppInitSlip ==
  /\ State' = "IDLE" /\ FromHalt' = FALSE /\ Authenticated' = FALSE
  /\ FirstAuthenticatedPage' = Auth0 /\ ReadAccessProtected' = Protected /\ TripleDesKey' = Memory[KeyPage]
  /\ shown' = {} /\ level' = 0 /\ proof' = "NEVER" /\ allowed' = NoPage
  /\ UNCHANGED <<Flavor, Memory, ReadOnly, ArmedForCompatWrite, CompatWritePageAddress>>

(* The configuration or the slot is set again *)
AppInit ==
  /\ State' = "IDLE" /\ FromHalt' = FALSE /\ Authenticated' = FALSE
  /\ ArmedForCompatWrite' = FALSE
  /\ FirstAuthenticatedPage' = Auth0 /\ ReadAccessProtected' = Protected /\ TripleDesKey' = Memory[KeyPage]
  /\ shown' = {} /\ level' = 0 /\ proof' = "NEVER" /\ allowed' = NoPage
  /\ UNCHANGED <<Flavor, Memory, ReadOnly, CompatWritePageAddress>>

(* Mutant: C forgets no more than the others *)
AppResetSlip ==
  /\ State' = "IDLE"
  /\ UNCHANGED Authenticated
  /\ shown' = {} /\ level' = 0 /\ proof' = FieldGone(proof)
  /\ UNCHANGED <<conf, armed, FromHalt, Memory>>

(* The field goes away: only C forgets that the reader was authenticated *)
AppReset ==
  /\ State' = "IDLE"
  /\ IF Flavor = "C" THEN Authenticated' = FALSE ELSE UNCHANGED Authenticated
  /\ shown' = {} /\ level' = 0 /\ proof' = FieldGone(proof)
  /\ UNCHANGED <<conf, armed, FromHalt, Memory>>

(* The user sets or clears READONLY on the command line *)
SetReadOnly ==
  /\ ReadOnly' = ~ReadOnly
  /\ shown' = {}
  /\ UNCHANGED <<Flavor, FirstAuthenticatedPage, ReadAccessProtected, TripleDesKey, armed, State, FromHalt,
                 Authenticated, Memory, level, proof>>

----------------------------------------------------------------------------
(* Selection *)

(* A step that changes only the state of the machine *)
Becomes(s, l) ==
  /\ State' = s /\ level' = l /\ shown' = {}
  /\ proof' = IF l = 0 THEN Deselected(proof) ELSE proof
  /\ UNCHANGED <<conf, armed, FromHalt, Authenticated, Memory>>

WakeUp(cmd) ==
  /\ State \in {"IDLE", "HALT"}
  /\ FromHalt' = (State = "HALT")
  /\ IF WakesUp(cmd, FromHalt') THEN State' = "READY1" /\ level' = 1
                                ELSE UNCHANGED <<State, level>>
  /\ shown' = {}
  /\ UNCHANGED <<conf, armed, Authenticated, Memory, proof>>

WokenAgain(cmd) ==
  /\ State \in {"READY1", "READY2", "ACTIVE"}
  /\ WakesUp(cmd, FromHalt)
  /\ Becomes(IF FromHalt THEN "HALT" ELSE "IDLE", 0)

(* Mutant: one cascade level is enough *)
SelectSlip ==
  /\ State \in {"READY1", "READY2"}
  /\ Becomes("ACTIVE", level + 1)

(* The reader names the whole UID of the cascade level *)
Select ==
  /\ State \in {"READY1", "READY2"}
  /\ Becomes(IF State = "READY1" THEN "READY2" ELSE "ACTIVE", level + 1)

(* Anticollision, and a select with another card's UID *)
Anticollision ==
  /\ State \in {"READY1", "READY2"}
  /\ Becomes(State, level)

ReadyUnknown ==
  /\ State \in {"READY1", "READY2"}
  /\ Becomes("IDLE", 0)

(* A frame that is too short for a command with a checksum *)
ShortFrame ==
  /\ State = "ACTIVE"
  /\ Becomes("IDLE", 0)

BadChecksum ==
  /\ State = "ACTIVE"
  /\ Becomes(State, level)

----------------------------------------------------------------------------
(* Commands *)

(* AppProcess takes the frame for a command unless it is armed *)
Command == State = "ACTIVE" /\ ~ArmedForCompatWrite

CMD_HALT == Command /\ Becomes("HALT", 0)

Unknown == Command /\ Becomes("IDLE", 0)

(* A command with a bad argument, and those that only tell: GET_VERSION,   *)
(* READ_SIG, CHECK_TEARING_EVENT, READ_CNT and VCSL                        *)
Told == Command /\ Becomes(State, level)

VerifyAuthentication(p) ==
  \/ Flavor = "EV0"
  \/ Authenticated
  \/ p < FirstAuthenticatedPage

Shows(pages) ==
  /\ shown' = pages
  /\ UNCHANGED <<conf, armed, State, FromHalt, Authenticated, Memory, level, proof>>

(* Mutant: who is not authenticated reads to the last page *)
PageLimitSlip == IF Flavor = "C" THEN KeyPage ELSE PageCount

(* Where READ wraps around: at the first protected page, at the key of C,  *)
(* or after the last page                                                  *)
PageLimit ==
  IF Flavor # "EV0" /\ ReadAccessProtected /\ ~Authenticated
  THEN FirstAuthenticatedPage
  ELSE IF Flavor = "C" THEN KeyPage ELSE PageCount

FourPages(p, limit) == {(p + i) % limit : i \in 0..3}

CMD_READ(p) ==
  /\ Command
  /\ Shows(IF p < PageLimit THEN FourPages(p, PageLimit) ELSE {})

CMD_FAST_READ(p, q) ==
  /\ Command /\ Flavor \in {"EV1", "NTAG215"}
  /\ Shows(IF /\ p <= q /\ q < PageCount
              /\ ReadAccessProtected => VerifyAuthentication(p) /\ VerifyAuthentication(q)
           THEN p..q
           ELSE {})

Store(p, x) == Memory' = IF ReadOnly THEN Memory ELSE [Memory EXCEPT ![p] = x]

(* IncrementCounter of C: the first increment sets the counter, the others *)
(* add a nibble unless that is too much.  READONLY does not matter.        *)
IncrementCounter(x) ==
  LET counter == Memory[UlcCounterAt]
      step == x % Nibble
  IN  Memory' = CASE counter = 0 -> [Memory EXCEPT ![UlcCounterAt] = x]
                  [] counter # 0 /\ counter + step <= UlcCounterMax -> [Memory EXCEPT ![UlcCounterAt] = counter + step]
                  [] OTHER -> Memory

CountsOnC(p) == Flavor = "C" /\ p = UlcCounterPage

(* What the code asks for when it asks for the password: a C card, that it *)
(* was given in this field; EV1 and NTAG, that it was given since the card *)
(* was started, whoever gave it.                                           *)
Leave ==
  CASE Flavor = "EV0" -> TRUE
    [] Flavor = "C" -> proof \in {"SELECTION", "FIELD"}
    [] OTHER -> proof # "NEVER"

MayWrite(p) == p \in PAGE_WRITE_MIN..(PageCount - 1) /\ VerifyAuthentication(p)

CMD_WRITE(p, x) ==
  /\ Command
  /\ IF CountsOnC(p) THEN IncrementCounter(x)
                     ELSE IF MayWrite(p) THEN Store(p, x) ELSE UNCHANGED Memory
  /\ shown' = {}
  /\ UNCHANGED <<conf, armed, State, FromHalt, Authenticated, level, proof>>

CMD_COMPAT_WRITE(p) ==
  /\ Command /\ MayWrite(p)
  /\ ArmedForCompatWrite' = TRUE /\ CompatWritePageAddress' = p
  /\ allowed' = IF p < FirstAuthenticatedPage \/ Leave THEN {p} ELSE NoPage
  /\ shown' = {}
  /\ UNCHANGED <<conf, State, FromHalt, Authenticated, Memory, level, proof>>

(* Whatever frame with a good checksum comes next is the data, however the *)
(* card came to be selected since.                                         *)
CompatWriteData(x) ==
  /\ State = "ACTIVE" /\ ArmedForCompatWrite
  /\ ArmedForCompatWrite' = FALSE
  /\ IF CountsOnC(CompatWritePageAddress) THEN IncrementCounter(x) ELSE Store(CompatWritePageAddress, x)
  /\ allowed' = NoPage
  /\ shown' = {}
  /\ UNCHANGED <<conf, CompatWritePageAddress, State, FromHalt, Authenticated, level, proof>>

CMD_PWD_AUTH(password) ==
  /\ Command /\ Flavor \in {"EV1", "NTAG215"}
  /\ IF password = Memory[KeyPage] THEN Authenticated' = TRUE /\ proof' = "SELECTION"
                                   ELSE UNCHANGED <<Authenticated, proof>>
  /\ shown' = {}
  /\ UNCHANGED <<conf, armed, State, FromHalt, Memory, level>>

(* Mutant: the sum is cut to the width of a counter before it is compared *)
CounterAfterSlip(counter, addend) == (counter + addend) % (CounterMax + 1)

(* 32-bit addition *)
CounterAfter(counter, addend) == (counter + addend) % (MaxWord + 1)

CMD_INCREMENT_CNT(id, step) ==
  LET counter == CounterAfter(Memory[PageCount + id], Addend(id, step))
  IN  /\ Command /\ Flavor = "EV1"
      /\ Memory' = IF counter <= CounterMax THEN [Memory EXCEPT ![PageCount + id] = counter] ELSE Memory
      /\ shown' = {}
      /\ UNCHANGED <<conf, armed, State, FromHalt, Authenticated, level, proof>>

CMD_ULC_AUTH == Command /\ Flavor = "C" /\ Becomes("AUTH", level)

(* The reader's answer to the nonce, made with the key it knows *)
ULC_AUTH_2(key) ==
  /\ State = "AUTH" /\ key = TripleDesKey
  /\ State' = "ACTIVE" /\ Authenticated' = TRUE /\ proof' = "SELECTION"
  /\ shown' = {}
  /\ UNCHANGED <<conf, armed, FromHalt, Memory, level>>

(* Any other frame, a wake-up too; who was authenticated before stays so *)
AuthFailed == State = "AUTH" /\ Becomes("IDLE", 0)

----------------------------------------------------------------------------
Starts == AppInit \/ AppReset \/ SetReadOnly

Selection ==
  \/ \E cmd \in {"REQA", "WUPA", "OTHER"} : WakeUp(cmd) \/ WokenAgain(cmd)
  \/ Select \/ Anticollision \/ ReadyUnknown \/ ShortFrame \/ BadChecksum

Reads ==
  \/ CMD_HALT \/ Unknown \/ Told
  \/ \E p \in Addressed : CMD_READ(p) \/ \E q \in Addressed : CMD_FAST_READ(p, q)

Writes ==
  \/ \E p \in Addressed : CMD_COMPAT_WRITE(p) \/ \E x \in Written : CMD_WRITE(p, x)
  \/ \E x \in Written : CompatWriteData(x)
  \/ \E id \in Counted, step \in Steps : CMD_INCREMENT_CNT(id, step)

Authentication ==
  \/ CMD_ULC_AUTH \/ AuthFailed
  \/ \E key \in Written : CMD_PWD_AUTH(key) \/ ULC_AUTH_2(key)

Next == Starts \/ Selection \/ Reads \/ Writes \/ Authentication

Spec == Init /\ [][Next]_vars

----------------------------------------------------------------------------
(* Properties *)

(* The variables of the card and of the reader stay in their ranges; an    *)
(* answer shows pages that a page address can name.                        *)
TypeOK ==
  /\ Flavor \in Flavors
  /\ State \in {"IDLE", "HALT", "READY1", "READY2", "ACTIVE", "AUTH"}
  /\ FromHalt \in BOOLEAN /\ ReadOnly \in BOOLEAN /\ Authenticated \in BOOLEAN
  /\ ArmedForCompatWrite \in BOOLEAN /\ CompatWritePageAddress \in Pages
  /\ FirstAuthenticatedPage \in Pages /\ ReadAccessProtected \in BOOLEAN /\ TripleDesKey \in Words
  /\ Memory \in [Pages -> Words]
  /\ shown \subseteq Pages /\ level \in 0..3 /\ proof \in Proofs /\ allowed \in SUBSET Pages

ShownStep ==
  \A p \in shown' :
    /\ ReadAccessProtected /\ ~Leave => p < FirstAuthenticatedPage
    /\ Flavor = "C" /\ p >= KeyPage => ReadAccessProtected /\ FirstAuthenticatedPage > KeyPage
    /\ p >= PageCount => ReadAccessProtected /\ FirstAuthenticatedPage > PageCount

(* READ, which wraps around, and FAST_READ, which checks the ends of its   *)
(* range, show a page that is protected against reading only to a reader   *)
(* with leave: on C, the password was given since the field came up; on    *)
(* EV1 and NTAG, it was given since the card was started, and a later      *)
(* reader is served too.  The key of a C card and what lies behind the     *)
(* last page are never shown, unless a card protected against reading has  *)
(* its AUTH0 behind them.                                                  *)
ShownWithLeave == [][ShownStep]_vars

StoredStep ==
  \A p \in Pages :
    Memory'[p] # Memory[p] =>
      \/ Flavor = "C" /\ p = UlcCounterAt
      \/ Flavor = "EV1" /\ p \in CounterPages
      \/ /\ ~ReadOnly
         /\ p \in PAGE_WRITE_MIN..(PageCount - 1)
         /\ Leave \/ p < FirstAuthenticatedPage \/ p \in allowed

(* Apart from the counters, a page is changed only in a slot that may be   *)
(* written, and a protected one only with leave (as above) or as the page  *)
(* a COMPAT_WRITE was granted for: what remains armed when the card is     *)
(* halted, woken up again, loses its field or is started again never       *)
(* reaches another page.                                                   *)
StoredWithLeave == [][StoredStep]_vars

CountersStep ==
  Flavor = "EV1" =>
    \A p \in CounterPages : Memory[p] <= CounterMax => Memory'[p] \in Memory[p]..CounterMax

(* A one-way counter of EV1 that is in its range of 24 bits never goes     *)
(* back and never leaves it: not when an increment would overflow, nor by  *)
(* any other command.  One that a CLEAR or an uploaded dump has left above *)
(* it goes back once: the sum wraps in its 32 bits.                        *)
CountersOnlyRise == [][CountersStep]_vars

SelectedStep == shown' # {} \/ Memory' # Memory => level = 3

(* Pages are shown and stored only for a reader that has taken the card    *)
(* through both cascade levels since the last time it was woken up, fell   *)
(* silent or failed to authenticate.                                       *)
SelectedFirst == [][SelectedStep]_vars
=============================================================================
