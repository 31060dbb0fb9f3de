# Verification of the ChameleonMini firmware

These TLA+ modules model the parts of the ChameleonMini firmware
(`src/Firmware/Chameleon-Mini`) whose correctness depends on the order of events:
bytes, ticks and interrupts arriving in any order, power going away between two
writes, a host that retries, a card that is swapped. TLC checks each module on a
small instance; TLAPS proves the invariants that matter most for every value of
the constants.

## 1. The system

The firmware runs on one ATxmega. There is no operating system: `main`
(`Chameleon-Mini.c:3-38`) initialises every component and then loops. At every tick
(128 ms, `System.h:23`, called 100 ms in the code) it calls the tick functions (LED, pin, random, terminal, button, application, log,
command line, antenna level); in every turn it calls the application, codec, log and
terminal tasks. Everything in that loop is atomic with respect to everything else in
it; only the interrupt handlers of the codec run in between, of which the one of the ISO 15693
sniffer also logs (`Codec/SniffISO15693.c:302`), and the power may go away at any instruction. Three memories survive that: the FRAM (working memory of the
active slot, and the stored log), the flash (one stored image per slot) and the
EEPROM (`StoredSettings`).

| Component | State it keeps | Operations | Interacts with |
| --- | --- | --- | --- |
| XMODEM (`Terminal/XModem.c`) | `State`, two frame numbers, `BufferIdx`, `BlockAddress`, retry counters | arm receive / send, one byte, one tick | Terminal feeds it bytes and ticks; callbacks into Memory and Log |
| ChamTool transfers (`Software/ChamTool/Chameleon/XModem.py`, `Device.py`) | packet number, file | upload, download, connect | the serial line to XMODEM |
| Event log (`Log.c`) | SRAM buffer with pointer and space left, FRAM address and its valid flag | append, tick, move to FRAM, clear, mode, download block | called by every component; Settings chooses the mode; FRAM |
| Live log (`LiveLogTick.h`) | list of entries in the same SRAM buffer | append, send, free | shares `LogMem` with the log |
| Settings (`Settings.c`) | `GlobalSettings`, `StoredSettings` in EEPROM | load, save, cycle, select | Memory, Configuration, Log, CommandLine |
| Memory (`Memory.c`) | FRAM, flash pages, EEPROM | store, recall, clear, upload and download block | everything that emulates a card |
| Configuration (`Configuration.c`) | the active table of codec and application functions | init, set | codecs, applications, CommandLine |
| Command line (`Terminal/CommandLine.c`, `Commands.c`) | `TerminalBuffer`, the pending task, its timeout callback | byte, tick, break, finish | dispatches to every component |
| Terminal (`Terminal/Terminal.c`) | USB state | byte, task, tick | XMODEM or CommandLine |
| Buttons (`Button.c`) | two press counters | tick, action | Settings, Memory, Log, CommandLine, applications |
| ISO 14443A card codec (`Codec/ISO14443-2A.c`) | demodulator and load modulator registers, flags | three interrupt handlers, task | calls the application with each frame |
| ISO 14443A reader codec and field (`Codec/Reader14443-2A.c`, `Codec.c`) | flags, field timestamps | start, reset, task, interrupt handlers; field start / stop / restart | reader application |
| Reader application (`Application/Reader14443A.c`) | select state, current command, page address, card data | one call per answer or silence | command line (pending task), Memory, Configuration |
| Sniffers (`Codec/Sniff*.c`, `Application/Sniff*.c`) | sniffer state, thresholds | interrupt handlers, process | command line (autocalibration), log |
| Cards: MIFARE Classic, Ultralight, NTAG215, DESFire | protocol and authentication state, cached access conditions | init, reset, process, UID access | codec, FRAM |
| Cards: ISO 15693 family (Vicinity, SL2S2002, Tag-it, EM4233) | select / quiet state, lock bits | init, reset, process | ISO 15693 codec, FRAM |
| LED, Pin, Random, AntennaLevel, Map, Common, System | counters, tables | ticks, conversions | main loop |

### What is hard

* Power loss between two of the writes that belong together (log bytes and log
  address; flash page and flash page; recalled memory and active slot).
* Ticks and commands between two blocks of a transfer that reads what they change.
* Counters that wrap (`CurrentFrameNumber`, `LogMemLeft`, value blocks) and buffers filled to the last byte.
* Answers, timeouts and breaks of a pending task that arrive after the task is over.
* State that is meant to live for one operation and lives longer (static variables
  of the reader, cached access conditions of a card, callbacks of the command line).

## 2. Plan

Order of work, the most important behaviour first. Modules in **bold** exist.

| Step | Modules | What for | Abstract specification | Proofs |
| --- | --- | --- | --- | --- |
| 1 | **XModem**, **XModemUpload**, **XModemDownload**, **XModemRetry**, **XModemLink** | the way data gets in and out; two programs that must agree | **FileTransfer** | **XModemProofs**, **XModemLinkProofs** |
| 2 | **Log** | volatile and permanent memory that must add up to one log | **EventLog** | **LogProofs** |
| 3 | **Settings** | slots in FRAM, flash and EEPROM, written in pieces | **SlotMemory** | **SettingsProofs** |
| 4 | **CommandLine**, **ReaderCodec**, **Reader** | pending tasks, interrupts, a card that comes and goes | - | **ReaderProofs** |
| 5 | **Iso14443A**, **MifareClassic**, **MifareUltralight** (with NTAG215) | authentication and cached access conditions, compatibility write, counters, value blocks | the reader's side, kept as history | **MifareClassicProofs**, **MifareUltralightProofs** |
| 6 | **LiveLog** | the list of live entries in the memory of the log, sent with interrupts on | a queue of entries | **LiveLogProofs** |
| - | Sniffer (autocalibration), Buttons, CardCodec (order of interrupts and task) | not built, see section 7 | - | - |

No safety property of a run that passes is without its theorem; open are the four liveness properties, which
the prover cannot do (section 5).

## 3. The modules

### XMODEM

`XModem` is the device: one action per case of the switch in `XModemProcessByte`, one per
case of `XModemTick`, the two arming functions, and the callbacks `MemoryUploadBlock` and
`MemoryDownloadBlock` with the memory they work on. The variables carry the names of the C
statics; `BlockAddress` counts blocks instead of bytes. `out` is what a step hands to
`TerminalSendByte`. The 8-bit arithmetic wraps at `ByteMod`.

Three hosts talk to it, each in a module of its own that takes a byte at a time off a line:
ChamTool sending (`XModemUpload`) and receiving (`XModemDownload`), translated from
`XModem.py` and `Device.py`, and the sender of a terminal program (`XModemRetry`), which is
not in the repository and is modelled as the manual uses it (external). `XModemLink` puts
them side by side: `scenario` picks one for the whole behaviour. The cable may be pulled in an
upload; connecting again (`Connect`) is what `Device.connect` sends, the escape byte and the
line `VERSION?`, and `ConnectReturns` is its answer. `joined` is a history variable: a block
was completed by these bytes. `Prompt` says whether either
side may wait out a timeout of the other. `FileTransfer` is what a transfer promises.

### Log

`Log` is `Log.c` in the modes OFF and MEMORY: entries, the tick, the move to the FRAM whole
or in part, clearing, the mode, `LogInit`, and the block a download reads. Nothing in that file
switches interrupts off and the ISO 15693 sniffer logs from one, so an append, a move and a
clear are steps, `step` naming the next: `TestRoom`, `TakeRoom`, `WriteEntry`; `CopyAll`,
`CountCopied`, then `LogSRAMClear` in three steps; `CopyPart`, `MoveUp`, `MovePtr`,
`CountMoved`; `StoreAddr` ends moves and clears. `Interrupted` is an entry logged between two
statements, `InterruptedInUpdate` one between the load and the store of a counter, whose
effect on that counter may be lost. `torn` remembers that one came where it does harm, until
`LogMem` is emptied; when such a counter leads out of `LogMem` or of the FRAM, the model stops
(`overrun`). Power is lost between any two steps and inside the write of a move and `LogInit`.
RAM, FRAM and EEPROM are separate variables, so that a loss of power clears what it clears.
`EventLog` is the promise: one sequence of bytes that only grows, of which a known part
survives. What an interrupt at the wrong moment does to it is `Tear`: anything to the bytes
that are not permanent, and nothing to those that are.

### Settings

`Settings` cuts every call that writes permanent memory into steps, one write each; `step`
names the next, `page` the page of a transfer, and `Restart` may come before any of them.
`After` is the order of the steps in the code. A pending clone is a flag here, with the slot
it was asked for as history. `SlotMemory` is the promise: a slot is left only when its whole
memory is saved, another taken up in one step.

### Reader

`CommandLine` is the pending task of the command line. `ReaderCodec` is the codec under the
application: its flags, the frame on the air, the field, and the card in it. The codec has two
interrupts (`DelayEnds`, `AnswerEnds`) and one entry from the main loop (`CodecTaskReady`,
`Called`, `Return`); its functions map a codec to the codec after the call. A card reacts to a
frame as ISO 14443 says (`Reaction`, external). An answer has a kind, the card it comes from
and a number; "bad" stands for every failed check. `Reader` has one action per command of
`Reader14443AAppProcess`, each the whole call, and one per event from outside: commands,
timeout, change of configuration, the field button, an exchanged card. `fresh` and `slot`
are history variables of properties.

### Cards

`Iso14443A` has the wake-up that all cards share. `MifareClassic` has one action per case of
the switch in `MifareClassicAppProcess`, or per command within it, each the whole answer to
one frame, and `MifareClassicAppReset` for a lost field. Crypto1 is reduced to the key it was
set up with: a reader that answers the nonce has that key or not. A block is a trailer (two
keys and access bytes) or four words. `KeyInUse`, `AccessAddress`, `AccessConditions`,
`BlockBuffer` and `CurrentAddress` are the statics of the C file. What a reader can tell from
frames and answers alone is kept beside them (`session`, `unlocked`, `rewritten`, `pending`,
`register`); the properties compare the two.

`MifareUltralight` has the flavors EV0, C and EV1, and NTAG215, whose file repeats the code of
EV1. A page holds one word, Triple DES is reduced to the key. AUTH0, the protection and the
key of C are read when the card is started (`AppInit`), as in the code, so that a write to
their pages does not change what is in force. `proof`, `allowed`, `level` and `shown` are the
reader's side. `proof` says when the right password or key was last given: in this selection,
since the field came up, in an earlier field since the card was started, or never; halting, a
failed authentication and the loss of the field age it, whatever the flag `Authenticated` does.
`Leave` states what the code asks for in these terms: on C, a password given in this field;
on EV1 and NTAG215 one given at any time since the card was started, by whatever reader.

The 4K card of MIFARE Classic has a block 255, and the 0xff that `AccessAddress` holds to
"force reload" is that number too. `NoAddress` is therefore a constant of its own, and the
instance has it equal to its last block, as on that card.

### Live log

`LiveLog` is `LiveLogTick.h` with the parts of `Log.c` that use the same memory. An append is
one step, because it switches interrupts off. An append of mode MEMORY, a clear and a move are
steps as in `Log` (`step`; `GoOn` is the main loop going on in one). `LiveLogTick` is one step per statement that an
interrupt can fall behind: the copy of the first node (`Starts`), the sending (`SendBlock`),
the copy of the next node together with the load of the count (`NextBlock`), the store of the
count (`Counted`), the first assignment of `FreeLogBlocks` (`LoopEnds`) and the others
(`TickEnds`). `Interrupted`, `InterruptedFull` and `InterruptedMemory` are entries that the
ISO 15693 sniffer logs in between (`Codec/SniffISO15693.c:302`), in the mode that is set. `LogMem` is an array of cells in which
nodes and bytes lie where the code puts them; once a command or a late interrupt has
disturbed the chain, the memory and any copied node can be anything until `LogMem` is emptied
(`orderly`, and `Wild` for where such a node points). `torn` and `overrun` are as in `Log`.

A definition whose name ends in `Slip` is the definition of the same name with a plausible
error in it. No specification uses one; they are what a property must be able to tell from
the code.

## 4. What the runs show

| Run | Bounds | What it shows |
| --- | --- | --- |
| `xmodem_device` | 7 byte values, blocks of one byte, 2 blocks | any bytes and ticks: buffer, numbering, an ACK means the block is stored, nothing else is ever stored |
| `xmodem_link` | 7 frame numbers, 8 blocks of memory, files of 9 and 3 blocks, 2 faults or 1 cut | a prompt ChamTool and a repeating sender over a faulty line implement FileTransfer; with a slow ChamTool, a damaged byte or a cable pulled and plugged in again blocks stay intact and in order, but for one that ends in bytes of the new connection; the line is given back |
| `xmodem_nak` | the same | violated: a NAK in the middle of a download does not resend |
| `log` | 4 cells of SRAM, 3 of FRAM, entries of 1 to 3 cells, those of 1 and 2 from interrupts too | the log implements EventLog whatever interrupts log between its steps, except that one in the middle of a move, a clear or an append can spoil what is in SRAM; downloads see it, moves do not show, LogTick empties the SRAM |
| `log_clear` | the same | violated: LOGCLEAR leaves bytes that a download returns |
| `settings` | 3 slots of 2 pages, 3 configurations | slots implement SlotMemory, RAM and EEPROM agree, a clone never changes its slot |
| `settings_loss` | the same, power lost anywhere | violated: power lost inside a slot change loses the old slot's memory |
| `live_log` | 14 cells, entries of 1 and 2, a tick in 2, moves of 4 | entries are sent whole, once, in order with interrupts between any two steps of the sending; free space adds up unless one came inside a clear, a move or a MEMORY append; whatever disturbs the chain, it is flushed again |
| `mifare_classic` | 3 sectors, 8 blocks, 2 keys, 2 access conditions, words 0 to 2 | blocks are served to who proved the key, by the conditions of the open sector; TRANSFER stores results |
| `mifare_ultralight` | 4 flavors, 8 pages, 3 of them written, 2 words, 2 counters | protected pages are neither shown nor stored without a password given as recently as the code means to ask for, counters in their 24 bits never fall, nothing before selection |
| `reader` | 2 cards (UID of two and of one level, one speaking ISO 14443-4), 2 blocks, 1 disturbance per task | no task hangs the command line, a selected card is one card, blocks are of it, the field goes off, a card that stays is read |
| `reader_clone` | 2 Ultralights, 2 blocks, 1 disturbance | violated: a clone after a clone that timed out mixes two cards |

The bounds are chosen so that the interesting cases happen. Seven frame numbers and nine
blocks make the number wrap inside a file; the values include every control byte, also as
data. Three cells of FRAM are less than four of SRAM, so a move can be whole, partial or
impossible, and an entry of three cells can exactly fill what is left. Three slots leave one
that a change does not concern, and two pages have a place between them where power can go
away. A disturbance is one of: an answer lost or damaged, a card exchanged, a change of
configuration, the field toggled, a clone started by a button while another task is pending.
They are counted anew for every task (`MaxDisturbances`), and tasks follow each other without
bound, so that what one leaves behind meets the next: that is how `reader_clone` fails.
`MaxFaults` and `MaxCuts` bound damaged bytes and pulled cables, `StaleAddrs` is what a FRAM
holds before its first use, `Values` what a page can hold.

MIFARE Classic has sectors of both kinds, two of which are opened with two keys, so that a
nested authentication can go to the same and to another sector, and words of two bits, so
that a value command wraps. `ReadOnly` is chosen at the start. The Ultralight cards have eight
pages; AUTH0 is behind the key page, at 0 and at a byte behind the last page; words are wider
than a page address and than a counter, as in the code; counter 0 begins with zero and counter 1
with all bits set, which is what CLEAR leaves. With the escape byte and the two
bytes of `VersionCommand` connecting can make up a whole block of two bytes and its checksum. The live log has room for three
blocks; some mixes of entries of one and two cells end one cell behind `LogMem`. A count of
two bits wraps when an interrupt empties the list under the loop.

Deadlock is checked in every run.

### Fairness

Safety properties need none. `LogReachesFRAM` assumes weak fairness of `LogTick`, which the
main loop calls at every tick (`Chameleon-Mini.c:28`), and of the next step of a call that has
begun (`MoveOn`, `AppendEntry`): the processor goes on when an interrupt returns. `TransferEnds` assumes that the main
loop keeps taking bytes off the line, that ticks pass and that the reads of the host return;
nobody has to start a transfer. `TaskEnds` assumes that the main loop calls the codec and that
its interrupts come (`Process \/ Air`); nobody has to press a button, remove a card or wait
for a timeout. It speaks of a card that stays, hears the reader and can be read.
`ListIsFlushed` assumes the same of `LiveLogTick` and `GoOn`, and strong fairness of `LogTick`:
between two commands the main loop is back in its loop and calls it when 100 ms are over, so
no sequence of commands, each of which is now several steps, keeps it away.

## 5. What is proved

All theorems hold for every value of the constants that satisfies the named assumptions,
which TLC evaluates on the instances of the runs.

* `XModemProofs`: types, `BufferInRange`, `FrameNumberTracksAddress`, `AckIsCommit`,
  `OnlyAcceptedBlocksStored`. The three state predicates are inductive together. That frame
  number and address stay in step rests on the number of addresses being a multiple of the
  number of bytes (`SizeAssumption`, 2^25 blocks and 256). Then the lemmas the link needs: what
  the checksum tells apart (`OneByteChangesChecksum`: a sum of bytes modulo their number
  changes with any single byte), and how the device takes the k-th byte of a frame (`Place` is
  k, `Started` says that what it has taken is of this frame).
* `XModemLinkProofs`: `TransferIsFaithful`, `IntactAndInOrder` and `AckedBlocksStored`, about
  device, line and host together, for files of any length below the number of addresses. Each
  kind of host has its inductive invariant, and each says which bytes are on the line:
  * `UpInv`, a prompt ChamTool sending: one frame, or one answer, is under way; the frame has the
    number the device expects, and the device is as far in it as bytes are missing from the line.
    Neither side may wait out a timeout (`Prompt`), otherwise a second NAK of the device would
    be taken for an answer; this is where `HOST_TIMEOUT` must not be 0.
  * `RetryInv`, a repeating sender: one frame, at most one data byte of it damaged, in the part
    the device has already taken or takes next; or its answer, or nothing when that was lost.
    The block address is the sender's block number or one more. A damaged frame never passes the
    checksum, and one that was stored before is acknowledged again but not stored twice.
  * `DownInv`, ChamTool receiving, both promptly and not: one frame, one request, EOT, or too
    little for a frame, in which case the host runs into its timeout (`Stuck`). What has been
    received are blocks before the one under way, in the order of the file; undamaged, they are
    the first ones of the file and the number of the frame is the one expected.
  * `SlowInv`, a ChamTool that does not wait: any number of whole frames lies on the line behind
    the one the device is in, their numbers may be any, then perhaps EOT, and a cable pulled
    anywhere cuts that off. What is stored are blocks before the p-th of the file, in its order,
    and the device takes the p-th next. The bytes of the next connection can be taken for the
    rest of a frame. If one of them is its checksum by chance, the device stores a block
    that is none of the file; it is the last of the transfer, and the only one (`joined`).

  The upload of ChamTool is faithful only while every block can be taken over: `LinkAssumption`
  therefore has the upload callback accept every block, as `MemoryUploadBlock` does. The
  refinement maps what the device has taken over (`Taken`) to what the receiver holds; blocks
  behind the memory of a setting count as taken, since they are dropped on purpose.
  `IntactAndInOrder` speaks of what is in the memory (`Stored`). The faults of a repeating
  sender's line are any number (`MaxFaults`, at most one byte of a frame); the cable is pulled
  once and one byte of a download damaged, as `XModemLink` instantiates those hosts.
* `LogProofs`: types, `SpaceAccounted`, what each step in the middle of a call rests on
  (`InTheMiddle`) and what it can add as long as no interrupt came at the wrong moment
  (`Untorn`) are inductive together; under them every step of `Log` maps to a step of
  `EventLog`, to a `Tear` in the exceptional case, or to none (`LogKeepsItsBytes`). That a tear
  never reaches the permanent bytes holds without `Untorn`: the address in the FRAM is stored
  last and counts only what was copied. The lemmas say what a
  move of the front of one array to the end of another does to their concatenation. That a
  download reads the log (`BlocksMatchLog`) follows from the same invariant: a block is a
  stretch of the FRAM, of the SRAM, or of both joined where the one ends.
* `SettingsProofs`: types; that a clone stays in its slot needs that no clone is pending while
  a slot change runs (`CInv`). That slots lose nothing needs `Progress`: at every step of a
  change, how many pages of the old memory are in the flash and how many of the new are back.
  It is not true with power lost in that window, so these two theorems assume
  `~LossWhileSwitching`, and `settings_loss` shows that they need to.
* `ReaderProofs`: types, `PendingTaskIsServed`, `FieldOffAfterTask`. The first is not
  inductive: a search could stop in a state `Select` has no case for (`Searching`), and a
  card asked for its ATS must be known (`Known`, `Traceable`). The field goes off because
  every task but SEND has its callback (`Pending`); SEND has none, which is why it is exempt.
  `SelectedIsOneCard` and `BlocksOfSelectedCard` come from a second invariant on top of the
  first. What protects a search from a card exchanged in the middle is that the new
  card is not READY, so that it does not answer: as long as the card in the field is READY or
  ACTIVE it is the one whose ATQA and parts of the UID are known (`Asked`, `Found`, `Read`).
  What is due, on the air or received and not yet handed to the application (`Due`), is then
  of that card, and a block that is due is the one before the next address. That a search
  waits for an answer in every other state than its first (`Timely`) rules out an old answer
  taken for a new one. `BlocksOfSelectedCard` is for tasks that began at address 0; the run
  `reader_clone` shows why.
* `MifareClassicProofs`: types, `OpenSector`, `ValueRegister`, `ServedToKeyHolder`, from one
  invariant that ties the state of the machine to what the reader has seen: in a state after
  authentication the session is proved, and the block of a pending value command is
  `CurrentAddress`. Of the layout of sectors only this is assumed: no sector begins at the
  address that stands for none (`Layout`), which a block 255 inside the last sector of the 4K
  card does not disturb.
* `MifareUltralightProofs`: types and the four action properties. Except on EV0,
  `Authenticated` holds exactly with `Leave`, which relates the flag to the age of the
  password; an armed page is one that was granted; the state of the machine says how many
  cascade levels were selected. Of counters nothing is assumed but the widths: a sum of two
  numbers of 24 bits fits 32 (`WordsAreWide`).
* `LiveLogProofs`: types, `SpaceAccounted` and `SentOnceInOrder`. What holds inside `FreeLogBlocks` and after an
  interrupt fell into it (`SpaceInv`: the count of free bytes is never too small) is needed for
  the moves, and that the alignment takes at most `ALIGN` bytes gives the one byte behind
  `LogMem`. Entries are sent once and in order because there are addresses at which the nodes
  of exactly the waiting entries lie, in order and apart, each pointing to the next (`Chain`),
  and because pointers, copied node and count fit them at every step of the tick (`Place`,
  `Ends`). An interrupt in time only changes the pointer of the last node, which is not the
  copied one. The count of one byte cannot wrap: every block takes its node, a byte of alignment
  and the head of an entry, 13 bytes at least, so that `LogMem` of 2048 holds fewer than 256 of
  them (`CountIsWide`). `SpaceAccounted` excepts `torn`, and says nothing between the two
  assignments of the counters (`Changing`).

Only model-checked: liveness, which is out of the prover's reach (`LogReachesFRAM`,
`TransferEnds`, `TaskEnds`, `ListIsFlushed`). The runs cover those for the sizes above.

Some lemmas are about sums and sequences of any length. The induction theorems of the library
cannot be instantiated here, so these use induction over a set of numbers instead
(`InductionOnNat`, from a least number outside the set), or no induction at all, by stating for
every position what it holds.

## 6. Where code and documents disagree

Four findings, each a violated run:

1. `xmodem_nak`: `STATE_SEND_WAIT` is never entered (`XModem.c:161`), so the branch
   "Resend frame" (`XModem.c:192`) is not reached in a download.
2. `log_clear`: `LOGCLEAR` "Clears the log memory (SRAM and FRAM)" (`CommandLine.txt:80`),
   but not the cells behind the pointer after a move that did not fit whole (`Log.c:226`).
3. `settings_loss`: `Settings.c:69` says "Store current memory contents permanently"; power
   lost after line 76 and before line 83 lets the next change overwrite them.
4. `reader_clone`: the page address of a read is static and never reset
   (`Reader14443A.c:694`).

Met while modelling, and covered or worked around in the models:

* ChamTool connecting to a device that lost the cable inside a frame: the escape and
  `VERSION?` are taken for data, and complete a block if the byte in that place happens to be its
  checksum (one in 256); the device stores it, and its ACK is not the status line that
  `Device.connect` waits for.
* The start timeout of a download keeps running through the transfer (`XModem.c:234`);
  a frame 255 repeated after the wrap is cancelled, because the comparison is done in int
  (`XModem.c:147`); a second NAK makes ChamTool drop a block (`XModem.py:98`); the escape
  of `Device.py:88` is swallowed in the middle of a frame; the "10 second timeout"
  (`CommandLine.txt:180`) is 36 and 30 seconds. This is why `TransferIsFaithful` asks for a
  prompt ChamTool.
* `LOGSTORE` "nothing has been done" (`CommandLine.txt:81`) may have moved a part.
* An entry that the ISO 15693 sniffer logs in mode MEMORY between the FRAM write and the clear
  of `LogMem` (`Log.c:219-222`) is lost, or, before `LogFRAMAddr` is increased, counted but
  not copied; one between the load and the store of `LogMemPtr` or `LogMemLeft` (lines 227-228,
  and in `LogFuncMemory`) leaves the two apart until `LogMem` is next emptied, and they can
  then lead out of it. `LogIsKept` and both `SpaceAccounted` say this by their exceptions.
* A clone sets its configuration in RAM; any `SettingsSave` writes it back.
* "Any terminal input is completely ignored during the waiting period"
  (`CommandLine.txt:131`), but characters are still buffered and run as part of the next
  command. A timeout counts in 100 ms, which line 107 calls 128 ms.
* SEND sets the current command before it looks at its parameters, and has no callback: its
  timeout leaves the codec as it is.
* MIFARE Classic: a nested authentication to the open sector keeps the access conditions it
  had before a write to the trailer (`MifareClassic.c:899`); a READ of another sector's trailer
  goes by those of the open one; those of data blocks are never applied. For blocks from 128
  on, `Block & 15` is tested after `Block &= 15`, so all but the first of a sector count as
  trailers (lines 317-319). A value command on a block that is no value leaves a copy of it
  in `BlockBuffer`, which TRANSFER stores.
* Ultralight and NTAG215: who is authenticated stays so through HALT, a wake-up and, except on
  C, the loss of the field, where `AntennaLevel.c:14` says "reset the application just like a
  real card gets reset when there is no field". `ArmedForCompatWrite` outlives all of these and
  `CompatWriteData` then takes the first command of the next session for the data: this is
  why `StoredWithLeave` speaks of the page that was granted and not of the session, and why
  `Leave` has a case per flavor. A counter of EV1 that a CLEAR of the slot
  (`Memory.c:391-393`) has set to 0xFFFFFFFF, or a dump to anything above 24 bits, wraps in the
  sum of `MifareUltralight.c:503-504` and falls, once; `CountersOnlyRise` speaks of counters in
  their range.
  A READ on a card protected against reading, with AUTH0 behind the last page, goes on behind
  it; on C it then reaches the key, which "For ULC make sure wraparound is at the first key
  page" (`MifareUltralight.c:315`) is meant to prevent. "Enter halt state" sets IDLE (line 578).
  The addend of INCREMENT_CNT includes the command byte (line 493).
* Live log: "an atomic code block with interrupts disabled" (`LiveLogTick.h:2`), but `cli` and
  `sei` are commented out (98-100). An interrupt after the last node was copied, between load
  and store of the count, or inside `FreeLogBlocks` loses its entry, and in the last place also
  puts the count of free bytes wrong until the next tick (`torn`). The space test allows 3 bytes
  for the alignment, which takes up to 4: an entry can end one byte behind `LogMem`, with
  `LogMemLeft` at 65535. An entry without room is dropped although room was just made.
  `LOGCLEAR` and `LOGSTORE` leave the list.
* A card whose DESELECT was lost stays deaf to WUPA until the field goes off; a lost version
  answer makes an unknown card.

## 7. What is not modelled

PROJECT.json lists every component. Of the modelled ones, left out are: the text of commands
and answers; bits, parity and CRC as arithmetic (a frame is intact or not, except for the
checksum of XMODEM, which is computed); timing below a tick; the thresholds of AUTOCALIBRATE;
a write of one word torn in the middle; the CRC, the collision bits and the ciphers of the
cards (a key is the right one or not); a change of UID, and on MIFARE Classic of READONLY,
between two frames. The flush for space of the live log runs with interrupts off and is modelled
so; a torn read of a two-byte pointer is covered by a copied node that can be anything. An
interrupt between the two bytes of a counter of the log, or in the middle of a `memmove` or
`memset`, is taken for one before or after; a condition that tests `LogMemLeft` and the
subtraction behind it use one load, as the compiler makes it. An interrupt logging inside
`LogTick` also races for the tick count of the live log, a byte, which is left out.
Interrupts are those of the reader codec and those that log; all other components run in the
main loop, where a call is atomic, except those of the log, and those that write permanent
memory, which are cut at every write.

Not modelled: the ciphers (test vectors say more); LUFA and the bootloader (vendored); the card
codec, the sniffer and the ISO 15693 codecs, whose behaviour is the timing of edges within a bit;
the autocalibration of the sniffer, which decides by the traffic that it happens to hear; the
counting of the buttons, whose actions are steps of Settings, Reader and Log; the cards that the
default build leaves out (ISO 15693, and DESFire, whose files call themselves a work in
progress); LED, pins, random numbers and tables, which have no behaviour over several steps; the
older hardware, and the programs of the PC beside the transfers, which keep no state across calls.
