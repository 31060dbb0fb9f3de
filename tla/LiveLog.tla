------------------------------ MODULE LiveLog ------------------------------
(***************************************************************************)
(* The event log in mode LIVE (LiveLogTick.h and the parts of Log.c that   *)
(* share its memory): entries are chained as blocks in LogMem, and every   *)
(* LIVE_LOGGER_POST_TICKS-th LogTick, or an entry for which there is no    *)
(* room, sends all of them to the terminal and empties LogMem.  Commands   *)
(* that clear or move LogMem do not know of the chain in it.               *)
(*                                                                         *)
(* An entry comes from the main loop or, in the ISO 15693 sniffer, from an *)
(* interrupt.  Appending switches interrupts off; LiveLogTick, when LogTick*)
(* calls it, does not, so an interrupt can append between any two of its   *)
(* steps: while a block is sent, while the next node is copied and the     *)
(* count lowered, and while LogMem is emptied.  Nor do the appends of mode *)
(* MEMORY, LOGCLEAR and the move to the FRAM: they too are sequences of    *)
(* steps here, and an entry of an interrupt, of the mode that is set, can  *)
(* come between any two of them or between the load and the store of a     *)
(* counter.                                                                *)
(*                                                                         *)
(* LogMem is made of cells: one for the start and size of a block, one for *)
(* the pointer to the next, one for each byte of an entry.  All other      *)
(* bytes, and all of LogMem while the chain is disturbed, are not told     *)
(* apart: taken for a node they are any block and any pointer.  When       *)
(* something is written outside LogMem, the model stops (overrun).         *)
(*                                                                         *)
(* queue holds what is appended and not yet sent.  orderly is false from a *)
(* disturbance of the chain to the next time LiveLogTick empties LogMem,   *)
(* torn from an append in the middle of a change of the two counters to    *)
(* the next time LogMem is emptied.                                        *)
(***************************************************************************)
EXTENDS Integers, Sequences

CONSTANTS
  LOG_SIZE,
  Base,                    \* the address of LogMem
  ALIGN,                   \* 4 in the code
  LOG_BLOCK_LIST_NODE_SIZE,\* 8 in the code, 5 of them used
  HEAD,                    \* 4 in the code: the bytes of an entry before its data
  LIVE_LOGGER_POST_TICKS,
  CountSize,               \* 256: LogBlockListElementCount is one byte
  WordSize,                \* 65536: LogMemLeft is two bytes
  Entries,
  Wild,                    \* where a cell that is no pointer can point to when taken for one
  Parts,                   \* bound: how much of LogMem a move takes when the FRAM is nearly full
  Size                     \* the bytes of an entry, its head included

VARIABLES
  LogMode,
  LogMem, LogMemPtr, LogMemLeft,
  LogBlockListBegin, LogBlockListEnd, LogBlockListElementCount,
  LiveLogModePostTickCount,
  tick,                    \* LiveLogTick: where it is, its logBlockCurrent, the count it read
  step,                    \* where the main loop is in an append of mode MEMORY, a clear or
                           \* a move, and how many bytes that one is about
  queue, orderly, torn, overrun

list == <<LogBlockListBegin, LogBlockListEnd, LogBlockListElementCount>>
mem == <<LogMem, LogMemPtr, LogMemLeft>>
view == <<queue, orderly, torn>>
vars == <<LogMode, mem, list, LiveLogModePostTickCount, tick, step, view, overrun>>

ASSUME SizeAssumption ==
  /\ LOG_SIZE \in Nat \ {0} /\ Base \in Nat \ {0} /\ ALIGN \in Nat \ {0}
  /\ LOG_BLOCK_LIST_NODE_SIZE \in Nat /\ LOG_BLOCK_LIST_NODE_SIZE >= 2
  /\ LIVE_LOGGER_POST_TICKS \in Nat \ {0}
  /\ CountSize \in Nat \ {0} /\ WordSize \in Nat /\ WordSize > LOG_SIZE
  /\ HEAD \in Nat /\ Size \in [Entries -> Nat \ {0}] /\ \A e \in Entries : HEAD <= Size[e]
  /\ Wild \subseteq Nat /\ Parts \subseteq Nat \ {0}

(* Any entry, 259 bytes at most, has room in an empty LogMem of 1284 or 2048 *)
ASSUME EntriesFit ==
  \A e \in Entries : Size[e] + (ALIGN - 1) + LOG_BLOCK_LIST_NODE_SIZE <= LOG_SIZE

(* A block takes its node, one byte of alignment at least and the head of  *)
(* an entry, so that LogMem has no room for as many blocks as wrap the     *)
(* count: 2048 < 256 * (8 + 1 + 4).                                        *)
LeastBlock == LOG_BLOCK_LIST_NODE_SIZE + 1 + HEAD

ASSUME CountIsWide == LOG_SIZE < CountSize * LeastBlock

----------------------------------------------------------------------------
NULL == 0
Addresses == Base .. Base + LOG_SIZE - 1

Unknown == [is |-> "unknown"]
AllUnknown == [a \in Addresses |-> Unknown]
DataCell(e) == [is |-> "data", entry |-> e]
BlockCell(start, size) == [is |-> "block", start |-> start, size |-> size]
NextCell(to) == [is |-> "next", to |-> to]

(* What a pointer cell, or any other, points to *)
PointsTo(c) == IF c.is = "next" THEN {c.to} ELSE Wild \cup {NULL}

Whole(e) == [i \in 1 .. Size[e] |-> DataCell(e)]

(* What TerminalSendBlock sends for a node that was copied *)
Block(c) == IF c.is = "block" THEN [i \in 1 .. c.size |-> LogMem[c.start + i - 1]] ELSE <<Unknown>>

AnyNode == [block : {Unknown}, next : PointsTo(Unknown)]

(* Copying the node at address a, or what is found there; behind NULL are  *)
(* the registers of the processor.                                         *)
NodesAt(a) ==
  IF a \in Addresses /\ a + 1 \in Addresses
  THEN [block : {LogMem[a]}, next : PointsTo(LogMem[a + 1])]
  ELSE AnyNode

Idle == [at |-> "idle", node |-> [block |-> Unknown, next |-> NULL], atomic |-> FALSE, count |-> 0]

Done == [at |-> "idle", n |-> 0]

Init ==
  /\ LogMode = "OFF"
  /\ LogMem = AllUnknown /\ LogMemPtr = Base /\ LogMemLeft = LOG_SIZE
  /\ LogBlockListBegin = NULL /\ LogBlockListEnd = NULL /\ LogBlockListElementCount = 0
  /\ LiveLogModePostTickCount = 0
  /\ tick = Idle /\ step = Done
  /\ queue = <<>> /\ orderly = TRUE /\ torn = FALSE /\ overrun = FALSE

(* The places of step *)
Appending == {"testing", "writing"}
Clearing == {"emptied", "rewound"}
Moving == {"moved", "shrunk"}

(* The main loop is not inside one of its calls *)
MainLoop == tick.at = "idle" /\ step.at = "idle" /\ ~overrun

At(place) == step.at = place /\ ~overrun

----------------------------------------------------------------------------
(* Appending *)

(* Mutant: the test allows nothing for the alignment *)
HasRoomSlip(e) == Size[e] + LOG_BLOCK_LIST_NODE_SIZE <= LogMemLeft

(* The test allows ALIGN - 1 bytes for the alignment, which takes up to    *)
(* ALIGN.                                                                  *)
HasRoom(e) == Size[e] + (ALIGN - 1) + LOG_BLOCK_LIST_NODE_SIZE <= LogMemLeft

(* Mutant: the count does not wrap *)
CountAfterSlip(d) == LogBlockListElementCount + d

CountAfter(d) == (LogBlockListElementCount + d) % CountSize

AlignOffset == ALIGN - (LogMemPtr % ALIGN)

(* The new node at address at, with its entry behind it; the pointer of    *)
(* the last node is set after that, wherever it is.                        *)
WithBlock(e, at) ==
  LET data == at + LOG_BLOCK_LIST_NODE_SIZE
      linked == IF LogBlockListBegin # NULL THEN LogBlockListEnd + 1 ELSE NULL
  IN  [a \in Addresses |->
         CASE a = linked -> NextCell(at)
           [] a # linked /\ a = at -> BlockCell(data, Size[e])
           [] a # linked /\ a = at + 1 -> NextCell(NULL)
           [] a # linked /\ a \in data .. data + Size[e] - 1 -> DataCell(e)
           [] OTHER -> LogMem[a]]

BlockBytes(e) == LOG_BLOCK_LIST_NODE_SIZE + AlignOffset + Size[e]

(* The block of an entry goes into LogMem and the list, ... *)
ChainBlock(e) ==
  LET at == LogMemPtr + AlignOffset
  IN  /\ HasRoom(e)
      /\ LogMem' = IF orderly' THEN WithBlock(e, at) ELSE AllUnknown
      /\ LogBlockListBegin' = IF LogBlockListBegin = NULL THEN at ELSE LogBlockListBegin
      /\ LogBlockListEnd' = at
      /\ LogBlockListElementCount' = CountAfter(1)
      /\ overrun' = (LogMemPtr + BlockBytes(e) > Base + LOG_SIZE)

(* ... and takes its bytes from the free ones. *)
PtrMoves(e) == LogMemPtr' = LogMemPtr + BlockBytes(e)
LeftShrinks(e) == LogMemLeft' = (LogMemLeft - BlockBytes(e)) % WordSize

AppendBlock(e) == ChainBlock(e) /\ PtrMoves(e) /\ LeftShrinks(e)

(* LogFuncLive in the main loop, or in an interrupt between two calls *)
LogFuncLive(e) ==
  /\ MainLoop /\ LogMode = "LIVE"
  /\ UNCHANGED <<LogMode, LiveLogModePostTickCount, tick, step, orderly, torn>>
  /\ queue' = IF orderly THEN Append(queue, e) ELSE queue
  /\ AppendBlock(e)

(* LiveLogTick copies the first node *)
Starts(atomic) ==
  \E node \in NodesAt(LogBlockListBegin) :
    tick' = [at |-> "loop", node |-> node, atomic |-> atomic, count |-> 0]

(* No room: what is in LogMem is sent, with interrupts off, and the entry  *)
(* is dropped.                                                             *)
FlushForSpace(e) ==
  /\ MainLoop /\ LogMode = "LIVE"
  /\ ~HasRoom(e) /\ LogMemPtr # Base
  /\ Starts(TRUE)
  /\ UNCHANGED <<LogMode, mem, list, LiveLogModePostTickCount, step, view, overrun>>

(* An interrupt in mode LIVE: LiveLogTick, called by LogTick, is under way,*)
(* or a clear or a move                                                    *)
Interruptible ==
  /\ LogMode = "LIVE" /\ ~overrun
  /\ \/ tick.at # "idle" /\ ~tick.atomic
     \/ step.at \in Clearing \cup Moving

(* The chain takes the new entry along: LiveLogTick has copied a node that *)
(* is followed by another and has nothing else under way, or a clear or a  *)
(* move is done with the cells and with LogMemPtr.                         *)
InTime ==
  \/ tick.at \in {"loop", "sent"} /\ tick.node.block # Unknown /\ tick.node.next # NULL
  \/ step.at \in {"rewound", "shrunk"}

(* Where an append of an interrupt leaves LogMemPtr and LogMemLeft apart:  *)
(* one of them is set already, or is being changed from its old value      *)
Tears == tick.at = "freeing" \/ step.at \in {"testing", "writing", "rewound", "moved", "shrunk"}

(* An entry logged by an interrupt between two steps of LiveLogTick, of a  *)
(* clear or of a move.  LiveLogTick sends it if it is in time.  If not,    *)
(* the copy of the node can be half of what was there before and half of   *)
(* what is now.  A counter that a move has loaded, or is about to, is then *)
(* stored without the bytes of the entry, or with them.                    *)
Interrupted(e) ==
  /\ Interruptible
  /\ orderly' = (orderly /\ InTime)
  /\ queue' = IF orderly' THEN Append(queue, e) ELSE <<>>
  /\ ChainBlock(e)
  /\ PtrMoves(e) \/ (step.at = "moved" /\ UNCHANGED LogMemPtr)
  /\ LeftShrinks(e) \/ (step.at = "shrunk" /\ UNCHANGED LogMemLeft)
  /\ torn' = (torn \/ Tears)
  /\ \/ UNCHANGED tick
     \/ ~orderly' /\ tick.at # "idle" /\ \E node \in AnyNode : tick' = [tick EXCEPT !.node = node]
  /\ UNCHANGED <<LogMode, LiveLogModePostTickCount, step>>

----------------------------------------------------------------------------
(* Sending *)

EmptyList == LogBlockListBegin' = NULL /\ LogBlockListEnd' = NULL /\ LogBlockListElementCount' = 0

(* The interrupt finds no room: everything is sent, what this tick has     *)
(* sent already a second time, LogMem is emptied, and the entry is dropped *)
InterruptedFull(e) ==
  /\ Interruptible
  /\ ~HasRoom(e) /\ LogMemPtr # Base
  /\ LogMemPtr' = Base \/ (step.at = "moved" /\ UNCHANGED LogMemPtr)
  /\ LogMemLeft' = LOG_SIZE \/ (step.at = "shrunk" /\ UNCHANGED LogMemLeft)
  /\ EmptyList
  /\ LiveLogModePostTickCount' = 0
  /\ queue' = <<>> /\ orderly' = FALSE /\ torn' = (step.at \in Moving)
  /\ LogMem' = AllUnknown
  /\ UNCHANGED <<LogMode, tick, step, overrun>>

(* Mutant: the count starts anew with every tick *)
TicksAfterSlip == 1

TicksAfter == LiveLogModePostTickCount + 1

(* LogTick in mode LIVE, every 100 ms *)
LogTick ==
  /\ MainLoop /\ LogMode = "LIVE"
  /\ IF TicksAfter % LIVE_LOGGER_POST_TICKS = 0
     THEN Starts(FALSE) /\ UNCHANGED LiveLogModePostTickCount
     ELSE LiveLogModePostTickCount' = TicksAfter /\ UNCHANGED tick
  /\ UNCHANGED <<LogMode, step, mem, list, view, overrun>>

(* The head of the loop: the block of the node that was copied is sent *)
SendBlock ==
  /\ ~overrun /\ tick.at = "loop" /\ LogBlockListElementCount > 0
  /\ queue' = IF orderly /\ queue # <<>> THEN Tail(queue) ELSE queue
  /\ tick' = [tick EXCEPT !.at = "sent"]
  /\ UNCHANGED <<LogMode, step, mem, list, LiveLogModePostTickCount, orderly, torn, overrun>>

(* Mutant: the loop ends at the first node *)
HasNextSlip == FALSE

HasNext == tick.node.next # NULL

(* The next node is copied and the count read *)
NextBlock ==
  /\ ~overrun /\ tick.at = "sent" /\ HasNext
  /\ \E node \in NodesAt(tick.node.next) :
       tick' = [tick EXCEPT !.at = "copied", !.node = node, !.count = CountAfter(-1)]
  /\ UNCHANGED <<LogMode, step, mem, list, LiveLogModePostTickCount, view, overrun>>

(* The count is stored; an interrupt before that is forgotten in it, or    *)
(* came before the count was read.                                         *)
Counted ==
  /\ ~overrun /\ tick.at = "copied"
  /\ LogBlockListElementCount' \in {tick.count, CountAfter(-1)}
  /\ tick' = [tick EXCEPT !.at = "loop", !.count = 0]
  /\ UNCHANGED <<LogMode, step, mem, LogBlockListBegin, LogBlockListEnd, LiveLogModePostTickCount, view, overrun>>

(* Out of the loop, one way or the other, and into FreeLogBlocks *)
LoopEnds ==
  /\ ~overrun
  /\ \/ tick.at = "sent" /\ ~HasNext
     \/ tick.at = "loop" /\ LogBlockListElementCount = 0
  /\ LogMemPtr' = Base
  /\ tick' = [Idle EXCEPT !.at = "freeing", !.atomic = tick.atomic]
  /\ torn' = FALSE
  /\ UNCHANGED <<LogMode, step, LogMem, LogMemLeft, list, LiveLogModePostTickCount, queue, orderly, overrun>>

TickEnds ==
  /\ ~overrun /\ tick.at = "freeing"
  /\ LogMemLeft' = LOG_SIZE /\ EmptyList
  /\ LiveLogModePostTickCount' = 0
  /\ tick' = Idle
  /\ queue' = <<>> /\ orderly' = TRUE
  /\ LogMem' = AllUnknown
  /\ UNCHANGED <<LogMode, step, LogMemPtr, torn, overrun>>

LiveLogTick == SendBlock \/ NextBlock \/ Counted \/ LoopEnds \/ TickEnds

----------------------------------------------------------------------------
(* The rest of Log.c on the same memory *)

Used == LOG_SIZE - LogMemLeft

(* What is left untouched by the steps below *)
chain == <<list, LiveLogModePostTickCount, tick>>

(* n bytes of an entry of mode MEMORY at LogMemPtr *)
Overwritten(n) ==
  [a \in Addresses |-> IF a \in LogMemPtr .. LogMemPtr + n - 1 THEN Unknown ELSE LogMem[a]]

(* LogFuncMemory in the main loop: LogMemLeft is loaded, once, and found   *)
(* large enough, ...                                                       *)
TestRoom(e) ==
  /\ MainLoop /\ LogMode = "MEMORY" /\ LogMemLeft >= Size[e]
  /\ step' = [at |-> "testing", n |-> Size[e]]
  /\ UNCHANGED <<LogMode, mem, chain, view, overrun>>

(* ... the difference is stored, ...                                       *)
TakeRoom ==
  /\ At("testing")
  /\ LogMemLeft' = LogMemLeft - step.n
  /\ step' = [step EXCEPT !.at = "writing"]
  /\ UNCHANGED <<LogMode, LogMem, LogMemPtr, chain, view, overrun>>

(* ... and the bytes are written.                                          *)
WriteEntry ==
  /\ At("writing")
  /\ LogMem' = Overwritten(step.n)
  /\ LogMemPtr' = LogMemPtr + step.n
  /\ overrun' = (LogMemPtr + step.n > Base + LOG_SIZE)
  /\ step' = Done
  /\ UNCHANGED <<LogMode, LogMemLeft, chain, view>>

LogFuncMemory == TakeRoom \/ WriteEntry

(* In the main loop or in an interrupt *)
LogFull(e) ==
  /\ ~overrun /\ LogMode = "MEMORY" /\ LogMemLeft < Size[e]
  /\ LogMode' = "OFF"
  /\ UNCHANGED <<mem, chain, step, view, overrun>>

(* An entry logged by an interrupt in mode MEMORY, between two steps of    *)
(* such an append, of a clear or of a move: as in Interrupted.  The value  *)
(* that was tested is stored in any case.                                  *)
InterruptedMemory(e) ==
  /\ ~overrun /\ LogMode = "MEMORY" /\ step.at # "idle" /\ LogMemLeft >= Size[e]
  /\ LogMem' = Overwritten(Size[e])
  /\ \/ LogMemPtr' = LogMemPtr + Size[e]
     \/ step.at \in {"writing", "moved"} /\ UNCHANGED LogMemPtr
  /\ \/ step.at # "testing" /\ LogMemLeft' = LogMemLeft - Size[e]
     \/ step.at \in {"testing", "shrunk"} /\ UNCHANGED LogMemLeft
  /\ overrun' = (LogMemPtr + Size[e] > Base + LOG_SIZE)
  /\ torn' = (torn \/ Tears)
  /\ UNCHANGED <<LogMode, chain, step, queue, orderly>>

LogSetMode(mode) ==
  /\ MainLoop
  /\ LogMode' = mode
  /\ UNCHANGED <<mem, chain, step, view, overrun>>

(* Whatever empties or moves LogMem leaves the pointers to the chain *)
Disturbs ==
  /\ orderly' = (orderly /\ LogBlockListBegin = NULL)
  /\ queue' = IF orderly' THEN queue ELSE <<>>

(* LogMemClear, and LogSRAMToFRAM when all of LogMem goes to the FRAM: the *)
(* cells in use are emptied, and, if the counters are torn and Used is     *)
(* below zero, all that is behind LogMem, ...                              *)
EmptyCells ==
  /\ MainLoop
  /\ LogMem' = AllUnknown
  /\ overrun' = (LogMemLeft > LOG_SIZE)
  /\ Disturbs
  /\ step' = [Done EXCEPT !.at = "emptied"]
  /\ UNCHANGED <<LogMode, LogMemPtr, LogMemLeft, chain, torn>>

(* ... and then the counters are set.                                      *)
Rewind ==
  /\ At("emptied")
  /\ LogMemPtr' = Base /\ torn' = FALSE
  /\ step' = [Done EXCEPT !.at = "rewound"]
  /\ UNCHANGED <<LogMode, LogMem, LogMemLeft, chain, queue, orderly, overrun>>

FreeAll ==
  /\ At("rewound")
  /\ LogMemLeft' = LOG_SIZE
  /\ step' = Done
  /\ UNCHANGED <<LogMode, LogMem, LogMemPtr, chain, view, overrun>>

LogSRAMClear == Rewind \/ FreeAll

(* LogSRAMToFRAM when only the first n cells go there: the others move up, *)
(* ...                                                                     *)
MovePart(n) ==
  /\ MainLoop /\ n < Used
  /\ LogMem' = AllUnknown
  /\ Disturbs
  /\ step' = [at |-> "moved", n |-> n]
  /\ UNCHANGED <<LogMode, LogMemPtr, LogMemLeft, chain, torn, overrun>>

(* ... and the counters are adjusted.                                      *)
MovePtr ==
  /\ At("moved")
  /\ LogMemPtr' = LogMemPtr - step.n
  /\ overrun' = (LogMemPtr - step.n < Base)
  /\ step' = [step EXCEPT !.at = "shrunk"]
  /\ UNCHANGED <<LogMode, LogMem, LogMemLeft, chain, view>>

CountMoved ==
  /\ At("shrunk")
  /\ LogMemLeft' = (LogMemLeft + step.n) % WordSize
  /\ step' = Done
  /\ UNCHANGED <<LogMode, LogMem, LogMemPtr, chain, view, overrun>>

(* The main loop goes on in a call it has begun *)
GoOn == LogFuncMemory \/ LogSRAMClear \/ MovePtr \/ CountMoved

(* Something was written outside LogMem: nothing is known of what follows *)
Undefined == overrun /\ UNCHANGED vars

----------------------------------------------------------------------------
LogModes == {"OFF", "MEMORY", "LIVE"}

Next ==
  \/ \E e \in Entries : LogFuncLive(e) \/ FlushForSpace(e)
  \/ \E e \in Entries : Interrupted(e) \/ InterruptedFull(e) \/ InterruptedMemory(e)
  \/ \E e \in Entries : TestRoom(e) \/ LogFull(e)
  \/ LogTick \/ LiveLogTick
  \/ \E mode \in LogModes : LogSetMode(mode)
  \/ EmptyCells \/ GoOn
  \/ \E n \in Parts : MovePart(n)
  \/ Undefined

(* Every call runs on to its end, and however many commands the main loop  *)
(* executes, it calls LogTick every 100 ms.                                *)
Fairness == SF_vars(LogTick) /\ WF_vars(LiveLogTick) /\ WF_vars(GoOn)

Spec == Init /\ [][Next]_vars /\ Fairness

----------------------------------------------------------------------------
(* Properties *)

Cells == {Unknown} \cup [is : {"data"}, entry : Entries] \cup [is : {"block"}, start : Addresses, size : Nat]
           \cup [is : {"next"}, to : Addresses \cup {NULL}]

Nodes == [block : Cells, next : Addresses \cup Wild \cup {NULL}]

(* The variables stay in their ranges *)
TypeOK ==
  /\ LogMode \in LogModes
  /\ ~overrun => LogMem \in [Addresses -> Cells]
  /\ LogMemPtr \in Int /\ LogMemLeft \in 0 .. WordSize - 1
  /\ ~overrun => LogBlockListBegin \in Addresses \cup {NULL} /\ LogBlockListEnd \in Addresses \cup {NULL}
  /\ LogBlockListElementCount \in 0 .. CountSize - 1
  /\ LiveLogModePostTickCount \in 0 .. LIVE_LOGGER_POST_TICKS - 1
  /\ tick \in [at : {"idle", "loop", "sent", "copied", "freeing"}, node : Nodes,
               atomic : BOOLEAN, count : 0 .. CountSize - 1]
  /\ step \in [at : {"idle"} \cup Appending \cup Clearing \cup Moving, n : Nat]
  /\ queue \in Seq(Entries) /\ {orderly, torn, overrun} \subseteq BOOLEAN

(* One of the two counters is set and the other not yet *)
Changing == tick.at = "freeing" \/ step.at \in {"writing", "rewound", "shrunk"}

(* Whatever mix of live entries, entries of mode MEMORY, moves, clears and *)
(* interrupts: the free bytes are those behind LogMemPtr, and an entry     *)
(* goes behind the end of LogMem by one byte at most, which the test of    *)
(* the space does not exclude.  The exception is torn: an interrupt that   *)
(* appends while FreeLogBlocks runs, in the middle of a clear or a move,   *)
(* or of an append of mode MEMORY, takes bytes that are counted as free    *)
(* until LogMem is emptied again.                                          *)
SpaceAccounted ==
  ~torn => IF overrun THEN LogMemPtr = Base + LOG_SIZE + 1
                      ELSE Changing \/ LogMemPtr + LogMemLeft = Base + LOG_SIZE

SendStep ==
  /\ SendBlock /\ orderly => queue # <<>> /\ Block(tick.node.block) = Whole(Head(queue))
  /\ LoopEnds /\ orderly => queue = <<>>

(* "this will maintain consistency in the returned buffers": unless the    *)
(* chain is disturbed, by a command that clears or moves LogMem while      *)
(* blocks wait in it, or by an interrupt while a node is copied, after the *)
(* last one was, or without room, every entry appended is sent whole, once and in order,    *)
(* those of interrupts during the sending too, and none is left unsent     *)
(* when LogMem is emptied.                                                 *)
SentOnceInOrder == [][~overrun => SendStep]_vars

(* However the chain was disturbed, LiveLogTick comes to an end, and in    *)
(* mode LIVE the blocks are sent again and again.                          *)
ListIsFlushed == []<>(LogBlockListBegin = NULL \/ LogMode # "LIVE" \/ overrun)
=============================================================================
