--------------------------- MODULE LiveLogProofs ---------------------------
(***************************************************************************)
(* Proofs about LiveLog for every size of the memory, every alignment and  *)
(* every set of entries: the type invariant, the account of the space      *)
(* (an entry goes one byte behind the end of LogMem at most), and that the *)
(* entries of an undisturbed chain are sent whole, once and in order.      *)
(***************************************************************************)
EXTENDS LiveLog, SequenceTheorems, TLAPS

(* LogMemPtr stays in LogMem, whatever is torn *)
SpaceInv == ~overrun => Base <= LogMemPtr /\ LogMemPtr <= Base + LOG_SIZE

(* What the counters are while one of them is set and the other not yet *)
MidInv ==
  /\ step.at # "idle" => tick.at = "idle"
  /\ step.at = "testing" => step.n <= LogMemLeft
  /\ ~torn /\ ~overrun =>
       /\ tick.at = "freeing" \/ step.at = "rewound" => LogMemPtr = Base
       /\ step.at = "moved" => step.n < LOG_SIZE - LogMemLeft
       /\ step.at \in {"writing", "shrunk"} => LogMemPtr + step.n + LogMemLeft = Base + LOG_SIZE

IInv == TypeOK /\ SpaceInv /\ SpaceAccounted /\ MidInv

LEMMA ModInRange ==
  ASSUME NEW a \in Int, NEW n \in Nat \ {0}
  PROVE  a % n \in 0 .. n - 1
OBVIOUS

LEMMA ModOfSmall ==
  ASSUME NEW n \in Nat, NEW a \in Nat, a < n
  PROVE  a % n = a
OBVIOUS

(* The alignment takes one byte at least and ALIGN at most                 *)
LEMMA AlignOffsetRange == ASSUME TypeOK PROVE AlignOffset \in 1 .. ALIGN
<1>1. LogMemPtr % ALIGN \in 0 .. ALIGN - 1
  BY ModInRange, SizeAssumption DEF TypeOK
<1> QED BY <1>1, SizeAssumption DEF AlignOffset

(* The count stays one byte wide                                           *)
LEMMA CountAfterRange == ASSUME TypeOK, NEW d \in Int PROVE CountAfter(d) \in 0 .. CountSize - 1
<1>1. LogBlockListElementCount + d \in Int
  BY SizeAssumption DEF TypeOK
<1> HIDE DEF TypeOK
<1> QED BY <1>1, ModInRange, SizeAssumption DEF CountAfter

----------------------------------------------------------------------------
(* The parts of the invariant                                              *)

TickSteps == {"idle", "loop", "sent", "copied", "freeing"}
Ticks == [at : TickSteps, node : Nodes, atomic : BOOLEAN, count : 0 .. CountSize - 1]
Places == {"idle"} \cup Appending \cup Clearing \cup Moving
Steps == [at : Places, n : Nat]
QueueTypes == queue \in Seq(Entries) /\ orderly \in BOOLEAN /\ torn \in BOOLEAN

LEMMA TickType ==
  ASSUME TypeOK
  PROVE  /\ tick \in Ticks
         /\ tick.at \in TickSteps /\ tick.node \in Nodes /\ tick.atomic \in BOOLEAN
         /\ tick.count \in 0 .. CountSize - 1
BY DEF TypeOK, Ticks, TickSteps

LEMMA StepType == ASSUME TypeOK PROVE step \in Steps /\ step.at \in Places /\ step.n \in Nat
BY DEF TypeOK, Steps, Places

LEMMA DoneType ==
  /\ Done \in Steps /\ Done.at = "idle" /\ Done.n = 0
  /\ \A p \in Places : [Done EXCEPT !.at = p] \in Steps /\ [Done EXCEPT !.at = p].at = p
BY DEF Done, Steps, Places

LEMMA CountersTypes ==
  ASSUME TypeOK
  PROVE  /\ LogMode \in LogModes /\ LogMemPtr \in Int /\ LogMemLeft \in 0 .. WordSize - 1
         /\ LogMemLeft \in Nat /\ Base \in Nat /\ LOG_SIZE \in Nat /\ WordSize \in Nat /\ WordSize > LOG_SIZE
         /\ overrun \in BOOLEAN /\ torn \in BOOLEAN
         /\ LogBlockListElementCount \in 0 .. CountSize - 1
         /\ LiveLogModePostTickCount \in 0 .. LIVE_LOGGER_POST_TICKS - 1
BY SizeAssumption DEF TypeOK

(* The variables of a type invariant, one by one                           *)
LEMMA TypesKept ==
  ASSUME LogMode' \in LogModes,
         ~overrun' => LogMem' \in [Addresses -> Cells],
         LogMemPtr' \in Int, LogMemLeft' \in 0 .. WordSize - 1,
         ~overrun' => LogBlockListBegin' \in Addresses \cup {NULL} /\ LogBlockListEnd' \in Addresses \cup {NULL},
         LogBlockListElementCount' \in 0 .. CountSize - 1,
         LiveLogModePostTickCount' \in 0 .. LIVE_LOGGER_POST_TICKS - 1,
         tick' \in Ticks, step' \in Steps, QueueTypes', overrun' \in BOOLEAN
  PROVE  TypeOK'
<1> HIDE DEF Cells, Addresses, Nodes
<1> QED BY DEF TypeOK, QueueTypes, Ticks, TickSteps, Steps, Places

(* What the chain is made of is left alone                                 *)
LEMMA ChainKept ==
  ASSUME IInv, ~overrun, UNCHANGED chain,
         LogMode' \in LogModes, LogMem' \in [Addresses -> Cells],
         LogMemPtr' \in Int, LogMemLeft' \in 0 .. WordSize - 1,
         step' \in Steps, QueueTypes', overrun' \in BOOLEAN
  PROVE  TypeOK'
<1>1. tick' \in Ticks /\ tick' = tick
  BY TickType DEF chain, IInv
<1>2. /\ LogBlockListBegin' \in Addresses \cup {NULL} /\ LogBlockListEnd' \in Addresses \cup {NULL}
      /\ LogBlockListElementCount' \in 0 .. CountSize - 1
      /\ LiveLogModePostTickCount' \in 0 .. LIVE_LOGGER_POST_TICKS - 1
  BY DEF chain, list, IInv, TypeOK
<1> HIDE DEF Cells, Addresses, Nodes
<1> QED BY <1>1, <1>2, TypesKept

LEMMA SpaceKept ==
  ASSUME IInv, UNCHANGED <<LogMemPtr, LogMemLeft, tick, step, torn, overrun>>
  PROVE  SpaceInv' /\ SpaceAccounted' /\ MidInv'
BY DEF IInv, SpaceInv, SpaceAccounted, Changing, MidInv

LEMMA UnknownTypes == Unknown \in Cells /\ AllUnknown \in [Addresses -> Cells]
BY DEF Cells, AllUnknown

LEMMA QueueSteps ==
  ASSUME TypeOK
  PROVE  /\ QueueTypes /\ <<>> \in Seq(Entries)
         /\ \A e \in Entries : Append(queue, e) \in Seq(Entries)
         /\ queue # <<>> => Tail(queue) \in Seq(Entries)
<1>1. QueueTypes
  BY DEF TypeOK, QueueTypes
<1> QED BY <1>1 DEF QueueTypes

----------------------------------------------------------------------------
(* Appending *)

LEMMA OverrunWhen ==
  ASSUME NEW e \in Entries, ChainBlock(e)
  PROVE  /\ overrun' \in BOOLEAN
         /\ overrun' <=> LogMemPtr + BlockBytes(e) > Base + LOG_SIZE
<1>1. overrun' = (LogMemPtr + BlockBytes(e) > Base + LOG_SIZE)
  BY DEF ChainBlock
<1>2. (LogMemPtr + BlockBytes(e) > Base + LOG_SIZE) \in BOOLEAN
  OBVIOUS
<1> QED BY <1>1, <1>2, Zenon

(* The bytes of a block, which the test of the space is one short for      *)
LEMMA BlockFits ==
  ASSUME TypeOK, NEW e \in Entries, ChainBlock(e)
  PROVE  BlockBytes(e) \in Nat /\ BlockBytes(e) <= LogMemLeft + 1
<1>1. AlignOffset \in 1 .. ALIGN
  BY AlignOffsetRange
<1>2. /\ LogMemLeft \in 0 .. WordSize - 1 /\ WordSize \in Nat
      /\ LOG_BLOCK_LIST_NODE_SIZE \in Nat /\ ALIGN \in Nat /\ Size[e] \in Nat
  BY SizeAssumption DEF TypeOK
<1> QED BY <1>1, <1>2 DEF ChainBlock, HasRoom, BlockBytes

(* What appending does to the counters, each of which may keep its value   *)
LEMMA AppendRanges ==
  ASSUME IInv, ~overrun, NEW e \in Entries, ChainBlock(e),
         PtrMoves(e) \/ LogMemPtr' = LogMemPtr, LeftShrinks(e) \/ LogMemLeft' = LogMemLeft
  PROVE  /\ LogMemPtr' \in Int /\ LogMemLeft' \in 0 .. WordSize - 1 /\ overrun' \in BOOLEAN
         /\ SpaceInv'
<1>1. /\ LogMemPtr \in Int /\ LogMemLeft \in 0 .. WordSize - 1 /\ LogMemLeft \in Nat
      /\ Base \in Nat /\ LOG_SIZE \in Nat /\ WordSize \in Nat \ {0}
  <2>1. TypeOK
    BY DEF IInv
  <2> QED BY <2>1, CountersTypes
<1>2. BlockBytes(e) \in Nat
  BY BlockFits DEF IInv
<1>3. overrun' \in BOOLEAN /\ (overrun' <=> LogMemPtr + BlockBytes(e) > Base + LOG_SIZE)
  BY OverrunWhen
<1>4. LogMemPtr' = LogMemPtr + BlockBytes(e) \/ LogMemPtr' = LogMemPtr
  BY DEF PtrMoves
<1>5. LogMemLeft' \in 0 .. WordSize - 1
  <2>1. LogMemLeft - BlockBytes(e) \in Int
    BY <1>1, <1>2
  <2> QED BY <1>1, <2>1, ModInRange DEF LeftShrinks
<1>6. SpaceInv'
  BY <1>1, <1>2, <1>3, <1>4 DEF IInv, SpaceInv
<1> QED BY <1>1, <1>2, <1>3, <1>4, <1>5, <1>6

(* The bytes are taken from the front of the free ones, or the last one is *)
(* written behind LogMem.                                                  *)
LEMMA AppendSpace ==
  ASSUME IInv, ~overrun, NEW e \in Entries, AppendBlock(e), ~torn, ~Changing
  PROVE  IF overrun' THEN LogMemPtr' = Base + LOG_SIZE + 1
                     ELSE LogMemPtr' + LogMemLeft' = Base + LOG_SIZE
<1>1. TypeOK /\ ChainBlock(e) /\ PtrMoves(e) /\ LeftShrinks(e)
  BY DEF IInv, AppendBlock
<1> DEFINE used == BlockBytes(e)
<1>2. /\ LogMemPtr \in Int /\ LogMemLeft \in Nat /\ Base \in Nat /\ LOG_SIZE \in Nat
      /\ WordSize \in Nat /\ WordSize > LOG_SIZE
  BY <1>1, CountersTypes
<1>3. used \in Nat /\ used <= LogMemLeft + 1
  BY <1>1, BlockFits
<1>4. LogMemPtr' = LogMemPtr + used /\ LogMemLeft' = (LogMemLeft - used) % WordSize
  BY <1>1 DEF PtrMoves, LeftShrinks
<1>5. overrun' <=> LogMemPtr + used > Base + LOG_SIZE
  BY <1>1, OverrunWhen
<1>6. LogMemPtr + LogMemLeft = Base + LOG_SIZE /\ Base <= LogMemPtr
  BY DEF IInv, SpaceInv, SpaceAccounted
<1> HIDE DEF used
<1>7. CASE overrun'
  BY <1>2, <1>3, <1>4, <1>5, <1>6, <1>7
<1>8. CASE ~overrun'
  <2>1. LogMemLeft - used \in Nat /\ LogMemLeft - used < WordSize
    BY <1>2, <1>3, <1>5, <1>6, <1>8
  <2>2. LogMemLeft' = LogMemLeft - used
    BY <1>2, <1>4, <2>1, ModOfSmall
  <2>3. LogMemPtr' + LogMemLeft' = Base + LOG_SIZE
    <3>1. LogMemPtr' = LogMemPtr + used
      BY <1>4
    <3>2. LogMemPtr + LogMemLeft = Base + LOG_SIZE
      BY <1>6
    <3> QED BY <1>2, <1>3, <2>2, <3>1, <3>2
  <2> QED BY <1>8, <2>3
<1> QED BY <1>7, <1>8

(* What appending does to the memory and the list                          *)
LEMMA AppendTypes ==
  ASSUME IInv, ~overrun, NEW e \in Entries, ChainBlock(e), orderly' \in BOOLEAN
  PROVE  /\ ~overrun' => LogMem' \in [Addresses -> Cells]
         /\ ~overrun' => LogBlockListBegin' \in Addresses \cup {NULL} /\ LogBlockListEnd' \in Addresses \cup {NULL}
         /\ LogBlockListElementCount' \in 0 .. CountSize - 1
<1> DEFINE at == LogMemPtr + AlignOffset
           data == at + LOG_BLOCK_LIST_NODE_SIZE
<1>1. LogBlockListElementCount' \in 0 .. CountSize - 1
  BY CountAfterRange DEF ChainBlock, IInv
<1> SUFFICES ASSUME ~overrun'
             PROVE  /\ LogMem' \in [Addresses -> Cells]
                    /\ LogBlockListBegin' \in Addresses \cup {NULL} /\ LogBlockListEnd' \in Addresses \cup {NULL}
  BY <1>1
<1>2. AlignOffset \in 1 .. ALIGN
  BY AlignOffsetRange DEF IInv
<1>3. at \in Addresses /\ data \in Addresses
  <2>1. /\ LogMemPtr \in Int /\ Base \in Nat /\ LOG_SIZE \in Nat /\ ALIGN \in Nat
        /\ LOG_BLOCK_LIST_NODE_SIZE \in Nat /\ Size[e] \in Nat \ {0}
    BY SizeAssumption DEF IInv, TypeOK
  <2>2. LogMemPtr + (LOG_BLOCK_LIST_NODE_SIZE + AlignOffset + Size[e]) \in Int
    BY <1>2, <2>1
  <2>3. Base <= LogMemPtr /\ LogMemPtr + (LOG_BLOCK_LIST_NODE_SIZE + AlignOffset + Size[e]) <= Base + LOG_SIZE
    BY <2>1, <2>2, OverrunWhen DEF IInv, SpaceInv, BlockBytes
  <2> QED BY <2>1, <2>3, <1>2 DEF Addresses
<1>4. LogMem \in [Addresses -> Cells] /\ LogBlockListBegin \in Addresses \cup {NULL}
  BY DEF IInv, TypeOK
<1>5. /\ LogMem' = (IF orderly' THEN WithBlock(e, at) ELSE AllUnknown)
      /\ LogBlockListBegin' = (IF LogBlockListBegin = NULL THEN at ELSE LogBlockListBegin)
      /\ LogBlockListEnd' = at
  BY DEF ChainBlock
<1>6. /\ BlockCell(data, Size[e]) \in Cells /\ DataCell(e) \in Cells
      /\ NextCell(at) \in Cells /\ NextCell(NULL) \in Cells /\ Unknown \in Cells
  BY <1>3, SizeAssumption DEF Cells, BlockCell, DataCell, NextCell
<1> HIDE DEF at
<1>7. WithBlock(e, at) \in [Addresses -> Cells]
  <2> HIDE DEF Cells, Addresses
  <2> QED BY <1>4, <1>6 DEF WithBlock, at
<1>8. AllUnknown \in [Addresses -> Cells]
  BY <1>6 DEF AllUnknown
<1> QED BY <1>3, <1>4, <1>5, <1>7, <1>8

----------------------------------------------------------------------------
(* Copying nodes                                                           *)

LEMMA NodesAtTypes == ASSUME TypeOK, ~overrun, NEW a PROVE NodesAt(a) \subseteq Nodes
<1>1. Unknown \in Cells /\ \A b \in Addresses : LogMem[b] \in Cells
  BY DEF TypeOK, Cells
<1>2. \A c \in Cells : PointsTo(c) \subseteq Addresses \cup Wild \cup {NULL}
  <2>1. \A c \in Cells : c.is = "next" => c.to \in Addresses \cup {NULL}
    BY DEF Cells, Unknown
  <2> HIDE DEF Cells, Addresses
  <2> QED BY <2>1 DEF PointsTo
<1> HIDE DEF Cells, Addresses
<1> QED BY <1>1, <1>2 DEF NodesAt, AnyNode, Nodes

LEMMA AnyNodeTypes == AnyNode \subseteq Nodes
<1>1. Unknown \in Cells
  BY DEF Cells
<1>2. PointsTo(Unknown) = Wild \cup {NULL}
  BY DEF PointsTo, Unknown
<1> HIDE DEF Cells, Addresses, PointsTo
<1> QED BY <1>1, <1>2 DEF AnyNode, Nodes

(* The first state                                                         *)
LEMMA InitEstablishes == ASSUME Init PROVE IInv
<1>1. Unknown \in Cells /\ AllUnknown \in [Addresses -> Cells]
  BY UnknownTypes
<1>2. Idle \in Ticks /\ Idle.at = "idle"
  BY <1>1, SizeAssumption DEF Idle, Ticks, TickSteps, Nodes
<1>3. LOG_SIZE \in 0 .. WordSize - 1 /\ Base \in Nat /\ 0 \in 0 .. CountSize - 1 /\ 0 \in 0 .. LIVE_LOGGER_POST_TICKS - 1
  BY SizeAssumption
<1>4. TypeOK
  <2> HIDE DEF Cells, Addresses
  <2>1. <<>> \in Seq(Entries)
    OBVIOUS
  <2>2. step \in Steps /\ tick \in Ticks
    BY <1>2, DoneType DEF Init
  <2>3. LogMemPtr \in Int /\ LogMode \in LogModes /\ LogMem \in [Addresses -> Cells]
    BY <1>1, <1>3 DEF Init, LogModes
  <2>4. {orderly, torn, overrun} \subseteq BOOLEAN
    BY Zenon DEF Init
  <2> QED BY <1>3, <2>1, <2>2, <2>3, <2>4 DEF Init, TypeOK, Ticks, TickSteps, Steps, Places
<1>5. tick.at = "idle" /\ step.at = "idle" /\ ~overrun /\ ~torn /\ LogMemPtr = Base /\ LogMemLeft = LOG_SIZE
  BY <1>2, DoneType DEF Init
<1> QED BY <1>3, <1>4, <1>5, SizeAssumption DEF IInv, SpaceInv, SpaceAccounted, MidInv, Changing

----------------------------------------------------------------------------
(* The steps                                                               *)

(* An entry in the main loop                                               *)
LEMMA LogFuncLiveKeeps == ASSUME IInv, NEW e \in Entries, LogFuncLive(e) PROVE IInv'
<1>1. /\ AppendBlock(e) /\ ChainBlock(e) /\ PtrMoves(e) /\ LeftShrinks(e)
      /\ ~overrun /\ tick.at = "idle" /\ step.at = "idle"
      /\ tick' = tick /\ step' = step /\ torn' = torn /\ orderly' = orderly
  BY DEF LogFuncLive, MainLoop, AppendBlock
<1>2. QueueTypes'
  BY <1>1, QueueSteps DEF IInv, LogFuncLive, QueueTypes
<1>3. orderly' \in BOOLEAN
  BY <1>2 DEF QueueTypes
<1>4. /\ ~overrun' => LogMem' \in [Addresses -> Cells]
      /\ ~overrun' => LogBlockListBegin' \in Addresses \cup {NULL} /\ LogBlockListEnd' \in Addresses \cup {NULL}
      /\ LogBlockListElementCount' \in 0 .. CountSize - 1
  BY <1>1, <1>3, AppendTypes
<1>5. LogMemPtr' \in Int /\ LogMemLeft' \in 0 .. WordSize - 1 /\ overrun' \in BOOLEAN /\ SpaceInv'
  BY <1>1, AppendRanges
<1>6. LogMode' \in LogModes /\ LiveLogModePostTickCount' \in 0 .. LIVE_LOGGER_POST_TICKS - 1
  BY CountersTypes DEF LogFuncLive, IInv
<1>7. TypeOK'
  <2> HIDE DEF Cells, Addresses, Nodes
  <2> QED BY <1>1, <1>2, <1>4, <1>5, <1>6, TickType, StepType, TypesKept DEF IInv
<1>8. ~Changing /\ ~Changing' /\ MidInv'
  BY <1>1 DEF Changing, MidInv
<1>9. SpaceAccounted'
  BY <1>1, <1>8, AppendSpace DEF SpaceAccounted
<1> QED BY <1>5, <1>7, <1>8, <1>9 DEF IInv

LEMMA TornType ==
  ASSUME TypeOK, torn' = (torn \/ Tears)
  PROVE  torn' \in BOOLEAN /\ (torn' <=> torn \/ Tears)
<1>1. torn \in BOOLEAN
  BY DEF TypeOK
<1>2. (torn \/ Tears) \in BOOLEAN
  OBVIOUS
<1> QED BY <1>1, <1>2, Zenon

(* An entry of an interrupt                                                *)
LEMMA InterruptedKeeps == ASSUME IInv, NEW e \in Entries, Interrupted(e) PROVE IInv'
<1>1. /\ ChainBlock(e) /\ ~overrun
      /\ PtrMoves(e) \/ (step.at = "moved" /\ LogMemPtr' = LogMemPtr)
      /\ LeftShrinks(e) \/ (step.at = "shrunk" /\ LogMemLeft' = LogMemLeft)
      /\ step' = step /\ torn' = (torn \/ Tears)
      /\ tick.at # "idle" \/ step.at \in Clearing \cup Moving
  BY DEF Interrupted, Interruptible
<1>2. torn' \in BOOLEAN /\ (torn' <=> torn \/ Tears)
  BY <1>1, TornType DEF IInv
<1>3. QueueTypes'
  <2>1. orderly' \in BOOLEAN
    BY Zenon DEF Interrupted
  <2> QED BY <1>2, <2>1, QueueSteps DEF IInv, Interrupted, QueueTypes
<1>4. tick' \in Ticks /\ tick'.at = tick.at
  <2>1. \A node \in AnyNode : [tick EXCEPT !.node = node] \in Ticks /\ [tick EXCEPT !.node = node].at = tick.at
    <3> HIDE DEF Nodes, AnyNode
    <3> QED BY TickType, AnyNodeTypes DEF IInv, Ticks
  <2> QED BY <2>1, TickType DEF IInv, Interrupted
<1>5. /\ ~overrun' => LogMem' \in [Addresses -> Cells]
      /\ ~overrun' => LogBlockListBegin' \in Addresses \cup {NULL} /\ LogBlockListEnd' \in Addresses \cup {NULL}
      /\ LogBlockListElementCount' \in 0 .. CountSize - 1
  BY <1>1, <1>3, AppendTypes DEF QueueTypes
<1>6. LogMemPtr' \in Int /\ LogMemLeft' \in 0 .. WordSize - 1 /\ overrun' \in BOOLEAN /\ SpaceInv'
  BY <1>1, AppendRanges
<1>7. LogMode' \in LogModes /\ LiveLogModePostTickCount' \in 0 .. LIVE_LOGGER_POST_TICKS - 1
  BY CountersTypes DEF Interrupted, IInv
<1>8. TypeOK'
  <2> HIDE DEF Cells, Addresses, Nodes
  <2> QED BY <1>1, <1>3, <1>4, <1>5, <1>6, <1>7, StepType, TypesKept DEF IInv
<1>9. step.at # "testing" /\ (step.at # "idle" => tick.at = "idle")
  BY <1>1 DEF IInv, MidInv, Clearing, Moving
<1>10. MidInv' /\ SpaceAccounted' => IInv'
  BY <1>6, <1>8 DEF IInv
<1>11. CASE Tears
  BY <1>1, <1>2, <1>4, <1>9, <1>10, <1>11 DEF MidInv, SpaceAccounted
<1>12. CASE ~Tears
  <2>1. AppendBlock(e) /\ ~Changing /\ (torn' <=> torn)
    BY <1>1, <1>2, <1>12 DEF Tears, Changing, AppendBlock
  <2>2. ~Changing' /\ MidInv'
    BY <1>1, <1>4, <1>9, <1>12 DEF Tears, Changing, MidInv
  <2>3. SpaceAccounted'
    BY <1>1, <2>1, <2>2, AppendSpace DEF SpaceAccounted
  <2> QED BY <1>10, <2>2, <2>3
<1> QED BY <1>11, <1>12

(* LiveLogTick starts: nothing but tick changes                            *)
LEMMA StartKeeps ==
  ASSUME IInv, ~overrun, tick.at = "idle", NEW atomic \in BOOLEAN, Starts(atomic)
  PROVE  tick' \in Ticks /\ tick'.at = "loop"
<1>1. PICK node \in NodesAt(LogBlockListBegin) :
        tick' = [at |-> "loop", node |-> node, atomic |-> atomic, count |-> 0]
  BY DEF Starts
<1>2. node \in Nodes /\ 0 \in 0 .. CountSize - 1
  BY NodesAtTypes, SizeAssumption DEF IInv
<1> QED BY <1>1, <1>2 DEF Ticks, TickSteps

(* A step that changes only tick, the queue and the mode and is not inside *)
(* FreeLogBlocks before or after                                           *)
LEMMA TickOnly ==
  ASSUME IInv, UNCHANGED <<mem, LogBlockListBegin, LogBlockListEnd, step, torn, overrun>>,
         LogMode' \in LogModes, LogBlockListElementCount' \in 0 .. CountSize - 1,
         LiveLogModePostTickCount' \in 0 .. LIVE_LOGGER_POST_TICKS - 1,
         tick' \in Ticks, tick.at # "freeing", tick'.at # "freeing",
         step.at = "idle" \/ tick.at # "idle", QueueTypes'
  PROVE  IInv'
<1>1. TypeOK'
  <2> HIDE DEF Cells, Addresses, Nodes
  <2> QED BY DEF IInv, TypeOK, QueueTypes, Ticks, TickSteps, mem
<1>2. step.at = "idle" /\ step' = step
  BY DEF IInv, MidInv
<1>3. SpaceInv' /\ SpaceAccounted' /\ MidInv'
  BY <1>2 DEF IInv, SpaceInv, SpaceAccounted, MidInv, Changing, mem
<1> QED BY <1>1, <1>3 DEF IInv

LEMMA FlushForSpaceKeeps == ASSUME IInv, NEW e \in Entries, FlushForSpace(e) PROVE IInv'
<1>1. ~overrun /\ tick.at = "idle" /\ step.at = "idle" /\ Starts(TRUE)
  BY DEF FlushForSpace, MainLoop
<1>2. tick' \in Ticks /\ tick'.at = "loop"
  BY <1>1, StartKeeps
<1>3. QueueTypes'
  BY QueueSteps DEF FlushForSpace, view, QueueTypes, IInv
<1>4. /\ UNCHANGED <<mem, LogBlockListBegin, LogBlockListEnd, step, torn, overrun>>
      /\ LogMode' \in LogModes /\ LogBlockListElementCount' \in 0 .. CountSize - 1
      /\ LiveLogModePostTickCount' \in 0 .. LIVE_LOGGER_POST_TICKS - 1
  <2> HIDE DEF Cells, Addresses
  <2> QED BY DEF FlushForSpace, list, view, IInv, TypeOK
<1> QED BY <1>1, <1>2, <1>3, <1>4, TickOnly

LEMMA LogTickKeeps == ASSUME IInv, LogTick PROVE IInv'
<1>1. /\ ~overrun /\ tick.at = "idle" /\ step.at = "idle" /\ LogMode' = LogMode
      /\ UNCHANGED <<mem, list, step, view, overrun>>
  BY DEF LogTick, MainLoop
<1>2. QueueTypes'
  BY <1>1, QueueSteps DEF view, QueueTypes, IInv
<1>3. /\ UNCHANGED <<mem, LogBlockListBegin, LogBlockListEnd, step, torn, overrun>>
      /\ LogMode' \in LogModes /\ LogBlockListElementCount' \in 0 .. CountSize - 1
      /\ LiveLogModePostTickCount \in 0 .. LIVE_LOGGER_POST_TICKS - 1
  <2> HIDE DEF Cells, Addresses
  <2> QED BY <1>1 DEF list, view, IInv, TypeOK
<1>4. CASE TicksAfter % LIVE_LOGGER_POST_TICKS = 0
  <2>1. Starts(FALSE) /\ LiveLogModePostTickCount' = LiveLogModePostTickCount
    BY <1>4 DEF LogTick
  <2>2. tick' \in Ticks /\ tick'.at = "loop"
    BY <1>1, <2>1, StartKeeps
  <2> QED BY <1>1, <1>2, <1>3, <2>1, <2>2, TickOnly
<1>5. CASE TicksAfter % LIVE_LOGGER_POST_TICKS # 0
  <2>1. LiveLogModePostTickCount' = TicksAfter /\ tick' = tick
    BY <1>5 DEF LogTick
  <2>2. TicksAfter # LIVE_LOGGER_POST_TICKS
    BY <1>5, SizeAssumption
  <2>3. TicksAfter \in 0 .. LIVE_LOGGER_POST_TICKS - 1
    BY <1>3, <2>2, SizeAssumption DEF TicksAfter
  <2>4. tick' \in Ticks /\ tick'.at = "idle"
    BY <1>1, <2>1, TickType DEF IInv
  <2> QED BY <1>1, <1>2, <1>3, <2>1, <2>3, <2>4, TickOnly
<1> QED BY <1>4, <1>5

LEMMA SendBlockKeeps == ASSUME IInv, SendBlock PROVE IInv'
<1>1. tick.at = "loop" /\ tick' = [tick EXCEPT !.at = "sent"]
  BY DEF SendBlock
<1>2. tick' \in Ticks /\ tick'.at = "sent"
  BY <1>1, TickType DEF IInv, Ticks, TickSteps
<1>3. QueueTypes'
  BY QueueSteps DEF SendBlock, QueueTypes, IInv
<1>4. /\ UNCHANGED <<mem, LogBlockListBegin, LogBlockListEnd, step, torn, overrun>>
      /\ LogMode' \in LogModes /\ LogBlockListElementCount' \in 0 .. CountSize - 1
      /\ LiveLogModePostTickCount' \in 0 .. LIVE_LOGGER_POST_TICKS - 1
  <2> HIDE DEF Cells, Addresses
  <2> QED BY DEF SendBlock, list, IInv, TypeOK
<1> QED BY <1>1, <1>2, <1>3, <1>4, TickOnly

LEMMA NextBlockKeeps == ASSUME IInv, NextBlock PROVE IInv'
<1>1. ~overrun /\ tick.at = "sent"
  BY DEF NextBlock
<1>2. PICK node \in NodesAt(tick.node.next) :
        tick' = [tick EXCEPT !.at = "copied", !.node = node, !.count = CountAfter(-1)]
  BY DEF NextBlock
<1>3. node \in Nodes /\ CountAfter(-1) \in 0 .. CountSize - 1
  BY <1>1, NodesAtTypes, CountAfterRange DEF IInv
<1>4. tick' \in Ticks /\ tick'.at = "copied"
  <2> HIDE DEF Nodes
  <2> QED BY <1>2, <1>3, TickType DEF IInv, Ticks, TickSteps
<1>5. QueueTypes'
  BY QueueSteps DEF NextBlock, view, QueueTypes, IInv
<1>6. /\ UNCHANGED <<mem, LogBlockListBegin, LogBlockListEnd, step, torn, overrun>>
      /\ LogMode' \in LogModes /\ LogBlockListElementCount' \in 0 .. CountSize - 1
      /\ LiveLogModePostTickCount' \in 0 .. LIVE_LOGGER_POST_TICKS - 1
  <2> HIDE DEF Cells, Addresses
  <2> QED BY DEF NextBlock, list, view, IInv, TypeOK
<1> QED BY <1>1, <1>4, <1>5, <1>6, TickOnly

LEMMA CountedKeeps == ASSUME IInv, Counted PROVE IInv'
<1>1. tick.at = "copied" /\ tick' = [tick EXCEPT !.at = "loop", !.count = 0]
  BY DEF Counted
<1>2. tick' \in Ticks /\ tick'.at = "loop"
  <2>1. 0 \in 0 .. CountSize - 1
    BY SizeAssumption
  <2> HIDE DEF Nodes
  <2> QED BY <1>1, <2>1, TickType DEF IInv, Ticks, TickSteps
<1>3. LogBlockListElementCount' \in 0 .. CountSize - 1
  BY TickType, CountAfterRange DEF IInv, Counted
<1>4. QueueTypes'
  BY QueueSteps DEF Counted, view, QueueTypes, IInv
<1>5. /\ UNCHANGED <<mem, LogBlockListBegin, LogBlockListEnd, step, torn, overrun>>
      /\ LogMode' \in LogModes
      /\ LiveLogModePostTickCount' \in 0 .. LIVE_LOGGER_POST_TICKS - 1
  <2> HIDE DEF Cells, Addresses
  <2> QED BY DEF Counted, view, IInv, TypeOK
<1> QED BY <1>1, <1>2, <1>3, <1>4, <1>5, TickOnly

(* LogMem is empty                                                         *)
LEMMA EmptySizes ==
  /\ LOG_SIZE \in 0 .. WordSize - 1 /\ Base \in Nat /\ LOG_SIZE \in Nat
  /\ 0 \in 0 .. CountSize - 1 /\ 0 \in 0 .. LIVE_LOGGER_POST_TICKS - 1
BY SizeAssumption

LEMMA InterruptedFullKeeps == ASSUME IInv, NEW e \in Entries, InterruptedFull(e) PROVE IInv'
<1>1. /\ ~overrun /\ overrun' = overrun /\ LogMode' = LogMode /\ tick' = tick /\ step' = step /\ LogMem' = AllUnknown
      /\ LogMemPtr' = Base \/ (step.at = "moved" /\ LogMemPtr' = LogMemPtr)
      /\ LogMemLeft' = LOG_SIZE \/ (step.at = "shrunk" /\ LogMemLeft' = LogMemLeft)
      /\ LogBlockListBegin' = NULL /\ LogBlockListEnd' = NULL /\ LogBlockListElementCount' = 0
      /\ LiveLogModePostTickCount' = 0 /\ queue' = <<>> /\ orderly' = FALSE
      /\ torn' = (step.at \in Moving)
      /\ tick.at # "idle" \/ step.at \in Clearing \cup Moving
  BY DEF InterruptedFull, Interruptible, EmptyList
<1>2. torn' \in BOOLEAN /\ (torn' <=> step.at \in Moving)
  <2>1. (step.at \in Moving) \in BOOLEAN
    BY DEF Moving
  <2> QED BY <1>1, <2>1, Zenon
<1>3. QueueTypes' /\ tick' \in Ticks /\ step' \in Steps /\ LogMode' \in LogModes
  BY <1>1, <1>2, QueueSteps, TickType, StepType, CountersTypes DEF IInv, QueueTypes
<1>4. LogMemPtr' \in Int /\ LogMemLeft' \in 0 .. WordSize - 1 /\ overrun' \in BOOLEAN
  BY <1>1, EmptySizes, CountersTypes DEF IInv
<1>5. TypeOK'
  <2> HIDE DEF Cells, Addresses, Nodes
  <2> QED BY <1>1, <1>3, <1>4, UnknownTypes, EmptySizes, TypesKept
<1>6. SpaceInv'
  BY <1>1, EmptySizes DEF IInv, SpaceInv
<1>7. step.at # "testing" /\ step.at # "writing" /\ (step.at # "idle" => tick.at = "idle")
  BY <1>1 DEF IInv, MidInv, Clearing, Moving
<1>8. MidInv'
  BY <1>1, <1>2, <1>7, EmptySizes DEF MidInv, Moving
<1>9. SpaceAccounted'
  BY <1>1, <1>2, EmptySizes DEF SpaceAccounted, Changing, Moving
<1> QED BY <1>5, <1>6, <1>8, <1>9 DEF IInv

LEMMA LoopEndsKeeps == ASSUME IInv, LoopEnds PROVE IInv'
<1>1. /\ ~overrun /\ overrun' = overrun /\ LogMemPtr' = Base /\ torn' = FALSE /\ tick.at # "idle"
      /\ tick' = [Idle EXCEPT !.at = "freeing", !.atomic = tick.atomic]
      /\ UNCHANGED <<LogMode, LogMem, LogMemLeft, list, LiveLogModePostTickCount, step, queue, orderly>>
  BY DEF LoopEnds
<1>2. tick' \in Ticks /\ tick'.at = "freeing"
  <2>1. Idle \in Ticks
    BY UnknownTypes, SizeAssumption DEF Idle, Ticks, TickSteps, Nodes
  <2> HIDE DEF Nodes
  <2> QED BY <1>1, <2>1, TickType DEF IInv, Ticks, TickSteps, Idle
<1>3. TypeOK'
  <2>1. step' \in Steps
    BY <1>1, StepType DEF IInv
  <2> HIDE DEF Cells, Addresses, Nodes
  <2>2. LogMemPtr' \in Int
    BY <1>1, EmptySizes
  <2>3. QueueTypes'
    <3>1. torn' \in BOOLEAN
      BY <1>1, Zenon
    <3> QED BY <1>1, <3>1, QueueSteps DEF IInv, QueueTypes
  <2>4. overrun' \in BOOLEAN /\ LogMode' \in LogModes /\ LogMemLeft' \in 0 .. WordSize - 1
        /\ LiveLogModePostTickCount' \in 0 .. LIVE_LOGGER_POST_TICKS - 1 /\ LogBlockListElementCount' \in 0 .. CountSize - 1
    BY <1>1, CountersTypes DEF IInv, list
  <2>5. /\ ~overrun' => LogMem' \in [Addresses -> Cells]
        /\ ~overrun' => LogBlockListBegin' \in Addresses \cup {NULL} /\ LogBlockListEnd' \in Addresses \cup {NULL}
    BY <1>1 DEF IInv, TypeOK, list
  <2> QED BY <1>2, <2>1, <2>2, <2>3, <2>4, <2>5, TypesKept
<1>4. step.at = "idle" /\ step' = step
  BY <1>1 DEF IInv, MidInv
<1>5. SpaceInv' /\ SpaceAccounted' /\ MidInv'
  BY <1>1, <1>2, <1>4, EmptySizes DEF SpaceInv, SpaceAccounted, Changing, MidInv
<1> QED BY <1>3, <1>5 DEF IInv

LEMMA TickEndsKeeps == ASSUME IInv, TickEnds PROVE IInv'
<1>1. /\ ~overrun /\ overrun' = overrun /\ LogMode' = LogMode /\ tick.at = "freeing" /\ tick' = Idle /\ step' = step
      /\ LogMem' = AllUnknown /\ LogMemPtr' = LogMemPtr /\ LogMemLeft' = LOG_SIZE /\ torn' = torn
      /\ LogBlockListBegin' = NULL /\ LogBlockListEnd' = NULL /\ LogBlockListElementCount' = 0
      /\ LiveLogModePostTickCount' = 0 /\ queue' = <<>> /\ orderly' = TRUE
  BY DEF TickEnds, EmptyList
<1>2. tick' \in Ticks /\ tick'.at = "idle"
  BY <1>1, UnknownTypes, SizeAssumption DEF Idle, Ticks, TickSteps, Nodes
<1>3. QueueTypes' /\ LogMode' \in LogModes /\ LogMemPtr \in Int /\ step' \in Steps /\ overrun' \in BOOLEAN
  BY <1>1, QueueSteps, CountersTypes, StepType DEF IInv, QueueTypes
<1>4. TypeOK'
  <2> HIDE DEF Cells, Addresses, Nodes
  <2> QED BY <1>1, <1>2, <1>3, EmptySizes, UnknownTypes, TypesKept
<1>5. step.at = "idle"
  BY <1>1 DEF IInv, MidInv
<1>6. SpaceInv' /\ SpaceAccounted' /\ MidInv'
  BY <1>1, <1>2, <1>3, <1>5, EmptySizes DEF IInv, SpaceInv, SpaceAccounted, Changing, MidInv
<1> QED BY <1>4, <1>6 DEF IInv

LEMMA DisturbsTypes == ASSUME TypeOK, Disturbs, torn' \in BOOLEAN PROVE QueueTypes'
<1>1. orderly' \in BOOLEAN
  BY Zenon DEF Disturbs
<1> QED BY <1>1, QueueSteps DEF Disturbs, QueueTypes

(* What is known of the counters between two calls *)
LEMMA BetweenCalls ==
  ASSUME IInv, MainLoop
  PROVE  /\ ~overrun /\ tick.at = "idle" /\ step.at = "idle" /\ ~Changing
         /\ Base <= LogMemPtr /\ LogMemPtr <= Base + LOG_SIZE
         /\ ~torn => LogMemPtr + LogMemLeft = Base + LOG_SIZE
BY DEF IInv, MainLoop, SpaceInv, SpaceAccounted, Changing

LEMMA EmptyCellsKeeps == ASSUME IInv, EmptyCells PROVE IInv'
<1>1. /\ MainLoop /\ LogMem' = AllUnknown /\ Disturbs
      /\ step' = [Done EXCEPT !.at = "emptied"]
      /\ UNCHANGED <<LogMode, LogMemPtr, LogMemLeft, chain, torn>>
  BY DEF EmptyCells
<1>2. overrun' \in BOOLEAN /\ (overrun' <=> LogMemLeft > LOG_SIZE)
  <2>1. overrun' = (LogMemLeft > LOG_SIZE)
    BY DEF EmptyCells
  <2>2. (LogMemLeft > LOG_SIZE) \in BOOLEAN
    OBVIOUS
  <2> QED BY <2>1, <2>2, Zenon
<1>3. step' \in Steps /\ step'.at = "emptied"
  <2>1. "emptied" \in Places
    BY DEF Places, Clearing
  <2> QED BY <1>1, <2>1, DoneType
<1>4. /\ LogMemPtr \in Int /\ LogMemLeft \in 0 .. WordSize - 1 /\ LogMemLeft \in Nat
      /\ Base \in Nat /\ LOG_SIZE \in Nat /\ LogMode \in LogModes /\ torn \in BOOLEAN
  <2>1. TypeOK
    BY DEF IInv
  <2> QED BY <2>1, CountersTypes
<1>5. QueueTypes'
  BY <1>1, <1>4, DisturbsTypes DEF IInv
<1>6. tick'.at = tick.at
  BY <1>1 DEF chain
<1>7. TypeOK'
  BY <1>1, <1>2, <1>3, <1>4, <1>5, BetweenCalls, UnknownTypes, ChainKept
<1>8. ~torn => ~overrun'
  BY <1>1, <1>2, <1>4, BetweenCalls
<1>9. SpaceInv' /\ SpaceAccounted' /\ MidInv'
  BY <1>1, <1>3, <1>4, <1>6, <1>8, BetweenCalls DEF SpaceInv, SpaceAccounted, Changing, MidInv
<1> QED BY <1>7, <1>9 DEF IInv

(* A step of a call that has begun                                         *)
LEMMA InCall ==
  ASSUME IInv, step.at # "idle", ~overrun
  PROVE  /\ tick.at = "idle" /\ LogMem \in [Addresses -> Cells]
         /\ Base <= LogMemPtr /\ LogMemPtr <= Base + LOG_SIZE
         /\ LogMode \in LogModes /\ LogMemPtr \in Int /\ LogMemLeft \in 0 .. WordSize - 1 /\ LogMemLeft \in Nat
         /\ Base \in Nat /\ LOG_SIZE \in Nat /\ WordSize \in Nat \ {0} /\ WordSize > LOG_SIZE
         /\ step.n \in Nat /\ QueueTypes /\ overrun \in BOOLEAN
<1>1. TypeOK /\ LogMem \in [Addresses -> Cells] /\ tick.at = "idle"
  BY DEF IInv, TypeOK, MidInv
<1>2. Base <= LogMemPtr /\ LogMemPtr <= Base + LOG_SIZE
  BY DEF IInv, SpaceInv
<1> QED BY <1>1, <1>2, CountersTypes, StepType, QueueSteps

LEMMA DoneStep == ASSUME step' = Done PROVE step' \in Steps /\ step'.at = "idle"
BY DoneType

LEMMA RewindKeeps == ASSUME IInv, Rewind PROVE IInv'
<1>1. /\ ~overrun /\ step.at = "emptied" /\ LogMemPtr' = Base /\ torn' = FALSE
      /\ step' = [Done EXCEPT !.at = "rewound"]
      /\ UNCHANGED <<LogMode, LogMem, LogMemLeft, chain, queue, orderly, overrun>>
  BY DEF Rewind, At
<1>2. step' \in Steps /\ step'.at = "rewound"
  <2>1. "rewound" \in Places
    BY DEF Places, Clearing
  <2> QED BY <1>1, <2>1, DoneType
<1>3. QueueTypes' /\ LogMemPtr' \in Int
  <2>1. QueueTypes
    BY <1>1, InCall
  <2>2. torn' \in BOOLEAN
    BY <1>1, Zenon
  <2> QED BY <1>1, <2>1, <2>2, EmptySizes DEF QueueTypes
<1>4. TypeOK'
  <2> HIDE DEF Cells, Addresses
  <2> QED BY <1>1, <1>2, <1>3, InCall, ChainKept
<1>5. tick'.at = "idle"
  BY <1>1, InCall DEF chain
<1>6. SpaceInv' /\ SpaceAccounted' /\ MidInv'
  BY <1>1, <1>2, <1>5, EmptySizes DEF SpaceInv, SpaceAccounted, Changing, MidInv
<1> QED BY <1>4, <1>6 DEF IInv

LEMMA FreeAllKeeps == ASSUME IInv, FreeAll PROVE IInv'
<1>1. /\ ~overrun /\ step.at = "rewound" /\ LogMemLeft' = LOG_SIZE /\ step' = Done
      /\ UNCHANGED <<LogMode, LogMem, LogMemPtr, chain, view, overrun>>
  BY DEF FreeAll, At
<1>2. step' \in Steps /\ step'.at = "idle"
  BY <1>1, DoneStep
<1>3. QueueTypes' /\ LogMemLeft' \in 0 .. WordSize - 1
  BY <1>1, InCall, EmptySizes DEF QueueTypes, view
<1>4. TypeOK'
  <2> HIDE DEF Cells, Addresses
  <2> QED BY <1>1, <1>2, <1>3, InCall, ChainKept
<1>5. tick'.at = "idle" /\ torn' = torn
  BY <1>1, InCall DEF chain, view
<1>6. ~torn => LogMemPtr = Base
  BY <1>1 DEF IInv, MidInv
<1>7. SpaceInv' /\ SpaceAccounted' /\ MidInv'
  BY <1>1, <1>2, <1>5, <1>6, InCall DEF SpaceInv, SpaceAccounted, Changing, MidInv
<1> QED BY <1>4, <1>7 DEF IInv

LEMMA MovePartKeeps == ASSUME IInv, NEW n \in Parts, MovePart(n) PROVE IInv'
<1>1. /\ MainLoop /\ LogMem' = AllUnknown /\ n < LOG_SIZE - LogMemLeft /\ Disturbs
      /\ step' = [at |-> "moved", n |-> n]
      /\ UNCHANGED <<LogMode, LogMemPtr, LogMemLeft, chain, torn, overrun>>
  BY DEF MovePart, Used
<1>2. step' \in Steps /\ step'.at = "moved" /\ step'.n = n
  BY <1>1, SizeAssumption DEF Steps, Places, Moving
<1>3. /\ LogMemPtr \in Int /\ LogMemLeft \in 0 .. WordSize - 1 /\ LogMode \in LogModes
      /\ torn \in BOOLEAN /\ overrun \in BOOLEAN
  <2>1. TypeOK
    BY DEF IInv
  <2> QED BY <2>1, CountersTypes
<1>4. QueueTypes'
  BY <1>1, <1>3, DisturbsTypes DEF IInv
<1>5. TypeOK'
  BY <1>1, <1>2, <1>3, <1>4, BetweenCalls, UnknownTypes, ChainKept
<1>6. tick'.at = "idle"
  BY <1>1, BetweenCalls DEF chain
<1>7. SpaceInv' /\ SpaceAccounted' /\ MidInv'
  BY <1>1, <1>2, <1>6, BetweenCalls DEF SpaceInv, SpaceAccounted, Changing, MidInv
<1> QED BY <1>5, <1>7 DEF IInv

LEMMA MovePtrKeeps == ASSUME IInv, MovePtr PROVE IInv'
<1>1. /\ ~overrun /\ step.at = "moved" /\ LogMemPtr' = LogMemPtr - step.n
      /\ step' = [step EXCEPT !.at = "shrunk"]
      /\ UNCHANGED <<LogMode, LogMem, LogMemLeft, chain, view>>
  BY DEF MovePtr, At
<1>2. overrun' \in BOOLEAN /\ (overrun' <=> LogMemPtr - step.n < Base)
  <2>1. overrun' = (LogMemPtr - step.n < Base)
    BY DEF MovePtr
  <2>2. (LogMemPtr - step.n < Base) \in BOOLEAN
    OBVIOUS
  <2> QED BY <2>1, <2>2, Zenon
<1>3. step' \in Steps /\ step'.at = "shrunk" /\ step'.n = step.n
  BY <1>1, StepType DEF Steps, Places, Moving, IInv
<1>4. QueueTypes' /\ LogMemPtr' \in Int
  BY <1>1, InCall DEF QueueTypes, view
<1>5. TypeOK'
  <2> HIDE DEF Cells, Addresses
  <2> QED BY <1>1, <1>2, <1>3, <1>4, InCall, ChainKept
<1>6. tick'.at = "idle" /\ torn' = torn
  BY <1>1, InCall DEF chain, view
<1>7. ~torn => step.n < LOG_SIZE - LogMemLeft /\ LogMemPtr + LogMemLeft = Base + LOG_SIZE
  <2>1. ~torn => Changing \/ LogMemPtr + LogMemLeft = Base + LOG_SIZE
    BY <1>1 DEF IInv, SpaceAccounted
  <2> QED BY <1>1, <2>1, InCall DEF IInv, MidInv, Changing
<1>8. SpaceInv' /\ SpaceAccounted' /\ MidInv'
  BY <1>1, <1>2, <1>3, <1>6, <1>7, InCall DEF SpaceInv, SpaceAccounted, Changing, MidInv
<1> QED BY <1>5, <1>8 DEF IInv

LEMMA CountMovedKeeps == ASSUME IInv, CountMoved PROVE IInv'
<1>1. /\ ~overrun /\ step.at = "shrunk" /\ LogMemLeft' = (LogMemLeft + step.n) % WordSize /\ step' = Done
      /\ UNCHANGED <<LogMode, LogMem, LogMemPtr, chain, view, overrun>>
  BY DEF CountMoved, At
<1>2. step' \in Steps /\ step'.at = "idle"
  BY <1>1, DoneStep
<1>3. QueueTypes' /\ LogMemLeft' \in 0 .. WordSize - 1
  <2>1. LogMemLeft + step.n \in Int /\ WordSize \in Nat \ {0}
    BY <1>1, InCall
  <2> QED BY <1>1, <2>1, ModInRange, InCall DEF QueueTypes, view
<1>4. TypeOK'
  <2> HIDE DEF Cells, Addresses
  <2> QED BY <1>1, <1>2, <1>3, InCall, ChainKept
<1>5. tick'.at = "idle" /\ torn' = torn
  BY <1>1, InCall DEF chain, view
<1>6. ~torn => LogMemPtr + LogMemLeft' = Base + LOG_SIZE
  <2> SUFFICES ASSUME ~torn PROVE LogMemPtr + LogMemLeft' = Base + LOG_SIZE
    OBVIOUS
  <2>1. LogMemPtr + step.n + LogMemLeft = Base + LOG_SIZE
    BY <1>1 DEF IInv, MidInv
  <2>2. LogMemLeft + step.n \in Nat /\ LogMemLeft + step.n < WordSize
    BY <1>1, <2>1, InCall
  <2>3. LogMemLeft' = LogMemLeft + step.n
    BY <1>1, <2>2, InCall, ModOfSmall
  <2> QED BY <1>1, <2>1, <2>3, InCall
<1>7. SpaceInv' /\ SpaceAccounted' /\ MidInv'
  BY <1>1, <1>2, <1>5, <1>6, InCall DEF SpaceInv, SpaceAccounted, Changing, MidInv
<1> QED BY <1>4, <1>7 DEF IInv

LEMMA LogSetModeKeeps == ASSUME IInv, NEW mode \in LogModes, LogSetMode(mode) PROVE IInv'
<1>1. /\ UNCHANGED <<mem, list, LiveLogModePostTickCount, tick, step, view, overrun>> /\ LogMode' = mode
  BY DEF LogSetMode, chain
<1>2. TypeOK'
  <2> HIDE DEF Cells, Addresses, Nodes
  <2> QED BY <1>1 DEF IInv, TypeOK, mem, list, view
<1>3. SpaceInv' /\ SpaceAccounted' /\ MidInv'
  BY <1>1, SpaceKept DEF mem, view
<1> QED BY <1>2, <1>3 DEF IInv

LEMMA LogFullKeeps == ASSUME IInv, NEW e \in Entries, LogFull(e) PROVE IInv'
<1>1. /\ UNCHANGED <<mem, list, LiveLogModePostTickCount, tick, step, view, overrun>> /\ LogMode' = "OFF"
  BY DEF LogFull, chain
<1>2. TypeOK'
  <2> HIDE DEF Cells, Addresses, Nodes
  <2> QED BY <1>1 DEF IInv, TypeOK, mem, list, view, LogModes
<1>3. SpaceInv' /\ SpaceAccounted' /\ MidInv'
  BY <1>1, SpaceKept DEF mem, view
<1> QED BY <1>2, <1>3 DEF IInv

LEMMA TestRoomKeeps == ASSUME IInv, NEW e \in Entries, TestRoom(e) PROVE IInv'
<1>1. /\ MainLoop /\ LogMemLeft >= Size[e] /\ step' = [at |-> "testing", n |-> Size[e]]
      /\ UNCHANGED <<LogMode, mem, chain, view, overrun>>
  BY DEF TestRoom
<1>2. step' \in Steps /\ step'.at = "testing" /\ step'.n = Size[e] /\ Size[e] \in Nat
  BY <1>1, SizeAssumption DEF Steps, Places, Appending
<1>3. /\ LogMemPtr' \in Int /\ LogMemLeft' \in 0 .. WordSize - 1 /\ LogMode' \in LogModes
      /\ overrun' \in BOOLEAN /\ QueueTypes' /\ LogMemLeft \in Nat
  <2>1. TypeOK
    BY DEF IInv
  <2> QED BY <1>1, <2>1, CountersTypes, QueueSteps DEF mem, view, QueueTypes
<1>4. LogMem' \in [Addresses -> Cells]
  BY <1>1, BetweenCalls DEF IInv, TypeOK, mem
<1>5. TypeOK'
  <2> HIDE DEF Cells, Addresses
  <2> QED BY <1>1, <1>2, <1>3, <1>4, BetweenCalls, ChainKept
<1>6. tick'.at = "idle" /\ torn' = torn
  BY <1>1, BetweenCalls DEF chain, view
<1>7. SpaceInv' /\ SpaceAccounted' /\ MidInv'
  BY <1>1, <1>2, <1>3, <1>6, BetweenCalls DEF SpaceInv, SpaceAccounted, Changing, MidInv, mem
<1> QED BY <1>5, <1>7 DEF IInv

LEMMA TakeRoomKeeps == ASSUME IInv, TakeRoom PROVE IInv'
<1>1. /\ ~overrun /\ step.at = "testing" /\ LogMemLeft' = LogMemLeft - step.n
      /\ step' = [step EXCEPT !.at = "writing"]
      /\ UNCHANGED <<LogMode, LogMem, LogMemPtr, chain, view, overrun>>
  BY DEF TakeRoom, At
<1>2. step' \in Steps /\ step'.at = "writing" /\ step'.n = step.n
  BY <1>1, StepType DEF Steps, Places, Appending, IInv
<1>3. step.n <= LogMemLeft
  BY <1>1 DEF IInv, MidInv
<1>4. QueueTypes' /\ LogMemLeft' \in 0 .. WordSize - 1
  BY <1>1, <1>3, InCall DEF QueueTypes, view
<1>5. TypeOK'
  <2> HIDE DEF Cells, Addresses
  <2> QED BY <1>1, <1>2, <1>4, InCall, ChainKept
<1>6. tick'.at = "idle" /\ torn' = torn
  BY <1>1, InCall DEF chain, view
<1>7. ~torn => LogMemPtr + LogMemLeft = Base + LOG_SIZE
  <2>1. ~torn => Changing \/ LogMemPtr + LogMemLeft = Base + LOG_SIZE
    BY <1>1 DEF IInv, SpaceAccounted
  <2> QED BY <1>1, <2>1, InCall DEF Changing
<1>8. SpaceInv' /\ SpaceAccounted' /\ MidInv'
  BY <1>1, <1>2, <1>3, <1>6, <1>7, InCall DEF SpaceInv, SpaceAccounted, Changing, MidInv
<1> QED BY <1>5, <1>8 DEF IInv

LEMMA OverwrittenTypes ==
  ASSUME LogMem \in [Addresses -> Cells], NEW n
  PROVE  Overwritten(n) \in [Addresses -> Cells]
<1> HIDE DEF Cells, Addresses
<1> QED BY UnknownTypes DEF Overwritten

LEMMA WriteEntryKeeps == ASSUME IInv, WriteEntry PROVE IInv'
<1>1. /\ ~overrun /\ step.at = "writing" /\ LogMem' = Overwritten(step.n)
      /\ LogMemPtr' = LogMemPtr + step.n /\ step' = Done
      /\ UNCHANGED <<LogMode, LogMemLeft, chain, view>>
  BY DEF WriteEntry, At
<1>2. overrun' \in BOOLEAN /\ (overrun' <=> LogMemPtr + step.n > Base + LOG_SIZE)
  <2>1. overrun' = (LogMemPtr + step.n > Base + LOG_SIZE)
    BY DEF WriteEntry
  <2>2. (LogMemPtr + step.n > Base + LOG_SIZE) \in BOOLEAN
    OBVIOUS
  <2> QED BY <2>1, <2>2, Zenon
<1>3. step' \in Steps /\ step'.at = "idle"
  BY <1>1, DoneStep
<1>4. QueueTypes' /\ LogMemPtr' \in Int /\ LogMem' \in [Addresses -> Cells]
  BY <1>1, InCall, OverwrittenTypes DEF QueueTypes, view
<1>5. TypeOK'
  <2> HIDE DEF Cells, Addresses
  <2> QED BY <1>1, <1>2, <1>3, <1>4, InCall, ChainKept
<1>6. tick'.at = "idle" /\ torn' = torn
  BY <1>1, InCall DEF chain, view
<1>7. ~torn => LogMemPtr + step.n + LogMemLeft = Base + LOG_SIZE
  BY <1>1 DEF IInv, MidInv
<1>8. SpaceInv' /\ SpaceAccounted' /\ MidInv'
  BY <1>1, <1>2, <1>3, <1>6, <1>7, InCall DEF SpaceInv, SpaceAccounted, Changing, MidInv
<1> QED BY <1>5, <1>8 DEF IInv

LEMMA InterruptedMemoryKeeps == ASSUME IInv, NEW e \in Entries, InterruptedMemory(e) PROVE IInv'
<1>1. /\ ~overrun /\ step.at # "idle" /\ LogMemLeft >= Size[e] /\ LogMem' = Overwritten(Size[e])
      /\ LogMemPtr' = LogMemPtr + Size[e] \/ (step.at \in {"writing", "moved"} /\ LogMemPtr' = LogMemPtr)
      /\ \/ step.at # "testing" /\ LogMemLeft' = LogMemLeft - Size[e]
         \/ step.at \in {"testing", "shrunk"} /\ LogMemLeft' = LogMemLeft
      /\ torn' = (torn \/ Tears)
      /\ UNCHANGED <<LogMode, chain, step, queue, orderly>>
  BY DEF InterruptedMemory
<1>2. overrun' \in BOOLEAN /\ (overrun' <=> LogMemPtr + Size[e] > Base + LOG_SIZE)
  <2>1. overrun' = (LogMemPtr + Size[e] > Base + LOG_SIZE)
    BY DEF InterruptedMemory
  <2>2. (LogMemPtr + Size[e] > Base + LOG_SIZE) \in BOOLEAN
    OBVIOUS
  <2> QED BY <2>1, <2>2, Zenon
<1>3. torn' \in BOOLEAN /\ (torn' <=> torn \/ Tears)
  BY <1>1, TornType DEF IInv
<1>4. Size[e] \in Nat
  BY SizeAssumption
<1>5. /\ QueueTypes' /\ LogMemPtr' \in Int /\ LogMemLeft' \in 0 .. WordSize - 1
      /\ LogMem' \in [Addresses -> Cells]
  BY <1>1, <1>3, <1>4, InCall, OverwrittenTypes DEF QueueTypes
<1>6. TypeOK'
  <2>1. step' \in Steps
    BY <1>1, StepType DEF IInv
  <2> HIDE DEF Cells, Addresses
  <2> QED BY <1>1, <1>2, <1>5, <2>1, InCall, ChainKept
<1>7. SpaceInv'
  BY <1>1, <1>2, <1>4, InCall DEF SpaceInv
<1>8. tick'.at = "idle" /\ step' = step
  BY <1>1, InCall DEF chain
<1>9. step'.at = "testing" => step'.n <= LogMemLeft'
  BY <1>1 DEF IInv, MidInv
<1>10. CASE Tears
  <2>1. SpaceAccounted' /\ MidInv'
    BY <1>3, <1>8, <1>9, <1>10 DEF SpaceAccounted, MidInv
  <2> QED BY <1>6, <1>7, <2>1 DEF IInv
<1>11. CASE ~Tears
  <2>1. step.at = "emptied"
    BY <1>1, <1>11, StepType DEF Tears, Places, Appending, Clearing, Moving, IInv
  <2>2. ~torn => LogMemPtr + LogMemLeft = Base + LOG_SIZE
    BY <1>1, <2>1, InCall DEF IInv, SpaceAccounted, Changing
  <2>3. LogMemPtr' = LogMemPtr + Size[e] /\ LogMemLeft' = LogMemLeft - Size[e]
    BY <1>1, <2>1
  <2>4. SpaceAccounted' /\ MidInv'
    BY <1>1, <1>2, <1>3, <1>4, <1>8, <1>11, <2>1, <2>2, <2>3, InCall DEF SpaceAccounted, MidInv
  <2> QED BY <1>6, <1>7, <2>4 DEF IInv
<1> QED BY <1>10, <1>11

LEMMA StutterKeeps == ASSUME IInv, UNCHANGED vars PROVE IInv'
<1>1. UNCHANGED <<LogMode, mem, list, LiveLogModePostTickCount, tick, step, view, overrun>>
  BY DEF vars
<1>2. TypeOK'
  <2> HIDE DEF Cells, Addresses, Nodes
  <2> QED BY <1>1 DEF IInv, TypeOK, mem, list, view
<1>3. SpaceInv' /\ SpaceAccounted' /\ MidInv'
  BY <1>1, SpaceKept DEF mem, view
<1> QED BY <1>2, <1>3 DEF IInv

LEMMA StepKeeps == ASSUME IInv, [Next]_vars PROVE IInv'
<1>1. CASE \E e \in Entries : LogFuncLive(e) \/ FlushForSpace(e)
  BY <1>1, LogFuncLiveKeeps, FlushForSpaceKeeps
<1>2. CASE \E e \in Entries : Interrupted(e) \/ InterruptedFull(e) \/ InterruptedMemory(e)
  BY <1>2, InterruptedKeeps, InterruptedFullKeeps, InterruptedMemoryKeeps
<1>3. CASE \E e \in Entries : TestRoom(e) \/ LogFull(e)
  BY <1>3, TestRoomKeeps, LogFullKeeps
<1>4. CASE LogTick
  BY <1>4, LogTickKeeps
<1>5. CASE LiveLogTick
  BY <1>5, SendBlockKeeps, NextBlockKeeps, CountedKeeps, LoopEndsKeeps, TickEndsKeeps DEF LiveLogTick
<1>6. CASE \E mode \in LogModes : LogSetMode(mode)
  BY <1>6, LogSetModeKeeps
<1>7. CASE EmptyCells \/ GoOn
  BY <1>7, EmptyCellsKeeps, TakeRoomKeeps, WriteEntryKeeps, RewindKeeps, FreeAllKeeps, MovePtrKeeps, CountMovedKeeps
     DEF GoOn, LogFuncMemory, LogSRAMClear
<1>8. CASE \E n \in Parts : MovePart(n)
  BY <1>8, MovePartKeeps
<1>9. CASE Undefined \/ UNCHANGED vars
  BY <1>9, StutterKeeps DEF Undefined
<1> QED BY <1>1, <1>2, <1>3, <1>4, <1>5, <1>6, <1>7, <1>8, <1>9 DEF Next

LEMMA Invariance == Spec => []IInv
<1>1. Init => IInv
  BY InitEstablishes
<1>2. IInv /\ [Next]_vars => IInv'
  BY StepKeeps
<1> QED BY <1>1, <1>2, PTL DEF Spec

(* The variables stay in their ranges: the nodes of the chain lie inside   *)
(* LogMem, and LogMemLeft and the count of the blocks in their widths.     *)
THEOREM TypeCorrect == Spec => []TypeOK
<1>1. IInv => TypeOK
  BY DEF IInv
<1> QED BY <1>1, Invariance, PTL

(* The free bytes are those behind LogMemPtr, and an entry goes behind the *)
(* end of LogMem by one byte at most, unless an interrupt appended while   *)
(* the two counters were being changed.                                    *)
THEOREM SpaceIsAccounted == Spec => []SpaceAccounted
<1>1. IInv => SpaceAccounted
  BY DEF IInv
<1> QED BY <1>1, Invariance, PTL

----------------------------------------------------------------------------
(* The chain in LogMem.  m is the contents of LogMem, p the pointer behind *)
(* what is used of it, q the entries in it and ns where their nodes are.   *)

(* The first address behind the block of entry e at address a *)
Behind(a, e) == a + LOG_BLOCK_LIST_NODE_SIZE + Size[e]

Holds(m, p, a, e) ==
  /\ a \in Nat /\ Base <= a /\ Behind(a, e) <= p
  /\ m[a] = BlockCell(a + LOG_BLOCK_LIST_NODE_SIZE, Size[e])
  /\ \A c \in a + LOG_BLOCK_LIST_NODE_SIZE .. Behind(a, e) - 1 : m[c] = DataCell(e)

Follower(q, ns, k) == IF k = Len(q) THEN NULL ELSE ns[k + 1]

Chain(m, p, q, ns) ==
  /\ ns \in [1 .. Len(q) -> Nat]
  /\ \A k \in 1 .. Len(q) :
       Holds(m, p, ns[k], q[k]) /\ m[ns[k] + 1] = NextCell(Follower(q, ns, k))
  /\ \A j, k \in 1 .. Len(q) : j < k => Behind(ns[j], q[j]) <= ns[k]

(* The nodes without the first of n, and with one more                     *)
OthersOf(ns, n) == [k \in 1 .. n - 1 |-> ns[k + 1]]

OneMore(ns, n, at) == [k \in 1 .. n + 1 |-> IF k = n + 1 THEN at ELSE ns[k]]

LEMMA NodeSizes ==
  ASSUME NEW e \in Entries
  PROVE  /\ Size[e] \in Nat \ {0} /\ LOG_BLOCK_LIST_NODE_SIZE \in Nat /\ LOG_BLOCK_LIST_NODE_SIZE >= 2
         /\ Base \in Nat \ {0} /\ LOG_SIZE \in Nat
BY SizeAssumption

LEMMA NotEmpty ==
  ASSUME NEW q \in Seq(Entries), q # <<>>
  PROVE  Len(q) \in Nat \ {0} /\ 1 \in 1 .. Len(q) /\ Len(q) \in 1 .. Len(q) /\ Head(q) = q[1]
OBVIOUS

LEMMA BehindRange ==
  ASSUME NEW a \in Nat, NEW e \in Entries
  PROVE  Behind(a, e) \in Nat /\ a + 2 < Behind(a, e)
BY NodeSizes DEF Behind

(* A block is where it was if its cells but the pointer are what they were *)
LEMMA HoldsStays ==
  ASSUME NEW m, NEW m2, NEW p \in Nat, NEW p2 \in Nat, p <= p2, NEW a, NEW e \in Entries, Holds(m, p, a, e),
         \A c \in a .. Behind(a, e) - 1 : c # a + 1 => m2[c] = m[c]
  PROVE  Holds(m2, p2, a, e)
<1>1. a \in Nat /\ Base <= a /\ Behind(a, e) <= p
  BY DEF Holds
<1>2. a \in a .. Behind(a, e) - 1 /\ a # a + 1
  BY <1>1, NodeSizes DEF Behind
<1>3. \A c \in a + LOG_BLOCK_LIST_NODE_SIZE .. Behind(a, e) - 1 : c \in a .. Behind(a, e) - 1 /\ c # a + 1
  BY <1>1, NodeSizes DEF Behind
<1>4. Behind(a, e) <= p2
  BY <1>1, NodeSizes DEF Behind
<1> HIDE DEF Behind
<1> QED BY <1>1, <1>2, <1>3, <1>4 DEF Holds

(* Nothing that is used is written *)
LEMMA ChainStays ==
  ASSUME NEW m, NEW m2, NEW p \in Nat, NEW p2 \in Nat, p <= p2, NEW q \in Seq(Entries), NEW ns, Chain(m, p, q, ns),
         \A c \in Base .. p - 1 : m2[c] = m[c]
  PROVE  Chain(m2, p2, q, ns)
<1>1. \A k \in 1 .. Len(q) : Holds(m2, p2, ns[k], q[k]) /\ m2[ns[k] + 1] = m[ns[k] + 1]
  <2> SUFFICES ASSUME NEW k \in 1 .. Len(q) PROVE Holds(m2, p2, ns[k], q[k]) /\ m2[ns[k] + 1] = m[ns[k] + 1]
    OBVIOUS
  <2>1. q[k] \in Entries /\ Holds(m, p, ns[k], q[k])
    BY DEF Chain
  <2>2. ns[k] \in Nat /\ Base <= ns[k] /\ Behind(ns[k], q[k]) <= p
    BY <2>1 DEF Holds
  <2>3. \A c \in ns[k] .. Behind(ns[k], q[k]) - 1 : c \in Base .. p - 1
    BY <2>1, <2>2, NodeSizes DEF Behind
  <2>4. ns[k] + 1 \in Base .. p - 1
    BY <2>1, <2>2, NodeSizes DEF Behind
  <2>5. Holds(m2, p2, ns[k], q[k])
    BY <2>1, <2>3, HoldsStays
  <2> QED BY <2>4, <2>5
<1> QED BY <1>1 DEF Chain

(* The first block is sent *)
LEMMA ChainTail ==
  ASSUME NEW m, NEW p, NEW q \in Seq(Entries), q # <<>>, NEW ns, Chain(m, p, q, ns)
  PROVE  Chain(m, p, Tail(q), OthersOf(ns, Len(q)))
<1> DEFINE rest == [k \in 1 .. Len(q) - 1 |-> ns[k + 1]]
<1>1. Tail(q) \in Seq(Entries) /\ Len(Tail(q)) = Len(q) - 1 /\ Len(q) \in Nat \ {0}
  OBVIOUS
<1>2. \A k \in 1 .. Len(q) - 1 : k + 1 \in 1 .. Len(q) /\ Tail(q)[k] = q[k + 1] /\ rest[k] = ns[k + 1]
  BY <1>1
<1>3. rest \in [1 .. Len(Tail(q)) -> Nat]
  BY <1>1, <1>2 DEF Chain
<1>4. \A k \in 1 .. Len(q) - 1 : Follower(Tail(q), rest, k) = Follower(q, ns, k + 1)
  <2>1. \A n \in Nat : \A k \in 1 .. n - 1 : k # n - 1 => k + 1 \in 1 .. n - 1
    OBVIOUS
  <2>2. \A k \in 1 .. Len(q) - 1 : k = Len(q) - 1 <=> k + 1 = Len(q)
    BY <1>1
  <2> HIDE DEF rest
  <2> QED BY <1>1, <1>2, <2>1, <2>2 DEF Follower
<1>5. \A j, k \in 1 .. Len(q) - 1 : j < k => j + 1 < k + 1
  BY <1>1
<1> HIDE DEF rest
<1>6. \A k \in 1 .. Len(Tail(q)) : Holds(m, p, rest[k], Tail(q)[k]) /\ m[rest[k] + 1] = NextCell(Follower(Tail(q), rest, k))
  BY <1>1, <1>2, <1>4 DEF Chain
<1>7. \A j, k \in 1 .. Len(Tail(q)) : j < k => Behind(rest[j], Tail(q)[j]) <= rest[k]
  BY <1>1, <1>2, <1>5 DEF Chain
<1>8. Chain(m, p, Tail(q), rest)
  BY <1>3, <1>6, <1>7 DEF Chain
<1> QED BY <1>8 DEF rest, OthersOf

(* A block is appended behind what is used, and only the pointer of the    *)
(* last one changes of the others                                          *)
LEMMA ChainAppend ==
  ASSUME NEW m, NEW m2, NEW p \in Nat, NEW p2 \in Nat, NEW q \in Seq(Entries), NEW ns, Chain(m, p, q, ns),
         NEW at \in Nat, NEW e \in Entries, p <= at, Holds(m2, p2, at, e), m2[at + 1] = NextCell(NULL),
         q # <<>> => m2[ns[Len(q)] + 1] = NextCell(at),
         \A c \in Base .. p - 1 : (q # <<>> => c # ns[Len(q)] + 1) => m2[c] = m[c]
  PROVE  Chain(m2, p2, Append(q, e), OneMore(ns, Len(q), at))
<1> DEFINE q2 == Append(q, e)
           more == [k \in 1 .. Len(q) + 1 |-> IF k = Len(q) + 1 THEN at ELSE ns[k]]
<1>1. Len(q) \in Nat /\ q2 \in Seq(Entries) /\ Len(q2) = Len(q) + 1 /\ (q # <<>> <=> Len(q) > 0)
  OBVIOUS
<1>2. q2[Len(q) + 1] = e /\ more[Len(q) + 1] = at /\ \A k \in 1 .. Len(q) : q2[k] = q[k] /\ more[k] = ns[k]
  BY <1>1
<1>3. more \in [1 .. Len(q2) -> Nat]
  BY <1>1 DEF Chain
<1>4. \A k \in 1 .. Len(q) : k \in 1 .. Len(q) + 1 /\ k # Len(q) + 1 /\ k + 1 \in 1 .. Len(q) + 1 /\ k < Len(q) + 1
  BY <1>1
<1>5. \A k \in 1 .. Len(q) : k # Len(q) => k + 1 \in 1 .. Len(q)
  BY <1>1
<1>6. /\ Follower(q2, more, Len(q) + 1) = NULL
      /\ \A k \in 1 .. Len(q) : Follower(q2, more, k) = IF k = Len(q) THEN at ELSE Follower(q, ns, k)
  BY <1>1, <1>2, <1>4, <1>5 DEF Follower
<1> HIDE DEF q2, more
<1>7. \A k \in 1 .. Len(q) : /\ q[k] \in Entries /\ Holds(m, p, ns[k], q[k])
                             /\ ns[k] \in Nat /\ Base <= ns[k] /\ Behind(ns[k], q[k]) <= p
                             /\ Behind(ns[k], q[k]) \in Nat /\ ns[k] + 2 < Behind(ns[k], q[k])
  <2>1. \A k \in 1 .. Len(q) : /\ q[k] \in Entries /\ Holds(m, p, ns[k], q[k]) /\ ns[k] \in Nat
    BY DEF Chain
  <2>2. \A k \in 1 .. Len(q) : Base <= ns[k] /\ Behind(ns[k], q[k]) <= p
    BY <2>1 DEF Holds
  <2> QED BY <2>1, <2>2, BehindRange
<1> Base \in Nat
  BY NodeSizes
<1>8. \A k \in 1 .. Len(q) : Holds(m2, p2, ns[k], q[k]) /\ Behind(ns[k], q[k]) <= at
  <2> SUFFICES ASSUME NEW k \in 1 .. Len(q) PROVE Holds(m2, p2, ns[k], q[k]) /\ Behind(ns[k], q[k]) <= at
    OBVIOUS
  <2>1. /\ q[k] \in Entries /\ Holds(m, p, ns[k], q[k])
        /\ ns[k] \in Nat /\ Base <= ns[k] /\ Behind(ns[k], q[k]) <= p
        /\ Behind(ns[k], q[k]) \in Nat
    BY <1>7
  <2>2. /\ Len(q) \in 1 .. Len(q) /\ q # <<>> /\ ns[Len(q)] \in Nat
        /\ k # Len(q) => Behind(ns[k], q[k]) <= ns[Len(q)]
    BY <1>1, <1>7 DEF Chain
  <2>3. \A c \in ns[k] .. Behind(ns[k], q[k]) - 1 : c # ns[k] + 1 => c \in Base .. p - 1 /\ c # ns[Len(q)] + 1
    BY <2>1, <2>2
  <2>4. p <= p2 /\ Behind(ns[k], q[k]) <= at
    <3>1. Behind(at, e) <= p2 /\ Behind(at, e) \in Nat /\ at + 2 < Behind(at, e)
      BY BehindRange DEF Holds
    <3> QED BY <2>1, <3>1
  <2> QED BY <2>1, <2>2, <2>3, <2>4, HoldsStays
<1>9. \A k \in 1 .. Len(q) : m2[ns[k] + 1] = NextCell(IF k = Len(q) THEN at ELSE Follower(q, ns, k))
  <2> SUFFICES ASSUME NEW k \in 1 .. Len(q), k # Len(q) PROVE m2[ns[k] + 1] = NextCell(Follower(q, ns, k))
    BY <1>1
  <2>1. Len(q) \in 1 .. Len(q) /\ q # <<>> /\ ns[Len(q)] \in Nat /\ Behind(ns[k], q[k]) <= ns[Len(q)]
    BY <1>1, <1>7 DEF Chain
  <2>2. /\ ns[k] \in Nat /\ Base <= ns[k] /\ Behind(ns[k], q[k]) <= p
        /\ Behind(ns[k], q[k]) \in Nat /\ ns[k] + 2 < Behind(ns[k], q[k])
    BY <1>7
  <2>3. ns[k] + 1 \in Base .. p - 1 /\ ns[k] + 1 # ns[Len(q)] + 1
    <3>1. \A a, b, c \in Nat : Base <= a /\ a + 2 < b /\ b <= p /\ b <= c => a + 1 \in Base .. p - 1 /\ a + 1 # c + 1
      OBVIOUS
    <3> QED BY <2>1, <2>2, <3>1
  <2>4. m[ns[k] + 1] = NextCell(Follower(q, ns, k))
    BY DEF Chain
  <2> QED BY <2>1, <2>3, <2>4
<1>10. \A k \in 1 .. Len(q2) : k = Len(q) + 1 \/ k \in 1 .. Len(q)
  BY <1>1
<1>11. \A k \in 1 .. Len(q2) : Holds(m2, p2, more[k], q2[k]) /\ m2[more[k] + 1] = NextCell(Follower(q2, more, k))
  BY <1>2, <1>6, <1>8, <1>9, <1>10
<1>12. \A j, k \in 1 .. Len(q2) : j < k => Behind(more[j], q2[j]) <= more[k]
  <2> SUFFICES ASSUME NEW j \in 1 .. Len(q2), NEW k \in 1 .. Len(q2), j < k PROVE Behind(more[j], q2[j]) <= more[k]
    OBVIOUS
  <2>1. j \in 1 .. Len(q)
    BY <1>1
  <2> QED BY <1>2, <1>8, <1>10, <2>1 DEF Chain
<1>13. Chain(m2, p2, q2, more)
  BY <1>3, <1>11, <1>12 DEF Chain
<1> QED BY <1>13 DEF q2, more, OneMore

----------------------------------------------------------------------------
(* Where LiveLogTick is, against what waits in the chain                   *)

FirstNode(ns) ==
  [block |-> LogMem[ns[1]], next |-> Follower(queue, ns, 1)]

Place(ns) ==
  CASE tick.at = "idle" ->
         /\ LogBlockListElementCount = Len(queue)
         /\ LogBlockListBegin = IF queue = <<>> THEN NULL ELSE ns[1]
    [] tick.at = "loop" ->
         /\ LogBlockListElementCount = Len(queue)
         /\ IF queue = <<>> THEN tick.node.block = Unknown ELSE tick.node = FirstNode(ns)
    [] tick.at = "sent" ->
         /\ LogBlockListElementCount = Len(queue) + 1
         /\ tick.node.next = IF queue = <<>> THEN NULL ELSE ns[1]
    [] tick.at = "copied" ->
         /\ LogBlockListElementCount = Len(queue) + 1 /\ tick.count = Len(queue)
         /\ queue # <<>> /\ tick.node = FirstNode(ns)
    [] tick.at = "freeing" -> queue = <<>>

Ends(ns) ==
  /\ queue # <<>> => LogBlockListBegin # NULL /\ LogBlockListEnd = ns[Len(queue)]
  /\ tick.at # "freeing" => Base + LogBlockListElementCount * LeastBlock <= LogMemPtr

(* Nothing is in a chain whose memory is being cleared or moved *)
Quiet == step.at \in {"emptied", "moved"} => queue = <<>>

Ordered(ns) == Chain(LogMem, LogMemPtr, queue, ns) /\ Place(ns) /\ Ends(ns) /\ Quiet

OrderInv == orderly /\ ~overrun => \E ns : Ordered(ns)

LEMMA LeastBlockType == LeastBlock \in Nat /\ LOG_BLOCK_LIST_NODE_SIZE < LeastBlock
BY SizeAssumption DEF LeastBlock

LEMMA PtrInMemory ==
  ASSUME IInv, ~overrun
  PROVE  LogMemPtr \in Nat /\ Base \in Nat \ {0} /\ LOG_SIZE \in Nat /\ Base <= LogMemPtr /\ LogMemPtr <= Base + LOG_SIZE
BY SizeAssumption DEF IInv, TypeOK, SpaceInv

(* LiveLogTick runs between two calls *)
LEMMA TickIsQuiet == ASSUME IInv, tick.at # "idle" PROVE step.at = "idle"
BY DEF IInv, MidInv

(* Copying the first node of the chain, or what is behind NULL             *)
LEMMA FirstIsCopied ==
  ASSUME IInv, ~overrun, tick.at # "freeing", queue # <<>>, NEW ns, Chain(LogMem, LogMemPtr, queue, ns)
  PROVE  ns[1] \in Nat \ {NULL} /\ \A node \in NodesAt(ns[1]) : node = FirstNode(ns)
<1>1. queue \in Seq(Entries)
  BY DEF IInv, TypeOK
<1>2. 1 \in 1 .. Len(queue) /\ queue[1] \in Entries
  BY <1>1
<1>3. Holds(LogMem, LogMemPtr, ns[1], queue[1]) /\ LogMem[ns[1] + 1] = NextCell(Follower(queue, ns, 1))
  BY <1>2 DEF Chain
<1>4. ns[1] \in Nat /\ Base <= ns[1] /\ Behind(ns[1], queue[1]) <= LogMemPtr
  BY <1>3 DEF Holds
<1>5. ns[1] + 2 < Behind(ns[1], queue[1]) /\ Behind(ns[1], queue[1]) \in Nat
  BY <1>2, <1>4, BehindRange
<1>6. LogMemPtr \in Nat /\ LogMemPtr <= Base + LOG_SIZE /\ Base \in Nat \ {0} /\ LOG_SIZE \in Nat
  BY PtrInMemory
<1>7. ns[1] \in Addresses /\ ns[1] + 1 \in Addresses /\ ns[1] # 0
  BY <1>4, <1>5, <1>6 DEF Addresses
<1>8. PointsTo(NextCell(Follower(queue, ns, 1))) = {Follower(queue, ns, 1)}
  BY DEF PointsTo, NextCell
<1>9. NodesAt(ns[1]) = [block : {LogMem[ns[1]]}, next : {Follower(queue, ns, 1)}]
  BY <1>3, <1>7, <1>8 DEF NodesAt
<1>10. \A node \in NodesAt(ns[1]) : node = FirstNode(ns)
  BY <1>9 DEF FirstNode
<1> QED BY <1>4, <1>7, <1>10 DEF NULL

LEMMA NullIsUnknown == \A node \in NodesAt(NULL) : node.block = Unknown
<1>1. NULL \notin Addresses
  BY SizeAssumption DEF NULL, Addresses
<1> QED BY <1>1 DEF NodesAt, AnyNode

(* LiveLogTick starts *)
LEMMA StartIsOrdered ==
  ASSUME IInv, OrderInv, orderly, ~overrun, tick.at = "idle", NEW atomic \in BOOLEAN, Starts(atomic),
         UNCHANGED <<mem, list, step, view, overrun>>
  PROVE  OrderInv'
<1>1. PICK ns : Ordered(ns)
  BY DEF OrderInv
<1>2. PICK node \in NodesAt(LogBlockListBegin) :
        tick' = [at |-> "loop", node |-> node, atomic |-> atomic, count |-> 0]
  BY DEF Starts
<1>3. /\ Chain(LogMem, LogMemPtr, queue, ns) /\ LogBlockListElementCount = Len(queue)
      /\ LogBlockListBegin = IF queue = <<>> THEN NULL ELSE ns[1]
  BY <1>1 DEF Ordered, Place
<1>4. IF queue = <<>> THEN node.block = Unknown ELSE node = FirstNode(ns)
  BY <1>2, <1>3, FirstIsCopied, NullIsUnknown
<1>5. tick'.at = "loop" /\ tick'.node = node
  BY <1>2
<1>6. /\ LogMem' = LogMem /\ LogMemPtr' = LogMemPtr /\ queue' = queue
      /\ LogBlockListElementCount' = LogBlockListElementCount
      /\ LogBlockListBegin' = LogBlockListBegin /\ LogBlockListEnd' = LogBlockListEnd
  BY DEF mem, list, view
<1>7. Place(ns)'
  BY <1>3, <1>4, <1>5, <1>6 DEF Place, FirstNode
<1>8. Ends(ns)' /\ Chain(LogMem, LogMemPtr, queue, ns)' /\ Quiet'
  BY <1>1, <1>5, <1>6 DEF Ordered, Ends, Quiet
<1> QED BY <1>7, <1>8 DEF OrderInv, Ordered


LEMMA Factor == ASSUME NEW a \in Nat, NEW b \in Nat, NEW n \in Nat, a * n < b * n PROVE a < b
<1>1. CASE b <= a
  <2>1. PICK d \in Nat : a = b + d
    <3>1. a - b \in Nat /\ a = b + (a - b)
      BY <1>1
    <3> QED BY <3>1
  <2>2. a * n = b * n + d * n /\ d * n \in Nat /\ b * n \in Nat
    BY <2>1
  <2> QED BY <2>2
<1> QED BY <1>1

(* The ends of a range that is not empty *)
LEMMA Bounds == \A n \in Nat \ {0} : n \in 1 .. n /\ 1 \in 1 .. n /\ (n # 1 => 1 < n)
OBVIOUS

(* The count cannot wrap: every block takes its least bytes                *)
LEMMA CountGrows ==
  ASSUME TypeOK, LogMemPtr \in Nat, NEW p \in Nat, Base + LogBlockListElementCount * LeastBlock <= LogMemPtr,
         LogMemPtr + LeastBlock <= p, p <= Base + LOG_SIZE
  PROVE  /\ CountAfter(1) = LogBlockListElementCount + 1
         /\ Base + (LogBlockListElementCount + 1) * LeastBlock <= p
<1> DEFINE n == LogBlockListElementCount + 1
<1>1. /\ LogBlockListElementCount \in Nat /\ n \in Nat /\ LeastBlock \in Nat /\ CountSize \in Nat
      /\ Base \in Nat /\ LOG_SIZE \in Nat
  BY SizeAssumption, LeastBlockType DEF TypeOK
<1> HIDE DEF LeastBlock
<1>2. /\ n * LeastBlock = LogBlockListElementCount * LeastBlock + LeastBlock
      /\ n * LeastBlock \in Nat /\ LogBlockListElementCount * LeastBlock \in Nat
      /\ CountSize * LeastBlock \in Nat
  BY <1>1
<1>3. Base + n * LeastBlock <= p
  BY <1>1, <1>2
<1>4. n * LeastBlock < CountSize * LeastBlock
  BY <1>1, <1>2, <1>3, CountIsWide
<1> HIDE DEF n
<1>5. n < CountSize
  BY <1>1, <1>4, Factor
<1>6. n % CountSize = n
  BY <1>1, <1>5, ModOfSmall
<1> QED BY <1>3, <1>6 DEF n, CountAfter

(* An entry is appended to a chain that is in order                        *)
LEMMA AppendToChain ==
  ASSUME IInv, ~overrun, ~overrun', tick.at # "freeing", NEW e \in Entries, ChainBlock(e), PtrMoves(e), orderly',
         NEW ns, Chain(LogMem, LogMemPtr, queue, ns), Ends(ns), queue = <<>> => LogBlockListBegin = NULL
  PROVE  \E at \in Nat \ {NULL} :
           /\ Chain(LogMem', LogMemPtr', Append(queue, e), OneMore(ns, Len(queue), at))
           /\ LogBlockListBegin' = IF LogBlockListBegin = NULL THEN at ELSE LogBlockListBegin
           /\ LogBlockListEnd' = at
           /\ LogBlockListElementCount' = LogBlockListElementCount + 1
           /\ Base + LogBlockListElementCount' * LeastBlock <= LogMemPtr'
           /\ queue # <<>> => LogMem'[ns[1]] = LogMem[ns[1]]
<1> DEFINE at == LogMemPtr + AlignOffset
           linked == IF LogBlockListBegin # NULL THEN LogBlockListEnd + 1 ELSE NULL
<1>1. /\ LogMemPtr \in Nat /\ Base \in Nat \ {0} /\ LOG_SIZE \in Nat /\ Base <= LogMemPtr
      /\ queue \in Seq(Entries) /\ AlignOffset \in Nat /\ AlignOffset >= 1
  BY SizeAssumption, AlignOffsetRange, PtrInMemory DEF IInv, TypeOK
<1>2. LogMemPtr' = LogMemPtr + (LOG_BLOCK_LIST_NODE_SIZE + AlignOffset + Size[e]) /\ LogMemPtr' <= Base + LOG_SIZE
  <2>1. LogMemPtr' = LogMemPtr + (LOG_BLOCK_LIST_NODE_SIZE + AlignOffset + Size[e])
    BY DEF PtrMoves, BlockBytes
  <2> QED BY <1>1, <2>1, OverrunWhen, NodeSizes DEF BlockBytes
<1>3. at \in Nat \ {0} /\ LogMemPtr < at /\ LogMemPtr' = Behind(at, e) /\ LogMemPtr' \in Nat
  BY <1>1, <1>2, NodeSizes DEF Behind
<1>4. /\ LogMem' = WithBlock(e, at)
      /\ LogBlockListBegin' = (IF LogBlockListBegin = NULL THEN at ELSE LogBlockListBegin)
      /\ LogBlockListEnd' = at /\ LogBlockListElementCount' = CountAfter(1)
  BY DEF ChainBlock
<1> HIDE DEF at
<1>5. queue # <<>> => LogBlockListBegin # NULL /\ LogBlockListEnd = ns[Len(queue)]
  BY DEF Ends
<1>6. queue # <<>> => /\ linked = ns[Len(queue)] + 1 /\ linked \in Addresses /\ linked < LogMemPtr
                      /\ ns[1] \in Nat /\ Base <= ns[1] /\ ns[1] < LogMemPtr /\ ns[1] # linked
  <2> SUFFICES ASSUME queue # <<>>
               PROVE  /\ linked = ns[Len(queue)] + 1 /\ linked \in Addresses /\ linked < LogMemPtr
                      /\ ns[1] \in Nat /\ Base <= ns[1] /\ ns[1] < LogMemPtr /\ ns[1] # linked
    OBVIOUS
  <2>1. Len(queue) \in 1 .. Len(queue) /\ 1 \in 1 .. Len(queue) /\ (Len(queue) # 1 => 1 < Len(queue))
    <3>1. Len(queue) \in Nat \ {0}
      BY <1>1, NotEmpty
    <3> QED BY <3>1, Bounds
  <2>2. \A k \in 1 .. Len(queue) : /\ queue[k] \in Entries /\ ns[k] \in Nat /\ Base <= ns[k]
                                   /\ Behind(ns[k], queue[k]) <= LogMemPtr
    <3>1. \A k \in 1 .. Len(queue) : queue[k] \in Entries /\ Holds(LogMem, LogMemPtr, ns[k], queue[k])
      BY <1>1 DEF Chain
    <3> QED BY <3>1 DEF Holds
  <2>3. \A k \in 1 .. Len(queue) : Behind(ns[k], queue[k]) \in Nat /\ ns[k] + 2 < Behind(ns[k], queue[k])
    BY <2>2, BehindRange
  <2>4. Len(queue) # 1 => Behind(ns[1], queue[1]) <= ns[Len(queue)]
    BY <2>1 DEF Chain
  <2>5. linked = ns[Len(queue)] + 1
    BY <1>5
  <2>6. /\ ns[Len(queue)] \in Nat /\ Base <= ns[Len(queue)] /\ ns[Len(queue)] + 2 < LogMemPtr
        /\ ns[1] \in Nat /\ Base <= ns[1] /\ ns[1] + 2 < LogMemPtr
        /\ Len(queue) # 1 => ns[1] + 2 < ns[Len(queue)]
    BY <1>1, <2>1, <2>2, <2>3, <2>4
  <2>7. LogMemPtr <= Base + LOG_SIZE
    BY DEF IInv, SpaceInv
  <2> HIDE DEF linked
  <2>8. ns[1] # ns[Len(queue)] + 1
    <3>1. \A a, b \in Nat : a = b \/ a + 2 < b => a # b + 1
      OBVIOUS
    <3> QED BY <2>6, <3>1
  <2> QED BY <1>1, <2>5, <2>6, <2>7, <2>8 DEF Addresses
<1>7. queue = <<>> => linked = 0
  BY DEF NULL
<1>8. linked < LogMemPtr /\ (queue = <<>> => linked < Base)
  BY <1>1, <1>6, <1>7
<1>9. \A a \in Addresses :
        LogMem'[a] = CASE a = linked -> NextCell(at)
                       [] a # linked /\ a = at -> BlockCell(at + LOG_BLOCK_LIST_NODE_SIZE, Size[e])
                       [] a # linked /\ a = at + 1 -> NextCell(NULL)
                       [] a # linked /\ a \in at + LOG_BLOCK_LIST_NODE_SIZE .. at + LOG_BLOCK_LIST_NODE_SIZE + Size[e] - 1 -> DataCell(e)
                       [] OTHER -> LogMem[a]
  BY <1>4 DEF WithBlock
<1>10. \A c \in at .. Behind(at, e) - 1 : c \in Addresses /\ c # linked /\ c \in Nat
  <2>1. linked \in Int /\ Behind(at, e) \in Nat /\ Behind(at, e) <= Base + LOG_SIZE
    BY <1>1, <1>2, <1>3, <1>6, <1>7 DEF Addresses
  <2> HIDE DEF linked
  <2> QED BY <1>1, <1>3, <1>8, <2>1 DEF Addresses
<1>11. /\ at \in at .. Behind(at, e) - 1 /\ at + 1 \in at .. Behind(at, e) - 1 /\ at # at + 1
       /\ \A c \in at + LOG_BLOCK_LIST_NODE_SIZE .. Behind(at, e) - 1 :
             c \in at .. Behind(at, e) - 1 /\ c # at /\ c # at + 1
  BY <1>3, NodeSizes DEF Behind
<1>12. \A c \in Base .. LogMemPtr - 1 : c \in Addresses /\ c # at /\ c # at + 1 /\ ~(c >= at + LOG_BLOCK_LIST_NODE_SIZE)
  <2>1. LogMemPtr <= Base + LOG_SIZE /\ LOG_BLOCK_LIST_NODE_SIZE \in Nat
    BY NodeSizes DEF IInv, SpaceInv
  <2> QED BY <1>1, <1>3, <2>1 DEF Addresses
<1> HIDE DEF linked
<1>13. LogMem'[at] = BlockCell(at + LOG_BLOCK_LIST_NODE_SIZE, Size[e]) /\ LogMem'[at + 1] = NextCell(NULL)
  BY <1>9, <1>10, <1>11
<1>14. \A c \in at + LOG_BLOCK_LIST_NODE_SIZE .. Behind(at, e) - 1 : LogMem'[c] = DataCell(e)
  <2>1. Behind(at, e) = at + LOG_BLOCK_LIST_NODE_SIZE + Size[e]
    BY DEF Behind
  <2>2. \A c \in at + LOG_BLOCK_LIST_NODE_SIZE .. Behind(at, e) - 1 :
          /\ c \in Addresses /\ c # linked /\ c # at /\ c # at + 1
    BY <1>10, <1>11
  <2>3. at + LOG_BLOCK_LIST_NODE_SIZE .. Behind(at, e) - 1
          = at + LOG_BLOCK_LIST_NODE_SIZE .. at + LOG_BLOCK_LIST_NODE_SIZE + Size[e] - 1
    BY <1>3, <2>1, NodeSizes
  <2> SUFFICES ASSUME NEW c \in at + LOG_BLOCK_LIST_NODE_SIZE .. Behind(at, e) - 1 PROVE LogMem'[c] = DataCell(e)
    OBVIOUS
  <2>4. c \in at + LOG_BLOCK_LIST_NODE_SIZE .. at + LOG_BLOCK_LIST_NODE_SIZE + Size[e] - 1
    BY <2>3, Zenon
  <2>5. c \in Addresses /\ c # linked /\ c # at /\ c # at + 1
    BY <2>2
  <2> QED BY <1>9, <2>4, <2>5
<1>15. \A c \in Base .. LogMemPtr - 1 : c # linked => LogMem'[c] = LogMem[c]
  BY <1>9, <1>12
<1>16. Holds(LogMem', LogMemPtr', at, e)
  BY <1>1, <1>3, <1>13, <1>14, NodeSizes DEF Holds
<1>17. queue # <<>> => LogMem'[ns[Len(queue)] + 1] = NextCell(at)
  BY <1>6, <1>9
<1>18. \A c \in Base .. LogMemPtr - 1 : (queue # <<>> => c # ns[Len(queue)] + 1) => LogMem'[c] = LogMem[c]
  BY <1>1, <1>6, <1>8, <1>15
<1>19. Chain(LogMem', LogMemPtr', Append(queue, e), OneMore(ns, Len(queue), at))
  <2>1. LogMemPtr <= at /\ at \in Nat
    BY <1>1, <1>3
  <2>2. LogMem'[at + 1] = NextCell(NULL)
    BY <1>13
  <2> QED BY <1>1, <1>3, <1>16, <1>17, <1>18, <2>1, <2>2, ChainAppend
<1>20. queue # <<>> => LogMem'[ns[1]] = LogMem[ns[1]]
  BY <1>1, <1>6, <1>15
<1>21. /\ LogBlockListElementCount' = LogBlockListElementCount + 1
       /\ Base + LogBlockListElementCount' * LeastBlock <= LogMemPtr'
  <2>1. LogMemPtr + LeastBlock <= LogMemPtr'
    BY <1>1, <1>2, NodeSizes, SizeAssumption DEF LeastBlock
  <2>2. Base + LogBlockListElementCount * LeastBlock <= LogMemPtr
    BY DEF Ends
  <2>3. TypeOK /\ LogMemPtr \in Nat /\ LogMemPtr' \in Nat /\ LogMemPtr' <= Base + LOG_SIZE
    BY <1>1, <1>2, <1>3 DEF IInv
  <2> HIDE DEF LeastBlock
  <2>4. /\ CountAfter(1) = LogBlockListElementCount + 1
        /\ Base + (LogBlockListElementCount + 1) * LeastBlock <= LogMemPtr'
    BY <2>1, <2>2, <2>3, CountGrows
  <2> QED BY <1>4, <2>4
<1> QED BY <1>3, <1>4, <1>19, <1>20, <1>21 DEF NULL


(* What LogMem holds stays, and some nodes ns are the chain of the new queue *)
LEMMA ChainFrame ==
  ASSUME UNCHANGED <<LogMem, LogMemPtr>>, NEW ns, Chain(LogMem, LogMemPtr, queue', ns), Place(ns)', Ends(ns)', Quiet'
  PROVE  OrderInv'
<1>1. Chain(LogMem, LogMemPtr, queue, ns)'
  OBVIOUS
<1> QED BY <1>1 DEF OrderInv, Ordered

(* An empty chain *)
LEMMA EmptyChain ==
  ASSUME NEW m, NEW p
  PROVE  Chain(m, p, <<>>, <<>>)
<1>1. Len(<<>>) = 0 /\ 1 .. 0 = {} /\ <<>> \in [1 .. 0 -> Nat]
  OBVIOUS
<1> QED BY <1>1 DEF Chain

LEMMA NothingWaits ==
  ASSUME queue' = <<>>, tick'.at \in {"idle", "freeing"}, LogMemPtr' \in Nat, Base <= LogMemPtr',
         tick'.at = "idle" => LogBlockListElementCount' = 0 /\ LogBlockListBegin' = NULL
  PROVE  OrderInv'
<1>1. Chain(LogMem, LogMemPtr, queue, <<>>)'
  BY EmptyChain
<1>2. Len(<<>>) = 0 /\ Base \in Nat /\ LeastBlock \in Nat
  BY SizeAssumption, LeastBlockType
<1>3. Place(<<>>)'
  BY <1>2 DEF Place
<1>4. Ends(<<>>)'
  <2>1. tick'.at # "freeing" => Base + LogBlockListElementCount' * LeastBlock <= LogMemPtr'
    BY <1>2
  <2> QED BY <2>1 DEF Ends
<1> QED BY <1>1, <1>3, <1>4 DEF OrderInv, Ordered, Quiet

LEMMA AppendFacts ==
  ASSUME NEW q \in Seq(Entries), NEW e \in Entries, NEW ns, NEW at
  PROVE  /\ Append(q, e) # <<>> /\ Len(Append(q, e)) = Len(q) + 1 /\ Len(q) \in Nat
         /\ OneMore(ns, Len(q), at)[Len(q) + 1] = at
         /\ q # <<>> => /\ OneMore(ns, Len(q), at)[1] = ns[1]
                        /\ Len(q) # 1 => OneMore(ns, Len(q), at)[2] = ns[2]
         /\ q = <<>> => Len(q) = 0
<1>1. Len(q) \in Nat /\ (q = <<>> <=> Len(q) = 0)
  OBVIOUS
<1>2. Append(q, e) # <<>> /\ Len(Append(q, e)) = Len(q) + 1
  BY AppendProperties
<1>3. \A n \in Nat : /\ n + 1 \in 1 .. n + 1
                     /\ n # 0 => 1 \in 1 .. n + 1 /\ 1 # n + 1
                     /\ n # 0 /\ n # 1 => 2 \in 1 .. n + 1 /\ 2 # n + 1
  OBVIOUS
<1> QED BY <1>1, <1>2, <1>3 DEF OneMore

(* An entry joins the chain while LiveLogTick does not run *)
LEMMA EntryJoins ==
  ASSUME IInv, OrderInv, NEW e \in Entries, ChainBlock(e), PtrMoves(e), ~overrun,
         tick.at = "idle", tick' = tick, step'.at \notin {"emptied", "moved"},
         orderly, queue' = Append(queue, e)
  PROVE  OrderInv'
<1> SUFFICES ASSUME orderly', ~overrun' PROVE OrderInv'
  BY DEF OrderInv
<1>2. PICK ns : Ordered(ns)
  BY DEF OrderInv
<1>3. /\ Chain(LogMem, LogMemPtr, queue, ns) /\ Ends(ns) /\ LogBlockListElementCount = Len(queue)
      /\ LogBlockListBegin = IF queue = <<>> THEN NULL ELSE ns[1]
  BY <1>2 DEF Ordered, Place
<1>4. PICK at \in Nat \ {NULL} :
        /\ Chain(LogMem', LogMemPtr', Append(queue, e), OneMore(ns, Len(queue), at))
        /\ LogBlockListBegin' = IF LogBlockListBegin = NULL THEN at ELSE LogBlockListBegin
        /\ LogBlockListEnd' = at
        /\ LogBlockListElementCount' = LogBlockListElementCount + 1
        /\ Base + LogBlockListElementCount' * LeastBlock <= LogMemPtr'
  BY <1>3, AppendToChain
<1>0. PICK more : more = OneMore(ns, Len(queue), at)
  OBVIOUS
<1>5. queue \in Seq(Entries)
  BY DEF IInv, TypeOK
<1>6. /\ Append(queue, e) # <<>> /\ Len(Append(queue, e)) = Len(queue) + 1 /\ more[Len(queue) + 1] = at
      /\ queue # <<>> => more[1] = ns[1]
      /\ queue = <<>> => Len(queue) = 0
  BY <1>0, <1>5, AppendFacts
<1>7. more[1] # NULL /\ LogBlockListBegin' = more[1]
  <2>1. CASE queue = <<>>
    BY <1>3, <1>4, <1>6, <2>1
  <2>2. CASE queue # <<>>
    <3>1. ns[1] # NULL
      BY <1>3, <2>2, FirstIsCopied
    <3> QED BY <1>3, <1>4, <1>6, <2>2, <3>1
  <2> QED BY <2>1, <2>2
<1>8. Place(more)'
  BY <1>3, <1>4, <1>6, <1>7 DEF Place
<1>9. Ends(more)'
  BY <1>4, <1>6, <1>7 DEF Ends
<1>10. Chain(LogMem, LogMemPtr, queue, more)'
  BY <1>0, <1>4
<1> QED BY <1>8, <1>9, <1>10 DEF OrderInv, Ordered, Quiet

LEMMA LogFuncLiveOrdered == ASSUME IInv, OrderInv, NEW e \in Entries, LogFuncLive(e) PROVE OrderInv'
<1> SUFFICES ASSUME orderly' PROVE OrderInv'
  BY DEF OrderInv
<1>1. /\ ~overrun /\ tick.at = "idle" /\ tick' = tick /\ step' = step /\ step.at = "idle"
      /\ orderly /\ queue' = Append(queue, e) /\ ChainBlock(e) /\ PtrMoves(e)
  BY DEF LogFuncLive, MainLoop, AppendBlock
<1> QED BY <1>1, EntryJoins

(* An entry of an interrupt during LiveLogTick: the node that was copied  *)
(* has a follower                                                          *)
LEMMA EntryIsTaken ==
  ASSUME IInv, OrderInv, NEW e \in Entries, ChainBlock(e), PtrMoves(e), ~overrun,
         orderly, tick' = tick, step' = step, queue' = Append(queue, e),
         tick.at \in {"loop", "sent"}, tick.node.block # Unknown, tick.node.next # NULL
  PROVE  OrderInv'
<1> SUFFICES ASSUME orderly', ~overrun' PROVE OrderInv'
  BY DEF OrderInv
<1>1. step'.at = "idle"
  BY TickIsQuiet
<1>3. tick' = tick /\ queue' = Append(queue, e)
  OBVIOUS
<1>4. tick.at \in {"loop", "sent"} /\ tick.node.block # Unknown /\ tick.node.next # NULL
  OBVIOUS
<1>5. PICK ns : Ordered(ns)
  BY DEF OrderInv
<1>6. Chain(LogMem, LogMemPtr, queue, ns) /\ Ends(ns) /\ Place(ns)
  BY <1>5 DEF Ordered
<1>7. queue # <<>>
  BY <1>4, <1>6 DEF Place
<1>8. PICK at \in Nat \ {NULL} :
        /\ Chain(LogMem', LogMemPtr', Append(queue, e), OneMore(ns, Len(queue), at))
        /\ LogBlockListBegin' = IF LogBlockListBegin = NULL THEN at ELSE LogBlockListBegin
        /\ LogBlockListEnd' = at
        /\ LogBlockListElementCount' = LogBlockListElementCount + 1
        /\ Base + LogBlockListElementCount' * LeastBlock <= LogMemPtr'
        /\ LogMem'[ns[1]] = LogMem[ns[1]]
  BY <1>4, <1>6, <1>7, AppendToChain
<1>0. PICK more : more = OneMore(ns, Len(queue), at)
  OBVIOUS
<1>9. queue \in Seq(Entries)
  BY DEF IInv, TypeOK
<1>10. /\ Append(queue, e) # <<>> /\ Len(Append(queue, e)) = Len(queue) + 1 /\ more[Len(queue) + 1] = at
       /\ more[1] = ns[1] /\ (Len(queue) # 1 => more[2] = ns[2])
       /\ Len(queue) \in Nat \ {0}
  BY <1>0, <1>7, <1>9, AppendFacts, NotEmpty
<1>11. Place(more)'
  <2>1. CASE tick.at = "loop"
    <3>1. LogBlockListElementCount = Len(queue) /\ tick.node = FirstNode(ns)
      BY <1>6, <1>7, <2>1 DEF Place
    <3>2. Len(queue) # 1
      BY <1>4, <3>1 DEF FirstNode, Follower
    <3>3. FirstNode(more)' = FirstNode(ns)
      BY <1>3, <1>8, <1>10, <3>2 DEF FirstNode, Follower
    <3> QED BY <1>3, <1>8, <1>10, <2>1, <3>1, <3>3 DEF Place
  <2>2. CASE tick.at = "sent"
    <3>1. LogBlockListElementCount = Len(queue) + 1 /\ tick.node.next = ns[1]
      BY <1>6, <1>7, <2>2 DEF Place
    <3> QED BY <1>3, <1>8, <1>10, <2>2, <3>1 DEF Place
  <2> QED BY <1>4, <2>1, <2>2
<1>12. Ends(more)'
  <2>1. LogBlockListBegin # NULL
    BY <1>6, <1>7 DEF Ends
  <2> QED BY <1>3, <1>8, <1>10, <2>1 DEF Ends
<1>13. Chain(LogMem, LogMemPtr, queue, more)'
  BY <1>0, <1>3, <1>8
<1> QED BY <1>1, <1>11, <1>12, <1>13 DEF OrderInv, Ordered, Quiet

(* An entry of an interrupt, in time *)
LEMMA InterruptedOrdered == ASSUME IInv, OrderInv, NEW e \in Entries, Interrupted(e) PROVE OrderInv'
<1> SUFFICES ASSUME orderly' PROVE OrderInv'
  BY DEF OrderInv
<1>1. ~overrun /\ ChainBlock(e) /\ step' = step
  BY DEF Interrupted, Interruptible
<1>2. orderly /\ InTime
  BY Zenon DEF Interrupted
<1>3. tick' = tick /\ queue' = Append(queue, e)
  BY DEF Interrupted
<1>4. step.at # "moved"
  BY <1>2, TickIsQuiet DEF InTime
<1>5. PtrMoves(e)
  BY <1>4 DEF Interrupted
<1>6. CASE step.at \in {"rewound", "shrunk"}
  <2>1. tick.at = "idle" /\ step'.at \notin {"emptied", "moved"}
    BY <1>1, <1>6 DEF IInv, MidInv
  <2> QED BY <1>1, <1>2, <1>3, <1>5, <2>1, EntryJoins
<1>7. CASE step.at \notin {"rewound", "shrunk"}
  <2>1. tick.at \in {"loop", "sent"} /\ tick.node.block # Unknown /\ tick.node.next # NULL
    BY <1>2, <1>7 DEF InTime
  <2> QED BY <1>1, <1>2, <1>3, <1>5, <2>1, EntryIsTaken
<1> QED BY <1>6, <1>7

LEMMA OrderUnchanged ==
  ASSUME OrderInv, UNCHANGED <<LogMem, LogMemPtr, list, tick, queue, orderly, overrun>>,
         step'.at \in {"emptied", "moved"} => step' = step
  PROVE  OrderInv'
<1> SUFFICES ASSUME orderly', ~overrun' PROVE OrderInv'
  BY DEF OrderInv
<1>1. PICK ns : Ordered(ns)
  BY DEF OrderInv
<1>2. Place(ns)' /\ Ends(ns)' /\ Chain(LogMem, LogMemPtr, queue, ns)' /\ Quiet'
  BY <1>1 DEF Ordered, Place, Ends, FirstNode, list, Quiet
<1> QED BY <1>2 DEF OrderInv, Ordered

LEMMA StartingOrdered ==
  ASSUME IInv, OrderInv, LogTick \/ \E e \in Entries : FlushForSpace(e)
  PROVE  OrderInv'
<1> SUFFICES ASSUME orderly', ~overrun' PROVE OrderInv'
  BY DEF OrderInv
<1>1. ~overrun /\ tick.at = "idle" /\ UNCHANGED <<mem, list, step, view, overrun>>
  BY DEF LogTick, FlushForSpace, MainLoop
<1>2. orderly /\ UNCHANGED <<queue, orderly>>
  BY <1>1 DEF view
<1>3. Starts(TRUE) \/ Starts(FALSE) \/ tick' = tick
  BY DEF LogTick, FlushForSpace
<1>4. CASE Starts(TRUE)
  BY <1>1, <1>2, <1>4, StartIsOrdered
<1>5. CASE Starts(FALSE)
  BY <1>1, <1>2, <1>5, StartIsOrdered
<1>6. CASE tick' = tick
  BY <1>1, <1>2, <1>6, OrderUnchanged DEF mem
<1> QED BY <1>3, <1>4, <1>5, <1>6

LEMMA TailFacts ==
  ASSUME NEW q \in Seq(Entries), q # <<>>, NEW ns
  PROVE  /\ Len(Tail(q)) = Len(q) - 1 /\ (Tail(q) = <<>> <=> Len(q) = 1)
         /\ Len(q) # 1 => OthersOf(ns, Len(q))[1] = ns[2] /\ OthersOf(ns, Len(q))[Len(q) - 1] = ns[Len(q)]
<1>1. Len(Tail(q)) = Len(q) - 1 /\ (Tail(q) = <<>> <=> Len(q) = 1)
  <2>1. Len(q) \in Nat \ {0} /\ Tail(q) \in Seq(Entries) /\ Len(Tail(q)) = Len(q) - 1
    OBVIOUS
  <2>2. Tail(q) = <<>> <=> Len(Tail(q)) = 0
    BY <2>1, EmptySeq
  <2> QED BY <2>1, <2>2
<1>2. Len(q) \in Nat \ {0}
  BY NotEmpty
<1>3. \A n \in Nat \ {0} : n # 1 => 1 \in 1 .. n - 1 /\ n - 1 \in 1 .. n - 1 /\ (n - 1) + 1 = n
  OBVIOUS
<1> QED BY <1>1, <1>2, <1>3 DEF OthersOf

(* The block that is sent is the first entry, whole                        *)
LEMMA SendBlockOrdered ==
  ASSUME IInv, OrderInv, SendBlock
  PROVE  OrderInv' /\ (orderly => queue # <<>> /\ Block(tick.node.block) = Whole(Head(queue)))
<1> SUFFICES ASSUME orderly
             PROVE  OrderInv' /\ queue # <<>> /\ Block(tick.node.block) = Whole(Head(queue))
  BY DEF OrderInv, SendBlock
<1>1. /\ ~overrun /\ tick.at = "loop" /\ LogBlockListElementCount > 0 /\ tick' = [tick EXCEPT !.at = "sent"]
      /\ UNCHANGED <<mem, list>> /\ queue' = IF orderly /\ queue # <<>> THEN Tail(queue) ELSE queue
  BY DEF SendBlock
<1>2. PICK ns : Ordered(ns)
  BY <1>1 DEF OrderInv
<1>3. Chain(LogMem, LogMemPtr, queue, ns) /\ Place(ns) /\ Ends(ns)
  BY <1>2 DEF Ordered
<1>4. queue \in Seq(Entries) /\ LogBlockListElementCount = Len(queue)
  BY <1>1, <1>3 DEF Place, IInv, TypeOK
<1>5. queue # <<>> /\ tick.node = FirstNode(ns)
  <2>1. Len(<<>>) = 0
    OBVIOUS
  <2>2. queue # <<>>
    BY <1>1, <1>4, <2>1
  <2> QED BY <1>1, <1>3, <2>2 DEF Place
<1>6. queue' = Tail(queue)
  BY <1>1, <1>5, Zenon
<1>7. /\ Len(queue) \in Nat \ {0} /\ 1 \in 1 .. Len(queue) /\ Len(queue) \in 1 .. Len(queue)
      /\ Head(queue) = queue[1] /\ queue[1] \in Entries
  BY <1>4, <1>5, NotEmpty
<1>8. Block(tick.node.block) = Whole(Head(queue))
  <2>1. Holds(LogMem, LogMemPtr, ns[1], queue[1])
    BY <1>3, <1>7 DEF Chain
  <2> DEFINE start == ns[1] + LOG_BLOCK_LIST_NODE_SIZE
             n == Size[queue[1]]
  <2>2. tick.node.block = BlockCell(start, n)
    BY <1>5, <2>1 DEF FirstNode, Holds
  <2>3. start \in Nat /\ n \in Nat /\ Behind(ns[1], queue[1]) = start + n
    BY <1>7, <2>1, NodeSizes DEF Holds, Behind
  <2>4. \A c \in start .. Behind(ns[1], queue[1]) - 1 : LogMem[c] = DataCell(queue[1])
    BY <2>1 DEF Holds
  <2> HIDE DEF start, n
  <2>5. \A i \in 1 .. n : LogMem[start + i - 1] = DataCell(queue[1])
    <3>1. \A i \in 1 .. n : start + i - 1 \in start .. Behind(ns[1], queue[1]) - 1
      BY <2>3
    <3> QED BY <2>4, <3>1
  <2>6. Block(tick.node.block) = [i \in 1 .. n |-> LogMem[start + i - 1]]
    BY <2>2 DEF Block, BlockCell
  <2>7. Whole(Head(queue)) = [i \in 1 .. n |-> DataCell(queue[1])]
    BY <1>7 DEF Whole, n
  <2> QED BY <2>5, <2>6, <2>7
<1>9. PICK rest : rest = OthersOf(ns, Len(queue))
  OBVIOUS
<1>10. /\ Len(Tail(queue)) = Len(queue) - 1 /\ (Tail(queue) = <<>> <=> Len(queue) = 1)
       /\ Len(queue) # 1 => rest[1] = ns[2] /\ rest[Len(queue) - 1] = ns[Len(queue)]
  BY <1>4, <1>5, <1>9, TailFacts
<1>11. tick'.at = "sent" /\ tick'.node = tick.node
  BY <1>1, TickType DEF IInv, Ticks
<1>12. UNCHANGED <<LogMem, LogMemPtr, LogBlockListBegin, LogBlockListEnd, LogBlockListElementCount>>
  BY <1>1 DEF mem, list
<1>13. Place(rest)'
  <2>1. tick.node.next = IF Len(queue) = 1 THEN NULL ELSE ns[2]
    BY <1>5 DEF FirstNode, Follower
  <2>2. Len(queue) = Len(Tail(queue)) + 1
    BY <1>7, <1>10
  <2> QED BY <1>4, <1>6, <1>10, <1>11, <1>12, <2>1, <2>2 DEF Place
<1>14. Ends(rest)' /\ Quiet'
  <2>1. Quiet'
    BY <1>1, TickIsQuiet DEF SendBlock, Quiet
  <2> QED BY <1>1, <1>3, <1>5, <1>6, <1>10, <1>11, <1>12, <2>1 DEF Ends
<1>15. Chain(LogMem, LogMemPtr, queue', rest)
  BY <1>3, <1>4, <1>5, <1>6, <1>9, ChainTail
<1>16. OrderInv'
  BY <1>12, <1>13, <1>14, <1>15, ChainFrame
<1> QED BY <1>5, <1>8, <1>16

LEMMA CountFalls ==
  ASSUME IInv, LogBlockListElementCount = Len(queue) + 1
  PROVE  CountAfter(-1) = Len(queue)
<1>1. LogBlockListElementCount \in 0 .. CountSize - 1 /\ Len(queue) \in Nat
  BY DEF IInv, TypeOK
<1>2. LogBlockListElementCount + (-1) = Len(queue) /\ Len(queue) < CountSize /\ CountSize \in Nat
  BY <1>1, SizeAssumption
<1> QED BY <1>1, <1>2, ModOfSmall DEF CountAfter

LEMMA NextBlockOrdered == ASSUME IInv, OrderInv, NextBlock PROVE OrderInv'
<1> SUFFICES ASSUME orderly', ~overrun' PROVE OrderInv'
  BY DEF OrderInv
<1>1. ~overrun /\ orderly /\ tick.at = "sent" /\ tick.node.next # NULL /\ UNCHANGED <<mem, list, view>>
  BY DEF NextBlock, HasNext, view
<1>2. PICK node \in NodesAt(tick.node.next) :
        tick' = [tick EXCEPT !.at = "copied", !.node = node, !.count = CountAfter(-1)]
  BY DEF NextBlock
<1>3. PICK ns : Ordered(ns)
  BY <1>1 DEF OrderInv
<1>4. Chain(LogMem, LogMemPtr, queue, ns) /\ Place(ns) /\ Ends(ns)
  BY <1>3 DEF Ordered
<1>5. queue # <<>> /\ tick.node.next = ns[1] /\ LogBlockListElementCount = Len(queue) + 1
  BY <1>1, <1>4 DEF Place
<1>6. node = FirstNode(ns) /\ CountAfter(-1) = Len(queue)
  BY <1>1, <1>2, <1>4, <1>5, FirstIsCopied, CountFalls
<1>7. tick'.at = "copied" /\ tick'.node = node /\ tick'.count = CountAfter(-1)
  BY <1>2, TickType DEF IInv, Ticks
<1>8. UNCHANGED <<LogMem, LogMemPtr, LogBlockListBegin, LogBlockListEnd, LogBlockListElementCount, queue>>
  BY <1>1 DEF mem, list, view
<1>9. Place(ns)' /\ Ends(ns)' /\ Chain(LogMem, LogMemPtr, queue', ns)
  BY <1>1, <1>4, <1>5, <1>6, <1>7, <1>8 DEF Place, Ends, FirstNode
<1>10. Quiet'
  BY <1>1, TickIsQuiet DEF NextBlock, Quiet
<1> QED BY <1>8, <1>9, <1>10, ChainFrame

LEMMA CountedOrdered == ASSUME IInv, OrderInv, Counted PROVE OrderInv'
<1> SUFFICES ASSUME orderly', ~overrun' PROVE OrderInv'
  BY DEF OrderInv
<1>1. /\ ~overrun /\ orderly /\ tick.at = "copied" /\ tick' = [tick EXCEPT !.at = "loop", !.count = 0]
      /\ LogBlockListElementCount' \in {tick.count, CountAfter(-1)}
      /\ UNCHANGED <<LogMem, LogMemPtr, LogBlockListBegin, LogBlockListEnd, queue>>
  BY DEF Counted, view, mem
<1>2. PICK ns : Ordered(ns)
  BY <1>1 DEF OrderInv
<1>3. Chain(LogMem, LogMemPtr, queue, ns) /\ Place(ns) /\ Ends(ns)
  BY <1>2 DEF Ordered
<1>4. /\ LogBlockListElementCount = Len(queue) + 1 /\ tick.count = Len(queue)
      /\ queue # <<>> /\ tick.node = FirstNode(ns)
  BY <1>1, <1>3 DEF Place
<1>5. LogBlockListElementCount' = Len(queue)
  BY <1>1, <1>4, CountFalls
<1>6. tick'.at = "loop" /\ tick'.node = tick.node
  BY <1>1, TickType DEF IInv, Ticks
<1>7. Place(ns)'
  BY <1>1, <1>4, <1>5, <1>6 DEF Place, FirstNode
<1>8. Base + Len(queue) * LeastBlock <= LogMemPtr
  <2>1. Len(queue) \in Nat /\ LeastBlock \in Nat /\ Base \in Nat /\ LogMemPtr \in Nat
    BY <1>1, PtrInMemory, LeastBlockType DEF IInv, TypeOK
  <2> HIDE DEF LeastBlock
  <2>2. (Len(queue) + 1) * LeastBlock = Len(queue) * LeastBlock + LeastBlock
    BY <2>1
  <2>3. Base + (Len(queue) + 1) * LeastBlock <= LogMemPtr
    BY <1>1, <1>3, <1>4 DEF Ends
  <2>4. Len(queue) * LeastBlock \in Nat
    BY <2>1
  <2> QED BY <2>1, <2>2, <2>3, <2>4
<1>9. Ends(ns)' /\ Chain(LogMem, LogMemPtr, queue', ns)
  BY <1>1, <1>3, <1>5, <1>8 DEF Ends
<1>10. Quiet'
  BY <1>1, TickIsQuiet DEF Counted, Quiet
<1> QED BY <1>1, <1>7, <1>9, <1>10, ChainFrame

(* LogMem is emptied after everything was sent                             *)
LEMMA LoopEndsOrdered ==
  ASSUME IInv, OrderInv, LoopEnds
  PROVE  OrderInv' /\ (orderly => queue = <<>>)
<1> SUFFICES ASSUME orderly PROVE OrderInv' /\ queue = <<>>
  BY DEF OrderInv, LoopEnds
<1>1. /\ ~overrun /\ LogMemPtr' = Base /\ queue' = queue
      /\ tick' = [Idle EXCEPT !.at = "freeing", !.atomic = tick.atomic]
      /\ \/ tick.at = "sent" /\ tick.node.next = NULL
         \/ tick.at = "loop" /\ LogBlockListElementCount = 0
  BY DEF LoopEnds, HasNext
<1>2. PICK ns : Ordered(ns)
  BY <1>1 DEF OrderInv
<1>3. Chain(LogMem, LogMemPtr, queue, ns) /\ Place(ns) /\ queue \in Seq(Entries)
  BY <1>2 DEF Ordered, IInv, TypeOK
<1>4. queue = <<>>
  <2>1. CASE tick.at = "sent" /\ tick.node.next = NULL
    BY <1>1, <1>3, <2>1, FirstIsCopied DEF Place
  <2>2. CASE tick.at = "loop" /\ LogBlockListElementCount = 0
    <3>1. Len(queue) = 0
      BY <1>3, <2>2 DEF Place
    <3> QED BY <1>3, <3>1, NotEmpty
  <2> QED BY <1>1, <2>1, <2>2
<1>5. tick'.at = "freeing"
  BY <1>1 DEF Idle
<1>6. OrderInv'
  BY <1>1, <1>4, <1>5, SizeAssumption, NothingWaits
<1> QED BY <1>4, <1>6

LEMMA TickEndsOrdered == ASSUME IInv, TickEnds PROVE OrderInv'
<1>1. /\ ~overrun /\ tick' = Idle /\ LogMemPtr' = LogMemPtr /\ queue' = <<>>
      /\ LogBlockListBegin' = NULL /\ LogBlockListElementCount' = 0
  BY DEF TickEnds, EmptyList
<1>2. tick'.at = "idle"
  BY <1>1 DEF Idle
<1>3. LogMemPtr \in Nat /\ Base <= LogMemPtr
  BY <1>1, PtrInMemory
<1> QED BY <1>1, <1>2, <1>3, NothingWaits

(* PtrInMemory as a formula that can be primed *)
LEMMA PtrThen == IInv /\ ~overrun => LogMemPtr \in Nat /\ Base <= LogMemPtr
BY PtrInMemory

(* A step after which nothing waits in the chain, and which leaves the     *)
(* list and the queue alone                                                *)
LEMMA EmptyStays ==
  ASSUME IInv', OrderInv, orderly, ~overrun, orderly', ~overrun', tick.at = "idle", UNCHANGED <<list, tick, queue>>,
         LogBlockListBegin = NULL \/ queue = <<>>
  PROVE  OrderInv'
<1>1. PICK ns : Ordered(ns)
  BY DEF OrderInv
<1>2. queue = <<>> /\ LogBlockListElementCount = Len(queue) /\ LogBlockListBegin = NULL
  BY <1>1 DEF Ordered, Ends, Place
<1>3. Len(<<>>) = 0
  OBVIOUS
<1>4. (IInv /\ ~overrun => LogMemPtr \in Nat /\ Base <= LogMemPtr)'
  BY PtrThen, PTL
<1> QED BY <1>2, <1>3, <1>4, NothingWaits DEF list

(* Clearing or moving LogMem leaves the chain in order only when it is empty *)
LEMMA DisturbingOrdered ==
  ASSUME IInv, OrderInv, EmptyCells \/ \E n \in Parts : MovePart(n)
  PROVE  OrderInv'
<1> SUFFICES ASSUME orderly', ~overrun' PROVE OrderInv'
  BY DEF OrderInv
<1>1. ~overrun /\ tick.at = "idle" /\ Disturbs /\ UNCHANGED <<list, tick>>
  BY DEF EmptyCells, MovePart, MainLoop, chain
<1>2. orderly /\ LogBlockListBegin = NULL
  BY <1>1, Zenon DEF Disturbs
<1>3. queue' = queue
  BY <1>1 DEF Disturbs
<1>4. IInv'
  BY EmptyCellsKeeps, MovePartKeeps
<1> QED BY <1>1, <1>2, <1>3, <1>4, EmptyStays

(* The steps behind the one that empties or moves the cells                *)
LEMMA GoingOnOrdered ==
  ASSUME IInv, OrderInv, Rewind \/ FreeAll \/ MovePtr \/ CountMoved
  PROVE  OrderInv'
<1> SUFFICES ASSUME orderly', ~overrun' PROVE OrderInv'
  BY DEF OrderInv
<1>1. ~overrun /\ step.at # "idle" /\ orderly /\ UNCHANGED <<LogMem, list, tick, queue, orderly>>
  BY DEF Rewind, FreeAll, MovePtr, CountMoved, At, chain, view
<1>2. tick.at = "idle"
  BY <1>1 DEF IInv, MidInv
<1>3. CASE Rewind \/ MovePtr
  <2>1. step.at \in {"emptied", "moved"}
    BY <1>3 DEF Rewind, MovePtr, At
  <2>2. queue = <<>>
    BY <1>1, <2>1 DEF OrderInv, Ordered, Quiet
  <2>3. IInv'
    BY <1>3, RewindKeeps, MovePtrKeeps
  <2> QED BY <1>1, <1>2, <2>2, <2>3, EmptyStays
<1>4. CASE FreeAll \/ CountMoved
  <2>1. LogMemPtr' = LogMemPtr /\ step' = Done /\ overrun' = overrun
    BY <1>4 DEF FreeAll, CountMoved
  <2> QED BY <1>1, <2>1, OrderUnchanged, DoneType
<1> QED BY <1>3, <1>4

(* Entries of mode MEMORY go behind the chain                              *)
LEMMA OverwrittenOrdered ==
  ASSUME IInv, OrderInv, orderly, ~overrun, NEW n \in Nat, LogMem' = Overwritten(n),
         LogMemPtr' = LogMemPtr + n \/ LogMemPtr' = LogMemPtr,
         UNCHANGED <<list, tick, queue, orderly>>, step.at # "idle",
         step'.at \in {"emptied", "moved"} => step' = step
  PROVE  OrderInv'
<1>1. PICK ns : Ordered(ns)
  BY DEF OrderInv
<1>2. Chain(LogMem, LogMemPtr, queue, ns) /\ Place(ns) /\ Ends(ns) /\ Quiet
  BY <1>1 DEF Ordered
<1>3. tick.at = "idle"
  BY DEF IInv, MidInv
<1>4. /\ LogMemPtr \in Nat /\ Base \in Nat /\ LOG_SIZE \in Nat
      /\ LogMemPtr <= Base + LOG_SIZE /\ queue \in Seq(Entries)
  BY PtrInMemory DEF IInv, TypeOK
<1>5. \A c \in Base .. LogMemPtr - 1 : LogMem'[c] = LogMem[c]
  <2>1. \A c \in Base .. LogMemPtr - 1 : c \in Addresses /\ c \notin LogMemPtr .. LogMemPtr + n - 1
    BY <1>4 DEF Addresses
  <2> QED BY <2>1 DEF Overwritten
<1>6. LogMemPtr' \in Nat /\ LogMemPtr <= LogMemPtr'
  BY <1>4
<1>7. Chain(LogMem', LogMemPtr', queue, ns)
  BY <1>2, <1>4, <1>5, <1>6, ChainStays
<1>8. Place(ns)'
  BY <1>2, <1>3 DEF Place, list
<1>9. Ends(ns)'
  <2>1. LogBlockListElementCount * LeastBlock \in Nat
    BY SizeAssumption, LeastBlockType DEF IInv, TypeOK
  <2> HIDE DEF LeastBlock
  <2> QED BY <1>2, <1>3, <1>4, <1>6, <2>1 DEF Ends, list
<1>10. Chain(LogMem, LogMemPtr, queue, ns)' /\ Quiet'
  BY <1>2, <1>7 DEF Quiet
<1> QED BY <1>8, <1>9, <1>10 DEF OrderInv, Ordered

LEMMA LogFuncMemoryOrdered == ASSUME IInv, OrderInv, LogFuncMemory PROVE OrderInv'
<1> SUFFICES ASSUME orderly', ~overrun' PROVE OrderInv'
  BY DEF OrderInv
<1>1. ~overrun /\ orderly /\ step.at # "idle" /\ UNCHANGED <<list, tick, queue, orderly>>
  BY DEF LogFuncMemory, TakeRoom, WriteEntry, At, chain, view
<1>2. CASE TakeRoom
  <2>1. step'.at = "writing" /\ LogMem' = LogMem /\ LogMemPtr' = LogMemPtr /\ overrun' = overrun
    BY <1>2, StepType DEF TakeRoom, Steps, IInv
  <2> QED BY <1>1, <2>1, OrderUnchanged
<1>3. CASE WriteEntry
  <2>1. step' = Done /\ LogMem' = Overwritten(step.n) /\ LogMemPtr' = LogMemPtr + step.n /\ step.n \in Nat
    BY <1>3, StepType DEF WriteEntry, IInv
  <2> QED BY <1>1, <2>1, OverwrittenOrdered, DoneType
<1> QED BY <1>2, <1>3 DEF LogFuncMemory

LEMMA InterruptedMemoryOrdered == ASSUME IInv, OrderInv, NEW e \in Entries, InterruptedMemory(e) PROVE OrderInv'
<1> SUFFICES ASSUME orderly', ~overrun' PROVE OrderInv'
  BY DEF OrderInv
<1>1. /\ ~overrun /\ orderly /\ step.at # "idle" /\ UNCHANGED <<list, tick, queue, orderly, step>>
      /\ LogMem' = Overwritten(Size[e]) /\ (LogMemPtr' = LogMemPtr + Size[e] \/ LogMemPtr' = LogMemPtr)
  BY DEF InterruptedMemory, chain
<1>2. Size[e] \in Nat
  BY SizeAssumption
<1> QED BY <1>1, <1>2, OverwrittenOrdered

LEMMA StepIsOrdered == ASSUME IInv, OrderInv, [Next]_vars PROVE OrderInv'
<1>1. CASE \E e \in Entries : LogFuncLive(e) \/ Interrupted(e) \/ InterruptedMemory(e)
  BY <1>1, LogFuncLiveOrdered, InterruptedOrdered, InterruptedMemoryOrdered
<1>2. CASE LogTick \/ \E e \in Entries : FlushForSpace(e)
  BY <1>2, StartingOrdered
<1>3. CASE \E e \in Entries : InterruptedFull(e)
  BY <1>3 DEF InterruptedFull, OrderInv
<1>4. CASE LiveLogTick
  BY <1>4, SendBlockOrdered, NextBlockOrdered, CountedOrdered, LoopEndsOrdered, TickEndsOrdered DEF LiveLogTick
<1>5. CASE EmptyCells \/ \E n \in Parts : MovePart(n)
  BY <1>5, DisturbingOrdered
<1>6. CASE GoOn
  BY <1>6, LogFuncMemoryOrdered, GoingOnOrdered DEF GoOn, LogSRAMClear
<1>7. CASE \E e \in Entries : TestRoom(e)
  <2>1. PICK e \in Entries : TestRoom(e)
    BY <1>7
  <2>2. step'.at = "testing" /\ UNCHANGED <<LogMem, LogMemPtr, list, tick, queue, orderly, overrun>>
    BY <2>1 DEF TestRoom, mem, chain, view
  <2> QED BY <2>2, OrderUnchanged
<1>8. CASE (\E mode \in LogModes : LogSetMode(mode)) \/ (\E e \in Entries : LogFull(e)) \/ Undefined \/ UNCHANGED vars
  <2>1. UNCHANGED <<LogMem, LogMemPtr, list, tick, step, queue, orderly, overrun>>
    BY <1>8 DEF LogSetMode, LogFull, Undefined, vars, mem, chain, view
  <2> QED BY <2>1, OrderUnchanged
<1> QED BY <1>1, <1>2, <1>3, <1>4, <1>5, <1>6, <1>7, <1>8 DEF Next

LEMMA InitIsOrdered == ASSUME Init PROVE OrderInv
<1>1. Chain(LogMem, LogMemPtr, queue, <<>>)
  BY EmptyChain DEF Init
<1>2. Len(<<>>) = 0 /\ Base \in Nat /\ LeastBlock \in Nat /\ tick.at = "idle" /\ step.at = "idle"
  BY SizeAssumption, LeastBlockType DEF Init, Idle, Done
<1>3. Place(<<>>) /\ Ends(<<>>) /\ Quiet
  <2> HIDE DEF LeastBlock
  <2> QED BY <1>2 DEF Init, Place, Ends, Quiet
<1> QED BY <1>1, <1>3 DEF OrderInv, Ordered

(* Every entry appended to an undisturbed chain is sent whole, once and in *)
(* order, those of interrupts that come in time too, and LogMem is emptied *)
(* only when nothing is left in it: LiveLogTick follows the pointers, its  *)
(* copy of a node and the one-byte count to exactly the entries that wait. *)
THEOREM EntriesAreSentInOrder == Spec => SentOnceInOrder
<1>1. Init => OrderInv
  BY InitIsOrdered
<1>2. IInv /\ OrderInv /\ [Next]_vars => OrderInv'
  BY StepIsOrdered
<1>3. IInv /\ OrderInv => [~overrun => SendStep]_vars
  <2>1. ASSUME IInv, OrderInv PROVE SendStep
    BY <2>1, SendBlockOrdered, LoopEndsOrdered DEF SendStep
  <2> QED BY <2>1
<1> QED BY <1>1, <1>2, <1>3, Invariance, PTL DEF Spec, SentOnceInOrder
=============================================================================
