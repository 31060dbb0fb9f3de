------------------------------- MODULE Reader -------------------------------
(***************************************************************************)
(* The ISO 14443A reader, Application/Reader14443A.c, with the commands of *)
(* Terminal/Commands.c that start it, the codec under it and the pending   *)
(* task above it.                                                          *)
(*                                                                         *)
(* The application is called with an answer or with silence and returns    *)
(* the next frame.  Its variables are static: they outlive the task they   *)
(* belong to, which a timeout, a button or a change of the configuration   *)
(* ends between any two calls.  A definition whose name ends in Slip is    *)
(* the definition of the same name with a plausible error in it.           *)
(***************************************************************************)
EXTENDS ReaderCodec, CommandLine

CONSTANTS Types,          \* the entries of CardIdentificationList
          DESFireTypes,   \* those told apart by a command of their own
          Clonable,       \* those CLONE has a configuration for
          Matching        \* the types that match a card's SAK, ATS and version

ASSUME TypesAssumption ==
  /\ DESFireTypes \subseteq Types /\ Clonable \subseteq Types
  /\ Matching \in [Cards -> [SAK : SUBSET Types, ATS : SUBSET Types, VERSION : SUBSET Types]]

Commands == {"Do_Nothing", "Send", "Get_UID", "Autocalibrate", "Read_MFU", "Clone_MFU",
             "Identify", "Identify_Clone"}

VARIABLES command,      \* Reader14443CurrentCommand
          reader,       \* ReaderState, Selected and CardCharacteristics
          address,      \* MFURead_CurrentAdress, in blocks of four pages
          contents,     \* MFUContents
          candidates,   \* CardCandidates
          toSend,       \* ReaderSendBitCount is not zero
          config,       \* is the configuration of the slot the reader?
          slot          \* history: what the task wrote to the memory of the slot

mfu == <<address, contents>>
app == <<command, reader, mfu, candidates, toSend>>
vars == <<airVars, task, app, config, slot>>

Someone == Cards \union {NoCard}
NoImage == [b \in Blocks |-> Silence]
States == {"IDLE", "HALT", "READY", "ACTIVE_CL", "SAK_CL", "ATS", "DESELECT", "DESFIRE_INFO"}

ReaderRecord == [state : States, level : Level,     \* ReaderState, CL1 to CL3 in level
                 Selected : BOOLEAN,
                 ATQA : Someone, SAK : Someone,     \* the card they came from
                 UID : [Level -> Someone], UIDSize : Level,
                 fresh : BOOLEAN]   \* history: the task reads from block 0 on

Init == /\ AirInit /\ TaskInit
        /\ command = "Do_Nothing"
        /\ reader = [state |-> "IDLE", level |-> 1, Selected |-> FALSE, ATQA |-> NoCard,
                     SAK |-> NoCard, UID |-> [l \in Level |-> NoCard], UIDSize |-> 1,
                     fresh |-> TRUE]
        /\ address = 0
        /\ contents = NoImage
        /\ candidates = {}
        /\ toSend = FALSE
        /\ config = "CARD"
        /\ slot = NoImage

-----------------------------------------------------------------------------
(* Selecting a card: a call gives the reader after it, whether the codec   *)
(* is to start over, and the frame to send.                                *)

Result(r, restart, f) == [reader |-> r, restart |-> restart, frame |-> f]

Goto(r, state, f) == Result([r EXCEPT !.state = state], FALSE, f)

RestartSlip(r, state) == Result([r EXCEPT !.state = state], FALSE, NoFrame)
Restart(r, state) == Result([r EXCEPT !.state = state], TRUE, NoFrame)

Deselect(r) == Result([r EXCEPT !.state = "DESELECT", !.Selected = FALSE], FALSE,
                      Frame("DESELECT", 0, NoCard))

Ready(r, a) ==
  IF a.kind # "ATQA" THEN Restart(r, "IDLE")
  ELSE Goto([r EXCEPT !.ATQA = a.from, !.level = 1], "ACTIVE_CL",
            Frame("ANTICOLLISION", 1, NoCard))

ActiveCL(r, a) ==
  IF a.kind # "UID" THEN Restart(r, "IDLE")
  ELSE Goto([r EXCEPT !.UID[r.level] = a.from], "SAK_CL", Frame("SELECT", r.level, a.from))

CascadeBitSlip(a) == FALSE

(* The UID has another part. *)
CascadeBit(a) == a.n < Levels[a.from]

SakCL(r, a) ==
  CASE a.kind # "SAK" -> Restart(r, "IDLE")
    [] a.kind = "SAK" /\ CascadeBit(a) /\ r.level < 3 ->
         Goto([r EXCEPT !.level = r.level + 1], "ACTIVE_CL",
              Frame("ANTICOLLISION", r.level + 1, NoCard))
    [] OTHER -> Result([r EXCEPT !.Selected = TRUE, !.SAK = a.from, !.UIDSize = r.level],
                       FALSE, NoFrame)

Deselecting(r, a) == IF a.kind \in {"none", "DESELECTED"} THEN Restart(r, "HALT")
                     ELSE Deselect(r)

Select(r, a) ==
  LET n == [r EXCEPT !.Selected = FALSE]
  IN  CASE r.Selected /\ r.state \notin {"IDLE", "HALT"} -> Result(r, FALSE, NoFrame)
        [] r.state \in {"IDLE", "HALT"} -> Goto(n, "READY", Frame("WUPA", 0, NoCard))
        [] ~r.Selected /\ r.state = "READY" -> Ready(r, a)
        [] ~r.Selected /\ r.state = "ACTIVE_CL" -> ActiveCL(r, a)
        [] ~r.Selected /\ r.state = "SAK_CL" -> SakCL(r, a)
        [] ~r.Selected /\ r.state = "DESELECT" -> Deselecting(r, a)
        [] OTHER -> Result(r, FALSE, NoFrame)

(* CodecTask has called the application for this command. *)
Processing(c) == config = "READER" /\ command = c /\ CodecTaskReady

(* What the call gave is handed on to the codec. *)
HandOn(s) == /\ reader' = s.reader
             /\ Return(IF s.restart THEN CodecStart(Called(codec)) ELSE Called(codec),
                       s.frame)

(* The task is answered: no card selected, no command. *)
Finish == /\ task' = PendingTaskFinished(task)
          /\ command' = "Do_Nothing"
          /\ UNCHANGED disturbances

Unselected(r) == [r EXCEPT !.Selected = FALSE]

-----------------------------------------------------------------------------
(* The commands of the application. *)

Nothing == /\ Processing("Do_Nothing")
           /\ codec' = Called(codec)
           /\ UNCHANGED <<card, disturbances, task, app, config, slot>>

UserFrames == {Frame("WUPA", 0, NoCard), Frame("USER", 0, NoCard)}

(* SEND and SEND_RAW: one frame out, one answer in. *)
Send == /\ Processing("Send")
        /\ \/ /\ toSend
              /\ toSend' = FALSE
              /\ \E f \in UserFrames : Return(Called(codec), f)
              /\ UNCHANGED <<task, command>>
           \/ /\ ~toSend
              /\ codec' = Called(codec)
              /\ Finish
              /\ UNCHANGED toSend
        /\ UNCHANGED <<card, reader, mfu, candidates, config, slot>>

GetUID == /\ Processing("Get_UID")
          /\ LET s == Select(reader, Received) IN
             IF s.reader.Selected
             THEN /\ reader' = Unselected(s.reader)
                  /\ codec' = CodecReaderFieldStop(Called(codec))
                  /\ Finish
             ELSE HandOn(s) /\ UNCHANGED <<task, command>>
          /\ UNCHANGED <<card, mfu, candidates, toSend, config, slot>>

(* A selected card is halted and the search goes on.  Thresholds, the      *)
(* counters of tries and the choice of the best are left out: when all are *)
(* tried, the search is over.                                              *)
Autocalibrate ==
  /\ Processing("Autocalibrate")
  /\ \/ LET s == Select(reader, Received) IN
        /\ IF s.reader.Selected
           THEN /\ reader' = [Unselected(s.reader) EXCEPT !.state = "HALT"]
                /\ Return(CodecStart(Called(codec)), Frame("HLTA", 0, NoCard))
           ELSE HandOn(s)
        /\ UNCHANGED <<task, command>>
     \/ /\ reader.state \in {"IDLE", "HALT"}
        /\ reader' = Unselected(reader)
        /\ codec' = CodecReset(Called(codec))
        /\ Finish
  /\ UNCHANGED <<card, mfu, candidates, toSend, config, slot>>

-----------------------------------------------------------------------------
(* DUMP_MFU and CLONE_MFU: the blocks of a MIFARE Ultralight, one by one.  *)

MFU == {"Read_MFU", "Clone_MFU"}

IsUltralight(r) == r.ATQA \in Ultralights /\ r.SAK \in Ultralights

(* The card is gone: it is selected anew and read from the start. *)
CardLostSlip(s) == /\ HandOn(Restart(Unselected(s.reader), "IDLE"))
                   /\ UNCHANGED mfu

CardLost(s) == /\ address' = 0
               /\ HandOn(Restart([Unselected(s.reader) EXCEPT !.fresh = TRUE], "IDLE"))
               /\ UNCHANGED contents

(* The block asked for is kept if it came, and asked for again if not. *)
Kept(a) == IF address # 0 /\ a.kind = "DATA"
           THEN [contents EXCEPT ![address - 1] = a]
           ELSE contents

NextBlockSlip(a) == IF a.kind # "DATA" THEN address - 1 ELSE address
NextBlock(a) == IF address # 0 /\ a.kind # "DATA" THEN address - 1 ELSE address

ReadNext(s, a) == /\ address' = NextBlock(a) + 1
                  /\ HandOn(Result(s.reader, FALSE, Frame("READ", NextBlock(a), NoCard)))

ReadDone(s, a) ==
  /\ address' = 0
  /\ reader' = Unselected(s.reader)
  /\ IF command = "Clone_MFU"
     THEN /\ slot' = Kept(a)
          /\ config' = "CARD"
          /\ codec' = CodecDeInit(Called(codec))
     ELSE /\ codec' = CodecReaderFieldStop(Called(codec))
          /\ UNCHANGED <<slot, config>>
  /\ Finish

ReadMFU ==
  /\ \E c \in MFU : Processing(c)
  /\ LET a == Received
         s == Select(reader, a)
         stay == UNCHANGED <<task, command, slot, config>>
     IN  CASE ~s.reader.Selected ->
                HandOn(s) /\ stay /\ UNCHANGED mfu
           [] s.reader.Selected /\ address # 0 /\ a = Silence ->
                CardLost(s) /\ stay
           [] s.reader.Selected /\ address = 0 /\ ~IsUltralight(s.reader) ->
                HandOn(Restart(s.reader, "IDLE")) /\ stay /\ UNCHANGED mfu
           [] OTHER ->
                /\ contents' = Kept(a)
                /\ IF NextBlock(a) = MFU_BLOCKS
                   THEN ReadDone(s, a)
                   ELSE ReadNext(s, a) /\ stay
  /\ UNCHANGED <<card, candidates, toSend>>

-----------------------------------------------------------------------------
(* IDENTIFY and CLONE: the type of the card, as far as it can be told.     *)

Identified(s, types, done) == [step |-> s, types |-> types, done |-> done]

(* DESFire cards are asked for their version, for all others this is it.   *)
Proprietary(r, types) ==
  IF types \intersect DESFireTypes # {}
  THEN Identified(Goto(r, "DESFIRE_INFO", Frame("VERSION", 0, NoCard)), types, FALSE)
  ELSE Identified(Result(r, FALSE, NoFrame), types, TRUE)

AfterSAK(r) ==
  LET types == IF r.ATQA = r.SAK THEN Matching[r.SAK].SAK ELSE {}
  IN  IF r.SAK \in Compliant
      THEN Identified(Goto(r, "ATS", Frame("RATS", 0, NoCard)), types, FALSE)
      ELSE Proprietary(r, types)

AfterATS(r, a, types) ==
  IF a.kind # "ATS" THEN Identified(Deselect(r), types, FALSE)
  ELSE Proprietary(r, types \intersect Matching[a.from].ATS)

AfterVersion(r, a) ==
  CASE a.kind = "none" -> Identified(Result(r, FALSE, NoFrame), {}, TRUE)
    [] a.kind = "VERSION" -> Identified(Result(r, FALSE, NoFrame), Matching[a.from].VERSION, TRUE)
    [] OTHER -> Identified(Deselect(r), {}, FALSE)

IdentifyCard(r, a, types) ==
  LET s == Select(r, a)
  IN  CASE ~s.reader.Selected -> Identified(s, types, FALSE)
        [] s.reader.Selected /\ s.reader.state = "SAK_CL" -> AfterSAK(s.reader)
        [] s.reader.Selected /\ s.reader.state = "ATS" -> AfterATS(s.reader, a, types)
        [] OTHER -> AfterVersion(s.reader, a)

(* The slot becomes a card of the type found, with the UID found. *)
CloneIdentified(r, types) ==
  IF \E t \in Clonable : types = {t}
  THEN /\ config' = "CARD"
       /\ slot' = [slot EXCEPT ![0] = Answer("UID", r.UID[r.UIDSize], 0)]
       /\ codec' = CodecDeInit(Called(codec))
  ELSE /\ codec' = CodecReaderFieldStop(Called(codec))
       /\ UNCHANGED <<config, slot>>

Identify ==
  /\ \E c \in {"Identify", "Identify_Clone"} : Processing(c)
  /\ LET i == IdentifyCard(reader, Received, candidates) IN
     IF i.done
     THEN /\ reader' = Unselected(i.step.reader)
          /\ candidates' = {}
          /\ CloneIdentified(i.step.reader, IF command = "Identify" THEN {} ELSE i.types)
          /\ Finish
     ELSE /\ candidates' = i.types
          /\ HandOn(i.step)
          /\ UNCHANGED <<task, command, config, slot>>
  /\ UNCHANGED <<card, mfu, toSend>>

Process == Nothing \/ Send \/ GetUID \/ Autocalibrate \/ ReadMFU \/ Identify

-----------------------------------------------------------------------------
(* The commands that start a task, and what ends one early. *)

AppReset(r) == [Unselected(r) EXCEPT !.state = "IDLE"]

(* The address of the next block is not among what is reset. *)
Begun(r) == [AppReset(r) EXCEPT !.fresh = address = 0]

(* Disturbances are counted anew for every task. *)
NewTask == disturbances' = 0 /\ slot' = NoImage /\ UNCHANGED card

Start(c) == /\ ~task.pending /\ config = "READER"
            /\ command' = c
            /\ reader' = Begun(reader)
            /\ codec' = CodecStart(codec)
            /\ task' = Begin(task, TRUE)
            /\ NewTask
            /\ UNCHANGED <<mfu, candidates, toSend, config>>

(* The command is set before its parameters are looked at: with bad ones   *)
(* nothing is started, and what is to be sent may be left behind.          *)
StartSend(valid) == /\ ~task.pending /\ config = "READER"
                    /\ command' = "Send"
                    /\ reader' = Begun(reader)
                    /\ toSend' \in (IF valid THEN {TRUE} ELSE {TRUE, toSend})
                    /\ IF valid
                       THEN /\ codec' = CodecStart(codec)
                            /\ task' = Begin(task, FALSE)
                       ELSE UNCHANGED <<codec, task>>
                    /\ NewTask
                    /\ UNCHANGED <<mfu, candidates, config>>

(* CLONE and CLONE_MFU set the configuration first, which breaks a task    *)
(* that is pending; the buttons can start them at any time.                *)
StartClone(c) == /\ IF task.pending THEN Disturbed ELSE disturbances' = 0
                 /\ UNCHANGED card /\ slot' = NoImage
                 /\ config' = "READER"
                 /\ command' = c
                 /\ reader' = Begun(reader)
                 /\ codec' = CodecStart(CodecDeInit(codec))
                 /\ task' = Begin(PendingTaskBreak(task), TRUE)
                 /\ UNCHANGED <<mfu, candidates, toSend>>

(* Reader14443AAppTimeout, if it is the callback. *)
BreakApp == IF CallsBack(task)
            THEN command' = "Do_Nothing" /\ reader' = AppReset(reader)
            ELSE UNCHANGED <<command, reader>>

(* The time of the pending task is over.  SEND may not have a callback. *)
CommandLineTimeout == /\ task.pending
                      /\ task' = PendingTaskBreak(task)
                      /\ BreakApp
                      /\ codec' = IF CallsBack(task) THEN CodecReset(codec) ELSE codec
                      /\ UNCHANGED <<card, disturbances, mfu, candidates, toSend, config, slot>>

(* CONFIG= or SETTING=, or a button that changes the slot: the codec is    *)
(* stopped, the task broken, the application of the slot initialised.      *)
ConfigurationSet(c) == /\ Disturbed /\ UNCHANGED card
                       /\ config' = c
                       /\ task' = PendingTaskBreak(task)
                       /\ codec' = CodecDeInit(codec)
                       /\ command' = IF CallsBack(task) THEN "Do_Nothing" ELSE command
                       /\ reader' = IF c = "READER" \/ CallsBack(task)
                                    THEN [reader EXCEPT !.state = "IDLE",
                                            !.Selected = @ /\ ~CallsBack(task)]
                                    ELSE reader
                       /\ UNCHANGED <<mfu, candidates, toSend, slot>>

(* FIELD= or the button that toggles the field, where it is the reader's.  *)
ToggleField == /\ config = "READER"
               /\ Disturbed /\ UNCHANGED card
               /\ codec' = IF codec.field THEN CodecReaderFieldStop(codec)
                           ELSE [codec EXCEPT !.field = TRUE]
               /\ UNCHANGED <<task, app, config, slot>>

Air == /\ DelayEnds \/ AnswerEnds
       /\ UNCHANGED <<task, app, config, slot>>

Exchange == CardChanges /\ UNCHANGED <<task, app, config, slot>>

Next == \/ Process
        \/ \E c \in {"Get_UID", "Autocalibrate", "Read_MFU", "Identify"} : Start(c)
        \/ \E valid \in BOOLEAN : StartSend(valid)
        \/ \E c \in {"Clone_MFU", "Identify_Clone"} : StartClone(c)
        \/ CommandLineTimeout
        \/ \E c \in {"READER", "CARD"} : ConfigurationSet(c)
        \/ ToggleField
        \/ Air \/ Exchange

(* The main loop and the interrupts go on; nobody has to press a button.   *)
Fairness == WF_codec(Process \/ Air)

Spec == Init /\ [][Next]_vars
FairSpec == Spec /\ Fairness
-----------------------------------------------------------------------------
(* The variables have their types; what is read is addressed in the card.  *)
TypeOK == /\ codec \in Codec /\ task \in Task
          /\ card \in Someone /\ disturbances \in 0 .. MaxDisturbances
          /\ command \in Commands
          /\ reader \in ReaderRecord
          /\ address \in 0 .. MFU_BLOCKS
          /\ contents \in [Blocks -> Answers] /\ slot \in [Blocks -> Answers]
          /\ candidates \subseteq Types
          /\ toSend \in BOOLEAN
          /\ config \in {"READER", "CARD"}

(* A pending task is never forgotten: there is a command being worked at,  *)
(* and the codec will call the application again.  Without this the        *)
(* command line, which takes nothing while a task is pending, would hang.  *)
PendingTaskIsServed ==
  task.pending => /\ config = "READER"
                  /\ command # "Do_Nothing"
                  /\ codec.Start \/ codec.RxDone \/ codec.air # "quiet"

(* What is known of a selected card is all of the same card, whatever was  *)
(* damaged or exchanged on the way: its ATQA, every part of its UID, SAK.  *)
SelectedIsOneCard ==
  reader.Selected => /\ reader.SAK \in Cards
                     /\ reader.ATQA = reader.SAK
                     /\ reader.UIDSize = Levels[reader.SAK]
                     /\ \A l \in 1 .. reader.UIDSize : reader.UID[l] = reader.SAK

(* A card that is being read: what is read of it so far is all of it and    *)
(* nothing else, whatever answer was damaged and whichever card taken away *)
(* and exchanged, if only the task found address reset when it began.      *)
BlocksOfSelectedCard ==
  command \in MFU /\ reader.Selected /\ reader.fresh =>
    \A b \in 0 .. address - 2 : contents[b] = Answer("DATA", reader.SAK, b)

(* However it ends, no task but SEND leaves the reader field on.           *)
FieldOffAfterTask ==
  [][task.pending /\ ~task'.pending /\ command # "Send" => ~codec'.field]_vars

(* A card that stays in the field is found and read in the end, unless it  *)
(* is none that can be read, or hears nothing but ISO 14443-4.             *)
CanEnd == /\ card # NoCard /\ codec.tag # "PROTOCOL"
          /\ command \in MFU => card \in Ultralights
          /\ command # "Autocalibrate"
TaskEnds == task.pending ~> (~task.pending \/ ~CanEnd)

(* A clone is the copy of one card. *)
CloneIsOneCard ==
  [][command = "Clone_MFU" /\ slot' \notin {slot, NoImage} =>
       \E c \in Cards : \A b \in Blocks : slot'[b] = Answer("DATA", c, b)]_vars
=============================================================================
