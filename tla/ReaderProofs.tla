---------------------------- MODULE ReaderProofs ----------------------------
(***************************************************************************)
(* Proofs about Reader, for every set of cards, every number of blocks and *)
(* every number of disturbances.                                           *)
(*                                                                         *)
(* That a pending task is served is not inductive: the search must not     *)
(* stop in a state of the reader that Select has no case for (Searching),  *)
(* and a timeout only stops the field where the task has its callback      *)
(* (Pending).  What Select, Identify and the codec return is stated in     *)
(* lemmas of their own, and each action is shown to keep the invariant.    *)
(*                                                                         *)
(* Nor is it inductive that the card selected is one card, or that the     *)
(* blocks read are blocks of that card.  Both rest on what a card that was *)
(* exchanged can no longer do: as long as the card in the field is READY   *)
(* or ACTIVE it is the one the search has heard of (Asked, Found, Read),   *)
(* and there is at most one answer that the application has not yet seen   *)
(* (Due).                                                                  *)
(***************************************************************************)
EXTENDS Reader, TLAPS

Requests == {"none", "WUPA", "USER", "ANTICOLLISION", "SELECT", "READ", "RATS", "VERSION", "DESELECT", "HLTA"}

Frames == [cmd : Requests, n : 0 .. MFU_BLOCKS + 3, to : Someone]

(* An answer that is not silence and passes the checks comes from a card.  *)
Traceable(a) == a.kind \notin {"none", "bad"} => a.from \in Cards

Sound(c) == c \in Codec /\ Traceable(c.rx) /\ Traceable(c.reply)

(* A card that is selected, or was asked for its ATS or its version, is    *)
(* known: the search does not stop in a state that Select has no case for. *)
Known(r) == /\ r \in ReaderRecord
            /\ r.Selected => r.SAK \in Cards

Searching(r) == r.state \in {"ATS", "DESFIRE_INFO"} => r.Selected

-----------------------------------------------------------------------------
LEMMA Numbers == /\ 0 \in 0 .. MFU_BLOCKS + 3 /\ Level \subseteq 0 .. MFU_BLOCKS + 3
                 /\ Blocks \subseteq 0 .. MFU_BLOCKS + 3
                 /\ \A b \in Blocks : b + 1 \in 0 .. MFU_BLOCKS
                 /\ \A b \in 0 .. MFU_BLOCKS : b # 0 => b - 1 \in Blocks
                 /\ \A b \in 0 .. MFU_BLOCKS : b # MFU_BLOCKS => b \in Blocks
                 /\ 0 \in Blocks /\ 0 \in 0 .. MFU_BLOCKS
  BY CardsAssumption DEF Level, Blocks

LEMMA Marks == /\ Silence \in Answers /\ Traceable(Silence)
               /\ Damaged \in Answers /\ Traceable(Damaged)
               /\ NoFrame \in Frames
  <1>1. Silence \in Answers /\ Damaged \in Answers
    BY Numbers DEF Silence, Damaged, Answer, Answers, Kinds, Someone
  <1>2. Traceable(Silence) /\ Traceable(Damaged)
    BY DEF Silence, Damaged, Answer, Traceable
  <1>3. NoFrame \in Frames
    BY Numbers DEF NoFrame, Frame, Frames, Someone, Requests
  <1> QED BY <1>1, <1>2, <1>3

LEMMA ReactionIsSound ==
  ASSUME NEW c \in Cards, NEW s \in {"IDLE", "READY", "ACTIVE", "PROTOCOL", "HALT"}, NEW f \in Frames
  PROVE  /\ Reaction(c, s, f).tag \in {"IDLE", "READY", "ACTIVE", "PROTOCOL", "HALT"}
         /\ Reaction(c, s, f).reply \in Answers
         /\ Traceable(Reaction(c, s, f).reply)
  <1>1. \A k \in Kinds : Answer(k, c, f.n) \in Answers /\ Traceable(Answer(k, c, f.n))
    BY DEF Answer, Answers, Frames, Traceable, Someone
  <1> QED BY <1>1, Marks DEF Reaction, Kinds

LEMMA CodecCalls ==
  ASSUME NEW c, Sound(c)
  PROVE  /\ Sound(CodecReaderFieldStop(c)) /\ ~CodecReaderFieldStop(c).field
         /\ Sound(CodecStart(c)) /\ CodecStart(c).Start
         /\ Sound(CodecReset(c)) /\ ~CodecReset(c).field
         /\ Sound(CodecDeInit(c)) /\ ~CodecDeInit(c).field
         /\ Sound(Called(c))
  <1>1. Sound(CodecReaderFieldStop(c)) /\ ~CodecReaderFieldStop(c).field
    BY Marks DEF CodecReaderFieldStop, Sound, Codec
  <1>2. Sound(CodecStart(c)) /\ CodecStart(c).Start
    BY Marks DEF CodecStart, Sound, Codec
  <1>3. Sound(CodecReset(c)) /\ ~CodecReset(c).field
    BY Marks DEF CodecReset, CodecReaderFieldStop, Sound, Codec
  <1>4. Sound(CodecDeInit(c)) /\ ~CodecDeInit(c).field
    BY Marks DEF CodecDeInit, CodecReaderFieldStop, Sound, Codec
  <1>5. Sound(Called(c))
    BY DEF Called, Sound, Codec
  <1> QED BY <1>1, <1>2, <1>3, <1>4, <1>5

(* The frames of a selection. *)
LEMMA FramesToSend ==
  /\ \A cmd \in Requests : Frame(cmd, 0, NoCard) \in Frames
  /\ \A l \in Level, c \in Someone :
       Frame("ANTICOLLISION", l, NoCard) \in Frames /\ Frame("SELECT", l, c) \in Frames
  /\ \A b \in Blocks : Frame("READ", b, NoCard) \in Frames
  /\ \A n, to : \A cmd \in Requests \ {"none"} : Frame(cmd, n, to) # NoFrame
  <1>1. \A cmd \in Requests, n \in 0 .. MFU_BLOCKS + 3, to \in Someone : Frame(cmd, n, to) \in Frames
    BY DEF Frame, Frames
  <1>2. NoCard \in Someone
    BY DEF Someone
  <1>3. \A n, to : \A cmd \in Requests \ {"none"} : Frame(cmd, n, to).cmd # NoFrame.cmd
    BY DEF Frame, NoFrame, Requests
  <1> QED BY <1>1, <1>2, <1>3, Numbers DEF Requests

(* What a result is made of. *)
LEMMA Results ==
  ASSUME NEW r \in ReaderRecord, NEW state \in States, NEW f
  PROVE  /\ Restart(r, state).reader \in ReaderRecord /\ Goto(r, state, f).reader \in ReaderRecord
         /\ Restart(r, state).reader.state = state /\ Goto(r, state, f).reader.state = state
         /\ Restart(r, state).reader.Selected <=> r.Selected
         /\ Goto(r, state, f).reader.Selected <=> r.Selected
         /\ Restart(r, state).reader.SAK = r.SAK /\ Goto(r, state, f).reader.SAK = r.SAK
         /\ Restart(r, state).restart /\ ~Goto(r, state, f).restart
         /\ Restart(r, state).frame = NoFrame /\ Goto(r, state, f).frame = f
  <1> DEFINE q == [r EXCEPT !.state = state]
  <1>1. /\ q \in ReaderRecord /\ q.state = state
        /\ q.Selected <=> r.Selected
        /\ q.SAK = r.SAK
    BY DEF ReaderRecord
  <1> HIDE DEF q
  <1>2. /\ Restart(r, state) = [reader |-> q, restart |-> TRUE, frame |-> NoFrame]
        /\ Goto(r, state, f) = [reader |-> q, restart |-> FALSE, frame |-> f]
    BY DEF Restart, Goto, Result, q
  <1>3. /\ Restart(r, state).reader = q /\ Goto(r, state, f).reader = q
        /\ Restart(r, state).restart /\ ~Goto(r, state, f).restart
        /\ Restart(r, state).frame = NoFrame /\ Goto(r, state, f).frame = f
    BY <1>2
  <1> QED BY <1>1, <1>3

(* A call that selects no card either sends a frame or starts the codec    *)
(* over: that is why a search never ends by itself.                        *)
GoesOn(s) == s.restart \/ s.frame # NoFrame

LEMMA DeselectGoesOn ==
  ASSUME NEW r \in ReaderRecord
  PROVE  /\ Deselect(r).reader \in ReaderRecord /\ ~Deselect(r).reader.Selected
         /\ Deselect(r).reader.state = "DESELECT"
         /\ Deselect(r).frame \in Frames /\ Deselect(r).frame # NoFrame
  <1> DEFINE q == [r EXCEPT !.state = "DESELECT", !.Selected = FALSE]
  <1>1. q \in ReaderRecord /\ ~q.Selected /\ q.state = "DESELECT"
    BY DEF ReaderRecord, States
  <1> HIDE DEF q
  <1>2. Deselect(r).reader = q /\ Deselect(r).frame = Frame("DESELECT", 0, NoCard)
    BY DEF Deselect, Result, q
  <1> QED BY <1>1, <1>2, FramesToSend DEF Requests

LEMMA SelectGoesOn ==
  ASSUME NEW r, Known(r), NEW a \in Answers, Traceable(a)
  PROVE  /\ Known(Select(r, a).reader)
         /\ Select(r, a).frame \in Frames
         /\ Searching(r) => Searching(Select(r, a).reader)
         /\ Searching(r) /\ ~Select(r, a).reader.Selected => GoesOn(Select(r, a))
  <1> USE DEF Known, Searching, GoesOn
  <1> DEFINE n == [r EXCEPT !.Selected = FALSE]
  <1>n. n \in ReaderRecord /\ ~n.Selected
    BY DEF ReaderRecord
  <1>l. \A l \in Level : l < 3 => l + 1 \in Level
    BY DEF Level
  <1>s. {"IDLE", "HALT", "READY", "ACTIVE_CL", "SAK_CL", "DESELECT"} \subseteq States
    BY DEF States
  <1>2. CASE \/ r.Selected /\ r.state \notin {"IDLE", "HALT"}
             \/ ~r.Selected /\ r.state \in {"ATS", "DESFIRE_INFO"}
    <2>1. Select(r, a) = Result(r, FALSE, NoFrame)
      BY <1>2 DEF Select
    <2> QED BY <1>2, <2>1, Marks DEF Result
  <1>3. CASE r.state \in {"IDLE", "HALT"}
    <2>1. Select(r, a) = Goto(n, "READY", Frame("WUPA", 0, NoCard))
      BY <1>3 DEF Select
    <2> HIDE DEF n
    <2> QED BY <2>1, <1>n, <1>s, Results, FramesToSend DEF Requests
  <1>r. CASE ~r.Selected /\ r.state \notin {"IDLE", "HALT"} /\ \E state \in {"IDLE", "HALT"} : Select(r, a) = Restart(r, state)
    BY <1>r, <1>s, Results, Marks
  <1>4. CASE ~r.Selected /\ r.state = "READY" /\ a.kind = "ATQA"
    <2> DEFINE q == [r EXCEPT !.ATQA = a.from, !.level = 1]
    <2>1. Select(r, a) = Goto(q, "ACTIVE_CL", Frame("ANTICOLLISION", 1, NoCard))
      BY <1>4 DEF Select, Ready
    <2>3. 1 \in Level /\ NoCard \in Someone /\ a.from \in Someone
      BY DEF Level, Someone, Answers
    <2>2. q \in ReaderRecord /\ ~q.Selected
      BY <1>4, <2>3 DEF ReaderRecord
    <2> HIDE DEF q
    <2> QED BY <2>1, <2>2, <2>3, <1>s, Results, FramesToSend DEF Requests
  <1>5. CASE ~r.Selected /\ r.state = "ACTIVE_CL" /\ a.kind = "UID"
    <2> DEFINE q == [r EXCEPT !.UID[r.level] = a.from]
    <2>1. Select(r, a) = Goto(q, "SAK_CL", Frame("SELECT", r.level, a.from))
      BY <1>5 DEF Select, ActiveCL
    <2>2. q \in ReaderRecord /\ ~q.Selected
      BY <1>5 DEF ReaderRecord, Answers, Someone
    <2>3. r.level \in Level /\ a.from \in Someone
      BY DEF ReaderRecord, Answers, Someone
    <2> HIDE DEF q
    <2> QED BY <2>1, <2>2, <2>3, <1>s, Results, FramesToSend DEF Requests
  <1>6. CASE ~r.Selected /\ r.state = "SAK_CL" /\ a.kind = "SAK"
    <2>1. Select(r, a) = SakCL(r, a)
      BY <1>6 DEF Select
    <2>2. CASE CascadeBit(a) /\ r.level < 3
      <3> DEFINE q == [r EXCEPT !.level = r.level + 1]
      <3>1. Select(r, a) = Goto(q, "ACTIVE_CL", Frame("ANTICOLLISION", r.level + 1, NoCard))
        BY <1>6, <2>1, <2>2 DEF SakCL
      <3>2. r.level + 1 \in Level /\ q \in ReaderRecord /\ ~q.Selected
        BY <1>6, <2>2, <1>l DEF ReaderRecord
      <3>3. NoCard \in Someone
        BY DEF Someone
      <3> HIDE DEF q
      <3> QED BY <3>1, <3>2, <3>3, <1>s, Results, FramesToSend DEF Requests
    <2>3. CASE ~(CascadeBit(a) /\ r.level < 3)
      <3> DEFINE q == [r EXCEPT !.Selected = TRUE, !.SAK = a.from, !.UIDSize = r.level]
      <3>1. Select(r, a) = Result(q, FALSE, NoFrame)
        BY <1>6, <2>1, <2>3 DEF SakCL
      <3>2. q \in ReaderRecord /\ q.Selected /\ q.SAK \in Cards /\ q.state = "SAK_CL"
        BY <1>6 DEF ReaderRecord, Answers, Someone, Traceable
      <3> HIDE DEF q
      <3>3. Select(r, a).reader = q /\ Select(r, a).frame = NoFrame
        BY <3>1 DEF Result
      <3> QED BY <3>2, <3>3, Marks
    <2> QED BY <2>2, <2>3
  <1>7. CASE ~r.Selected /\ r.state = "DESELECT" /\ Select(r, a) = Deselect(r)
    BY <1>7, DeselectGoesOn
  <1>8. CASE ~r.Selected /\ r.state \in {"READY", "ACTIVE_CL", "SAK_CL", "DESELECT"}
    <2>1. CASE r.state = "READY" /\ a.kind # "ATQA"
      BY <1>r, <1>8, <2>1 DEF Select, Ready
    <2>2. CASE r.state = "ACTIVE_CL" /\ a.kind # "UID"
      BY <1>r, <1>8, <2>2 DEF Select, ActiveCL
    <2>3. CASE r.state = "SAK_CL" /\ a.kind # "SAK"
      BY <1>r, <1>8, <2>3 DEF Select, SakCL
    <2>4. CASE r.state = "DESELECT"
      BY <1>r, <1>7, <1>8, <2>4 DEF Select, Deselecting
    <2> QED BY <1>4, <1>5, <1>6, <1>8, <2>1, <2>2, <2>3, <2>4
  <1> QED BY <1>2, <1>3, <1>8 DEF ReaderRecord, States

LEMMA ReturnSends ==
  ASSUME NEW c, Sound(c), NEW f \in Frames, card \in Someone, disturbances \in 0 .. MaxDisturbances,
         Return(c, f)
  PROVE  /\ Sound(codec') /\ disturbances' \in 0 .. MaxDisturbances
         /\ f = NoFrame => codec' = c
         /\ f # NoFrame => codec'.air = "sent"
  <1>1. CASE f = NoFrame
    BY <1>1 DEF Return
  <1>2. CASE f # NoFrame
    <2> DEFINE reply == Reaction(card, c.tag, f)
    <2>1. card # NoCard => /\ reply.tag \in {"IDLE", "READY", "ACTIVE", "PROTOCOL", "HALT"}
                           /\ reply.reply \in Answers /\ Traceable(reply.reply)
      BY ReactionIsSound DEF Someone, Sound, Codec
    <2>2. disturbances' \in 0 .. MaxDisturbances
      BY <1>2, CardsAssumption DEF Return, Disturbed
    <2> HIDE DEF reply
    <2>3. \/ card # NoCard /\ codec' = [c EXCEPT !.air = "sent", !.reply = reply.reply, !.tag = reply.tag]
          \/ codec' = [c EXCEPT !.air = "sent", !.reply = Silence]
      BY <1>2 DEF Return, reply
    <2>4. Sound(codec') /\ codec'.air = "sent"
      BY <2>1, <2>3, Marks DEF Sound, Codec
    <2> QED BY <1>2, <2>2, <2>4
  <1> QED BY <1>1, <1>2

-----------------------------------------------------------------------------
(* IDENTIFY goes on likewise until it is done. *)
LEMMA IdentifyGoesOn ==
  ASSUME NEW r, Known(r), NEW a \in Answers, Traceable(a), NEW types, types \subseteq Types
  PROVE  /\ Known(IdentifyCard(r, a, types).step.reader)
         /\ IdentifyCard(r, a, types).step.frame \in Frames
         /\ IdentifyCard(r, a, types).types \subseteq Types
         /\ Searching(r) /\ ~IdentifyCard(r, a, types).done
              => /\ Searching(IdentifyCard(r, a, types).step.reader)
                 /\ GoesOn(IdentifyCard(r, a, types).step)
  <1> DEFINE s == Select(r, a)
  <1> DEFINE q == s.reader
  <1> DEFINE i == IdentifyCard(r, a, types)
  <1>1. /\ Known(q) /\ s.frame \in Frames
        /\ Searching(r) => Searching(q) /\ (~q.Selected => GoesOn(s))
    BY SelectGoesOn
  <1>s. {"ATS", "DESFIRE_INFO"} \subseteq States
    BY DEF States
  <1>m. \A c \in Cards : /\ Matching[c].SAK \subseteq Types /\ Matching[c].ATS \subseteq Types
                          /\ Matching[c].VERSION \subseteq Types
    BY TypesAssumption
  <1> HIDE DEF s
  <1>g. ASSUME NEW state \in {"ATS", "DESFIRE_INFO"}, NEW cmd \in {"RATS", "VERSION"}, q.Selected
        PROVE  LET g == Goto(q, state, Frame(cmd, 0, NoCard)) IN
               Known(g.reader) /\ Searching(g.reader) /\ GoesOn(g) /\ g.frame \in Frames
    BY <1>1, <1>s, <1>g, Results, FramesToSend DEF Known, Searching, GoesOn, Requests
  <1>r. Known(Result(q, FALSE, NoFrame).reader) /\ Result(q, FALSE, NoFrame).frame \in Frames
    BY <1>1, Marks DEF Result
  <1>d. /\ Known(Deselect(q).reader) /\ Searching(Deselect(q).reader)
        /\ Deselect(q).frame \in Frames /\ GoesOn(Deselect(q))
    BY <1>1, DeselectGoesOn DEF Known, Searching, GoesOn
  <1>p. ASSUME NEW ts, ts \subseteq Types, q.Selected, i = Proprietary(q, ts)
        PROVE  /\ Known(i.step.reader) /\ i.step.frame \in Frames /\ i.types \subseteq Types
               /\ ~i.done => Searching(i.step.reader) /\ GoesOn(i.step)
    <2> HIDE DEF q, i
    <2>1. CASE ts \intersect DESFireTypes # {}
      <3>1. i = Identified(Goto(q, "DESFIRE_INFO", Frame("VERSION", 0, NoCard)), ts, FALSE)
        BY <1>p, <2>1 DEF Proprietary
      <3> QED BY <3>1, <1>p, <1>g DEF Identified
    <2>2. CASE ~(ts \intersect DESFireTypes # {})
      <3>1. i = Identified(Result(q, FALSE, NoFrame), ts, TRUE)
        BY <1>p, <2>2 DEF Proprietary
      <3>2. i.step = Result(q, FALSE, NoFrame) /\ i.types = ts /\ i.done
        BY <3>1 DEF Identified
      <3> QED BY <3>2, <1>p, <1>r
    <2> QED BY <2>1, <2>2
  <1>2. CASE ~q.Selected
    <2>1. i = Identified(s, types, FALSE)
      BY <1>2 DEF IdentifyCard, s
    <2> HIDE DEF i, q
    <2>2. i.step = s /\ i.types = types
      BY <2>1 DEF Identified
    <2> QED BY <2>2, <1>1, <1>2 DEF q, i
  <1>3. CASE q.Selected /\ q.state = "SAK_CL"
    <2>1. i = AfterSAK(q)
      BY <1>3 DEF IdentifyCard, s
    <2> DEFINE ts == IF q.ATQA = q.SAK THEN Matching[q.SAK].SAK ELSE {}
    <2>2. ts \subseteq Types
      BY <1>1, <1>3, <1>m DEF Known
    <2>3. CASE q.SAK \in Compliant
      <3> HIDE DEF q, i
      <3>1. i = Identified(Goto(q, "ATS", Frame("RATS", 0, NoCard)), ts, FALSE)
        BY <2>1, <2>3 DEF AfterSAK
      <3> HIDE DEF ts
      <3>2. i.step = Goto(q, "ATS", Frame("RATS", 0, NoCard)) /\ i.types = ts
        BY <3>1 DEF Identified
      <3> QED BY <3>2, <2>2, <1>3, <1>g DEF q, i
    <2>4. CASE q.SAK \notin Compliant
      <3>1. i = Proprietary(q, ts)
        BY <2>1, <2>4 DEF AfterSAK
      <3> HIDE DEF ts
      <3> QED BY <3>1, <2>2, <1>3, <1>p
    <2> QED BY <2>3, <2>4
  <1>4. CASE q.Selected /\ q.state = "ATS"
    <2>1. i = AfterATS(q, a, types)
      BY <1>4 DEF IdentifyCard, s
    <2>2. CASE a.kind # "ATS"
      <3>1. i = Identified(Deselect(q), types, FALSE)
        BY <2>1, <2>2 DEF AfterATS
      <3> HIDE DEF i, q
      <3>2. i.step = Deselect(q) /\ i.types = types
        BY <3>1 DEF Identified
      <3> QED BY <3>2, <1>d DEF i, q
    <2>3. CASE a.kind = "ATS"
      <3> DEFINE ts == types \intersect Matching[a.from].ATS
      <3>1. i = Proprietary(q, ts)
        BY <2>1, <2>3 DEF AfterATS
      <3>2. ts \subseteq Types
        OBVIOUS
      <3> HIDE DEF ts
      <3> QED BY <3>1, <3>2, <1>4, <1>p
    <2> QED BY <2>2, <2>3
  <1>5. CASE q.Selected /\ q.state \notin {"SAK_CL", "ATS"}
    <2>1. i = AfterVersion(q, a)
      BY <1>5 DEF IdentifyCard, s
    <2>2. CASE a.kind \in {"none", "VERSION"}
      <3> DEFINE ts == IF a.kind = "none" THEN {} ELSE Matching[a.from].VERSION
      <3>1. i = Identified(Result(q, FALSE, NoFrame), ts, TRUE)
        BY <2>1, <2>2 DEF AfterVersion
      <3>2. ts \subseteq Types
        BY <2>2, <1>m DEF Traceable
      <3> HIDE DEF i, q, ts
      <3>3. i.step = Result(q, FALSE, NoFrame) /\ i.types = ts /\ i.done
        BY <3>1 DEF Identified
      <3> QED BY <3>2, <3>3, <1>r DEF i, q
    <2>3. CASE a.kind \notin {"none", "VERSION"}
      <3>1. i = Identified(Deselect(q), {}, FALSE)
        BY <2>1, <2>3 DEF AfterVersion
      <3> HIDE DEF i, q
      <3>2. i.step = Deselect(q) /\ i.types = {}
        BY <3>1 DEF Identified
      <3> QED BY <3>2, <1>d DEF i, q
    <2> QED BY <2>2, <2>3
  <1> QED BY <1>2, <1>3, <1>4, <1>5

-----------------------------------------------------------------------------
(* The inductive invariant. *)
Served(c) == c.Start \/ c.RxDone \/ c.air # "quiet"

Pending == task.pending => /\ config = "READER" /\ command # "Do_Nothing"
                           /\ Served(codec) /\ Searching(reader)
                           /\ command # "Send" => task.callback

IInv == TypeOK /\ Sound(codec) /\ Known(reader) /\ Pending

(* The field is off where a task but SEND ends. *)
Off == task.pending /\ ~task'.pending /\ command # "Send" => ~codec'.field

Heard == Received \in Answers /\ Traceable(Received)

LEMMA WhatIsReceived == Sound(codec) => Heard
  BY Marks DEF Heard, Received, Sound, Codec

LEMMA HandOnGoesOn ==
  ASSUME IInv, NEW s, Known(s.reader), s.frame \in Frames,
         task.pending => Searching(s.reader) /\ GoesOn(s), HandOn(s)
  PROVE  /\ Sound(codec') /\ disturbances' \in 0 .. MaxDisturbances /\ Known(reader')
         /\ task.pending => Searching(reader') /\ Served(codec')
  <1> DEFINE c == IF s.restart THEN CodecStart(Called(codec)) ELSE Called(codec)
  <1>1. Sound(c) /\ (s.restart => c.Start)
    BY CodecCalls DEF IInv
  <1>2. reader' = s.reader /\ Return(c, s.frame)
    BY DEF HandOn
  <1> HIDE DEF c
  <1>3. /\ Sound(codec') /\ disturbances' \in 0 .. MaxDisturbances
        /\ s.frame = NoFrame => codec' = c
        /\ s.frame # NoFrame => codec'.air = "sent"
    BY <1>1, <1>2, ReturnSends DEF IInv, TypeOK
  <1>4. GoesOn(s) => Served(codec')
    BY <1>1, <1>3 DEF GoesOn, Served
  <1> QED BY <1>2, <1>3, <1>4

LEMMA FinishEnds ==
  ASSUME IInv, Finish
  PROVE  /\ task' \in Task /\ ~task'.pending /\ command' \in Commands
         /\ disturbances' \in 0 .. MaxDisturbances /\ Pending'
  BY DEF IInv, TypeOK, Finish, PendingTaskFinished, Task, Commands, Pending

LEMMA UnselectedIsKnown ==
  ASSUME NEW r, Known(r)
  PROVE  Known(Unselected(r)) /\ ~Unselected(r).Selected
  BY DEF Unselected, Known, ReaderRecord

LEMMA NothingKeeps == IInv /\ Nothing => IInv' /\ Off
  <1> SUFFICES ASSUME IInv, Nothing PROVE IInv' /\ Off
    OBVIOUS
  <1>1. ~task.pending /\ codec' = Called(codec) /\ UNCHANGED <<card, disturbances, task, app, config, slot>>
    BY DEF Nothing, Processing, IInv, Pending
  <1>2. Sound(codec')
    BY <1>1, CodecCalls DEF IInv
  <1>3. TypeOK'
    BY <1>1, <1>2 DEF IInv, TypeOK, app, mfu, Sound
  <1>4. Known(reader') /\ Pending' /\ Off
    BY <1>1 DEF IInv, app, Pending, Off
  <1> QED BY <1>2, <1>3, <1>4 DEF IInv

LEMMA SendKeeps == IInv /\ Send => IInv' /\ Off
  <1> SUFFICES ASSUME IInv, Send PROVE IInv' /\ Off
    OBVIOUS
  <1>0. command = "Send" /\ UNCHANGED <<card, reader, mfu, candidates, config, slot>>
    BY DEF Send, Processing
  <1>1. CASE toSend
    <2>1. PICK f \in UserFrames : Return(Called(codec), f)
      BY <1>1 DEF Send
    <2>2. toSend' = FALSE /\ UNCHANGED <<task, command>>
      BY <1>1 DEF Send
    <2>3. f \in Frames /\ f # NoFrame
      BY FramesToSend DEF UserFrames, Requests
    <2>4. Sound(codec') /\ disturbances' \in 0 .. MaxDisturbances /\ codec'.air = "sent"
      BY <2>1, <2>3, CodecCalls, ReturnSends DEF IInv, TypeOK
    <2>5. TypeOK'
      BY <1>0, <2>2, <2>4 DEF IInv, TypeOK, mfu, Sound
    <2>6. Known(reader') /\ Pending' /\ Off
      BY <1>0, <2>2, <2>4 DEF IInv, Pending, Served, Off
    <2> QED BY <2>4, <2>5, <2>6 DEF IInv
  <1>2. CASE ~toSend
    <2>1. codec' = Called(codec) /\ Finish /\ UNCHANGED toSend
      BY <1>2 DEF Send
    <2>2. Sound(codec')
      BY <2>1, CodecCalls DEF IInv
    <2>3. TypeOK'
      BY <1>0, <2>1, <2>2, FinishEnds DEF IInv, TypeOK, mfu, Sound
    <2> QED BY <1>0, <2>1, <2>2, <2>3, FinishEnds DEF IInv, Off
  <1> QED BY <1>1, <1>2

LEMMA GetUIDKeeps == IInv /\ GetUID => IInv' /\ Off
  <1> SUFFICES ASSUME IInv, GetUID PROVE IInv' /\ Off
    OBVIOUS
  <1> DEFINE s == Select(reader, Received)
  <1>0. UNCHANGED <<card, mfu, candidates, toSend, config, slot>> /\ command = "Get_UID"
    BY DEF GetUID, Processing
  <1>1. /\ Known(s.reader) /\ s.frame \in Frames
        /\ task.pending => Searching(s.reader) /\ (~s.reader.Selected => GoesOn(s))
    BY WhatIsReceived, SelectGoesOn DEF IInv, Pending, Heard
  <1>2. CASE s.reader.Selected
    <2>1. reader' = Unselected(s.reader) /\ codec' = CodecReaderFieldStop(Called(codec)) /\ Finish
      BY <1>2 DEF GetUID
    <2> HIDE DEF s
    <2>2. Sound(codec') /\ ~codec'.field /\ Known(reader')
      BY <1>1, <2>1, CodecCalls, UnselectedIsKnown DEF IInv
    <2>3. TypeOK'
      BY <1>0, <2>1, <2>2, FinishEnds DEF IInv, TypeOK, mfu, Sound, Known
    <2> QED BY <2>1, <2>2, <2>3, FinishEnds DEF IInv, Off
  <1>3. CASE ~s.reader.Selected
    <2>1. HandOn(s) /\ UNCHANGED <<task, command>>
      BY <1>3 DEF GetUID
    <2> HIDE DEF s
    <2>2. /\ Sound(codec') /\ disturbances' \in 0 .. MaxDisturbances /\ Known(reader')
          /\ task.pending => Searching(reader') /\ Served(codec')
      BY <1>1, <1>3, <2>1, HandOnGoesOn
    <2>3. TypeOK'
      BY <1>0, <2>1, <2>2 DEF IInv, TypeOK, mfu, Sound, Known
    <2>4. Pending' /\ Off
      BY <1>0, <2>1, <2>2 DEF IInv, Pending, Off
    <2> QED BY <2>2, <2>3, <2>4 DEF IInv
  <1> QED BY <1>2, <1>3

LEMMA AutocalibrateKeeps == IInv /\ Autocalibrate => IInv' /\ Off
  <1> SUFFICES ASSUME IInv, Autocalibrate PROVE IInv' /\ Off
    OBVIOUS
  <1> DEFINE s == Select(reader, Received)
  <1>0. UNCHANGED <<card, mfu, candidates, toSend, config, slot>> /\ command = "Autocalibrate"
    BY DEF Autocalibrate, Processing
  <1>1. /\ Known(s.reader) /\ s.frame \in Frames
        /\ task.pending => Searching(s.reader) /\ (~s.reader.Selected => GoesOn(s))
    BY WhatIsReceived, SelectGoesOn DEF IInv, Pending, Heard
  <1>h. ASSUME Sound(codec'), disturbances' \in 0 .. MaxDisturbances, Known(reader'),
               task.pending => Searching(reader') /\ Served(codec'), UNCHANGED <<task, command>>
        PROVE  IInv' /\ Off
    <2>1. TypeOK'
      BY <1>0, <1>h DEF IInv, TypeOK, mfu, Sound, Known
    <2>2. Pending' /\ Off
      BY <1>0, <1>h DEF IInv, Pending, Off
    <2> QED BY <1>h, <2>1, <2>2 DEF IInv
  <1>2. CASE /\ s.reader.Selected /\ UNCHANGED <<task, command>>
             /\ reader' = [Unselected(s.reader) EXCEPT !.state = "HALT"]
             /\ Return(CodecStart(Called(codec)), Frame("HLTA", 0, NoCard))
    <2>1. Known(reader') /\ Searching(reader')
      BY <1>1, <1>2, UnselectedIsKnown DEF Known, Searching, ReaderRecord, States
    <2>2. Frame("HLTA", 0, NoCard) \in Frames /\ Frame("HLTA", 0, NoCard) # NoFrame
      BY FramesToSend DEF Requests
    <2>3. Sound(codec') /\ disturbances' \in 0 .. MaxDisturbances /\ codec'.air = "sent"
      BY <1>2, <2>2, CodecCalls, ReturnSends DEF IInv, TypeOK
    <2> QED BY <1>2, <1>h, <2>1, <2>3 DEF Served
  <1>3. CASE ~s.reader.Selected /\ HandOn(s) /\ UNCHANGED <<task, command>>
    <2> HIDE DEF s
    <2> QED BY <1>1, <1>3, <1>h, HandOnGoesOn
  <1>4. CASE reader' = Unselected(reader) /\ codec' = CodecReset(Called(codec)) /\ Finish
    <2>1. Sound(codec') /\ ~codec'.field /\ Known(reader')
      BY <1>4, CodecCalls, UnselectedIsKnown DEF IInv
    <2>2. TypeOK'
      BY <1>0, <1>4, <2>1, FinishEnds DEF IInv, TypeOK, mfu, Sound, Known
    <2> QED BY <1>4, <2>1, <2>2, FinishEnds DEF IInv, Off
  <1> QED BY <1>2, <1>3, <1>4 DEF Autocalibrate

-----------------------------------------------------------------------------
(* What reading a MIFARE Ultralight does to the blocks. *)
LEMMA BlocksAreBlocks ==
  ASSUME TypeOK, NEW a \in Answers
  PROVE  /\ Kept(a) \in [Blocks -> Answers]
         /\ NextBlock(a) \in 0 .. MFU_BLOCKS
         /\ NextBlock(a) # MFU_BLOCKS => NextBlock(a) \in Blocks /\ NextBlock(a) + 1 \in 0 .. MFU_BLOCKS
  <1>1. NextBlock(a) \in 0 .. MFU_BLOCKS
    BY CardsAssumption DEF TypeOK, NextBlock
  <1>2. Kept(a) \in [Blocks -> Answers]
    BY Numbers DEF TypeOK, Kept
  <1> QED BY <1>1, <1>2, Numbers

LEMMA ReadMFUKeeps == IInv /\ ReadMFU => IInv' /\ Off
  <1> SUFFICES ASSUME IInv, ReadMFU PROVE IInv' /\ Off
    OBVIOUS
  <1> DEFINE a == Received
             s == Select(reader, a)
             stay == UNCHANGED <<task, command, slot, config>>
  <1>0. UNCHANGED <<card, candidates, toSend>> /\ command \in MFU
    BY DEF ReadMFU, Processing
  <1>a. a \in Answers /\ Traceable(a)
    BY WhatIsReceived DEF IInv, Heard
  <1>1. /\ Known(s.reader) /\ s.frame \in Frames
        /\ task.pending => Searching(s.reader) /\ (~s.reader.Selected => GoesOn(s))
    BY <1>a, SelectGoesOn DEF IInv, Pending
  <1>b. /\ Kept(a) \in [Blocks -> Answers] /\ NextBlock(a) \in 0 .. MFU_BLOCKS
        /\ NextBlock(a) # MFU_BLOCKS => NextBlock(a) \in Blocks /\ NextBlock(a) + 1 \in 0 .. MFU_BLOCKS
    BY <1>a, BlocksAreBlocks DEF IInv
  <1>c. \/ ~s.reader.Selected /\ HandOn(s) /\ stay /\ UNCHANGED mfu
        \/ s.reader.Selected /\ CardLost(s) /\ stay
        \/ s.reader.Selected /\ HandOn(Restart(s.reader, "IDLE")) /\ stay /\ UNCHANGED mfu
        \/ /\ s.reader.Selected /\ contents' = Kept(a)
           /\ IF NextBlock(a) = MFU_BLOCKS THEN ReadDone(s, a) ELSE ReadNext(s, a) /\ stay
    BY DEF ReadMFU
  <1> HIDE DEF s, a
  <1>h. ASSUME NEW t, Known(t.reader), t.frame \in Frames, task.pending => Searching(t.reader) /\ GoesOn(t),
               HandOn(t), stay, address' \in 0 .. MFU_BLOCKS, contents' \in [Blocks -> Answers]
        PROVE  IInv' /\ Off
    <2>1. /\ Sound(codec') /\ disturbances' \in 0 .. MaxDisturbances /\ Known(reader')
          /\ task.pending => Searching(reader') /\ Served(codec')
      BY <1>h, HandOnGoesOn
    <2>2. TypeOK'
      BY <1>0, <1>h, <2>1 DEF IInv, TypeOK, Sound, Known
    <2>3. Pending' /\ Off
      BY <1>0, <1>h, <2>1 DEF IInv, Pending, Off
    <2> QED BY <2>1, <2>2, <2>3 DEF IInv
  <1>r. ASSUME NEW q, Known(q), HandOn(Restart(q, "IDLE")), stay,
               address' \in 0 .. MFU_BLOCKS, contents' \in [Blocks -> Answers]
        PROVE  IInv' /\ Off
    <2> DEFINE t == Restart(q, "IDLE")
    <2>1. "IDLE" \in States
      BY DEF States
    <2>2. /\ Known(t.reader) /\ t.frame \in Frames /\ Searching(t.reader) /\ GoesOn(t)
      BY <1>r, <2>1, Results, Marks DEF Known, Searching, GoesOn
    <2> HIDE DEF t
    <2>3. HandOn(t)
      BY <1>r DEF t
    <2> QED BY <1>r, <1>h, <2>2, <2>3
  <1>2. CASE ~s.reader.Selected /\ HandOn(s) /\ stay /\ UNCHANGED mfu
    BY <1>1, <1>2, <1>h DEF IInv, TypeOK, mfu
  <1>3. CASE s.reader.Selected /\ CardLost(s) /\ stay
    <2> DEFINE q == [Unselected(s.reader) EXCEPT !.fresh = TRUE]
    <2>1. Known(q)
      BY <1>1, UnselectedIsKnown DEF Known, ReaderRecord
    <2>2. HandOn(Restart(q, "IDLE")) /\ address' \in 0 .. MFU_BLOCKS /\ contents' \in [Blocks -> Answers]
      BY <1>3, Numbers DEF CardLost, IInv, TypeOK
    <2> HIDE DEF q
    <2> QED BY <2>1, <2>2, <1>3, <1>r
  <1>4. CASE s.reader.Selected /\ HandOn(Restart(s.reader, "IDLE")) /\ stay /\ UNCHANGED mfu
    BY <1>1, <1>4, <1>r DEF IInv, TypeOK, mfu
  <1>5. CASE s.reader.Selected /\ contents' = Kept(a) /\ NextBlock(a) # MFU_BLOCKS /\ ReadNext(s, a) /\ stay
    <2> DEFINE t == Result(s.reader, FALSE, Frame("READ", NextBlock(a), NoCard))
    <2>1. t.reader = s.reader /\ t.frame = Frame("READ", NextBlock(a), NoCard)
      BY DEF Result
    <2>2. t.frame \in Frames /\ t.frame # NoFrame
      BY <1>5, <1>b, <2>1, FramesToSend DEF Requests
    <2>3. HandOn(t) /\ address' \in 0 .. MFU_BLOCKS /\ contents' \in [Blocks -> Answers]
      BY <1>5, <1>b DEF ReadNext
    <2> HIDE DEF t
    <2> QED BY <1>1, <1>5, <1>h, <2>1, <2>2, <2>3 DEF GoesOn
  <1>6. CASE contents' = Kept(a) /\ ReadDone(s, a)
    <2>1. Finish /\ reader' = Unselected(s.reader) /\ address' \in 0 .. MFU_BLOCKS
      BY <1>6, Numbers DEF ReadDone
    <2>2. codec' \in {CodecDeInit(Called(codec)), CodecReaderFieldStop(Called(codec))}
      BY <1>6 DEF ReadDone
    <2>3. slot' \in [Blocks -> Answers] /\ config' \in {"READER", "CARD"}
      BY <1>6, <1>b DEF ReadDone, IInv, TypeOK
    <2>4. Sound(codec') /\ ~codec'.field /\ Known(reader')
      BY <1>1, <2>1, <2>2, CodecCalls, UnselectedIsKnown DEF IInv
    <2>5. TypeOK'
      BY <1>0, <1>6, <1>b, <2>1, <2>3, <2>4, FinishEnds DEF IInv, TypeOK, Sound, Known
    <2> QED BY <2>1, <2>4, <2>5, FinishEnds DEF IInv, Off
  <1> QED BY <1>c, <1>2, <1>3, <1>4, <1>5, <1>6

LEMMA IdentifyKeeps == IInv /\ Identify => IInv' /\ Off
  <1> SUFFICES ASSUME IInv, Identify PROVE IInv' /\ Off
    OBVIOUS
  <1> DEFINE i == IdentifyCard(reader, Received, candidates)
  <1>0. UNCHANGED <<card, mfu, toSend>> /\ command \in {"Identify", "Identify_Clone"}
    BY DEF Identify, Processing
  <1>1. /\ Known(i.step.reader) /\ i.step.frame \in Frames /\ i.types \subseteq Types
        /\ task.pending /\ ~i.done => Searching(i.step.reader) /\ GoesOn(i.step)
    BY WhatIsReceived, IdentifyGoesOn DEF IInv, TypeOK, Pending, Heard
  <1>2. CASE i.done
    <2>1. /\ reader' = Unselected(i.step.reader) /\ candidates' = {} /\ Finish
          /\ CloneIdentified(i.step.reader, IF command = "Identify" THEN {} ELSE i.types)
      BY <1>2 DEF Identify
    <2> HIDE DEF i
    <2>2. codec' \in {CodecDeInit(Called(codec)), CodecReaderFieldStop(Called(codec))}
      BY <2>1 DEF CloneIdentified
    <2>3. Answer("UID", i.step.reader.UID[i.step.reader.UIDSize], 0) \in Answers
      BY <1>1, Numbers DEF Known, ReaderRecord, Answer, Answers, Kinds, Someone
    <2>4. slot' \in [Blocks -> Answers] /\ config' \in {"READER", "CARD"}
      BY <2>1, <2>3, Numbers DEF CloneIdentified, IInv, TypeOK
    <2>5. Sound(codec') /\ ~codec'.field /\ Known(reader')
      BY <1>1, <2>1, <2>2, CodecCalls, UnselectedIsKnown DEF IInv
    <2>6. TypeOK'
      BY <1>0, <2>1, <2>4, <2>5, FinishEnds DEF IInv, TypeOK, mfu, Sound, Known
    <2> QED BY <2>1, <2>5, <2>6, FinishEnds DEF IInv, Off
  <1>3. CASE ~i.done
    <2>1. candidates' = i.types /\ HandOn(i.step) /\ UNCHANGED <<task, command, config, slot>>
      BY <1>3 DEF Identify
    <2> HIDE DEF i
    <2>2. /\ Sound(codec') /\ disturbances' \in 0 .. MaxDisturbances /\ Known(reader')
          /\ task.pending => Searching(reader') /\ Served(codec')
      BY <1>1, <1>3, <2>1, HandOnGoesOn
    <2>3. TypeOK'
      BY <1>0, <1>1, <2>1, <2>2 DEF IInv, TypeOK, mfu, Sound, Known
    <2>4. Pending' /\ Off
      BY <1>0, <2>1, <2>2 DEF IInv, Pending, Off
    <2> QED BY <2>2, <2>3, <2>4 DEF IInv
  <1> QED BY <1>2, <1>3

-----------------------------------------------------------------------------
(* What begins a task, and what ends one early. *)
LEMMA BegunIsKnown ==
  ASSUME Known(reader)
  PROVE  /\ Known(Begun(reader)) /\ Searching(Begun(reader))
         /\ Known(AppReset(reader)) /\ Searching(AppReset(reader))
  BY UnselectedIsKnown DEF Begun, AppReset, Known, Searching, ReaderRecord, States

LEMMA NoImageIsOne == NoImage \in [Blocks -> Answers]
  BY Marks DEF NoImage

LEMMA StartKeeps ==
  ASSUME IInv, NEW c \in {"Get_UID", "Autocalibrate", "Read_MFU", "Identify"}, Start(c)
  PROVE  IInv' /\ Off
  <1>1. /\ ~task.pending /\ config = "READER" /\ command' = c /\ reader' = Begun(reader)
        /\ codec' = CodecStart(codec) /\ task' = Begin(task, TRUE)
        /\ disturbances' = 0 /\ slot' = NoImage
        /\ UNCHANGED <<card, mfu, candidates, toSend, config>>
    BY DEF Start, NewTask
  <1>2. Sound(codec') /\ Served(codec')
    BY <1>1, CodecCalls DEF IInv, Served
  <1>3. task' \in Task /\ task'.pending /\ task'.callback
    BY <1>1 DEF IInv, TypeOK, Task, Begin
  <1>4. Known(reader') /\ Searching(reader')
    BY <1>1, BegunIsKnown DEF IInv
  <1>t. command' \in Commands /\ disturbances' \in 0 .. MaxDisturbances
    BY <1>1, CardsAssumption DEF Commands
  <1>5. TypeOK'
    BY <1>1, <1>2, <1>3, <1>4, <1>t, NoImageIsOne DEF IInv, TypeOK, mfu, Sound, Known
  <1>6. Pending' /\ Off
    BY <1>1, <1>2, <1>3, <1>4 DEF Pending, Off
  <1> QED BY <1>2, <1>4, <1>5, <1>6 DEF IInv

LEMMA StartSendKeeps ==
  ASSUME IInv, NEW valid \in BOOLEAN, StartSend(valid)
  PROVE  IInv' /\ Off
  <1>1. /\ ~task.pending /\ config = "READER" /\ command' = "Send" /\ reader' = Begun(reader)
        /\ disturbances' = 0 /\ slot' = NoImage
        /\ UNCHANGED <<card, mfu, candidates, config>>
    BY DEF StartSend, NewTask
  <1>2. toSend' \in BOOLEAN
    BY DEF StartSend, IInv, TypeOK
  <1>4. Known(reader') /\ Searching(reader')
    BY <1>1, BegunIsKnown DEF IInv
  <1>5. Sound(codec') /\ task' \in Task /\ (task'.pending => Served(codec'))
    <2>1. CASE valid
      <3>1. codec' = CodecStart(codec) /\ task' = Begin(task, FALSE)
        BY <2>1 DEF StartSend
      <3> QED BY <3>1, CodecCalls DEF IInv, TypeOK, Task, Begin, Served
    <2>2. CASE ~valid
      BY <1>1, <2>2 DEF StartSend, IInv, TypeOK
    <2> QED BY <2>1, <2>2
  <1>6. TypeOK'
    BY <1>1, <1>2, <1>4, <1>5, NoImageIsOne, CardsAssumption DEF IInv, TypeOK, mfu, Sound, Known, Commands
  <1>7. Pending' /\ Off
    BY <1>1, <1>4, <1>5 DEF Pending, Off
  <1> QED BY <1>4, <1>5, <1>6, <1>7 DEF IInv

LEMMA StartCloneKeeps ==
  ASSUME IInv, NEW c \in {"Clone_MFU", "Identify_Clone"}, StartClone(c)
  PROVE  IInv' /\ Off
  <1>1. /\ config' = "READER" /\ command' = c /\ reader' = Begun(reader)
        /\ codec' = CodecStart(CodecDeInit(codec)) /\ task' = Begin(PendingTaskBreak(task), TRUE)
        /\ slot' = NoImage /\ UNCHANGED <<card, mfu, candidates, toSend>>
    BY DEF StartClone
  <1>d. disturbances' \in 0 .. MaxDisturbances
    BY CardsAssumption DEF StartClone, Disturbed, IInv, TypeOK
  <1>2. Sound(codec') /\ Served(codec')
    <2>1. Sound(CodecDeInit(codec))
      BY CodecCalls DEF IInv
    <2> QED BY <1>1, <2>1, CodecCalls DEF Served
  <1>3. task' \in Task /\ task'.pending /\ task'.callback
    BY <1>1 DEF IInv, TypeOK, Task, Begin, PendingTaskBreak
  <1>4. Known(reader') /\ Searching(reader')
    BY <1>1, BegunIsKnown DEF IInv
  <1>5. TypeOK'
    BY <1>1, <1>d, <1>2, <1>3, <1>4, NoImageIsOne DEF IInv, TypeOK, mfu, Sound, Known, Commands
  <1>6. Pending' /\ Off
    BY <1>1, <1>2, <1>3, <1>4 DEF Pending, Off
  <1> QED BY <1>2, <1>4, <1>5, <1>6 DEF IInv

(* A task other than SEND has its callback: that is what stops the field.  *)
LEMMA TimeoutKeeps == IInv /\ CommandLineTimeout => IInv' /\ Off
  <1> SUFFICES ASSUME IInv, CommandLineTimeout PROVE IInv' /\ Off
    OBVIOUS
  <1>1. /\ task.pending /\ task' = PendingTaskBreak(task) /\ BreakApp
        /\ codec' = IF CallsBack(task) THEN CodecReset(codec) ELSE codec
        /\ UNCHANGED <<card, disturbances, mfu, candidates, toSend, config, slot>>
    BY DEF CommandLineTimeout
  <1>2. task' \in Task /\ ~task'.pending
    BY <1>1 DEF PendingTaskBreak, Task
  <1>3. Sound(codec') /\ Known(reader') /\ command' \in Commands
    BY <1>1, CodecCalls, BegunIsKnown DEF IInv, TypeOK, BreakApp, Commands
  <1>4. TypeOK'
    BY <1>1, <1>2, <1>3 DEF IInv, TypeOK, mfu, Sound, Known
  <1>5. Off
    BY <1>1, CodecCalls DEF Off, IInv, Pending, CallsBack
  <1> QED BY <1>2, <1>3, <1>4, <1>5 DEF IInv, Pending

LEMMA ConfigurationSetKeeps ==
  ASSUME IInv, NEW c \in {"READER", "CARD"}, ConfigurationSet(c)
  PROVE  IInv' /\ Off
  <1>1. /\ config' = c /\ task' = PendingTaskBreak(task) /\ codec' = CodecDeInit(codec)
        /\ command' = IF CallsBack(task) THEN "Do_Nothing" ELSE command
        /\ UNCHANGED <<card, mfu, candidates, toSend, slot>>
    BY DEF ConfigurationSet
  <1>2. task' \in Task /\ ~task'.pending
    BY <1>1 DEF PendingTaskBreak, Task, IInv, TypeOK
  <1>3. Sound(codec') /\ ~codec'.field /\ command' \in Commands
    BY <1>1, CodecCalls DEF IInv, TypeOK, Commands
  <1>4. Known(reader')
    BY DEF ConfigurationSet, IInv, Known, ReaderRecord, States
  <1>5. disturbances' \in 0 .. MaxDisturbances
    BY CardsAssumption DEF ConfigurationSet, Disturbed, IInv, TypeOK
  <1>6. TypeOK'
    BY <1>1, <1>2, <1>3, <1>4, <1>5 DEF IInv, TypeOK, mfu, Sound, Known
  <1> QED BY <1>2, <1>3, <1>4, <1>6 DEF IInv, Pending, Off

(* Nothing else ends a task, or stops the codec. *)
LEMMA OthersKeep ==
  ASSUME IInv, UNCHANGED <<task, app, config, slot>>,
         Sound(codec'), card' \in Someone, disturbances' \in 0 .. MaxDisturbances,
         Served(codec) => Served(codec')
  PROVE  IInv' /\ Off
  <1>1. TypeOK'
    BY DEF IInv, TypeOK, app, mfu, Sound
  <1>2. Pending' /\ Known(reader') /\ Off
    BY DEF IInv, Pending, app, Off
  <1> QED BY <1>1, <1>2 DEF IInv

LEMMA EnvironmentKeeps == IInv /\ (ToggleField \/ Air \/ Exchange \/ UNCHANGED vars) => IInv' /\ Off
  <1> SUFFICES ASSUME IInv, ToggleField \/ Air \/ Exchange \/ UNCHANGED vars PROVE IInv' /\ Off
    OBVIOUS
  <1>1. CASE ToggleField
    <2>1. Sound([codec EXCEPT !.field = TRUE]) /\ [codec EXCEPT !.field = TRUE].Start = codec.Start
      BY DEF IInv, Sound, Codec
    <2>2. Sound(codec') /\ (Served(codec) => Served(codec'))
      BY <1>1, CodecCalls DEF ToggleField, CodecReaderFieldStop, IInv, Served, Sound, Codec
    <2>3. disturbances' \in 0 .. MaxDisturbances /\ card' \in Someone
      BY <1>1, CardsAssumption DEF ToggleField, Disturbed, IInv, TypeOK
    <2> QED BY <1>1, <2>2, <2>3, OthersKeep DEF ToggleField
  <1>2. CASE Air
    <2>1. /\ Sound(codec') /\ Served(codec')
          /\ disturbances' \in 0 .. MaxDisturbances /\ card' \in Someone
      <3>1. CASE DelayEnds
        BY <3>1 DEF DelayEnds, IInv, TypeOK, Sound, Codec, Served
      <3>2. CASE AnswerEnds
        <4>1. \E a \in {codec.reply, Silence, Damaged} :
                codec' = [codec EXCEPT !.air = "quiet", !.RxDone = TRUE, !.rx = a, !.reply = Silence]
          BY <3>2 DEF AnswerEnds
        <4>2. Sound(codec') /\ codec'.RxDone
          <5>1. PICK a \in {codec.reply, Silence, Damaged} :
                  codec' = [codec EXCEPT !.air = "quiet", !.RxDone = TRUE, !.rx = a, !.reply = Silence]
            BY <4>1
          <5>2. a \in Answers /\ Traceable(a)
            BY <5>1, Marks DEF IInv, Sound, Codec
          <5> QED BY <5>1, <5>2, Marks DEF IInv, Sound, Codec
        <4>3. disturbances' \in 0 .. MaxDisturbances /\ card' \in Someone
          BY <3>2, CardsAssumption DEF AnswerEnds, Disturbed, IInv, TypeOK
        <4> QED BY <4>2, <4>3 DEF Served
      <3> QED BY <1>2, <3>1, <3>2 DEF Air
    <2> QED BY <1>2, <2>1, OthersKeep DEF Air
  <1>3. CASE Exchange
    <2>1. Sound(codec') /\ (Served(codec) => Served(codec'))
      BY <1>3, Marks DEF Exchange, CardChanges, IInv, Sound, Codec, Served
    <2>2. disturbances' \in 0 .. MaxDisturbances /\ card' \in Someone
      BY <1>3, CardsAssumption DEF Exchange, CardChanges, Disturbed, IInv, TypeOK, Someone
    <2> QED BY <1>3, <2>1, <2>2, OthersKeep DEF Exchange
  <1>4. CASE UNCHANGED vars
    BY <1>4, OthersKeep DEF vars, airVars, IInv, TypeOK
  <1> QED BY <1>1, <1>2, <1>3, <1>4

LEMMA InitIInv == Init => IInv
  <1> SUFFICES ASSUME Init PROVE IInv
    OBVIOUS
  <1>1. Sound(codec)
    BY Marks DEF Init, AirInit, Sound, Codec
  <1>2. Known(reader)
    BY DEF Init, Known, ReaderRecord, States, Level, Someone
  <1>3. task \in Task /\ ~task.pending
    BY DEF Init, TaskInit, Task
  <1>d. disturbances \in 0 .. MaxDisturbances
    BY CardsAssumption DEF Init, AirInit
  <1>4. /\ command \in Commands /\ card \in Someone
        /\ config \in {"READER", "CARD"} /\ candidates \subseteq Types /\ toSend \in BOOLEAN
    BY DEF Init, AirInit, Commands, Someone
  <1>5. contents \in [Blocks -> Answers] /\ slot \in [Blocks -> Answers] /\ address \in 0 .. MFU_BLOCKS
    BY Numbers, NoImageIsOne DEF Init
  <1>6. TypeOK
    BY <1>1, <1>2, <1>3, <1>d, <1>4, <1>5 DEF TypeOK, Sound, Known
  <1> QED BY <1>1, <1>2, <1>3, <1>6 DEF IInv, Pending

LEMMA StepIInv == IInv /\ [Next]_vars => IInv' /\ Off
  <1> SUFFICES ASSUME IInv, [Next]_vars PROVE IInv' /\ Off
    OBVIOUS
  <1>1. CASE Process
    BY <1>1, NothingKeeps, SendKeeps, GetUIDKeeps, AutocalibrateKeeps, ReadMFUKeeps, IdentifyKeeps DEF Process
  <1>2. CASE \E c \in {"Get_UID", "Autocalibrate", "Read_MFU", "Identify"} : Start(c)
    BY <1>2, StartKeeps
  <1>3. CASE \E valid \in BOOLEAN : StartSend(valid)
    BY <1>3, StartSendKeeps
  <1>4. CASE \E c \in {"Clone_MFU", "Identify_Clone"} : StartClone(c)
    BY <1>4, StartCloneKeeps
  <1>5. CASE CommandLineTimeout
    BY <1>5, TimeoutKeeps
  <1>6. CASE \E c \in {"READER", "CARD"} : ConfigurationSet(c)
    BY <1>6, ConfigurationSetKeeps
  <1>7. CASE ToggleField \/ Air \/ Exchange \/ UNCHANGED vars
    BY <1>7, EnvironmentKeeps
  <1> QED BY <1>1, <1>2, <1>3, <1>4, <1>5, <1>6, <1>7 DEF Next

-----------------------------------------------------------------------------
(* Every variable keeps its type whatever is answered, and whoever ends a  *)
(* task: the address of the block to be read stays inside the card.        *)
THEOREM TypeCorrect == Spec => []TypeOK
  <1>1. IInv => TypeOK
    BY DEF IInv
  <1> QED BY InitIInv, StepIInv, <1>1, PTL DEF Spec

(* A pending task has a command that is worked at and a codec that will    *)
(* call the application again (CommandLineProcessByte takes no command     *)
(* before it ends).                                                        *)
THEOREM TasksAreServed == Spec => []PendingTaskIsServed
  <1>1. IInv => PendingTaskIsServed
    BY DEF IInv, Pending, PendingTaskIsServed, Served
  <1> QED BY InitIInv, StepIInv, <1>1, PTL DEF Spec

(* Answered, timed out or broken by another configuration: no task but     *)
(* SEND leaves the field on (CodecReaderFieldStop is on every path).       *)
THEOREM FieldGoesOff == Spec => FieldOffAfterTask
  <1>1. IInv /\ [Next]_vars => [task.pending /\ ~task'.pending /\ command # "Send" => ~codec'.field]_vars
    BY StepIInv DEF Off
  <1> QED BY InitIInv, StepIInv, <1>1, PTL DEF Spec, FieldOffAfterTask

-----------------------------------------------------------------------------
(***************************************************************************)
(* One card, and its blocks.                                               *)
(***************************************************************************)
(* The answers that the application may yet be called with. *)
Due == {codec.reply} \union (IF codec.RxDone THEN {codec.rx} ELSE {})

Working == command \notin {"Do_Nothing", "Send"}

(* The card has taken part in the selection. *)
Near == codec.tag \in {"READY", "ACTIVE"}

(* What is received is no longer on its way. *)
Steady(c) == /\ c.RxDone => c.air = "quiet"
             /\ c.air = "quiet" => c.reply = Silence

(* The codec starts only a search from its beginning. *)
Timely == /\ Steady(codec)
          /\ codec.Start => reader.state \in {"IDLE", "HALT"}
          /\ Working => task.pending
          /\ reader.Selected => Working

(* An ATQA is due. *)
Asked == Working /\ ~reader.Selected /\ reader.state = "READY" =>
           \A a \in Due : a.kind = "ATQA" /\ Near => card = a.from

(* The first k parts of the UID are known. *)
Parts(k) == /\ reader.ATQA \in Cards /\ reader.level <= Levels[reader.ATQA]
            /\ \A l \in Level : l <= k => reader.UID[l] = reader.ATQA
            /\ Near => card = reader.ATQA

(* A part of a UID, or a SAK, is due. *)
Found == Working /\ ~reader.Selected =>
           /\ reader.state = "ACTIVE_CL" =>
                /\ Parts(reader.level - 1)
                /\ \A a \in Due : a.kind = "UID" => a.from = reader.ATQA
           /\ reader.state = "SAK_CL" =>
                /\ Parts(reader.level)
                /\ \A a \in Due : a.kind = "SAK" => a.from = reader.ATQA /\ a.n = reader.level

(* A block is due. *)
Read == command \in MFU =>
          /\ reader.Selected =>
               /\ reader.state = "SAK_CL" \/ (reader.state = "IDLE" /\ address = 0)
               /\ codec.tag = "ACTIVE" => card = reader.SAK
               /\ \A a \in Due : a.kind = "DATA" => a.from = reader.SAK /\ a.n = address - 1
          /\ reader.fresh /\ ~reader.Selected => address = 0

CInv == Timely /\ Asked /\ Found /\ Read /\ SelectedIsOneCard /\ BlocksOfSelectedCard

-----------------------------------------------------------------------------
(* What a card answers to each of the frames of a search. *)
LEMMA Reactions ==
  ASSUME NEW c \in Cards, NEW s \in {"IDLE", "READY", "ACTIVE", "PROTOCOL", "HALT"},
         NEW n, NEW to,
         NEW cmd \in {"WUPA", "ANTICOLLISION", "SELECT", "READ"}
  PROVE  LET x == Reaction(c, s, Frame(cmd, n, to)) IN
         /\ x.reply.kind \in {"ATQA", "UID", "SAK", "DATA"} => x.reply.from = c /\ x.reply.n = n
         /\ x.reply.kind = "ATQA" => cmd = "WUPA"
         /\ x.reply.kind = "UID" => cmd = "ANTICOLLISION" /\ s = "READY"
         /\ x.reply.kind = "SAK" => cmd = "SELECT" /\ s = "READY"
         /\ x.reply.kind = "DATA" => cmd = "READ" /\ s = "ACTIVE"
         /\ cmd # "WUPA" /\ x.tag \in {"READY", "ACTIVE"} => s \in {"READY", "ACTIVE"}
         /\ cmd = "READ" /\ x.tag = "ACTIVE" => s = "ACTIVE"
  <1> DEFINE f == Frame(cmd, n, to)
  <1>1. f.cmd = cmd /\ f.n = n /\ f.to = to
    BY DEF Frame
  <1> HIDE DEF f
  <1>2. /\ \A k \in Kinds : Answer(k, c, f.n).kind = k /\ Answer(k, c, f.n).from = c /\ Answer(k, c, f.n).n = n
        /\ Silence.kind = "none"
    BY <1>1 DEF Answer, Silence
  <1>4. CASE cmd = "WUPA"
    BY <1>1, <1>2, <1>4 DEF Reaction, Kinds, f
  <1>5. CASE cmd = "ANTICOLLISION"
    BY <1>1, <1>2, <1>5 DEF Reaction, Kinds, f
  <1>6. CASE cmd = "SELECT"
    BY <1>1, <1>2, <1>6 DEF Reaction, Kinds, f
  <1>7. CASE cmd = "READ"
    BY <1>1, <1>2, <1>7 DEF Reaction, Kinds, f
  <1> QED BY <1>4, <1>5, <1>6, <1>7

(* The codec after the application has returned. *)
Answered(c, f) == /\ card \in Cards
                /\ codec'.reply = Reaction(card, c.tag, f).reply
                /\ codec'.tag = Reaction(card, c.tag, f).tag

LEMMA Returned ==
  ASSUME NEW c, Sound(c), NEW f, card \in Someone, Return(c, f)
  PROVE  /\ codec'.Start = c.Start /\ codec'.RxDone = c.RxDone /\ codec'.rx = c.rx
         /\ f = NoFrame => codec' = c
         /\ f # NoFrame => /\ codec'.air = "sent"
                           /\ \/ codec'.reply = Silence /\ codec'.tag = c.tag
                              \/ Answered(c, f)
  <1>1. CASE f = NoFrame
    BY <1>1 DEF Return
  <1>2. CASE f # NoFrame
    <2> DEFINE r == Reaction(card, c.tag, f)
    <2>1. \/ card # NoCard /\ codec' = [c EXCEPT !.air = "sent", !.reply = r.reply, !.tag = r.tag]
          \/ codec' = [c EXCEPT !.air = "sent", !.reply = Silence]
      BY <1>2 DEF Return
    <2> HIDE DEF r
    <2>2. CASE card # NoCard /\ codec' = [c EXCEPT !.air = "sent", !.reply = r.reply, !.tag = r.tag]
      <3>1. /\ codec'.Start = c.Start /\ codec'.RxDone = c.RxDone /\ codec'.rx = c.rx
            /\ codec'.air = "sent" /\ codec'.reply = r.reply /\ codec'.tag = r.tag
        BY <2>2 DEF Sound, Codec
      <3> QED BY <1>2, <2>2, <3>1 DEF Answered, Someone, r
    <2>3. CASE codec' = [c EXCEPT !.air = "sent", !.reply = Silence]
      BY <1>2, <2>3 DEF Sound, Codec
    <2> QED BY <2>1, <2>2, <2>3
  <1> QED BY <1>1, <1>2

-----------------------------------------------------------------------------
(* What Select makes of an answer, case by case. *)
Stays(r, s) == r.Selected /\ r.state \notin {"IDLE", "HALT"} /\ s.reader = r /\ s.frame = NoFrame /\ ~s.restart

Asks(r, s) == /\ r.state \in {"IDLE", "HALT"} /\ ~s.reader.Selected /\ s.reader.state = "READY"
              /\ s.frame = Frame("WUPA", 0, NoCard) /\ ~s.restart

Fails(r, s) == ~r.Selected /\ ~s.reader.Selected /\ s.reader.state \in {"IDLE", "HALT"} /\ s.frame = NoFrame

Leaves(r, s) == /\ ~r.Selected /\ ~s.reader.Selected /\ s.reader.state = "DESELECT" /\ ~s.restart

Stops(r, s) == /\ ~r.Selected /\ r.state \in {"ATS", "DESFIRE_INFO"} /\ s.reader = r
               /\ s.frame = NoFrame /\ ~s.restart

FindsATQA(r, a, s) ==
  /\ r.state = "READY" /\ a.kind = "ATQA" /\ ~r.Selected /\ ~s.reader.Selected
  /\ s.reader.state = "ACTIVE_CL" /\ s.reader.level = 1 /\ s.reader.ATQA = a.from
  /\ s.frame = Frame("ANTICOLLISION", 1, NoCard) /\ ~s.restart

FindsUID(r, a, s) ==
  /\ r.state = "ACTIVE_CL" /\ a.kind = "UID" /\ ~r.Selected /\ ~s.reader.Selected
  /\ s.reader.state = "SAK_CL" /\ s.reader.level = r.level /\ s.reader.ATQA = r.ATQA
  /\ s.reader.UID = [r.UID EXCEPT ![r.level] = a.from]
  /\ s.frame = Frame("SELECT", r.level, a.from) /\ ~s.restart

FindsMore(r, a, s) ==
  /\ r.state = "SAK_CL" /\ a.kind = "SAK" /\ ~r.Selected /\ ~s.reader.Selected
  /\ CascadeBit(a) /\ r.level < 3
  /\ s.reader.state = "ACTIVE_CL" /\ s.reader.level = r.level + 1
  /\ s.reader.ATQA = r.ATQA /\ s.reader.UID = r.UID
  /\ s.frame = Frame("ANTICOLLISION", r.level + 1, NoCard) /\ ~s.restart

Finds(r, a, s) ==
  /\ r.state = "SAK_CL" /\ a.kind = "SAK" /\ ~r.Selected /\ s.reader.Selected
  /\ ~(CascadeBit(a) /\ r.level < 3)
  /\ s.reader.state = "SAK_CL" /\ s.reader.UIDSize = r.level /\ s.reader.SAK = a.from
  /\ s.reader.ATQA = r.ATQA /\ s.reader.UID = r.UID
  /\ s.frame = NoFrame /\ ~s.restart

(* A restart or a frame changes the state only. *)
LEMMA GoesTo ==
  ASSUME NEW r \in ReaderRecord, NEW state \in States, NEW f
  PROVE  LET x == Restart(r, state)
             y == Goto(r, state, f)
         IN  /\ x.reader.state = state /\ y.reader.state = state
             /\ x.reader.Selected <=> r.Selected
             /\ y.reader.Selected <=> r.Selected
             /\ x.reader.level = r.level /\ y.reader.level = r.level
             /\ x.reader.ATQA = r.ATQA /\ y.reader.ATQA = r.ATQA
             /\ x.reader.SAK = r.SAK /\ y.reader.SAK = r.SAK
             /\ x.reader.UID = r.UID /\ y.reader.UID = r.UID
             /\ x.reader.UIDSize = r.UIDSize /\ y.reader.UIDSize = r.UIDSize
             /\ x.reader.fresh = r.fresh /\ y.reader.fresh = r.fresh
             /\ x.restart /\ ~y.restart /\ x.frame = NoFrame /\ y.frame = f
  <1> DEFINE q == [r EXCEPT !.state = state]
  <1>1. /\ q.state = state /\ q.level = r.level /\ q.ATQA = r.ATQA /\ q.SAK = r.SAK
        /\ q.UID = r.UID /\ q.UIDSize = r.UIDSize /\ q.fresh = r.fresh
        /\ q.Selected <=> r.Selected
    BY DEF ReaderRecord
  <1> HIDE DEF q
  <1>2. /\ Restart(r, state) = [reader |-> q, restart |-> TRUE, frame |-> NoFrame]
        /\ Goto(r, state, f) = [reader |-> q, restart |-> FALSE, frame |-> f]
    BY DEF Restart, Goto, Result, q
  <1>3. /\ Restart(r, state).reader = q /\ Goto(r, state, f).reader = q
        /\ Restart(r, state).restart /\ ~Goto(r, state, f).restart
        /\ Restart(r, state).frame = NoFrame /\ Goto(r, state, f).frame = f
    BY <1>2
  <1> QED BY <1>1, <1>3

SelectCase(r, a, s) ==
  /\ s.reader.fresh = r.fresh
  /\ \/ Stays(r, s) \/ Asks(r, s) \/ Fails(r, s) \/ Leaves(r, s) \/ Stops(r, s)
     \/ FindsATQA(r, a, s) \/ FindsUID(r, a, s) \/ FindsMore(r, a, s) \/ Finds(r, a, s)

LEMMA SelectCases ==
  ASSUME NEW r \in ReaderRecord, NEW a \in Answers
  PROVE  SelectCase(r, a, Select(r, a))
  <1> DEFINE s == Select(r, a)
  <1> USE DEF SelectCase
  <1>s. {"IDLE", "HALT", "READY", "ACTIVE_CL", "SAK_CL", "DESELECT"} \subseteq States
    BY DEF States
  <1>1. CASE r.Selected /\ r.state \notin {"IDLE", "HALT"}
    <2>1. s = Result(r, FALSE, NoFrame)
      BY <1>1 DEF Select
    <2> HIDE DEF s
    <2>2. Stays(r, s)
      BY <1>1, <2>1 DEF Result, Stays
    <2> QED BY <2>2 DEF s, Stays
  <1>2. CASE ~r.Selected /\ r.state \in {"ATS", "DESFIRE_INFO"}
    <2>1. s = Result(r, FALSE, NoFrame)
      BY <1>2 DEF Select
    <2> HIDE DEF s
    <2>2. Stops(r, s)
      BY <1>2, <2>1 DEF Result, Stops
    <2> QED BY <2>2 DEF s, Stops
  <1>3. CASE r.state \in {"IDLE", "HALT"}
    <2> DEFINE n == [r EXCEPT !.Selected = FALSE]
    <2>1. s = Goto(n, "READY", Frame("WUPA", 0, NoCard))
      BY <1>3 DEF Select
    <2>2. n \in ReaderRecord /\ ~n.Selected /\ n.fresh = r.fresh
      BY DEF ReaderRecord
    <2> HIDE DEF n, s
    <2>3. Asks(r, s) /\ s.reader.fresh = r.fresh
      BY <1>3, <1>s, <2>1, <2>2, GoesTo DEF Asks
    <2> QED BY <2>3 DEF s
  <1>4. CASE ~r.Selected /\ r.state \notin {"IDLE", "HALT"} /\ \E state \in {"IDLE", "HALT"} : s = Restart(r, state)
    <2> HIDE DEF s
    <2>1. Fails(r, s) /\ s.reader.fresh = r.fresh
      BY <1>4, <1>s, GoesTo DEF Fails
    <2> QED BY <2>1 DEF s
  <1>5. CASE ~r.Selected /\ r.state = "READY" /\ a.kind = "ATQA"
    <2> DEFINE q == [r EXCEPT !.ATQA = a.from, !.level = 1]
    <2>1. s = Goto(q, "ACTIVE_CL", Frame("ANTICOLLISION", 1, NoCard))
      BY <1>5 DEF Select, Ready
    <2>2. 1 \in Level /\ a.from \in Someone
      BY DEF Level, Someone, Answers
    <2>3. q \in ReaderRecord /\ ~q.Selected /\ q.level = 1 /\ q.ATQA = a.from /\ q.fresh = r.fresh
      BY <1>5, <2>2 DEF ReaderRecord
    <2> HIDE DEF q, s
    <2>4. FindsATQA(r, a, s) /\ s.reader.fresh = r.fresh
      BY <1>5, <1>s, <2>1, <2>3, GoesTo DEF FindsATQA
    <2> QED BY <2>4 DEF s
  <1>6. CASE ~r.Selected /\ r.state = "ACTIVE_CL" /\ a.kind = "UID"
    <2> DEFINE q == [r EXCEPT !.UID[r.level] = a.from]
    <2>1. s = Goto(q, "SAK_CL", Frame("SELECT", r.level, a.from))
      BY <1>6 DEF Select, ActiveCL
    <2>2. a.from \in Someone
      BY DEF Someone, Answers
    <2>3. /\ q \in ReaderRecord /\ ~q.Selected /\ q.level = r.level /\ q.ATQA = r.ATQA
          /\ q.UID = [r.UID EXCEPT ![r.level] = a.from] /\ q.fresh = r.fresh
      BY <1>6, <2>2 DEF ReaderRecord
    <2> HIDE DEF q, s
    <2>4. FindsUID(r, a, s) /\ s.reader.fresh = r.fresh
      BY <1>6, <1>s, <2>1, <2>3, GoesTo DEF FindsUID
    <2> QED BY <2>4 DEF s
  <1>7. CASE ~r.Selected /\ r.state = "SAK_CL" /\ a.kind = "SAK"
    <2>0. s = SakCL(r, a)
      BY <1>7 DEF Select
    <2>1. CASE CascadeBit(a) /\ r.level < 3
      <3> DEFINE q == [r EXCEPT !.level = r.level + 1]
      <3>1. s = Goto(q, "ACTIVE_CL", Frame("ANTICOLLISION", r.level + 1, NoCard))
        BY <1>7, <2>0, <2>1 DEF SakCL
      <3>2. r.level + 1 \in Level
        BY <2>1 DEF ReaderRecord, Level
      <3>3. /\ q \in ReaderRecord /\ ~q.Selected /\ q.level = r.level + 1 /\ q.ATQA = r.ATQA
            /\ q.UID = r.UID /\ q.fresh = r.fresh
        BY <1>7, <3>2 DEF ReaderRecord
      <3> HIDE DEF q, s
      <3>4. FindsMore(r, a, s) /\ s.reader.fresh = r.fresh
        BY <1>7, <1>s, <2>1, <3>1, <3>3, GoesTo DEF FindsMore
      <3> QED BY <3>4 DEF s
    <2>2. CASE ~(CascadeBit(a) /\ r.level < 3)
      <3> DEFINE q == [r EXCEPT !.Selected = TRUE, !.SAK = a.from, !.UIDSize = r.level]
      <3>1. s = Result(q, FALSE, NoFrame)
        BY <1>7, <2>0, <2>2 DEF SakCL
      <3>3. /\ q.Selected /\ q.state = "SAK_CL" /\ q.SAK = a.from /\ q.UIDSize = r.level
            /\ q.ATQA = r.ATQA /\ q.UID = r.UID /\ q.fresh = r.fresh
        BY <1>7 DEF ReaderRecord
      <3> HIDE DEF q, s
      <3>4. s.reader = q /\ s.frame = NoFrame /\ ~s.restart
        BY <3>1 DEF Result
      <3>5. Finds(r, a, s) /\ s.reader.fresh = r.fresh
        BY <1>7, <2>2, <3>3, <3>4 DEF Finds
      <3> QED BY <3>5 DEF s
    <2> QED BY <2>1, <2>2
  <1>8. CASE ~r.Selected /\ r.state = "DESELECT" /\ s = Deselect(r)
    <2> DEFINE q == [r EXCEPT !.state = "DESELECT", !.Selected = FALSE]
    <2>1. ~q.Selected /\ q.state = "DESELECT" /\ q.fresh = r.fresh
      BY DEF ReaderRecord
    <2> HIDE DEF q
    <2>2. s.reader = q /\ ~s.restart
      BY <1>8 DEF Deselect, Result, q
    <2> HIDE DEF s
    <2>3. Leaves(r, s) /\ s.reader.fresh = r.fresh
      BY <1>8, <2>1, <2>2 DEF Leaves
    <2> QED BY <2>3 DEF s
  <1>9. CASE ~r.Selected /\ r.state \in {"READY", "ACTIVE_CL", "SAK_CL", "DESELECT"}
    <2>1. CASE r.state = "READY" /\ a.kind # "ATQA"
      BY <1>4, <1>9, <2>1 DEF Select, Ready
    <2>2. CASE r.state = "ACTIVE_CL" /\ a.kind # "UID"
      BY <1>4, <1>9, <2>2 DEF Select, ActiveCL
    <2>3. CASE r.state = "SAK_CL" /\ a.kind # "SAK"
      BY <1>4, <1>9, <2>3 DEF Select, SakCL
    <2>4. CASE r.state = "DESELECT"
      BY <1>4, <1>8, <1>9, <2>4 DEF Select, Deselecting
    <2> QED BY <1>5, <1>6, <1>7, <1>9, <2>1, <2>2, <2>3, <2>4
  <1> QED BY <1>1, <1>2, <1>3, <1>9 DEF ReaderRecord, States

-----------------------------------------------------------------------------
LEMMA CallsAreSteady ==
  ASSUME NEW c, Sound(c), Steady(c)
  PROVE  /\ Steady(Called(c)) /\ Sound(Called(c)) /\ ~Called(c).Start /\ ~Called(c).RxDone
         /\ Called(c).tag = c.tag /\ Called(c).reply = c.reply
         /\ Steady(CodecReaderFieldStop(c)) /\ (CodecReaderFieldStop(c).Start <=> c.Start)
         /\ Steady(CodecStart(c)) /\ (CodecStart(c).RxDone <=> c.RxDone)
         /\ CodecStart(c).tag = c.tag /\ CodecStart(c).reply = c.reply
         /\ Steady(CodecReset(c)) /\ ~CodecReset(c).Start
         /\ Steady(CodecDeInit(c)) /\ ~CodecDeInit(c).Start
  <1>1. /\ Steady(Called(c)) /\ Sound(Called(c)) /\ ~Called(c).Start /\ ~Called(c).RxDone
        /\ Called(c).tag = c.tag /\ Called(c).reply = c.reply
    BY CodecCalls DEF Called, Sound, Codec, Steady
  <1>2. Steady(CodecReaderFieldStop(c)) /\ (CodecReaderFieldStop(c).Start <=> c.Start)
    BY DEF CodecReaderFieldStop, Sound, Codec, Steady
  <1>3. /\ Steady(CodecStart(c)) /\ (CodecStart(c).RxDone <=> c.RxDone)
        /\ CodecStart(c).tag = c.tag /\ CodecStart(c).reply = c.reply
    BY DEF CodecStart, Sound, Codec, Steady
  <1>4. Steady(CodecReset(c)) /\ ~CodecReset(c).Start
    BY DEF CodecReset, CodecReaderFieldStop, Sound, Codec, Steady
  <1>5. Steady(CodecDeInit(c)) /\ ~CodecDeInit(c).Start
    BY DEF CodecDeInit, CodecReaderFieldStop, Sound, Codec, Steady
  <1> QED BY <1>1, <1>2, <1>3, <1>4, <1>5

(* What comes after a step of the search: nothing is received yet, and     *)
(* what is due is silence, or what the card answers to the frame.          *)
Follows(f) == IF f = NoFrame
            THEN codec'.reply = codec.reply /\ codec'.tag = codec.tag
            ELSE \/ codec'.reply = Silence /\ codec'.tag = codec.tag
                 \/ Answered(codec, f)

LEMMA HandedOn ==
  ASSUME IInv, Timely, NEW s, HandOn(s)
  PROVE  /\ reader' = s.reader /\ Steady(codec') /\ ~codec'.RxDone
         /\ codec'.Start => s.restart
         /\ Follows(s.frame)
  <1> DEFINE c == IF s.restart THEN CodecStart(Called(codec)) ELSE Called(codec)
  <1>1. /\ Sound(c) /\ Steady(c) /\ ~c.RxDone /\ (c.Start => s.restart)
        /\ c.tag = codec.tag /\ c.reply = codec.reply
    <2>1. /\ Sound(Called(codec)) /\ Steady(Called(codec)) /\ ~Called(codec).Start
          /\ ~Called(codec).RxDone /\ Called(codec).tag = codec.tag /\ Called(codec).reply = codec.reply
      BY CallsAreSteady DEF IInv, Timely
    <2> QED BY <2>1, CallsAreSteady, CodecCalls
  <1>2. reader' = s.reader /\ Return(c, s.frame)
    BY DEF HandOn
  <1> HIDE DEF c
  <1>3. card \in Someone
    BY DEF IInv, TypeOK
  <1>4. /\ (codec'.Start <=> c.Start) /\ (codec'.RxDone <=> c.RxDone)
        /\ s.frame = NoFrame => codec' = c
        /\ s.frame # NoFrame => /\ codec'.air = "sent"
                                /\ \/ codec'.reply = Silence /\ codec'.tag = c.tag
                                   \/ Answered(c, s.frame)
    BY <1>1, <1>2, <1>3, Returned
  <1>5. Steady(codec')
    BY <1>1, <1>4 DEF Steady
  <1>6. Follows(s.frame)
    BY <1>1, <1>4 DEF Follows, Answered
  <1> QED BY <1>1, <1>2, <1>4, <1>5, <1>6

(* In the middle of a search the application is called with what was due. *)
LEMMA WhatWasDue ==
  ASSUME Timely, CodecTaskReady, reader.state \notin {"IDLE", "HALT"}
  PROVE  codec.RxDone /\ Received \in Due /\ codec.reply = Silence
  BY DEF Timely, Steady, CodecTaskReady, Received, Due

(* A reader that is not in the middle of a search has nothing to be wrong  *)
(* about.                                                                  *)
LEMMA NothingDue ==
  ASSUME Timely', ~reader'.Selected,
         Working' => reader'.state \notin {"READY", "ACTIVE_CL", "SAK_CL"},
         command' \in MFU /\ reader'.fresh => address' = 0
  PROVE  CInv'
  BY DEF CInv, Asked, Found, Read, SelectedIsOneCard, BlocksOfSelectedCard

(* A card that is selected and not read. *)
LEMMA OnlySelected ==
  ASSUME Timely', reader'.Selected, command' \notin MFU, SelectedIsOneCard'
  PROVE  CInv'
  BY DEF CInv, Asked, Found, Read, BlocksOfSelectedCard

-----------------------------------------------------------------------------
(* The answer to a frame of the search is an answer of the card in the     *)
(* field, and only a card that was Near before is Near after it.           *)
LEMMA WhatFollows ==
  ASSUME IInv, UNCHANGED card, ~codec'.RxDone, NEW n, NEW to,
         NEW cmd \in {"WUPA", "ANTICOLLISION", "SELECT", "READ"},
         Follows(Frame(cmd, n, to)), Frame(cmd, n, to) # NoFrame, NEW a \in Due'
  PROVE  /\ a.kind \in {"ATQA", "UID", "SAK", "DATA"} => a.from = card /\ a.n = n /\ card \in Cards
         /\ a.kind = "ATQA" => cmd = "WUPA"
         /\ a.kind = "UID" => cmd = "ANTICOLLISION" /\ Near
         /\ a.kind = "SAK" => cmd = "SELECT" /\ Near
         /\ a.kind = "DATA" => cmd = "READ" /\ codec.tag = "ACTIVE"
         /\ cmd # "WUPA" /\ Near' => Near
         /\ cmd = "READ" /\ codec'.tag = "ACTIVE" => codec.tag = "ACTIVE"
  <1> DEFINE f == Frame(cmd, n, to)
  <1>1. a = codec'.reply
    BY DEF Due
  <1>2. Silence.kind = "none"
    BY DEF Silence, Answer
  <1>3. codec.tag \in {"IDLE", "READY", "ACTIVE", "PROTOCOL", "HALT"}
    BY DEF IInv, Sound, Codec
  <1>4. \/ codec'.reply = Silence /\ codec'.tag = codec.tag
        \/ Answered(codec, f)
    BY DEF Follows
  <1> HIDE DEF f
  <1>5. CASE codec'.reply = Silence /\ codec'.tag = codec.tag
    BY <1>1, <1>2, <1>5 DEF Near
  <1>6. CASE Answered(codec, f)
    <2> DEFINE x == Reaction(card, codec.tag, f)
    <2>1. card \in Cards /\ a = x.reply /\ codec'.tag = x.tag
      BY <1>1, <1>6 DEF Answered
    <2>2. /\ x.reply.kind \in {"ATQA", "UID", "SAK", "DATA"} => x.reply.from = card /\ x.reply.n = n
          /\ x.reply.kind = "ATQA" => cmd = "WUPA"
          /\ x.reply.kind = "UID" => cmd = "ANTICOLLISION" /\ codec.tag = "READY"
          /\ x.reply.kind = "SAK" => cmd = "SELECT" /\ codec.tag = "READY"
          /\ x.reply.kind = "DATA" => cmd = "READ" /\ codec.tag = "ACTIVE"
          /\ cmd # "WUPA" /\ x.tag \in {"READY", "ACTIVE"} => codec.tag \in {"READY", "ACTIVE"}
          /\ cmd = "READ" /\ x.tag = "ACTIVE" => codec.tag = "ACTIVE"
      BY <1>3, <2>1, Reactions DEF f
    <2> HIDE DEF x
    <2> QED BY <2>1, <2>2 DEF Near
  <1> QED BY <1>4, <1>5, <1>6

(* Which is what Asked and Found want of each state of the search. *)
LEMMA SearchKeeps ==
  ASSUME IInv, CInv, Working, CodecTaskReady, UNCHANGED <<task, command, card, mfu>>,
         NEW s, SelectCase(reader, Received, s), ~s.reader.Selected, s.reader \in ReaderRecord, HandOn(s)
  PROVE  CInv'
  <1> DEFINE r == s.reader
             a == Received
  <1>1. /\ reader' = r /\ Steady(codec') /\ ~codec'.RxDone
        /\ codec'.Start => s.restart
        /\ Follows(s.frame)
    BY HandedOn DEF CInv
  <1>2. ~reader'.Selected /\ Working' /\ task'.pending
    BY <1>1 DEF Working, CInv, Timely
  <1>r. s.restart => r.state \in {"IDLE", "HALT"}
    BY DEF SelectCase, Stays, Asks, Fails, Leaves, Stops, FindsATQA, FindsUID, FindsMore, Finds
  <1>3. Timely'
    BY <1>1, <1>2, <1>r DEF Timely
  <1>4. command' \in MFU /\ reader'.fresh => address' = 0
    <2> SUFFICES ASSUME command \in MFU, reader.fresh PROVE address = 0
      BY <1>1 DEF SelectCase, mfu
    <2>1. CASE ~reader.Selected
      BY <2>1 DEF CInv, Read
    <2>2. CASE reader.Selected
      <3>1. Asks(reader, s)
        BY <2>2 DEF SelectCase, Stays, Fails, Leaves, Stops, FindsATQA, FindsUID, FindsMore, Finds
      <3> QED BY <2>2, <3>1 DEF Asks, CInv, Read
    <2> QED BY <2>1, <2>2
  <1>5. Read' /\ SelectedIsOneCard' /\ BlocksOfSelectedCard'
    BY <1>2, <1>4 DEF Read, SelectedIsOneCard, BlocksOfSelectedCard
  <1>6. ASSUME r.state \notin {"READY", "ACTIVE_CL", "SAK_CL"} PROVE CInv'
    BY <1>1, <1>2, <1>3, <1>4, <1>6, NothingDue
  <1>w. reader.state \notin {"IDLE", "HALT"} => codec.RxDone /\ a \in Due
    BY WhatWasDue DEF CInv
  <1>f. \A n, to : \A cmd \in {"WUPA", "ANTICOLLISION", "SELECT"} : Frame(cmd, n, to) # NoFrame
    BY FramesToSend DEF Requests
  <1>t. a \in Answers /\ Traceable(a)
    BY WhatIsReceived DEF IInv, Heard
  <1>l. Level = {1, 2, 3} /\ \A c \in Cards : Levels[c] \in 1 .. 3
    BY CardsAssumption DEF Level
  <1>k. reader.level \in Level /\ reader.UID \in [Level -> Someone]
    BY DEF IInv, Known, ReaderRecord
  <1> HIDE DEF r, a
  <1>7. CASE Asks(reader, s)
    <2>1. \A b \in Due' : b.kind = "ATQA" => b.from = card
      BY <1>1, <1>7, <1>f, WhatFollows DEF Asks
    <2>2. Asked' /\ Found'
      BY <1>1, <1>7, <2>1 DEF Asks, Asked, Found, r
    <2> QED BY <1>3, <1>5, <2>2 DEF CInv
  <1>8. CASE FindsATQA(reader, a, s)
    <2>1. a.from \in Cards /\ (Near => card = a.from)
      BY <1>8, <1>t, <1>w DEF FindsATQA, CInv, Asked, Traceable
    <2>2. \A b \in Due' : /\ b.kind = "UID" => Near /\ b.from = card
                          /\ Near' => Near
      BY <1>1, <1>8, <1>f, WhatFollows DEF FindsATQA
    <2>3. r.ATQA = a.from /\ r.level = 1 /\ r.state = "ACTIVE_CL"
      BY <1>8 DEF FindsATQA, r
    <2>4. codec'.reply \in Due'
      BY DEF Due
    <2>5. Parts(reader.level - 1)'
      BY <1>1, <1>l, <2>1, <2>2, <2>3, <2>4 DEF Parts
    <2>6. Asked' /\ Found'
      BY <1>1, <2>1, <2>2, <2>3, <2>5 DEF Asked, Found
    <2> QED BY <1>3, <1>5, <2>6 DEF CInv
  <1>9. CASE FindsUID(reader, a, s)
    <2>1. Parts(reader.level - 1) /\ a.from = reader.ATQA
      BY <1>9, <1>w DEF FindsUID, CInv, Found
    <2>2. \A b \in Due' : /\ b.kind = "SAK" => Near /\ b.from = card /\ b.n = reader.level
                          /\ Near' => Near
      BY <1>1, <1>9, <1>f, WhatFollows DEF FindsUID
    <2>3. /\ r.ATQA = reader.ATQA /\ r.level = reader.level /\ r.state = "SAK_CL"
          /\ r.UID = [reader.UID EXCEPT ![reader.level] = reader.ATQA]
      BY <1>9, <2>1 DEF FindsUID, r
    <2>4. codec'.reply \in Due'
      BY DEF Due
    <2>5. \A l \in Level : l <= reader.level => r.UID[l] = reader.ATQA
      BY <1>l, <1>k, <2>1, <2>3 DEF Parts
    <2>6. Parts(reader.level)'
      BY <1>1, <2>1, <2>2, <2>3, <2>4, <2>5 DEF Parts
    <2>7. Asked' /\ Found'
      BY <1>1, <2>1, <2>2, <2>3, <2>6 DEF Asked, Found, Parts
    <2> QED BY <1>3, <1>5, <2>7 DEF CInv
  <1>10. CASE FindsMore(reader, a, s)
    <2>1. Parts(reader.level) /\ a.from = reader.ATQA /\ a.n = reader.level
      BY <1>10, <1>w DEF FindsMore, CInv, Found
    <2>2. \A b \in Due' : /\ b.kind = "UID" => Near /\ b.from = card
                          /\ Near' => Near
      BY <1>1, <1>10, <1>f, WhatFollows DEF FindsMore
    <2>3. /\ r.ATQA = reader.ATQA /\ r.level = reader.level + 1 /\ r.state = "ACTIVE_CL"
          /\ r.UID = reader.UID
      BY <1>10 DEF FindsMore, r
    <2>4. codec'.reply \in Due'
      BY DEF Due
    <2>5. reader.level + 1 <= Levels[reader.ATQA] /\ r.level - 1 = reader.level
      BY <1>10, <1>l, <1>k, <2>1, <2>3 DEF FindsMore, CascadeBit, Parts
    <2>6. Parts(reader.level - 1)'
      BY <1>1, <2>1, <2>2, <2>3, <2>4, <2>5 DEF Parts
    <2>7. Asked' /\ Found'
      BY <1>1, <2>1, <2>2, <2>3, <2>6 DEF Asked, Found, Parts
    <2> QED BY <1>3, <1>5, <2>7 DEF CInv
  <1> QED BY <1>6, <1>7, <1>8, <1>9, <1>10 DEF SelectCase, Stays, Fails, Leaves, Stops, Finds, r, a

-----------------------------------------------------------------------------
(* A card that has been selected is one card; it was so already, or it is  *)
(* what the search has found.                                              *)
OneCard(r) == /\ r.SAK \in Cards /\ r.ATQA = r.SAK /\ r.UIDSize = Levels[r.SAK]
              /\ \A l \in 1 .. r.UIDSize : r.UID[l] = r.SAK

LEMMA SelectsOneCard ==
  ASSUME IInv, CInv, Working, CodecTaskReady,
         NEW s, SelectCase(reader, Received, s), s.reader.Selected
  PROVE  /\ OneCard(s.reader) /\ codec.RxDone /\ codec.reply = Silence /\ Received \in Due
         /\ s.frame = NoFrame /\ ~s.restart /\ s.reader.fresh = reader.fresh
         /\ \/ Stays(reader, s)
            \/ /\ Finds(reader, Received, s)
               /\ Near => card = s.reader.SAK
  <1> DEFINE a == Received
  <1>1. Stays(reader, s) \/ Finds(reader, a, s)
    BY DEF SelectCase, Asks, Fails, Leaves, Stops, FindsATQA, FindsUID, FindsMore
  <1>2. codec.RxDone /\ codec.reply = Silence /\ a \in Due
    BY <1>1, WhatWasDue DEF CInv, Stays, Finds
  <1>3. s.reader.fresh = reader.fresh /\ s.frame = NoFrame /\ ~s.restart
    BY <1>1 DEF SelectCase, Stays, Finds
  <1> HIDE DEF a
  <1>4. CASE Stays(reader, s)
    <2>1. OneCard(s.reader)
      BY <1>4 DEF Stays, OneCard, CInv, SelectedIsOneCard
    <2> QED BY <1>2, <1>3, <1>4, <2>1 DEF a
  <1>5. CASE Finds(reader, a, s)
    <2>1. Parts(reader.level) /\ a.from = reader.ATQA /\ a.n = reader.level
      BY <1>2, <1>5 DEF Finds, CInv, Found
    <2>2. reader.level \in 1 .. 3 /\ Levels[reader.ATQA] \in 1 .. 3
      BY <2>1, CardsAssumption DEF IInv, Known, ReaderRecord, Level, Parts
    <2>3. reader.level = Levels[reader.ATQA]
      BY <1>5, <2>1, <2>2 DEF Finds, CascadeBit, Parts
    <2>4. /\ s.reader.SAK = reader.ATQA /\ s.reader.ATQA = reader.ATQA
          /\ s.reader.UIDSize = reader.level /\ s.reader.UID = reader.UID
      BY <1>5, <2>1 DEF Finds
    <2>5. OneCard(s.reader) /\ (Near => card = s.reader.SAK)
      BY <2>1, <2>2, <2>3, <2>4 DEF OneCard, Parts, Level
    <2> QED BY <1>2, <1>3, <1>5, <2>5 DEF a
  <1> QED BY <1>1, <1>4, <1>5

(* A task that is finished leaves nothing behind. *)
LEMMA FinishKeepsC ==
  ASSUME IInv, CInv, Finish, ~reader'.Selected,
         codec' \in {CodecDeInit(Called(codec)), CodecReaderFieldStop(Called(codec)),
                     CodecReset(Called(codec)), Called(codec)}
  PROVE  CInv'
  <1>1. command' = "Do_Nothing"
    BY DEF Finish
  <1>2. /\ Sound(Called(codec)) /\ Steady(Called(codec)) /\ ~Called(codec).Start
    BY CallsAreSteady DEF IInv, CInv, Timely
  <1>3. Steady(codec') /\ ~codec'.Start
    BY <1>2, CallsAreSteady
  <1>4. Timely' /\ ~Working' /\ command' \notin MFU
    BY <1>1, <1>3 DEF Timely, Working, MFU
  <1> QED BY <1>4, NothingDue

LEMMA Unselect ==
  ASSUME NEW r, Known(r)
  PROVE  /\ ~Unselected(r).Selected /\ Unselected(r).fresh = r.fresh
         /\ Unselected(r).state = r.state
  BY DEF Unselected, Known, ReaderRecord

LEMMA SelectIsKnown ==
  IInv => LET s == Select(reader, Received) IN
          SelectCase(reader, Received, s) /\ Known(s.reader) /\ s.reader \in ReaderRecord
  BY SelectCases, SelectGoesOn, WhatIsReceived DEF IInv, Known, Heard

LEMMA NothingKeepsC == IInv /\ CInv /\ Nothing => CInv'
  <1> SUFFICES ASSUME IInv, CInv, Nothing PROVE CInv'
    OBVIOUS
  <1>1. command' = "Do_Nothing" /\ command = command' /\ codec' = Called(codec) /\ reader' = reader
    BY DEF Nothing, Processing, app
  <1>2. Steady(codec') /\ ~codec'.Start /\ ~Working /\ ~Working'
    BY <1>1, CallsAreSteady DEF IInv, CInv, Timely, Working
  <1>3. ~reader'.Selected /\ Timely' /\ command' \notin MFU
    BY <1>1, <1>2 DEF CInv, Timely, MFU
  <1> QED BY <1>2, <1>3, NothingDue

LEMMA SendKeepsC == IInv /\ CInv /\ Send => CInv'
  <1> SUFFICES ASSUME IInv, CInv, Send PROVE CInv'
    OBVIOUS
  <1>1. command = "Send" /\ reader' = reader /\ ~reader'.Selected
    BY DEF Send, Processing, CInv, Timely, Working
  <1>2. CASE toSend
    <2>1. PICK f \in UserFrames : Return(Called(codec), f)
      BY <1>2 DEF Send
    <2>2. command' = "Send"
      BY <1>1, <1>2 DEF Send
    <2>3. f # NoFrame
      BY FramesToSend DEF UserFrames, Requests
    <2>4. Sound(Called(codec)) /\ ~Called(codec).Start /\ ~Called(codec).RxDone
      BY CallsAreSteady DEF IInv, CInv, Timely
    <2>5. ~codec'.Start /\ ~codec'.RxDone /\ codec'.air = "sent"
      BY <2>1, <2>3, <2>4, Returned DEF IInv, TypeOK
    <2>6. Timely' /\ ~Working' /\ command' \notin MFU
      BY <1>1, <2>2, <2>5 DEF Timely, Steady, Working, MFU
    <2> QED BY <1>1, <2>6, NothingDue
  <1>3. CASE ~toSend
    BY <1>1, <1>3, FinishKeepsC DEF Send
  <1> QED BY <1>2, <1>3

LEMMA GetUIDKeepsC == IInv /\ CInv /\ GetUID => CInv'
  <1> SUFFICES ASSUME IInv, CInv, GetUID PROVE CInv'
    OBVIOUS
  <1> DEFINE s == Select(reader, Received)
  <1>1. /\ command = "Get_UID" /\ Working /\ CodecTaskReady /\ UNCHANGED <<card, mfu>>
    BY DEF GetUID, Processing, Working
  <1>2. SelectCase(reader, Received, s) /\ Known(s.reader) /\ s.reader \in ReaderRecord
    BY SelectIsKnown
  <1>3. \/ /\ reader' = Unselected(s.reader) /\ codec' = CodecReaderFieldStop(Called(codec)) /\ Finish
        \/ ~s.reader.Selected /\ HandOn(s) /\ UNCHANGED <<task, command>>
    BY DEF GetUID
  <1> HIDE DEF s
  <1>4. CASE /\ reader' = Unselected(s.reader) /\ codec' = CodecReaderFieldStop(Called(codec)) /\ Finish
    BY <1>2, <1>4, FinishKeepsC, Unselect
  <1>5. CASE ~s.reader.Selected /\ HandOn(s) /\ UNCHANGED <<task, command>>
    BY <1>1, <1>2, <1>5, SearchKeeps
  <1> QED BY <1>3, <1>4, <1>5

LEMMA AutocalibrateKeepsC == IInv /\ CInv /\ Autocalibrate => CInv'
  <1> SUFFICES ASSUME IInv, CInv, Autocalibrate PROVE CInv'
    OBVIOUS
  <1> DEFINE s == Select(reader, Received)
             q == [Unselected(s.reader) EXCEPT !.state = "HALT"]
  <1>1. /\ command = "Autocalibrate" /\ Working /\ CodecTaskReady /\ UNCHANGED <<card, mfu>>
    BY DEF Autocalibrate, Processing, Working
  <1>2. SelectCase(reader, Received, s) /\ Known(s.reader) /\ s.reader \in ReaderRecord
    BY SelectIsKnown
  <1>q. ~q.Selected /\ q.state = "HALT"
    BY <1>2 DEF Unselected, ReaderRecord
  <1>3. \/ ~s.reader.Selected /\ HandOn(s) /\ UNCHANGED <<task, command>>
        \/ /\ reader' = q /\ UNCHANGED <<task, command>>
           /\ Return(CodecStart(Called(codec)), Frame("HLTA", 0, NoCard))
        \/ /\ reader' = Unselected(reader) /\ codec' = CodecReset(Called(codec)) /\ Finish
    BY DEF Autocalibrate
  <1> HIDE DEF s, q
  <1>4. CASE ~s.reader.Selected /\ HandOn(s) /\ UNCHANGED <<task, command>>
    BY <1>1, <1>2, <1>4, SearchKeeps
  <1>5. CASE /\ reader' = q /\ UNCHANGED <<task, command>>
             /\ Return(CodecStart(Called(codec)), Frame("HLTA", 0, NoCard))
    <2>1. Frame("HLTA", 0, NoCard) # NoFrame
      BY FramesToSend DEF Requests
    <2>2. Sound(Called(codec)) /\ Steady(Called(codec)) /\ ~Called(codec).RxDone
      BY CallsAreSteady DEF IInv, CInv, Timely
    <2>3. Sound(CodecStart(Called(codec))) /\ ~CodecStart(Called(codec)).RxDone
      BY <2>2, CallsAreSteady, CodecCalls
    <2>4. ~codec'.RxDone /\ codec'.air = "sent"
      BY <1>5, <2>1, <2>3, Returned DEF IInv, TypeOK
    <2>5. Timely' /\ command' \notin MFU
      BY <1>1, <1>5, <1>q, <2>4 DEF Timely, Steady, Working, CInv, MFU
    <2> QED BY <1>5, <1>q, <2>5, NothingDue
  <1>6. CASE reader' = Unselected(reader) /\ codec' = CodecReset(Called(codec)) /\ Finish
    BY <1>6, FinishKeepsC, Unselect DEF IInv
  <1> QED BY <1>3, <1>4, <1>5, <1>6

-----------------------------------------------------------------------------
(* IDENTIFY asks a selected card for more, or deselects it. *)
SameCard(r, q) == /\ (r.Selected <=> q.Selected) /\ r.SAK = q.SAK /\ r.ATQA = q.ATQA
                  /\ r.UID = q.UID /\ r.UIDSize = q.UIDSize

AsksMore(x, q) == /\ ~x.restart
                  /\ \/ SameCard(x.reader, q)
                     \/ ~x.reader.Selected /\ x.reader.state = "DESELECT"

LEMMA IdentifyAsks ==
  ASSUME NEW r \in ReaderRecord, NEW a, NEW types, Select(r, a).reader \in ReaderRecord,
         Select(r, a).reader.Selected, ~IdentifyCard(r, a, types).done
  PROVE  AsksMore(IdentifyCard(r, a, types).step, Select(r, a).reader)
  <1> DEFINE q == Select(r, a).reader
             i == IdentifyCard(r, a, types)
             d == [q EXCEPT !.state = "DESELECT", !.Selected = FALSE]
  <1> SUFFICES AsksMore(i.step, q)
    OBVIOUS
  <1>d. ~d.Selected /\ d.state = "DESELECT"
    BY DEF ReaderRecord
  <1>1. AsksMore(Deselect(q), q)
    <2> HIDE DEF q, d
    <2>1. Deselect(q).reader = d /\ ~Deselect(q).restart
      BY DEF Deselect, Result, d
    <2> QED BY <2>1, <1>d DEF AsksMore
  <1>2. \A f : \A state \in {"ATS", "DESFIRE_INFO"} : AsksMore(Goto(q, state, f), q)
    <2> SUFFICES ASSUME NEW state \in {"ATS", "DESFIRE_INFO"}, NEW f PROVE AsksMore(Goto(q, state, f), q)
      OBVIOUS
    <2> HIDE DEF q
    <2>1. state \in States /\ q \in ReaderRecord
      BY DEF States, q
    <2> QED BY <2>1, GoesTo DEF SameCard, AsksMore
  <1>3. ASSUME NEW ts, i = Proprietary(q, ts)
        PROVE  AsksMore(i.step, q)
    <2> HIDE DEF q, i
    <2>1. i = Identified(Goto(q, "DESFIRE_INFO", Frame("VERSION", 0, NoCard)), ts, FALSE)
      BY <1>3 DEF Proprietary, Identified, i
    <2>2. i.step = Goto(q, "DESFIRE_INFO", Frame("VERSION", 0, NoCard))
      BY <2>1 DEF Identified
    <2> QED BY <2>2, <1>2
  <1>4. CASE q.state = "SAK_CL"
    <2>1. i = AfterSAK(q)
      BY <1>4 DEF IdentifyCard
    <2> DEFINE ts == IF q.ATQA = q.SAK THEN Matching[q.SAK].SAK ELSE {}
    <2>2. \/ i = Identified(Goto(q, "ATS", Frame("RATS", 0, NoCard)), ts, FALSE)
          \/ i = Proprietary(q, ts)
      <3> HIDE DEF i, q
      <3> QED BY <2>1 DEF AfterSAK
    <2> HIDE DEF q, i, ts
    <2>3. CASE i = Identified(Goto(q, "ATS", Frame("RATS", 0, NoCard)), ts, FALSE)
      <3>1. i.step = Goto(q, "ATS", Frame("RATS", 0, NoCard))
        BY <2>3 DEF Identified
      <3> QED BY <3>1, <1>2
    <2> QED BY <2>2, <2>3, <1>3
  <1>5. CASE q.state = "ATS"
    <2>1. i = AfterATS(q, a, types)
      BY <1>5 DEF IdentifyCard
    <2> DEFINE ts == types \intersect Matching[a.from].ATS
    <2>2. \/ i = Identified(Deselect(q), types, FALSE)
          \/ i = Proprietary(q, ts)
      <3> HIDE DEF i, q
      <3> QED BY <2>1 DEF AfterATS
    <2> HIDE DEF q, i, ts
    <2>3. CASE i = Identified(Deselect(q), types, FALSE)
      <3>1. i.step = Deselect(q)
        BY <2>3 DEF Identified
      <3> QED BY <3>1, <1>1
    <2> QED BY <2>2, <2>3, <1>3
  <1>6. CASE q.state \notin {"SAK_CL", "ATS"}
    <2>1. i = AfterVersion(q, a)
      BY <1>6 DEF IdentifyCard
    <2> HIDE DEF q, i
    <2>2. i = Identified(Deselect(q), {}, FALSE)
      BY <2>1 DEF AfterVersion, Identified, i
    <2>3. i.step = Deselect(q)
      BY <2>2 DEF Identified
    <2> QED BY <2>3, <1>1
  <1> QED BY <1>4, <1>5, <1>6

LEMMA IdentifyKeepsC == IInv /\ CInv /\ Identify => CInv'
  <1> SUFFICES ASSUME IInv, CInv, Identify PROVE CInv'
    OBVIOUS
  <1> DEFINE s == Select(reader, Received)
             i == IdentifyCard(reader, Received, candidates)
  <1>1. /\ command \in {"Identify", "Identify_Clone"} /\ Working /\ CodecTaskReady
        /\ UNCHANGED <<card, mfu>>
    BY DEF Identify, Processing, Working
  <1>2. SelectCase(reader, Received, s) /\ Known(s.reader) /\ s.reader \in ReaderRecord
    BY SelectIsKnown
  <1>3. CASE i.done
    <2>1. /\ reader' = Unselected(i.step.reader) /\ Finish
          /\ CloneIdentified(i.step.reader, IF command = "Identify" THEN {} ELSE i.types)
      BY <1>3 DEF Identify
    <2>2. Known(i.step.reader)
      BY WhatIsReceived, IdentifyGoesOn DEF IInv, TypeOK, Heard
    <2> HIDE DEF i
    <2>3. codec' \in {CodecDeInit(Called(codec)), CodecReaderFieldStop(Called(codec))}
      BY <2>1 DEF CloneIdentified
    <2> QED BY <2>1, <2>2, <2>3, FinishKeepsC, Unselect
  <1>4. CASE ~i.done
    <2>1. HandOn(i.step) /\ UNCHANGED <<task, command>>
      BY <1>4 DEF Identify
    <2>2. CASE ~s.reader.Selected
      <3>1. i = Identified(s, candidates, FALSE)
        BY <2>2 DEF IdentifyCard
      <3> HIDE DEF s, i
      <3>2. i.step = s
        BY <3>1 DEF Identified
      <3> QED BY <1>1, <1>2, <2>1, <2>2, <3>2, SearchKeeps
    <2>3. CASE s.reader.Selected
      <3>1. /\ ~i.step.restart
            /\ \/ SameCard(i.step.reader, s.reader)
               \/ ~i.step.reader.Selected /\ i.step.reader.state = "DESELECT"
        BY <1>2, <1>4, <2>3, IdentifyAsks DEF IInv, Known, AsksMore
      <3> HIDE DEF s, i
      <3>2. OneCard(s.reader)
        BY <1>1, <1>2, <2>3, SelectsOneCard
      <3>3. reader' = i.step.reader /\ Steady(codec') /\ ~codec'.Start
        BY <2>1, <3>1, HandedOn DEF CInv
      <3>4. Timely' /\ Working' /\ command' \notin MFU
        BY <1>1, <2>1, <3>3 DEF Timely, Working, CInv, MFU
      <3>5. CASE SameCard(i.step.reader, s.reader)
        <4>1. reader'.Selected /\ SelectedIsOneCard'
          BY <2>3, <3>2, <3>3, <3>5 DEF SameCard, OneCard, SelectedIsOneCard
        <4> QED BY <3>4, <4>1, OnlySelected
      <3>6. CASE ~i.step.reader.Selected /\ i.step.reader.state = "DESELECT"
        BY <3>3, <3>4, <3>6, NothingDue
      <3> QED BY <3>1, <3>5, <3>6
    <2> QED BY <2>2, <2>3
  <1> QED BY <1>3, <1>4

-----------------------------------------------------------------------------
(* A block that came is kept where the next address says it belongs.       *)
LEMMA BlocksAreKept ==
  ASSUME IInv, CInv, command \in MFU, CodecTaskReady,
         NEW s, SelectCase(reader, Received, s), s.reader.Selected, s.reader.fresh
  PROVE  \A b \in 0 .. NextBlock(Received) - 1 : Kept(Received)[b] = Answer("DATA", s.reader.SAK, b)
  <1> DEFINE a == Received
  <1>0. Working /\ address \in 0 .. MFU_BLOCKS /\ contents \in [Blocks -> Answers]
    BY DEF Working, MFU, IInv, TypeOK
  <1>1. /\ s.reader.fresh = reader.fresh /\ a \in Due
        /\ Stays(reader, s) \/ Finds(reader, a, s)
    BY <1>0, SelectsOneCard
  <1>a. a \in Answers
    BY WhatIsReceived DEF IInv, Heard
  <1> HIDE DEF a
  <1>2. CASE address = 0
    BY <1>2 DEF NextBlock, a
  <1>3. CASE address # 0
    <2>1. Stays(reader, s)
      BY <1>1, <1>3 DEF Finds, CInv, Read
    <2>2. reader.Selected /\ reader.fresh /\ s.reader = reader
      BY <1>1, <2>1 DEF Stays
    <2>3. \A b \in 0 .. address - 2 : contents[b] = Answer("DATA", reader.SAK, b)
      BY <2>2 DEF CInv, BlocksOfSelectedCard
    <2>4. CASE a.kind # "DATA"
      <3>1. NextBlock(a) = address - 1 /\ Kept(a) = contents
        BY <1>3, <2>4 DEF NextBlock, Kept
      <3>2. NextBlock(a) - 1 = address - 2
        BY <1>0, <3>1
      <3> QED BY <2>2, <2>3, <3>1, <3>2 DEF a
    <2>5. CASE a.kind = "DATA"
      <3>1. a.from = reader.SAK /\ a.n = address - 1
        BY <1>1, <2>2, <2>5 DEF CInv, Read
      <3>2. a = Answer("DATA", reader.SAK, address - 1)
        BY <1>a, <2>5, <3>1 DEF Answer, Answers
      <3>3. address - 1 \in Blocks
        BY <1>0, <1>3, Numbers
      <3>4. NextBlock(a) = address /\ Kept(a) = [contents EXCEPT ![address - 1] = a]
        BY <1>3, <2>5 DEF NextBlock, Kept
      <3>5. \A b \in 0 .. address - 1 : Kept(a)[b] = Answer("DATA", reader.SAK, b)
        <4> SUFFICES ASSUME NEW b \in 0 .. address - 1 PROVE Kept(a)[b] = Answer("DATA", reader.SAK, b)
          OBVIOUS
        <4>1. CASE b = address - 1
          BY <1>0, <3>2, <3>3, <3>4, <4>1
        <4>2. CASE b # address - 1
          <5>1. b \in 0 .. address - 2
            BY <1>0, <4>2
          <5>2. Kept(a)[b] = contents[b]
            BY <1>0, <3>3, <3>4, <4>2
          <5> QED BY <2>3, <5>1, <5>2
        <4> QED BY <4>1, <4>2
      <3> QED BY <2>2, <3>4, <3>5 DEF a
    <2> QED BY <2>4, <2>5
  <1> QED BY <1>0, <1>2, <1>3

(* The next block is asked for. *)
LEMMA ReadNextKeepsC ==
  ASSUME IInv, CInv, command \in MFU, CodecTaskReady, UNCHANGED <<card, task, command>>,
         NEW s, SelectCase(reader, Received, s), s.reader.Selected,
         NextBlock(Received) # MFU_BLOCKS,
         contents' = Kept(Received), ReadNext(s, Received)
  PROVE  CInv'
  <1> DEFINE n == NextBlock(Received)
             t == Result(s.reader, FALSE, Frame("READ", n, NoCard))
  <1>0. Working
    BY DEF Working, MFU
  <1>1. /\ OneCard(s.reader) /\ s.reader.fresh = reader.fresh
        /\ \/ Stays(reader, s)
           \/ Finds(reader, Received, s) /\ (Near => card = s.reader.SAK)
    BY <1>0, SelectsOneCard
  <1>n. n \in Blocks /\ n \in Int
    BY BlocksAreBlocks, WhatIsReceived DEF IInv, Heard, Blocks
  <1>2. address' = n + 1 /\ HandOn(t)
    BY DEF ReadNext
  <1>3. t.reader = s.reader /\ ~t.restart /\ t.frame = Frame("READ", n, NoCard)
    BY DEF Result
  <1>4. s.reader.fresh => \A b \in 0 .. n - 1 : contents'[b] = Answer("DATA", s.reader.SAK, b)
    BY BlocksAreKept
  <1> HIDE DEF n, t
  <1>5. /\ reader' = s.reader /\ Steady(codec') /\ ~codec'.RxDone /\ ~codec'.Start
        /\ Follows(Frame("READ", n, NoCard))
    BY <1>2, <1>3, HandedOn DEF CInv
  <1>f. Frame("READ", n, NoCard) # NoFrame
    BY FramesToSend DEF Requests
  <1>6. Timely'
    BY <1>0, <1>5 DEF Timely, Working, CInv
  <1>7. reader'.state = "SAK_CL" /\ (codec.tag = "ACTIVE" => card = reader'.SAK)
    <2>1. CASE Stays(reader, s)
      BY <1>5, <2>1 DEF Stays, CInv, Read
    <2>2. CASE Finds(reader, Received, s) /\ (Near => card = s.reader.SAK)
      BY <1>5, <2>2 DEF Finds, Near
    <2> QED BY <1>1, <2>1, <2>2
  <1>8. \A b \in Due' : /\ b.kind = "DATA" => b.from = card /\ b.n = n /\ codec.tag = "ACTIVE"
                        /\ codec'.tag = "ACTIVE" => codec.tag = "ACTIVE"
    BY <1>5, <1>f, WhatFollows
  <1>9. codec'.reply \in Due'
    BY DEF Due
  <1>10. Read'
    BY <1>2, <1>5, <1>7, <1>8, <1>9, <1>n DEF Read
  <1>11. BlocksOfSelectedCard'
    BY <1>2, <1>4, <1>5, <1>n DEF BlocksOfSelectedCard
  <1>12. SelectedIsOneCard' /\ Asked' /\ Found'
    BY <1>1, <1>5 DEF SelectedIsOneCard, OneCard, Asked, Found
  <1> QED BY <1>6, <1>10, <1>11, <1>12 DEF CInv

(* A card of the wrong type: the search starts over, with the card still   *)
(* Selected, and with no block read.                                       *)
LEMMA WrongTypeKeepsC ==
  ASSUME IInv, CInv, command \in MFU, CodecTaskReady, UNCHANGED <<card, task, command, mfu>>,
         NEW s, SelectCase(reader, Received, s), s.reader.Selected, s.reader \in ReaderRecord,
         address = 0, HandOn(Restart(s.reader, "IDLE"))
  PROVE  CInv'
  <1> DEFINE t == Restart(s.reader, "IDLE")
  <1>0. Working
    BY DEF Working, MFU
  <1>1. /\ OneCard(s.reader) /\ codec.reply = Silence
        /\ \/ Stays(reader, s)
           \/ Finds(reader, Received, s) /\ (Near => card = s.reader.SAK)
    BY <1>0, SelectsOneCard
  <1>2. /\ SameCard(t.reader, s.reader) /\ t.reader.state = "IDLE"
        /\ t.frame = NoFrame
    BY GoesTo DEF SameCard, States
  <1> HIDE DEF t
  <1>3. /\ reader' = t.reader /\ Steady(codec') /\ ~codec'.RxDone /\ Follows(NoFrame)
    BY <1>2, HandedOn DEF CInv, t
  <1>4. codec'.reply = Silence /\ codec'.tag = codec.tag /\ Due' = {Silence}
    BY <1>1, <1>3 DEF Follows, Due
  <1>5. codec.tag = "ACTIVE" => card = s.reader.SAK
    <2>1. CASE Stays(reader, s)
      BY <2>1 DEF Stays, CInv, Read
    <2>2. CASE Finds(reader, Received, s) /\ (Near => card = s.reader.SAK)
      BY <2>2 DEF Near
    <2> QED BY <1>1, <2>1, <2>2
  <1>6. Timely'
    BY <1>0, <1>2, <1>3 DEF Timely, Working, CInv
  <1>7. Read'
    BY <1>2, <1>3, <1>4, <1>5 DEF Read, SameCard, mfu, Silence, Answer
  <1>8. SelectedIsOneCard' /\ Asked' /\ Found' /\ BlocksOfSelectedCard'
    BY <1>1, <1>2, <1>3 DEF SelectedIsOneCard, OneCard, SameCard, Asked, Found, BlocksOfSelectedCard, mfu
  <1> QED BY <1>6, <1>7, <1>8 DEF CInv

LEMMA ReadMFUKeepsC == IInv /\ CInv /\ ReadMFU => CInv'
  <1> SUFFICES ASSUME IInv, CInv, ReadMFU PROVE CInv'
    OBVIOUS
  <1> DEFINE a == Received
             s == Select(reader, a)
             stay == UNCHANGED <<task, command, slot, config>>
  <1>1. command \in MFU /\ Working /\ CodecTaskReady /\ UNCHANGED card
    BY DEF ReadMFU, Processing, Working, MFU
  <1>2. SelectCase(reader, a, s) /\ Known(s.reader) /\ s.reader \in ReaderRecord
    BY SelectIsKnown
  <1>3. \/ ~s.reader.Selected /\ HandOn(s) /\ stay /\ UNCHANGED mfu
        \/ s.reader.Selected /\ CardLost(s) /\ stay
        \/ /\ s.reader.Selected /\ address = 0 /\ HandOn(Restart(s.reader, "IDLE"))
           /\ stay /\ UNCHANGED mfu
        \/ /\ s.reader.Selected /\ contents' = Kept(a)
           /\ IF NextBlock(a) = MFU_BLOCKS THEN ReadDone(s, a) ELSE ReadNext(s, a) /\ stay
    BY DEF ReadMFU
  <1> HIDE DEF s
  <1>4. CASE ~s.reader.Selected /\ HandOn(s) /\ stay /\ UNCHANGED mfu
    BY <1>1, <1>2, <1>4, SearchKeeps
  <1>5. CASE s.reader.Selected /\ CardLost(s) /\ stay
    <2> DEFINE q == [Unselected(s.reader) EXCEPT !.fresh = TRUE]
               t == Restart(q, "IDLE")
    <2>1. q \in ReaderRecord /\ ~q.Selected
      BY <1>2, Unselect, UnselectedIsKnown DEF Known, ReaderRecord
    <2>2. HandOn(t) /\ address' = 0
      BY <1>5 DEF CardLost
    <2> HIDE DEF q
    <2>3. ~t.reader.Selected /\ t.reader.state = "IDLE"
      BY <2>1, GoesTo DEF States
    <2> HIDE DEF t
    <2>4. reader' = t.reader /\ Steady(codec')
      BY <2>2, HandedOn DEF CInv
    <2>5. Timely'
      BY <1>1, <1>5, <2>3, <2>4 DEF Timely, Working, CInv
    <2> QED BY <2>2, <2>3, <2>4, <2>5, NothingDue
  <1>6. CASE /\ s.reader.Selected /\ address = 0 /\ HandOn(Restart(s.reader, "IDLE"))
             /\ stay /\ UNCHANGED mfu
    BY <1>1, <1>2, <1>6, WrongTypeKeepsC
  <1>7. CASE /\ s.reader.Selected /\ contents' = Kept(a) /\ NextBlock(a) # MFU_BLOCKS
             /\ ReadNext(s, a) /\ stay
    BY <1>1, <1>2, <1>7, ReadNextKeepsC
  <1>8. CASE ReadDone(s, a)
    <2>1. Finish /\ reader' = Unselected(s.reader)
      BY <1>8 DEF ReadDone
    <2>2. codec' \in {CodecDeInit(Called(codec)), CodecReaderFieldStop(Called(codec))}
      BY <1>8 DEF ReadDone
    <2> QED BY <1>2, <2>1, <2>2, FinishKeepsC, Unselect
  <1> QED BY <1>3, <1>4, <1>5, <1>6, <1>7, <1>8

-----------------------------------------------------------------------------
(* What begins a task, and what ends one early. *)
LEMMA BegunIsUnselected ==
  ASSUME Known(reader)
  PROVE  /\ ~Begun(reader).Selected /\ Begun(reader).state = "IDLE"
         /\ Begun(reader).fresh <=> address = 0
         /\ ~AppReset(reader).Selected
  BY DEF Begun, AppReset, Unselected, Known, ReaderRecord

LEMMA StartKeepsC ==
  ASSUME IInv, CInv, NEW c \in {"Get_UID", "Autocalibrate", "Read_MFU", "Identify"}, Start(c)
  PROVE  CInv'
  <1>1. /\ reader' = Begun(reader) /\ codec' = CodecStart(codec) /\ task' = Begin(task, TRUE)
        /\ address' = address
    BY DEF Start, mfu
  <1>2. /\ ~reader'.Selected /\ reader'.state = "IDLE"
        /\ reader'.fresh <=> address = 0
    BY <1>1, BegunIsUnselected DEF IInv
  <1>3. Steady(codec') /\ task'.pending
    BY <1>1, CallsAreSteady DEF IInv, CInv, Timely, Begin
  <1>4. Timely'
    BY <1>2, <1>3 DEF Timely
  <1> QED BY <1>1, <1>2, <1>4, NothingDue

LEMMA StartSendKeepsC ==
  ASSUME IInv, CInv, NEW valid \in BOOLEAN, StartSend(valid)
  PROVE  CInv'
  <1>1. command' = "Send" /\ reader' = Begun(reader) /\ codec' \in {codec, CodecStart(codec)}
    BY DEF StartSend
  <1>2. ~reader'.Selected /\ reader'.state = "IDLE"
    BY <1>1, BegunIsUnselected DEF IInv
  <1>3. Steady(codec')
    BY <1>1, CallsAreSteady DEF IInv, CInv, Timely
  <1>4. Timely' /\ command' \notin MFU
    BY <1>1, <1>2, <1>3 DEF Timely, Working, MFU
  <1> QED BY <1>2, <1>4, NothingDue

LEMMA StartCloneKeepsC ==
  ASSUME IInv, CInv, NEW c \in {"Clone_MFU", "Identify_Clone"}, StartClone(c)
  PROVE  CInv'
  <1>1. /\ reader' = Begun(reader) /\ codec' = CodecStart(CodecDeInit(codec))
        /\ task' = Begin(PendingTaskBreak(task), TRUE) /\ address' = address
    BY DEF StartClone, mfu
  <1>2. /\ ~reader'.Selected /\ reader'.state = "IDLE"
        /\ reader'.fresh <=> address = 0
    BY <1>1, BegunIsUnselected DEF IInv
  <1>3. Steady(CodecDeInit(codec)) /\ Sound(CodecDeInit(codec))
    BY CallsAreSteady, CodecCalls DEF IInv, CInv, Timely
  <1>4. Steady(codec') /\ task'.pending
    BY <1>1, <1>3, CallsAreSteady DEF Begin
  <1>5. Timely'
    BY <1>2, <1>4 DEF Timely
  <1> QED BY <1>1, <1>2, <1>5, NothingDue

(* A command that is worked at and not SEND has its callback. *)
LEMMA BreaksWork == IInv /\ CInv /\ Working => CallsBack(task)
  BY DEF IInv, CInv, Timely, Pending, Working, CallsBack

LEMMA TimeoutKeepsC == IInv /\ CInv /\ CommandLineTimeout => CInv'
  <1> SUFFICES ASSUME IInv, CInv, CommandLineTimeout PROVE CInv'
    OBVIOUS
  <1>1. /\ BreakApp
        /\ codec' = IF CallsBack(task) THEN CodecReset(codec) ELSE codec
    BY DEF CommandLineTimeout
  <1>2. ~Working' /\ ~reader'.Selected
    BY <1>1, BreaksWork, BegunIsUnselected DEF BreakApp, Working, CInv, Timely, IInv
  <1>3. Steady(codec') /\ (codec'.Start => reader'.state \in {"IDLE", "HALT"})
    BY <1>1, CallsAreSteady DEF IInv, CInv, Timely, BreakApp
  <1>4. Timely' /\ command' \notin MFU
    BY <1>2, <1>3 DEF Timely, Working, MFU
  <1> QED BY <1>2, <1>4, NothingDue

LEMMA ConfigurationSetKeepsC ==
  ASSUME IInv, CInv, NEW c \in {"READER", "CARD"}, ConfigurationSet(c)
  PROVE  CInv'
  <1>1. /\ codec' = CodecDeInit(codec)
        /\ command' = IF CallsBack(task) THEN "Do_Nothing" ELSE command
    BY DEF ConfigurationSet
  <1>2. ~Working'
    BY <1>1, BreaksWork DEF Working
  <1>3. ~reader'.Selected
    <2>1. reader.Selected => CallsBack(task)
      BY BreaksWork DEF CInv, Timely
    <2> QED BY <2>1 DEF ConfigurationSet, IInv, Known, ReaderRecord
  <1>4. Steady(codec') /\ ~codec'.Start
    BY <1>1, CallsAreSteady DEF IInv, CInv, Timely
  <1>5. Timely' /\ command' \notin MFU
    BY <1>2, <1>3, <1>4 DEF Timely, Working, MFU
  <1> QED BY <1>2, <1>3, <1>5, NothingDue

(* What happens outside adds silence and damage to what is due, and takes  *)
(* the card away.                                                          *)
LEMMA OthersKeepC ==
  ASSUME IInv, CInv, UNCHANGED <<task, app>>, Steady(codec'), codec'.Start <=> codec.Start,
         Due' \subseteq Due \union {Silence, Damaged},
         Near' => Near /\ UNCHANGED card,
         codec'.tag = "ACTIVE" => codec.tag = "ACTIVE"
  PROVE  CInv'
  <1>1. /\ UNCHANGED <<task, command, reader, address, contents>>
        /\ Working' <=> Working
    BY DEF app, mfu, Working
  <1>2. Timely'
    BY <1>1 DEF CInv, Timely
  <1>3. \A a \in Due' : a.kind \notin {"none", "bad"} => a \in Due
    BY DEF Silence, Damaged, Answer
  <1>4. Asked'
    BY <1>1, <1>3 DEF CInv, Asked
  <1>5. Parts(reader.level) => Parts(reader.level)'
    BY <1>1 DEF Parts
  <1>6. Parts(reader.level - 1) => Parts(reader.level - 1)'
    BY <1>1 DEF Parts
  <1>7. Found'
    BY <1>1, <1>3, <1>5, <1>6 DEF CInv, Found
  <1>8. Read'
    BY <1>1, <1>3 DEF CInv, Read, Near
  <1>9. SelectedIsOneCard' /\ BlocksOfSelectedCard'
    BY <1>1 DEF CInv, SelectedIsOneCard, BlocksOfSelectedCard
  <1> QED BY <1>2, <1>4, <1>7, <1>8, <1>9 DEF CInv

LEMMA EnvironmentKeepsC ==
  IInv /\ CInv /\ (ToggleField \/ Air \/ Exchange \/ UNCHANGED vars) => CInv'
  <1> SUFFICES ASSUME IInv, CInv, ToggleField \/ Air \/ Exchange \/ UNCHANGED vars PROVE CInv'
    OBVIOUS
  <1> USE DEF Due, Near
  <1>c. Sound(codec) /\ codec \in Codec /\ Steady(codec)
    BY DEF IInv, CInv, Timely, Sound
  <1>1. CASE ToggleField
    <2>1. UNCHANGED <<task, app, card>>
      BY <1>1 DEF ToggleField
    <2>2. CASE codec' = CodecReaderFieldStop(codec)
      BY <1>c, <2>1, <2>2, OthersKeepC DEF CodecReaderFieldStop, Codec, Steady
    <2>3. CASE codec' = [codec EXCEPT !.field = TRUE]
      BY <1>c, <2>1, <2>3, OthersKeepC DEF Codec, Steady
    <2> QED BY <1>1, <2>2, <2>3 DEF ToggleField
  <1>2. CASE DelayEnds /\ UNCHANGED <<task, app>>
    BY <1>c, <1>2, OthersKeepC DEF DelayEnds, Codec, Steady
  <1>3. CASE AnswerEnds /\ UNCHANGED <<task, app>>
    <2>1. PICK a \in {codec.reply, Silence, Damaged} :
            codec' = [codec EXCEPT !.air = "quiet", !.RxDone = TRUE, !.rx = a, !.reply = Silence]
      BY <1>3 DEF AnswerEnds
    <2>2. UNCHANGED card
      BY <1>3 DEF AnswerEnds
    <2> QED BY <1>c, <1>3, <2>1, <2>2, OthersKeepC DEF Codec, Steady
  <1>4. CASE Exchange
    BY <1>c, <1>4, OthersKeepC DEF Exchange, CardChanges, Codec, Steady
  <1>5. CASE UNCHANGED vars
    BY <1>c, <1>5, OthersKeepC DEF vars, airVars
  <1> QED BY <1>1, <1>2, <1>3, <1>4, <1>5 DEF Air

LEMMA InitCInv == Init => CInv
  <1> SUFFICES ASSUME Init PROVE CInv
    OBVIOUS
  <1>1. /\ ~reader.Selected /\ ~Working /\ command \notin MFU
    BY DEF Init, Working, MFU
  <1>2. Timely
    BY <1>1 DEF Init, AirInit, Timely, Steady
  <1> QED BY <1>1, <1>2 DEF CInv, Asked, Found, Read, SelectedIsOneCard, BlocksOfSelectedCard

LEMMA StepCInv == IInv /\ CInv /\ [Next]_vars => CInv'
  <1> SUFFICES ASSUME IInv, CInv, [Next]_vars PROVE CInv'
    OBVIOUS
  <1>1. CASE Process
    BY <1>1, NothingKeepsC, SendKeepsC, GetUIDKeepsC, AutocalibrateKeepsC, ReadMFUKeepsC, IdentifyKeepsC DEF Process
  <1>2. CASE \E c \in {"Get_UID", "Autocalibrate", "Read_MFU", "Identify"} : Start(c)
    BY <1>2, StartKeepsC
  <1>3. CASE \E valid \in BOOLEAN : StartSend(valid)
    BY <1>3, StartSendKeepsC
  <1>4. CASE \E c \in {"Clone_MFU", "Identify_Clone"} : StartClone(c)
    BY <1>4, StartCloneKeepsC
  <1>5. CASE CommandLineTimeout
    BY <1>5, TimeoutKeepsC
  <1>6. CASE \E c \in {"READER", "CARD"} : ConfigurationSet(c)
    BY <1>6, ConfigurationSetKeepsC
  <1>7. CASE ToggleField \/ Air \/ Exchange \/ UNCHANGED vars
    BY <1>7, EnvironmentKeepsC
  <1> QED BY <1>1, <1>2, <1>3, <1>4, <1>5, <1>6, <1>7 DEF Next

-----------------------------------------------------------------------------
(* Whatever is exchanged or damaged in the middle of the anticollision     *)
(* (Reader14443A_Select): the ATQA, the parts of the UID and the SAK that  *)
(* GETUID, IDENTIFY and CLONE use come from one card.                      *)
THEOREM SelectionIsOneCard == Spec => []SelectedIsOneCard
  <1>1. CInv => SelectedIsOneCard
    BY DEF CInv
  <1> QED BY InitIInv, StepIInv, InitCInv, StepCInv, <1>1, PTL DEF Spec

(* The blocks that Reader14443_Read_MFU has stored are the blocks of the   *)
(* card that is selected, each in its place, if the task began at block 0. *)
THEOREM BlocksAreOfOneCard == Spec => []BlocksOfSelectedCard
  <1>1. CInv => BlocksOfSelectedCard
    BY DEF CInv
  <1> QED BY InitIInv, StepIInv, InitCInv, StepCInv, <1>1, PTL DEF Spec
=============================================================================
