---------------------------- MODULE ReaderCodec ----------------------------
(***************************************************************************)
(* The reader side of the air: the codec of Codec/Reader14443-2A.c, the    *)
(* reader field of Codec/Codec.c, and the card in it, of which only what   *)
(* ISO 14443-3 and -4 promise is used.  The codec sends a whole frame      *)
(* inside one interrupt, waits for the end of the frame delay, then for    *)
(* the answer, and hands answer or silence to the application.             *)
(***************************************************************************)
EXTENDS Integers, FiniteSets

CONSTANTS Cards,           \* the cards that may come into the field
          NoCard,          \* no card, or data of no card
          Levels,          \* cascade levels of the UID of a card
          Compliant,       \* the cards that speak ISO 14443-4
          Ultralights,     \* the cards that answer the READ of MIFARE Ultralight
          MFU_BLOCKS,      \* number of 16 byte blocks a clone reads
          MaxDisturbances  \* bound on the disturbances from one task to the next

ASSUME CardsAssumption == /\ NoCard \notin Cards
                          /\ Levels \in [Cards -> 1 .. 3]
                          /\ Compliant \subseteq Cards
                          /\ Ultralights \subseteq Cards \ Compliant
                          /\ MFU_BLOCKS \in Nat \ {0}
                          /\ MaxDisturbances \in Nat

Level == 1 .. 3
Blocks == 0 .. MFU_BLOCKS - 1

VARIABLES codec,         \* flags of the codec, the field and what is on the air
          card,          \* the card in range
          disturbances   \* disturbances since a task was started

airVars == <<codec, card, disturbances>>

(* A frame is a command with a level or a block number and, for a SELECT,  *)
(* the card whose UID it carries.                                          *)
Frame(cmd, n, to) == [cmd |-> cmd, n |-> n, to |-> to]
NoFrame == Frame("none", 0, NoCard)

(* An answer is of a kind and comes from a card; "bad" fails the checks of *)
(* parity, length or CRC.                                                  *)
Answer(kind, from, n) == [kind |-> kind, from |-> from, n |-> n]
Silence == Answer("none", NoCard, 0)
Damaged == Answer("bad", NoCard, 0)

Kinds == {"none", "bad", "ATQA", "UID", "SAK", "DATA", "NAK", "ATS", "VERSION", "DESELECTED"}
Answers == [kind : Kinds, from : Cards \union {NoCard}, n : 0 .. MFU_BLOCKS + 3]

Codec == [Start : BOOLEAN,                      \* Flags.Start
          RxDone : BOOLEAN,                     \* Flags.RxDone
          air : {"quiet", "sent", "pending"},   \* "pending" is Flags.RxPending
          rx : Answers,                         \* CodecBuffer and BitCount
          reply : Answers,                      \* the answer on its way
          field : BOOLEAN,                      \* ReaderFieldFlags.Started
          tag : {"IDLE", "READY", "ACTIVE", "PROTOCOL", "HALT"}]  \* state of the card

AirInit == /\ codec = [Start |-> FALSE, RxDone |-> FALSE, air |-> "quiet",
                       rx |-> Silence, reply |-> Silence, field |-> FALSE, tag |-> "IDLE"]
           /\ card \in Cards \union {NoCard}
           /\ disturbances = 0

-----------------------------------------------------------------------------
(* The functions of the codec, each from the codec before to the codec     *)
(* after the call.                                                         *)

(* A card without a field forgets where it was, and what it was to answer. *)
CodecReaderFieldStop(c) == [c EXCEPT !.field = FALSE, !.tag = "IDLE", !.reply = Silence]

CodecStart(c) == [c EXCEPT !.Start = TRUE, !.rx = Silence, !.field = TRUE]

CodecResetSlip(c) == [c EXCEPT !.Start = FALSE, !.RxDone = FALSE,
                               !.air = IF @ = "sent" THEN "sent" ELSE "quiet"]

(* The interrupt that ends the frame delay after sending stays enabled.    *)
CodecReset(c) == CodecReaderFieldStop(
                   [c EXCEPT !.Start = FALSE, !.RxDone = FALSE,
                             !.air = IF @ = "sent" THEN "sent" ELSE "quiet"])

CodecDeInit(c) == CodecReaderFieldStop(
                    [c EXCEPT !.Start = FALSE, !.RxDone = FALSE, !.air = "quiet"])

(* What a card does with a frame it hears: its next state and its answer.  *)
Reaction(c, s, f) ==
  LET To(state, a) == [tag |-> state, reply |-> a]
      Mine(kind) == Answer(kind, c, f.n)
  IN  CASE f.cmd = "WUPA" /\ s \in {"IDLE", "HALT", "READY"} -> To("READY", Mine("ATQA"))
        [] f.cmd = "WUPA" /\ s = "ACTIVE" -> To("IDLE", Silence)
        [] f.cmd = "ANTICOLLISION" /\ s = "READY" -> To(s, Mine("UID"))
        [] f.cmd = "SELECT" /\ s = "READY" /\ f.to = c ->
             To(IF f.n = Levels[c] THEN "ACTIVE" ELSE "READY", Mine("SAK"))
        [] f.cmd = "READ" /\ s = "ACTIVE" ->
             IF c \in Ultralights THEN To(s, Mine("DATA")) ELSE To("IDLE", Mine("NAK"))
        [] f.cmd = "RATS" /\ s = "ACTIVE" /\ c \in Compliant -> To("PROTOCOL", Mine("ATS"))
        [] f.cmd = "VERSION" /\ s = "PROTOCOL" -> To(s, Mine("VERSION"))
        [] f.cmd = "DESELECT" /\ s = "PROTOCOL" -> To("HALT", Mine("DESELECTED"))
        [] f.cmd = "HLTA" /\ s = "ACTIVE" -> To("HALT", Silence)
        [] OTHER -> To(IF s \in {"READY", "ACTIVE"} THEN "IDLE" ELSE s, Silence)

(* Something happens from outside that need not: bounded from one task to   *)
(* the next.                                                               *)
Disturbed == disturbances < MaxDisturbances /\ disturbances' = disturbances + 1

(* The codec as the application finds it: its flags are cleared before.    *)
Called(c) == [c EXCEPT !.Start = FALSE, !.RxDone = FALSE]

(* CodecTask calls the application unless an answer is waited for.         *)
CodecTaskReady == codec.air # "pending" /\ (codec.Start \/ codec.RxDone)

(* What the application is called with.  A start before the frame delay is *)
(* over finds the bits of the frame that was sent.                         *)
Received == IF ~codec.RxDone /\ codec.air = "sent" THEN Damaged ELSE codec.rx

(* The application returns frame f, and has left the codec as c.           *)
Return(c, f) ==
  IF f = NoFrame
  THEN codec' = c /\ UNCHANGED disturbances
  ELSE \/ LET r == Reaction(card, c.tag, f) IN
          /\ codec' = IF card # NoCard /\ c.field
                      THEN [c EXCEPT !.air = "sent", !.reply = r.reply, !.tag = r.tag]
                      ELSE [c EXCEPT !.air = "sent", !.reply = Silence]
          /\ UNCHANGED disturbances
       \/ /\ codec' = [c EXCEPT !.air = "sent", !.reply = Silence]
          /\ Disturbed

-----------------------------------------------------------------------------
(* The interrupts. *)

(* The frame delay is over. *)
DelayEnds == /\ codec.air = "sent"
             /\ codec' = [codec EXCEPT !.air = "pending"]
             /\ UNCHANGED <<card, disturbances>>

(* An answer is complete, or the waiting time is over. *)
AnswerEnds ==
  /\ codec.air = "pending"
  /\ \/ /\ codec' = [codec EXCEPT !.air = "quiet", !.RxDone = TRUE, !.rx = codec.reply,
                                  !.reply = Silence]
        /\ UNCHANGED disturbances
     \/ \E a \in {Silence, Damaged} :
          /\ codec' = [codec EXCEPT !.air = "quiet", !.RxDone = TRUE, !.rx = a,
                                    !.reply = Silence]
          /\ Disturbed
  /\ UNCHANGED card

(* A card is taken away, put down, or exchanged for another one.           *)
CardChanges ==
  /\ \E c \in (Cards \union {NoCard}) \ {card} : card' = c
  /\ codec' = [codec EXCEPT !.tag = "IDLE", !.reply = Silence]
  /\ Disturbed
=============================================================================
