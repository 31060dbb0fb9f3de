------------------------ MODULE MifareClassicProofs ------------------------
(***************************************************************************)
(* Proofs about MifareClassic for every layout of sectors, every width of  *)
(* words and every set of keys, contents and frames: the state the code    *)
(* keeps agrees with the session the reader sees (SessionInv), so a block  *)
(* is only served in a session, the cached access conditions are those of  *)
(* the open sector, and the buffer of TRANSFER holds the last result.      *)
(***************************************************************************)
EXTENDS MifareClassic, TLAPS

(* While a reader authenticates or is authenticated, the code goes by the  *)
(* sector and key of the session; a magic card answers once unlocked.      *)
SessionInv ==
  /\ State \in Authed \cup {"AUTHING"} =>
       /\ session.sector \in Sectors
       /\ AccessAddress = session.sector
       /\ KeyInUse = session.key
       /\ ~rewritten => AccessConditions = AccOf(Memory[TrailerOf(AccessAddress)])
  /\ State \in Authed => session.proved
  /\ State \in {"CHINESE_IDLE", "CHINESE_WRITE"} => unlocked

(* The value command under way is the one the reader asked for *)
PendingInv == State \in ValueStates => pending.op = State /\ pending.block = CurrentAddress

IInv == TypeOK /\ SessionInv /\ PendingInv /\ ValueRegister

Plain == {"HALT", "IDLE", "READY1", "READY2", "ACTIVE"}

----------------------------------------------------------------------------
(* The first block begins a sector, and no sector begins at NoAddress *)
LEMMA SectorFacts ==
  /\ 0 \in Blocks /\ 0 \in Sectors /\ NoAddress \notin Sectors /\ Sectors \subseteq Blocks
  /\ \A b \in Blocks : SectorStart(b) \in Sectors
<1>1. 0 \in Blocks
  BY Layout DEF Blocks
<1>2. \A b \in Blocks : SectorStart(b) \in Sectors
  BY DEF Sectors
<1>3. SectorStart(0) = 0
  <2>1. \A m \in Nat \ {0} : 0 - (0 % m) = 0
    OBVIOUS
  <2> QED BY <2>1, Layout DEF SectorStart
<1>4. 0 \in Sectors
  BY <1>1, <1>2, <1>3
<1> QED BY <1>1, <1>2, <1>4, Layout

LEMMA AccType ==
  ASSUME NEW x \in Contents
  PROVE  AccOf(x) \in Accs \cup {BrokenAcc}
BY DEF AccOf, Trailers

LEMMA KeyType ==
  ASSUME NEW x \in Contents, NEW k \in KeyNames
  PROVE  KeyOf(x, k) \in Keys \cup {NoKey}
<1>1. CASE x \in Trailers
  <2>1. x["A"] \in Keys /\ x["B"] \in Keys
    BY <1>1 DEF Trailers
  <2> QED BY <2>1, <1>1 DEF KeyOf, KeyNames
<1>2. CASE x \notin Trailers
  BY <1>2 DEF KeyOf
<1> QED BY <1>1, <1>2

LEMMA ValueAfterType ==
  ASSUME NEW op, NEW v \in Words, NEW operand \in Words
  PROVE  ValueAfter(op, v, operand) \in Words
<1>1. MaxWord + 1 \in Nat \ {0}
  BY Layout
<1>2. \A i \in Int, m \in Nat \ {0} : i % m \in 0 .. m - 1
  OBVIOUS
<1>3. v - operand \in Int /\ v + operand \in Int
  BY Layout DEF Words
<1>4. /\ (v - operand) % (MaxWord + 1) \in 0 .. (MaxWord + 1) - 1
      /\ (v + operand) % (MaxWord + 1) \in 0 .. (MaxWord + 1) - 1
  BY <1>1, <1>2, <1>3
<1>5. (MaxWord + 1) - 1 = MaxWord
  BY Layout
<1> QED BY <1>4, <1>5 DEF ValueAfter, Words

(* The block a value command leaves in the buffer is a value block *)
LEMMA ValueToBlockIsValue ==
  ASSUME NEW x, CheckValueIntegrity(x), NEW v \in Words
  PROVE  /\ ValueToBlock(x, v) \in Contents
         /\ CheckValueIntegrity(ValueToBlock(x, v))
         /\ ValueToBlock(x, v).v = v
<1>1. x \in [v : Words, inv : Words, copy : Words, adr : {"good", "bad"}] /\ x.adr = "good"
  BY DEF CheckValueIntegrity, ValueWords
<1>2. MaxWord - v \in Words
  BY Layout DEF Words
<1> DEFINE y == [x EXCEPT !.v = v, !.inv = MaxWord - v, !.copy = v]
<1>3. /\ y \in [v : Words, inv : Words, copy : Words, adr : {"good", "bad"}]
      /\ y.v = v /\ y.inv = MaxWord - v /\ y.copy = v /\ y.adr = "good"
  BY <1>1, <1>2
<1> HIDE DEF y
<1>4. ValueToBlock(x, v) = y
  BY DEF ValueToBlock, y
<1> QED BY <1>3, <1>4 DEF CheckValueIntegrity, ValueWords, Contents

----------------------------------------------------------------------------
(* What the reader sees stays in its range.                                *)
LEMMA ObserveType ==
  ASSUME TypeOK, NEW f, NEW a, Observe(f, a),
         a = "nonce" => f.block \in Blocks /\ f.key \in KeyNames,
         f.cmd \in ValueStates => f.block \in Blocks
  PROVE  /\ session' \in [sector : Sectors \cup {NoAddress}, key : KeyNames, proved : BOOLEAN]
         /\ unlocked' \in BOOLEAN /\ rewritten' \in BOOLEAN
         /\ pending' \in [op : {"none"} \cup ValueStates, block : Blocks]
<1>1. NoSession \in [sector : Sectors \cup {NoAddress}, key : KeyNames, proved : BOOLEAN]
  BY DEF NoSession, KeyNames
<1>2. a = "nonce" => SectorStart(f.block) \in Sectors
  BY SectorFacts
<1>3. session' \in [sector : Sectors \cup {NoAddress}, key : KeyNames, proved : BOOLEAN]
  BY <1>1, <1>2 DEF Observe, SessionAfter, TypeOK
<1>4. unlocked' \in BOOLEAN
  BY DEF Observe, UnlockedAfter, TypeOK
<1>5. rewritten' \in BOOLEAN
  <2>1. RewrittenAfter(f, a) \in BOOLEAN
    BY Zenon DEF RewrittenAfter, TypeOK
  <2> QED BY <2>1 DEF Observe
<1>6. pending' \in [op : {"none"} \cup ValueStates, block : Blocks]
  BY SectorFacts DEF Observe, PendingAfter, NoPending, ValueStates
<1> QED BY <1>3, <1>4, <1>5, <1>6

(* A step to a state outside every session *)
LEMMA ToPlain ==
  ASSUME IInv, State' \in Plain, FromHalt' \in BOOLEAN,
         AccessAddress' \in Sectors \cup {NoAddress},
         UNCHANGED <<CurrentAddress, KeyInUse, BlockBuffer, AccessConditions, CipherKey, Memory, ReadOnly, register>>,
         NEW f, NEW a, Observe(f, a), a # "nonce", f.cmd \notin ValueStates
  PROVE  IInv'
<1>1. TypeOK'
  BY ObserveType DEF IInv, TypeOK, Plain, States
<1>2. SessionInv'
  BY DEF SessionInv, Plain, Authed, ValueStates
<1>3. PendingInv'
  BY DEF PendingInv, Plain, ValueStates
<1>4. ValueRegister'
  BY DEF IInv, ValueRegister, CheckValueIntegrity
<1> QED BY <1>1, <1>2, <1>3, <1>4 DEF IInv

(* A step that changes neither the memory nor the session *)
LEMMA InSession ==
  ASSUME IInv, State \in Authed, State' \in Authed,
         CurrentAddress' \in Blocks,
         UNCHANGED <<FromHalt, KeyInUse, BlockBuffer, AccessConditions, AccessAddress, CipherKey, Memory, ReadOnly, register>>,
         NEW f, NEW a, Observe(f, a), a \notin {"nonce", "authed", "ATQA", "none"},
         f.cmd \in ValueStates => f.block \in Blocks,
         State' \in ValueStates => a = "ACK" /\ f.cmd = State' /\ f.block = CurrentAddress'
  PROVE  IInv'
<1>1. TypeOK'
  BY ObserveType DEF IInv, TypeOK, States
<1>2. session' = session
  BY DEF Observe, SessionAfter
<1>3. ~rewritten' => ~rewritten
  BY DEF Observe, RewrittenAfter
<1>4. SessionInv'
  BY <1>2, <1>3 DEF IInv, SessionInv, Authed, ValueStates
<1>5. PendingInv'
  BY DEF PendingInv, Observe, PendingAfter, ValueStates
<1>6. ValueRegister'
  BY DEF IInv, ValueRegister, CheckValueIntegrity
<1> QED BY <1>1, <1>4, <1>5, <1>6 DEF IInv

(* A step of a magic card that has been unlocked *)
LEMMA Unlocked ==
  ASSUME IInv, State' \in {"CHINESE_IDLE", "CHINESE_WRITE"}, FromHalt' \in BOOLEAN,
         CurrentAddress' \in Blocks, Memory' \in [Blocks -> Contents],
         UNCHANGED <<KeyInUse, BlockBuffer, AccessConditions, AccessAddress, CipherKey, ReadOnly, register>>,
         NEW f, NEW a, Observe(f, a), a \notin {"nonce", "ATQA"}, unlocked', f.cmd \notin ValueStates
  PROVE  IInv'
<1>1. TypeOK'
  BY ObserveType DEF IInv, TypeOK, States
<1>2. SessionInv'
  BY DEF SessionInv, Authed, ValueStates
<1>3. PendingInv'
  BY DEF PendingInv, ValueStates
<1>4. ValueRegister'
  BY DEF IInv, ValueRegister, CheckValueIntegrity
<1> QED BY <1>1, <1>2, <1>3, <1>4 DEF IInv

----------------------------------------------------------------------------
(* The invariant holds initially, and every step keeps it.                 *)
LEMMA InitInv == Init => IInv
<1> SUFFICES ASSUME Init PROVE IInv
  OBVIOUS
<1>1. BlockBuffer \in Contents
  <2>1. 0 \in Words
    BY Layout DEF Words
  <2>2. [v |-> 0, inv |-> 0, copy |-> 0, adr |-> "bad"] \in ValueWords
    BY <2>1 DEF ValueWords
  <2> QED BY <2>2 DEF Init, Contents
<1>2. Memory \in [Blocks -> Contents]
  BY Bounds DEF Init
<1>3. /\ session \in [sector : Sectors \cup {NoAddress}, key : KeyNames, proved : BOOLEAN]
      /\ pending \in [op : {"none"} \cup ValueStates, block : Blocks]
      /\ register \in [v : Words \cup {-1}]
  BY SectorFacts DEF Init, NoSession, NoPending, NoRegister, KeyNames
<1>4. TypeOK
  BY <1>1, <1>2, <1>3, SectorFacts DEF Init, MifareClassicAppInit, TypeOK, States, KeyNames
<1>5. SessionInv /\ PendingInv
  BY DEF Init, MifareClassicAppInit, SessionInv, PendingInv, Authed, ValueStates
<1>6. ValueRegister
  BY DEF Init, ValueRegister
<1> QED BY <1>4, <1>5, <1>6 DEF IInv

LEMMA WakeUpsInv == IInv /\ WakeUps => IInv'
<1> SUFFICES ASSUME IInv, NEW cmd \in {"REQA", "WUPA"},
                    WakeUpAnyState(cmd) \/ WakeUpIdle(cmd) \/ WokenAgain(cmd)
             PROVE  IInv'
  BY DEF WakeUps
<1>1. CASE WakeUpAnyState(cmd)
  BY <1>1, ToPlain DEF WakeUpAnyState, Plain, Frame, ValueStates
<1>2. CASE WakeUpIdle(cmd)
  <2>1. AccessAddress' \in Sectors \cup {NoAddress}
    BY <1>2 DEF WakeUpIdle, IInv, TypeOK
  <2> QED BY <2>1, <1>2, ToPlain DEF WakeUpIdle, Plain, Frame, ValueStates
<1>3. CASE WokenAgain(cmd)
  <2>1. AccessAddress' \in Sectors \cup {NoAddress} /\ FromHalt' \in BOOLEAN
    BY <1>3 DEF WokenAgain, Becomes, IInv, TypeOK
  <2> QED BY <2>1, <1>3, ToPlain DEF WokenAgain, Becomes, Plain, Frame, ValueStates
<1> QED BY <1>1, <1>2, <1>3

(* A step that only changes the state, to one outside every session *)
LEMMA BecomesPlain ==
  ASSUME IInv, NEW s \in Plain, NEW f, NEW a, a # "nonce", f.cmd \notin ValueStates, Becomes(s, f, a)
  PROVE  IInv'
<1>1. AccessAddress' \in Sectors \cup {NoAddress} /\ FromHalt' \in BOOLEAN
  BY DEF Becomes, IInv, TypeOK
<1> QED BY <1>1, ToPlain DEF Becomes

LEMMA RefusedInv == IInv /\ Refused => IInv'
<1> SUFFICES ASSUME IInv, Refused PROVE IInv'
  OBVIOUS
<1>1. CASE State = "ACTIVE"
  BY <1>1, BecomesPlain DEF Refused, Plain, Frame, ValueStates
<1>2. CASE State = "AUTHED_IDLE"
  <2>1. CurrentAddress' \in Blocks
    BY DEF Refused, Becomes, IInv, TypeOK
  <2> QED BY <1>2, <2>1, InSession DEF Refused, Becomes, Frame, Authed, ValueStates
<1>3. CASE State = "CHINESE_IDLE"
  <2>1. CurrentAddress' \in Blocks /\ FromHalt' \in BOOLEAN /\ Memory' \in [Blocks -> Contents]
    BY DEF Refused, Becomes, IInv, TypeOK
  <2>2. unlocked'
    BY <1>3 DEF Refused, Becomes, Observe, UnlockedAfter, Frame, IInv, SessionInv
  <2> QED BY <1>3, <2>1, <2>2, Unlocked DEF Refused, Becomes, Frame, ValueStates
<1> QED BY <1>1, <1>2, <1>3 DEF Refused

LEMMA SelectionInv == IInv /\ Selection => IInv'
<1> SUFFICES ASSUME IInv, Selection PROVE IInv'
  OBVIOUS
<1>1. CASE IgnoreIdle
  <2>1. AccessAddress' \in Sectors \cup {NoAddress}
    BY <1>1 DEF IgnoreIdle, IInv, TypeOK
  <2> QED BY <2>1, <1>1, ToPlain DEF IgnoreIdle, Plain, Frame, ValueStates
<1>2. CASE Select
  <2>1. AccessAddress' \in Sectors \cup {NoAddress} /\ FromHalt' \in BOOLEAN
    BY <1>2 DEF Select, IInv, TypeOK
  <2> QED BY <2>1, <1>2, ToPlain DEF Select, Plain, Frame, ValueStates
<1>3. CASE ReadyUnknown \/ CMD_HALT \/ Unknown
  BY <1>3, BecomesPlain DEF ReadyUnknown, CMD_HALT, Unknown, Plain, Frame, ValueStates
<1>4. CASE NotAuthed
  BY <1>4, BecomesPlain DEF NotAuthed, Plain, Frame, ValueStates
<1>5. CASE Refused
  BY <1>5, RefusedInv
<1>6. CASE \E a \in {"UID", "none", "NAK"} : Anticollision(a) \/ CMD_SIG_READ(a)
  <2> PICK a \in {"UID", "none", "NAK"} : Anticollision(a) \/ CMD_SIG_READ(a)
    BY <1>6
  <2> QED BY BecomesPlain DEF Anticollision, CMD_SIG_READ, Plain, Frame, ValueStates
<1> QED BY <1>1, <1>2, <1>3, <1>4, <1>5, <1>6 DEF Selection

LEMMA ResetInv == IInv /\ MifareClassicAppReset => IInv'
BY BecomesPlain DEF MifareClassicAppReset, Plain, Frame, ValueStates

----------------------------------------------------------------------------
(* Opening a sector: unless it was open before, its access conditions are  *)
(* read; if it was, they are still those of the trailer or the reader has  *)
(* rewritten them.                                                         *)
LEMMA AuthenticateInv ==
  ASSUME IInv, NEW b \in Blocks, NEW k \in KeyNames, NEW reload \in BOOLEAN,
         Authenticate(b, k, reload),
         ~reload => State = "AUTHED_IDLE" /\ SectorStart(b) = AccessAddress
  PROVE  IInv'
<1> DEFINE start == SectorStart(b)
           tr == TrailerOf(start)
<1>1. start \in Blocks /\ start \in Sectors /\ tr \in Blocks
  BY SectorFacts, Layout
<1>2. Memory[tr] \in Contents
  BY <1>1 DEF IInv, TypeOK
<1>3. AccOf(Memory[tr]) \in Accs \cup {BrokenAcc} /\ KeyOf(Memory[tr], k) \in Keys \cup {NoKey}
  BY <1>2, AccType, KeyType
<1>4. /\ AuthFrame(b, k).cmd = "AUTH" /\ AuthFrame(b, k).block = b /\ AuthFrame(b, k).key = k
      /\ Observe(AuthFrame(b, k), "nonce")
  BY DEF AuthFrame, Authenticate
<1>5. /\ session' \in [sector : Sectors \cup {NoAddress}, key : KeyNames, proved : BOOLEAN]
      /\ unlocked' \in BOOLEAN /\ rewritten' \in BOOLEAN
      /\ pending' \in [op : {"none"} \cup ValueStates, block : Blocks]
  BY <1>4, ObserveType DEF IInv, ValueStates
<1>6. TypeOK'
  BY <1>1, <1>3, <1>5 DEF Authenticate, IInv, TypeOK, States
<1>7. session' = [sector |-> start, key |-> k, proved |-> FALSE]
  BY <1>4 DEF Observe, SessionAfter
<1>8. AccessAddress' = start
  BY DEF Authenticate
<1>9. ~rewritten' => AccessConditions' = AccOf(Memory'[tr])
  <2>1. CASE reload
    BY <2>1 DEF Authenticate
  <2>2. CASE ~reload
    <3>1. session.sector = start /\ AccessAddress = start
      BY <2>2 DEF IInv, SessionInv, Authed
    <3>2. rewritten => rewritten'
      BY <1>4, <3>1 DEF Observe, RewrittenAfter
    <3>3. ~rewritten => AccessConditions = AccOf(Memory[tr])
      BY <2>2, <3>1 DEF IInv, SessionInv, Authed
    <3> QED BY <2>2, <3>2, <3>3 DEF Authenticate
  <2> QED BY <2>1, <2>2
<1>10. SessionInv'
  BY <1>1, <1>7, <1>8, <1>9 DEF Authenticate, SessionInv, Authed, ValueStates
<1>11. PendingInv' /\ ValueRegister'
  BY DEF Authenticate, PendingInv, ValueStates, IInv, ValueRegister, CheckValueIntegrity
<1> QED BY <1>6, <1>10, <1>11 DEF IInv

LEMMA AuthenticationInv == IInv /\ Authentication => IInv'
<1> SUFFICES ASSUME IInv, Authentication PROVE IInv'
  OBVIOUS
<1>1. CASE \E b \in Opened, k \in KeyNames : AuthFirst(b, k) \/ AuthNested(b, k)
  <2> PICK b \in Opened, k \in KeyNames : AuthFirst(b, k) \/ AuthNested(b, k)
    BY <1>1
  <2>1. b \in Blocks
    BY Bounds
  <2>2. CASE AuthFirst(b, k)
    BY <2>1, <2>2, AuthenticateInv DEF AuthFirst
  <2>3. CASE AuthNested(b, k)
    <3>1. CASE SectorStart(b) # AccessAddress
      <4>1. (SectorStart(b) # AccessAddress) = TRUE
        BY <3>1
      <4> QED BY <4>1, <2>1, <2>3, AuthenticateInv DEF AuthNested
    <3>2. CASE SectorStart(b) = AccessAddress
      <4>1. (SectorStart(b) # AccessAddress) = FALSE
        BY <3>2
      <4> QED BY <4>1, <3>2, <2>1, <2>3, AuthenticateInv DEF AuthNested
    <3> QED BY <3>1, <3>2
  <2> QED BY <2>2, <2>3
<1>2. CASE \E key \in Keys : Authing(key)
  <2> PICK key \in Keys : Authing(key)
    BY <1>2
  <2>1. CASE key # CipherKey
    BY <2>1, BecomesPlain DEF Authing, Plain, Frame, ValueStates
  <2>2. CASE key = CipherKey
    <3>1. /\ State = "AUTHING" /\ State' = "AUTHED_IDLE" /\ Observe(Frame("RESPONSE"), "authed")
          /\ UNCHANGED <<FromHalt, CurrentAddress, KeyInUse, BlockBuffer, AccessConditions, AccessAddress, CipherKey, Memory, ReadOnly, register>>
      BY <2>2 DEF Authing, Becomes
    <3>2. session' = [session EXCEPT !.proved = TRUE]
      BY <3>1 DEF Observe, SessionAfter
    <3>3. session'.sector = session.sector /\ session'.key = session.key /\ session'.proved
      BY <3>2 DEF IInv, TypeOK
    <3>4. ~rewritten' => ~rewritten
      BY <3>1 DEF Observe, RewrittenAfter
    <3>5. TypeOK'
      BY <3>1, ObserveType DEF Frame, ValueStates, IInv, TypeOK, States, Authed
    <3>6. SessionInv'
      BY <3>1, <3>3, <3>4 DEF IInv, SessionInv, Authed, ValueStates
    <3>7. PendingInv' /\ ValueRegister'
      BY <3>1 DEF PendingInv, ValueStates, IInv, ValueRegister, CheckValueIntegrity
    <3> QED BY <3>5, <3>6, <3>7 DEF IInv
  <2> QED BY <2>1, <2>2
<1> QED BY <1>1, <1>2 DEF Authentication

----------------------------------------------------------------------------
(* Storing a block within a session: if that changes the access bytes of   *)
(* the open sector, the reader knows.                                      *)
LEMMA StoreInSession ==
  ASSUME IInv, State \in Authed, State' = "AUTHED_IDLE",
         NEW b \in Blocks, NEW x \in Contents, Store(b, x),
         UNCHANGED <<FromHalt, CurrentAddress, KeyInUse, BlockBuffer, AccessConditions, AccessAddress, CipherKey, ReadOnly, register>>,
         NEW f, Observe(f, "ACK"), f.cmd \notin ValueStates
  PROVE  IInv'
<1>1. Memory' \in [Blocks -> Contents]
  BY DEF Store, IInv, TypeOK
<1>2. TypeOK'
  BY <1>1, ObserveType DEF IInv, TypeOK, States, Authed
<1>3. session' = session
  BY DEF Observe, SessionAfter
<1>4. session # NoSession
  BY SectorFacts DEF IInv, SessionInv, NoSession
<1>5. ~rewritten' => ~rewritten /\ AccOf(Memory'[TrailerOf(session.sector)]) = AccOf(Memory[TrailerOf(session.sector)])
  BY <1>4 DEF Observe, RewrittenAfter
<1>6. SessionInv'
  BY <1>3, <1>5 DEF IInv, SessionInv, Authed, ValueStates
<1>7. PendingInv' /\ ValueRegister'
  BY DEF PendingInv, ValueStates, IInv, ValueRegister, CheckValueIntegrity
<1> QED BY <1>2, <1>6, <1>7 DEF IInv

LEMMA ValueOperandInv ==
  ASSUME IInv, NEW operand \in Words, ValueOperand(operand)
  PROVE  IInv'
<1> DEFINE x == Memory[CurrentAddress]
           v == ValueAfter(State, x.v, operand)
<1>1. State \in ValueStates /\ pending.op = State /\ pending.block = CurrentAddress
  BY DEF ValueOperand, ValueStates, IInv, PendingInv
<1>2. x \in Contents
  BY DEF IInv, TypeOK
<1>3. \E a \in {"none", "NAK"} : Observe(Frame("OPERAND"), a)
  BY DEF ValueOperand
<1>4. session' = session
  BY <1>3 DEF Observe, SessionAfter, Frame
<1>5. ~rewritten' => ~rewritten
  BY <1>3 DEF Observe, RewrittenAfter
<1>6. CheckValueIntegrity(x) => x.v \in Words
  BY DEF CheckValueIntegrity, ValueWords
<1>7. CheckValueIntegrity(x) => v \in Words
  BY <1>6, ValueAfterType
<1>8. CheckValueIntegrity(x) => /\ BlockBuffer' \in Contents
                                /\ CheckValueIntegrity(BlockBuffer') /\ BlockBuffer'.v = v
                                /\ register' = [v |-> v]
  BY <1>1, <1>7, ValueToBlockIsValue DEF ValueOperand
<1>9. ~CheckValueIntegrity(x) => BlockBuffer' = x /\ register' = NoRegister
  BY <1>1 DEF ValueOperand
<1> HIDE DEF x, v
<1>10. register' \in [v : Words \cup {-1}]
  BY <1>7, <1>8, <1>9 DEF NoRegister
<1>11. BlockBuffer' \in Contents
  BY <1>2, <1>8, <1>9
<1>12. /\ State' = "AUTHED_IDLE"
       /\ UNCHANGED <<FromHalt, CurrentAddress, KeyInUse, AccessConditions, AccessAddress, CipherKey, Memory, ReadOnly>>
  BY DEF ValueOperand
<1>13. TypeOK'
  BY <1>3, <1>10, <1>11, <1>12, ObserveType DEF Frame, ValueStates, IInv, TypeOK, States, Authed
<1>14. SessionInv'
  BY <1>1, <1>4, <1>5, <1>12 DEF IInv, SessionInv, Authed, ValueStates
<1>15. PendingInv'
  BY <1>12 DEF PendingInv, ValueStates
<1>16. ValueRegister'
  <2>1. CASE CheckValueIntegrity(x)
    BY <2>1, <1>8 DEF ValueRegister, CheckValueIntegrity
  <2>2. CASE ~CheckValueIntegrity(x)
    BY <2>2, <1>9 DEF ValueRegister, NoRegister
  <2> QED BY <2>1, <2>2
<1> QED BY <1>13, <1>14, <1>15, <1>16 DEF IInv

LEMMA ReadAndWriteInv == IInv /\ ReadAndWrite => IInv'
<1> SUFFICES ASSUME IInv, ReadAndWrite PROVE IInv'
  OBVIOUS
<1>1. ASSUME NEW b \in Addressed, CMD_READ(b) PROVE IInv'
  <2>1. b \in Blocks
    BY Bounds
  <2>2. CurrentAddress' \in Blocks /\ State \in Authed /\ State' \in Authed /\ State' \notin ValueStates
    BY <1>1, <2>1 DEF CMD_READ, IInv, TypeOK, Authed, ValueStates
  <2>3. PICK a \in {"data", "gpb", "acc", "acc and key B"} : Observe(Frame("READ"), a)
    BY <1>1 DEF CMD_READ, TrailorReads
  <2> QED BY <1>1, <2>2, <2>3, InSession DEF CMD_READ, Frame, ValueStates
<1>2. ASSUME NEW b \in Addressed, CMD_TRANSFER(b) PROVE IInv'
  <2>1. b \in Blocks /\ BlockBuffer \in Contents
    BY Bounds DEF IInv, TypeOK
  <2> QED BY <1>2, <2>1, StoreInSession DEF CMD_TRANSFER, card, Frame, Authed, ValueStates
<1>3. ASSUME NEW b \in Addressed, NEW cmd \in {"WRITE", "DECREMENT", "INCREMENT", "RESTORE"}, BlockCommand(cmd, b)
      PROVE  IInv'
  <2>1. b \in Blocks
    BY Bounds
  <2>2. /\ [cmd |-> cmd, block |-> b].cmd = cmd /\ [cmd |-> cmd, block |-> b].block = b
        /\ Observe([cmd |-> cmd, block |-> b], "ACK")
        /\ State \in Authed /\ State' \in Authed /\ State' = cmd /\ CurrentAddress' = b
    BY <1>3 DEF BlockCommand, Authed, ValueStates
  <2> QED BY <1>3, <2>1, <2>2, InSession DEF BlockCommand
<1>4. ASSUME NEW x \in Written, WriteData(x) PROVE IInv'
  <2>1. CurrentAddress \in Blocks /\ x \in Contents
    BY Bounds DEF IInv, TypeOK
  <2> QED BY <1>4, <2>1, StoreInSession DEF WriteData, Frame, Authed, ValueStates
<1>5. ASSUME NEW operand \in Operands, ValueOperand(operand) PROVE IInv'
  BY <1>5, Bounds, ValueOperandInv
<1>6. CASE DataRefused
  <2>1. CurrentAddress' \in Blocks
    BY <1>6 DEF DataRefused, Becomes, IInv, TypeOK
  <2> QED BY <1>6, <2>1, InSession DEF DataRefused, Becomes, Frame, Authed, ValueStates
<1> QED BY <1>1, <1>2, <1>3, <1>4, <1>5, <1>6 DEF ReadAndWrite

LEMMA MagicInv == IInv /\ Magic => IInv'
<1> SUFFICES ASSUME IInv, Magic PROVE IInv'
  OBVIOUS
<1>1. CurrentAddress \in Blocks /\ FromHalt \in BOOLEAN /\ Memory \in [Blocks -> Contents]
  BY DEF IInv, TypeOK
<1>2. State \in {"CHINESE_IDLE", "CHINESE_WRITE"} => unlocked
  BY DEF IInv, SessionInv
<1>3. CASE CMD_CHINESE_UNLOCK
  <2>1. unlocked'
    BY <1>3 DEF CMD_CHINESE_UNLOCK, Observe, UnlockedAfter, Frame
  <2>2. FromHalt' \in BOOLEAN
    BY <1>3 DEF CMD_CHINESE_UNLOCK
  <2> QED BY <1>1, <1>3, <2>1, <2>2, Unlocked DEF CMD_CHINESE_UNLOCK, Frame, ValueStates
<1>4. CASE ChineseWriteRefused
  <2>1. unlocked'
    BY <1>2, <1>4 DEF ChineseWriteRefused, Becomes, Observe, UnlockedAfter, Frame
  <2> QED BY <1>1, <1>4, <2>1, Unlocked DEF ChineseWriteRefused, Becomes, Frame, ValueStates
<1>5. ASSUME NEW cmd \in {"UNLOCK_RW", "WIPE", "READ", "OTHER"}, ChineseIdle(cmd) PROVE IInv'
  <2>1. PICK a \in {"ACK", "data", "none"} : Observe(Frame(cmd), a)
    BY <1>5 DEF ChineseIdle, Becomes
  <2>2. Frame(cmd).cmd = cmd
    BY DEF Frame
  <2>3. unlocked'
    BY <1>2, <1>5, <2>1, <2>2 DEF ChineseIdle, Observe, UnlockedAfter
  <2> QED BY <1>1, <1>5, <2>1, <2>2, <2>3, Unlocked DEF ChineseIdle, Becomes, ValueStates
<1>6. ASSUME NEW b \in Addressed, ChineseWriteCommand(b) PROVE IInv'
  <2>1. unlocked' /\ b \in Blocks
    BY <1>2, <1>6, Bounds DEF ChineseWriteCommand, Observe, UnlockedAfter, Frame
  <2> QED BY <1>1, <1>6, <2>1, Unlocked DEF ChineseWriteCommand, Frame, ValueStates
<1>7. ASSUME NEW x \in Written, ChineseWrite(x) PROVE IInv'
  <2>1. unlocked' /\ Memory' \in [Blocks -> Contents]
    BY <1>1, <1>2, <1>7, Bounds DEF ChineseWrite, Store, Observe, UnlockedAfter, Frame
  <2> QED BY <1>1, <1>7, <2>1, Unlocked DEF ChineseWrite, Frame, ValueStates
<1> QED BY <1>3, <1>4, <1>5, <1>6, <1>7 DEF Magic

LEMMA StepInv == IInv /\ [Next]_vars => IInv'
<1> SUFFICES ASSUME IInv, [Next]_vars PROVE IInv'
  OBVIOUS
<1>1. CASE UNCHANGED vars
  BY <1>1 DEF vars, card, seen, IInv, TypeOK, SessionInv, PendingInv, ValueRegister, CheckValueIntegrity
<1> QED BY <1>1, WakeUpsInv, SelectionInv, ResetInv, AuthenticationInv, ReadAndWriteInv, MagicInv DEF Next

LEMMA InvAlways == Spec => []IInv
BY InitInv, StepInv, PTL DEF Spec

----------------------------------------------------------------------------
(* The variables of MifareClassic.c and what the reader sees of them stay  *)
(* in their ranges.                                                        *)
THEOREM TypeCorrect == Spec => []TypeOK
<1>1. IInv => TypeOK
  BY DEF IInv
<1> QED BY <1>1, InvAlways, PTL

(* KeyInUse, AccessAddress and AccessConditions are those of the sector    *)
(* the reader opened last, the last as long as its trailer is not          *)
(* rewritten, through every nested authentication.                         *)
THEOREM SectorIsOpen == Spec => []OpenSector
<1>1. IInv => OpenSector
  BY DEF IInv, SessionInv, OpenSector
<1> QED BY <1>1, InvAlways, PTL

(* The buffer that TRANSFER stores holds the result of the last value      *)
(* command, in the format of a value block.                                *)
THEOREM BufferHoldsResult == Spec => []ValueRegister
<1>1. IInv => ValueRegister
  BY DEF IInv
<1> QED BY <1>1, InvAlways, PTL

(* Blocks are shown and stored only in the session of a reader that gave a *)
(* key, or after a magic card was unlocked, and never stored in a          *)
(* read-only slot.                                                         *)
LEMMA ServingStep ==
  ASSUME IInv, Next
  PROVE  /\ Serves \/ Memory' # Memory => session.proved \/ unlocked
         /\ Memory' # Memory => ~ReadOnly
<1>1. State \in Authed => session.proved
  BY DEF IInv, SessionInv
<1>2. State \in {"CHINESE_IDLE", "CHINESE_WRITE"} => unlocked
  BY DEF IInv, SessionInv
<1>3. CASE WakeUps
  BY <1>3 DEF WakeUps, WakeUpAnyState, WakeUpIdle, WokenAgain, Becomes, Observe, Serves
<1>4. CASE Selection \/ MifareClassicAppReset
  BY <1>4 DEF Selection, MifareClassicAppReset, IgnoreIdle, Select, ReadyUnknown, CMD_HALT, Refused, NotAuthed,
              Unknown, Anticollision, CMD_SIG_READ, Becomes, Observe, Serves
<1>5. CASE Authentication
  BY <1>5 DEF Authentication, AuthFirst, AuthNested, Authenticate, Authing, Becomes, Observe, Serves
<1>6. CASE ReadAndWrite
  <2>1. State \in Authed
    BY <1>6 DEF ReadAndWrite, CMD_READ, CMD_TRANSFER, BlockCommand, WriteData, ValueOperand, DataRefused, Authed, ValueStates
  <2>2. Memory' # Memory => ~ReadOnly
    BY <1>6 DEF ReadAndWrite, CMD_READ, CMD_TRANSFER, BlockCommand, WriteData, ValueOperand, DataRefused, Becomes, Store
  <2> QED BY <1>1, <2>1, <2>2
<1>7. CASE Magic
  <2>1. CASE CMD_CHINESE_UNLOCK
    BY <2>1 DEF CMD_CHINESE_UNLOCK, Observe, Serves
  <2>2. CASE ~CMD_CHINESE_UNLOCK
    <3>1. State \in {"CHINESE_IDLE", "CHINESE_WRITE"}
      BY <1>7, <2>2 DEF Magic, ChineseIdle, ChineseWriteCommand, ChineseWrite, ChineseWriteRefused
    <3>2. Memory' # Memory => ~ReadOnly
      BY <1>7, <2>2 DEF Magic, ChineseIdle, ChineseWriteCommand, ChineseWrite, ChineseWriteRefused, Becomes, Store
    <3> QED BY <1>2, <3>1, <3>2
  <2> QED BY <2>1, <2>2
<1> QED BY <1>3, <1>4, <1>5, <1>6, <1>7 DEF Next

THEOREM ServedOnlyInSession == Spec => ServedToKeyHolder
<1>1. IInv /\ [Next]_vars => [ServedStep]_vars
  BY ServingStep DEF ServedStep
<1> QED BY <1>1, InvAlways, PTL DEF Spec, ServedToKeyHolder
=============================================================================
