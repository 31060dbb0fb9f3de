----------------------- MODULE MifareUltralightProofs -----------------------
(***************************************************************************)
(* Proofs about MifareUltralight for every number of pages, every layout   *)
(* of the configuration and every content of the slot: what the code keeps *)
(* tells when the readers gave the password as exactly as each flavor      *)
(* needs (AuthInv) and how far the card is selected (LevelInv), and an     *)
(* armed card is armed for the page a reader was granted (ArmedInv).       *)
(***************************************************************************)
EXTENDS MifareUltralight, TLAPS

LevelInv ==
  /\ State \in {"IDLE", "HALT"} => level = 0
  /\ State = "READY1" => level = 1
  /\ State = "READY2" => level = 2
  /\ State \in {"ACTIVE", "AUTH"} => level = 3

(* Whoever gave the password, and in whatever order the field went away,   *)
(* the card was halted and woken up since: the card takes the reader for   *)
(* authenticated just if it has leave.                                     *)
AuthInv == Flavor # "EV0" => (Authenticated <=> Leave)

ArmedInv ==
  ArmedForCompatWrite => /\ allowed = {CompatWritePageAddress}
                         /\ CompatWritePageAddress \in PAGE_WRITE_MIN..(PageCount - 1)

(* Cards without authentication are never protected against reading *)
FlavorInv == Flavor = "EV0" => ~ReadAccessProtected

IInv == TypeOK /\ LevelInv /\ AuthInv /\ ArmedInv /\ FlavorInv

----------------------------------------------------------------------------
(* Remainders and pages *)

LEMMA ModRange == \A i \in Int, m \in Nat \ {0} : i % m \in 0 .. m - 1
OBVIOUS

LEMMA PageRanges ==
  /\ CounterPages \subseteq Pages
  /\ PAGE_WRITE_MIN..(PageCount - 1) \subseteq Pages
  /\ CounterPages \cap PAGE_WRITE_MIN..(PageCount - 1) = {}
  /\ 0 \in Pages /\ MaxPage \in Pages
  /\ PageCount \in Nat /\ PageCount <= MaxPage
BY Layout DEF CounterPages, Pages, PAGE_WRITE_MIN, CNT_MAX

LEMMA ConfigPageRange ==
  /\ ConfigPage \in Pages /\ ConfigPage + 1 \in Pages /\ KeyPage \in Pages /\ KeyPage < PageCount
BY Layout DEF ConfigPage, KeyPage, Pages, PAGE_WRITE_MIN, CNT_MAX

(* The remainder of a word by the number of page addresses is an address *)
LEMMA Auth0Range ==
  ASSUME Memory \in [Pages -> Words]
  PROVE  Auth0 \in Pages /\ Protected \in BOOLEAN
<1>1. MaxPage + 1 \in Nat \ {0} /\ (MaxPage + 1) - 1 = MaxPage
  BY Layout
<1>2. Memory[ConfigPage] \in Int
  BY ConfigPageRange, Layout DEF Words
<1>3. Memory[ConfigPage] % (MaxPage + 1) \in 0 .. (MaxPage + 1) - 1
  BY <1>1, <1>2, ModRange
<1>4. Auth0 \in Pages
  BY <1>1, <1>3, PageRanges DEF Auth0, Pages
<1>5. CASE Flavor = "EV0"
  BY <1>4, <1>5 DEF Protected
<1>6. CASE Flavor = "C"
  BY <1>4, <1>6 DEF Protected
<1>7. CASE Flavor # "EV0" /\ Flavor # "C"
  BY <1>4, <1>7 DEF Protected
<1> QED BY <1>5, <1>6, <1>7

LEMMA PageLimitRange ==
  ASSUME TypeOK
  PROVE  PageLimit \in Nat /\ PageLimit <= MaxPage
BY ConfigPageRange, PageRanges DEF PageLimit, TypeOK, Pages

(* READ shows pages below the limit only *)
LEMMA FourPagesRange ==
  ASSUME NEW p \in Nat, NEW limit \in Nat, p < limit
  PROVE  FourPages(p, limit) \subseteq 0 .. limit - 1
<1>1. limit \in Nat \ {0}
  OBVIOUS
<1>2. \A i \in 0..3 : (p + i) % limit \in 0 .. limit - 1
  BY <1>1, ModRange
<1> QED BY <1>2 DEF FourPages

----------------------------------------------------------------------------
(* What a step may do to the memory *)

LEMMA StoreType ==
  ASSUME Memory \in [Pages -> Words], NEW p \in Pages, NEW x \in Words, Store(p, x)
  PROVE  /\ Memory' \in [Pages -> Words]
         /\ \A q \in Pages : Memory'[q] # Memory[q] => q = p /\ ~ReadOnly
BY DEF Store

LEMMA IncrementCounterType ==
  ASSUME Memory \in [Pages -> Words], NEW x \in Written, IncrementCounter(x)
  PROVE  /\ Memory' \in [Pages -> Words]
         /\ \A q \in Pages : Memory'[q] # Memory[q] => q = UlcCounterAt
<1>1. x \in Nat /\ x \in Int /\ x \in Words /\ Memory[UlcCounterAt] \in Nat /\ Nibble \in Nat \ {0}
  BY Layout DEF Words
<1>2. x % Nibble \in 0 .. Nibble - 1
  BY <1>1, ModRange
<1>3. x % Nibble \in Nat
  BY <1>2, Layout
<1>4. Memory[UlcCounterAt] + (x % Nibble) <= UlcCounterMax => Memory[UlcCounterAt] + (x % Nibble) \in Words
  BY <1>1, <1>3, Layout DEF Words
<1> DEFINE counter == Memory[UlcCounterAt]
           step == x % Nibble
<1>5. CASE counter = 0
  BY <1>1, <1>5 DEF IncrementCounter
<1>6. CASE counter # 0 /\ counter + step <= UlcCounterMax
  <2>1. Memory' = [Memory EXCEPT ![UlcCounterAt] = counter + step]
    BY <1>6 DEF IncrementCounter
  <2> HIDE DEF counter, step
  <2>2. counter + step \in Words
    BY <1>4, <1>6 DEF counter, step
  <2> QED BY <2>1, <2>2
<1>7. CASE counter # 0 /\ ~(counter + step <= UlcCounterMax)
  BY <1>7 DEF IncrementCounter
<1> QED BY <1>5, <1>6, <1>7

(* An increment of EV1 writes a counter, and one that is in its range      *)
(* grows in it: the sum of two 24-bit numbers is no more than a word.      *)
LEMMA IncrementType ==
  ASSUME IInv, NEW id \in Counted, NEW step \in Steps, CMD_INCREMENT_CNT(id, step)
  PROVE  /\ Memory' \in [Pages -> Words]
         /\ \A q \in Pages : Memory'[q] # Memory[q] => q \in CounterPages
         /\ \A q \in CounterPages : Memory[q] <= CounterMax => Memory'[q] \in Memory[q]..CounterMax
<1> DEFINE p == PageCount + id
           addend == Addend(id, step)
           counter == CounterAfter(Memory[p], addend)
<1>1. Memory' = IF counter <= CounterMax THEN [Memory EXCEPT ![p] = counter] ELSE Memory
  BY DEF CMD_INCREMENT_CNT
<1>2. p \in CounterPages /\ p \in Pages
  BY Layout, PageRanges DEF CounterPages, CNT_MAX
<1>3. addend \in Nat /\ CounterMax + addend <= MaxWord /\ CounterMax \in Nat /\ MaxWord \in Nat
  BY WordsAreWide, Layout DEF Words
<1>4. Memory \in [Pages -> Words] /\ \A q \in CounterPages : q \in Pages /\ Memory[q] \in Nat
  BY PageRanges, Layout DEF IInv, TypeOK, Words
<1> HIDE DEF p, addend
<1>5. counter \in Words
  <2>1. Memory[p] + addend \in Int /\ MaxWord + 1 \in Nat \ {0} /\ (MaxWord + 1) - 1 = MaxWord
    BY <1>2, <1>3, <1>4
  <2>2. (Memory[p] + addend) % (MaxWord + 1) \in 0 .. (MaxWord + 1) - 1
    BY <2>1, ModRange
  <2> QED BY <2>1, <2>2 DEF CounterAfter, Words
<1>6. Memory[p] <= CounterMax => counter = Memory[p] + addend
  <2>1. \A a, m \in Nat : a <= m => a % (m + 1) = a
    OBVIOUS
  <2>2. Memory[p] <= CounterMax => Memory[p] + addend \in 0..MaxWord
    BY <1>2, <1>3, <1>4
  <2> QED BY <2>1, <2>2, <1>3 DEF CounterAfter
<1>7. Memory[p] <= CounterMax /\ counter <= CounterMax => counter \in Memory[p]..CounterMax
  BY <1>2, <1>3, <1>4, <1>6
<1> HIDE DEF counter
<1>8. CASE counter <= CounterMax
  <2>1. Memory' = [Memory EXCEPT ![p] = counter]
    BY <1>1, <1>8
  <2>2. \A q \in CounterPages : q # p => Memory'[q] = Memory[q]
    BY <2>1, <1>4
  <2>3. Memory'[p] = counter
    BY <2>1, <1>2, <1>4
  <2> QED BY <2>1, <2>2, <2>3, <1>2, <1>3, <1>4, <1>5, <1>7, <1>8
<1>9. CASE ~(counter <= CounterMax)
  BY <1>1, <1>3, <1>4, <1>9
<1> QED BY <1>8, <1>9

----------------------------------------------------------------------------
(* The invariant is inductive *)

(* What the reader loses when it deselects the card does not matter to the *)
(* code.                                                                   *)
LEMMA DeselectedKeepsLeave ==
  ASSUME proof \in Proofs, UNCHANGED Flavor, proof' = Deselected(proof) \/ proof' = proof
  PROVE  proof' \in Proofs /\ Leave' = Leave
<1>1. proof' \in Proofs
  BY DEF Deselected, Proofs
<1>2. /\ proof \in {"SELECTION", "FIELD"} <=> proof' \in {"SELECTION", "FIELD"}
      /\ proof # "NEVER" <=> proof' # "NEVER"
  BY DEF Deselected, Proofs
<1>3. CASE Flavor = "EV0"
  BY <1>1, <1>3 DEF Leave
<1>4. CASE Flavor = "C"
  BY <1>1, <1>2, <1>4 DEF Leave
<1>5. CASE Flavor # "EV0" /\ Flavor # "C"
  BY <1>1, <1>2, <1>5 DEF Leave
<1> QED BY <1>3, <1>4, <1>5

States == {"IDLE", "HALT", "READY1", "READY2", "ACTIVE", "AUTH"}

LEMMA InitInv == Init => IInv
<1> SUFFICES ASSUME Init PROVE IInv
  OBVIOUS
<1>1. Memory \in [Pages -> Words]
  BY Layout DEF Init
<1>2. TripleDesKey \in Words
  BY <1>1, ConfigPageRange DEF Init
<1>3. TypeOK
  <2>1. FirstAuthenticatedPage \in Pages /\ ReadAccessProtected \in BOOLEAN
    BY <1>1, Auth0Range DEF Init
  <2>2. /\ Flavor \in Flavors /\ State \in {"IDLE", "HALT", "READY1", "READY2", "ACTIVE", "AUTH"}
        /\ FromHalt \in BOOLEAN /\ ReadOnly \in BOOLEAN /\ Authenticated \in BOOLEAN /\ ArmedForCompatWrite \in BOOLEAN
        /\ CompatWritePageAddress \in Pages
    BY PageRanges DEF Init
  <2>3. shown \subseteq Pages /\ level \in 0..3 /\ proof \in Proofs /\ allowed \in SUBSET Pages
    <3>1. shown = {} /\ allowed = {} /\ level = 0 /\ proof = "NEVER"
      BY DEF Init, NoPage
    <3>2. {} \subseteq Pages /\ {} \in SUBSET Pages
      OBVIOUS
    <3>3. 0 \in 0..3 /\ "NEVER" \in Proofs
      BY DEF Proofs
    <3> QED BY <3>1, <3>2, <3>3, Zenon
  <2> QED BY <1>1, <1>2, <2>1, <2>2, <2>3 DEF TypeOK
<1>4. AuthInv
  BY DEF Init, AuthInv, Leave
<1> QED BY <1>3, <1>4 DEF Init, IInv, FlavorInv, Protected, LevelInv, ArmedInv

(* A step that leaves the memory, what is armed and who is authenticated,  *)
(* and whose level fits its state                                          *)
LEMMA QuietInv ==
  ASSUME IInv,
         UNCHANGED <<Flavor, FirstAuthenticatedPage, ReadAccessProtected, TripleDesKey, armed, Authenticated, Memory>>,
         proof' = Deselected(proof) \/ proof' = proof,
         ReadOnly' \in BOOLEAN, FromHalt' \in BOOLEAN, shown' \subseteq Pages,
         State' \in States, level' \in 0..3, LevelInv'
  PROVE  IInv'
<1>1. proof' \in Proofs /\ Leave' = Leave
  BY DeselectedKeepsLeave DEF IInv, TypeOK
<1>2. TypeOK'
  BY <1>1 DEF IInv, TypeOK, armed, States
<1>3. AuthInv' /\ ArmedInv'
  BY <1>1 DEF IInv, AuthInv, ArmedInv, armed
<1> QED BY <1>2, <1>3 DEF IInv, FlavorInv

LEMMA BecomesInv ==
  ASSUME IInv, NEW s \in States, NEW l \in 0..3, Becomes(s, l),
         /\ s \in {"IDLE", "HALT"} => l = 0
         /\ s = "READY1" => l = 1
         /\ s = "READY2" => l = 2
         /\ s \in {"ACTIVE", "AUTH"} => l = 3
  PROVE  IInv'
<1>1. LevelInv'
  BY DEF Becomes, LevelInv
<1>2. ReadOnly' \in BOOLEAN /\ FromHalt' \in BOOLEAN /\ shown' \subseteq Pages
  BY DEF Becomes, conf, IInv, TypeOK
<1>3. proof' = Deselected(proof) \/ proof' = proof
  BY DEF Becomes
<1> QED BY <1>1, <1>2, <1>3, QuietInv DEF Becomes, conf

LEMMA StartsInv ==
  ASSUME IInv, Starts
  PROVE  IInv'
<1>1. CASE AppInit
  <2>1. TripleDesKey' \in Words
    BY <1>1, ConfigPageRange DEF AppInit, IInv, TypeOK
  <2>2. TypeOK'
    <3>1. FirstAuthenticatedPage' \in Pages /\ ReadAccessProtected' \in BOOLEAN
      BY <1>1, Auth0Range DEF AppInit, IInv, TypeOK
    <3>2. shown' \subseteq Pages /\ level' \in 0..3 /\ proof' \in Proofs /\ allowed' \in SUBSET Pages
      <4>1. shown' = {} /\ allowed' = {} /\ level' = 0 /\ proof' = "NEVER"
        BY <1>1 DEF AppInit, NoPage
      <4>2. {} \subseteq Pages /\ {} \in SUBSET Pages
        OBVIOUS
      <4>3. 0 \in 0..3 /\ "NEVER" \in Proofs
        BY DEF Proofs
      <4> QED BY <4>1, <4>2, <4>3, Zenon
    <3>3. /\ Flavor' \in Flavors /\ State' \in {"IDLE", "HALT", "READY1", "READY2", "ACTIVE", "AUTH"}
          /\ FromHalt' \in BOOLEAN /\ ReadOnly' \in BOOLEAN /\ Authenticated' \in BOOLEAN
          /\ ArmedForCompatWrite' \in BOOLEAN /\ CompatWritePageAddress' \in Pages
          /\ Memory' \in [Pages -> Words]
      BY <1>1 DEF AppInit, IInv, TypeOK
    <3> QED BY <2>1, <3>1, <3>2, <3>3 DEF TypeOK
  <2>3. AuthInv'
    <3>1. Authenticated' = FALSE /\ proof' = "NEVER" /\ Flavor' = Flavor
      BY <1>1 DEF AppInit
    <3> QED BY <3>1 DEF AuthInv, Leave
  <2> QED BY <1>1, <2>2, <2>3 DEF AppInit, IInv, FlavorInv, Protected, LevelInv, ArmedInv
<1>2. CASE AppReset
  <2>1. TypeOK'
    <3>1. Authenticated' \in BOOLEAN /\ proof' \in Proofs
      BY <1>2 DEF AppReset, IInv, TypeOK, FieldGone, Proofs
    <3>2. State' \in {"IDLE", "HALT", "READY1", "READY2", "ACTIVE", "AUTH"} /\ shown' \subseteq Pages /\ level' \in 0..3
      BY <1>2 DEF AppReset
    <3> QED BY <1>2, <3>1, <3>2 DEF AppReset, IInv, TypeOK, conf, armed
  <2>2. AuthInv'
    <3>1. Flavor' = Flavor /\ proof' = FieldGone(proof)
      BY <1>2 DEF AppReset, conf
    <3>2. CASE Flavor = "C"
      <4>1. proof' \notin {"SELECTION", "FIELD"} /\ Authenticated' = FALSE
        BY <1>2, <3>1, <3>2 DEF AppReset, FieldGone
      <4> QED BY <3>1, <3>2, <4>1 DEF AuthInv, Leave
    <3>3. CASE Flavor # "C" /\ Flavor # "EV0"
      <4>1. (proof' # "NEVER" <=> proof # "NEVER") /\ Authenticated' = Authenticated
        BY <1>2, <3>1, <3>3 DEF AppReset, FieldGone
      <4> QED BY <3>1, <3>3, <4>1 DEF IInv, AuthInv, Leave
    <3> QED BY <3>1, <3>2, <3>3 DEF AuthInv
  <2>3. ArmedInv'
    BY <1>2 DEF AppReset, IInv, ArmedInv, conf, armed
  <2> QED BY <1>2, <2>1, <2>2, <2>3 DEF AppReset, IInv, FlavorInv, conf, LevelInv
<1>3. CASE SetReadOnly
  <2>1. LevelInv'
    BY <1>3 DEF SetReadOnly, IInv, LevelInv
  <2> QED BY <1>3, <2>1, QuietInv DEF SetReadOnly, IInv, TypeOK, States
<1> QED BY <1>1, <1>2, <1>3 DEF Starts

LEMMA SelectionInv ==
  ASSUME IInv, Selection
  PROVE  IInv'
<1>1. ASSUME NEW cmd, WakeUp(cmd)
      PROVE  IInv'
  <2>1. State' \in States /\ level' \in 0..3 /\ LevelInv'
    BY <1>1 DEF WakeUp, IInv, TypeOK, LevelInv, States
  <2>2. ReadOnly' \in BOOLEAN /\ FromHalt' \in BOOLEAN /\ shown' \subseteq Pages
    BY <1>1 DEF WakeUp, conf, IInv, TypeOK
  <2> QED BY <1>1, <2>1, <2>2, QuietInv DEF WakeUp, conf
<1>2. ASSUME NEW cmd, WokenAgain(cmd)
      PROVE  IInv'
  BY <1>2, BecomesInv DEF WokenAgain, States
<1>3. CASE Select
  <2>1. level = (IF State = "READY1" THEN 1 ELSE 2)
    BY <1>3 DEF Select, IInv, LevelInv
  <2> QED BY <1>3, <2>1, BecomesInv DEF Select, States
<1>4. CASE Anticollision \/ BadChecksum
  <2>1. State \in States /\ level \in 0..3 /\ Becomes(State, level)
    BY <1>4 DEF Anticollision, BadChecksum, IInv, TypeOK, States
  <2> QED BY <2>1, BecomesInv DEF IInv, LevelInv
<1>5. CASE ReadyUnknown \/ ShortFrame
  BY <1>5, BecomesInv DEF ReadyUnknown, ShortFrame, States
<1> QED BY <1>1, <1>2, <1>3, <1>4, <1>5 DEF Selection

LEMMA ShowsInv ==
  ASSUME IInv, NEW pages, pages \subseteq Pages, Shows(pages)
  PROVE  IInv'
<1>1. LevelInv'
  BY DEF Shows, IInv, LevelInv
<1> QED BY <1>1, QuietInv DEF Shows, conf, IInv, TypeOK, States

(* Both commands that read show pages of the memory *)
LEMMA ReadShows ==
  ASSUME IInv, NEW p \in Addressed
  PROVE  /\ p < PageLimit => FourPages(p, PageLimit) \subseteq 0 .. PageLimit - 1
         /\ FourPages(p, PageLimit) \subseteq Pages \/ ~(p < PageLimit)
<1>1. p \in Nat /\ PageLimit \in Nat /\ PageLimit <= MaxPage
  BY Layout, PageLimitRange DEF IInv, Pages
<1>2. 0 .. PageLimit - 1 \subseteq Pages
  BY <1>1, Layout DEF Pages
<1> QED BY <1>1, <1>2, FourPagesRange

LEMMA ReadsInv ==
  ASSUME IInv, Reads
  PROVE  IInv'
<1>1. CASE CMD_HALT \/ Unknown
  BY <1>1, BecomesInv DEF CMD_HALT, Unknown, States
<1>2. CASE Told
  <2>1. State \in States /\ level \in 0..3 /\ Becomes(State, level)
    BY <1>2 DEF Told, IInv, TypeOK, States
  <2> QED BY <2>1, BecomesInv DEF IInv, LevelInv
<1>3. ASSUME NEW p \in Addressed, CMD_READ(p)
      PROVE  IInv'
  <2>1. (IF p < PageLimit THEN FourPages(p, PageLimit) ELSE {}) \subseteq Pages
    BY ReadShows
  <2> QED BY <1>3, <2>1, ShowsInv DEF CMD_READ
<1>4. ASSUME NEW p \in Addressed, NEW q \in Addressed, CMD_FAST_READ(p, q)
      PROVE  IInv'
  <2>1. p \in Pages /\ q \in Pages
    BY Layout
  <2>2. p..q \subseteq Pages
    BY <2>1, Layout DEF Pages
  <2> QED BY <1>4, <2>2, ShowsInv DEF CMD_FAST_READ
<1> QED BY <1>1, <1>2, <1>3, <1>4 DEF Reads

LEMMA MayWriteRange ==
  ASSUME IInv, NEW p, MayWrite(p)
  PROVE  /\ p \in Pages /\ p \in PAGE_WRITE_MIN..(PageCount - 1)
         /\ p < FirstAuthenticatedPage \/ Leave
<1>1. Flavor = "EV0" => Leave
  BY DEF Leave
<1> QED BY <1>1, PageRanges DEF MayWrite, VerifyAuthentication, IInv, AuthInv

(* A step that writes, in the state the card is in *)
LEMMA WriteInv ==
  ASSUME IInv,
         UNCHANGED <<conf, State, FromHalt, Authenticated, level, proof>>, shown' = {},
         Memory' \in [Pages -> Words],
         ArmedForCompatWrite' \in BOOLEAN, CompatWritePageAddress' \in Pages, allowed' \in SUBSET Pages, ArmedInv'
  PROVE  IInv'
<1>1. TypeOK'
  BY DEF IInv, TypeOK, conf
<1>2. LevelInv' /\ AuthInv'
  BY DEF IInv, LevelInv, AuthInv, Leave, conf
<1> QED BY <1>1, <1>2 DEF IInv, FlavorInv, conf

(* A step that writes one page which is no counter of EV1 *)
LEMMA OutsideCounters ==
  ASSUME IInv, NEW p, p \notin CounterPages \/ Flavor # "EV1",
         \A q \in Pages : Memory'[q] # Memory[q] => q = p
  PROVE  Flavor = "EV1" => \A q \in CounterPages : Memory'[q] = Memory[q]
BY PageRanges

(* What WRITE and the data of COMPAT_WRITE do to the memory *)
WriteStep(p, x) == IF CountsOnC(p) THEN IncrementCounter(x) ELSE Store(p, x)

LEMMA WriteStepType ==
  ASSUME IInv, NEW p \in PAGE_WRITE_MIN..(PageCount - 1), NEW x \in Written, WriteStep(p, x)
  PROVE  /\ Memory' \in [Pages -> Words]
         /\ Flavor = "EV1" => \A q \in CounterPages : Memory'[q] = Memory[q]
         /\ \A q \in Pages : Memory'[q] # Memory[q] => (Flavor = "C" /\ q = UlcCounterAt) \/ (q = p /\ ~ReadOnly)
<1>1. Memory \in [Pages -> Words] /\ x \in Words /\ p \in Pages /\ p \notin CounterPages
  BY Layout, PageRanges DEF IInv, TypeOK
<1>2. CASE CountsOnC(p)
  <2>1. IncrementCounter(x) /\ Flavor = "C"
    BY <1>2 DEF WriteStep, CountsOnC
  <2> QED BY <1>1, <2>1, IncrementCounterType, OutsideCounters
<1>3. CASE ~CountsOnC(p)
  <2>1. Store(p, x)
    BY <1>3 DEF WriteStep
  <2> QED BY <1>1, <2>1, StoreType, OutsideCounters
<1> QED BY <1>2, <1>3

(* A WRITE: to the counter of C, to a page it may write, or refused *)
LEMMA CMD_WRITEType ==
  ASSUME IInv, NEW p \in Addressed, NEW x \in Written, CMD_WRITE(p, x)
  PROVE  /\ Memory' \in [Pages -> Words]
         /\ Flavor = "EV1" => \A q \in CounterPages : Memory'[q] = Memory[q]
         /\ \A q \in Pages : Memory'[q] # Memory[q] => (Flavor = "C" /\ q = UlcCounterAt) \/ (q = p /\ ~ReadOnly /\ MayWrite(p))
<1>1. Memory \in [Pages -> Words] /\ x \in Words
  BY Layout DEF IInv, TypeOK
<1>2. CASE CountsOnC(p)
  <2>1. IncrementCounter(x) /\ Flavor = "C"
    BY <1>2 DEF CMD_WRITE, CountsOnC
  <2> QED BY <1>1, <2>1, IncrementCounterType, OutsideCounters
<1>3. CASE ~CountsOnC(p) /\ MayWrite(p)
  <2>1. Store(p, x) /\ p \in PAGE_WRITE_MIN..(PageCount - 1)
    BY <1>3, MayWriteRange DEF CMD_WRITE
  <2>2. WriteStep(p, x)
    BY <1>3, <2>1 DEF WriteStep
  <2> QED BY <1>3, <2>1, <2>2, WriteStepType
<1>4. CASE ~CountsOnC(p) /\ ~MayWrite(p)
  <2>1. Memory' = Memory
    BY <1>4 DEF CMD_WRITE
  <2> QED BY <1>1, <2>1
<1> QED BY <1>2, <1>3, <1>4

LEMMA WritesInv ==
  ASSUME IInv, Writes
  PROVE  IInv'
<1>1. ASSUME NEW p \in Addressed, CMD_COMPAT_WRITE(p)
      PROVE  IInv'
  <2>1. MayWrite(p)
    BY <1>1 DEF CMD_COMPAT_WRITE
  <2>2. allowed' = {p} /\ ArmedForCompatWrite' = TRUE /\ CompatWritePageAddress' = p
    BY <1>1, <2>1, MayWriteRange DEF CMD_COMPAT_WRITE
  <2>3. p \in Pages /\ {p} \in SUBSET Pages /\ ArmedInv'
    BY <2>1, <2>2, MayWriteRange DEF ArmedInv
  <2>4. Memory' \in [Pages -> Words]
    BY <1>1 DEF CMD_COMPAT_WRITE, IInv, TypeOK
  <2> QED BY <1>1, <2>2, <2>3, <2>4, WriteInv DEF CMD_COMPAT_WRITE
<1>2. ASSUME NEW p \in Addressed, NEW x \in Written, CMD_WRITE(p, x)
      PROVE  IInv'
  <2>1. ArmedInv' /\ ArmedForCompatWrite' \in BOOLEAN /\ CompatWritePageAddress' \in Pages /\ allowed' \in SUBSET Pages
    BY <1>2 DEF CMD_WRITE, armed, IInv, TypeOK, ArmedInv
  <2> QED BY <1>2, <2>1, CMD_WRITEType, WriteInv DEF CMD_WRITE
<1>3. ASSUME NEW x \in Written, CompatWriteData(x)
      PROVE  IInv'
  <2>1. CompatWritePageAddress \in PAGE_WRITE_MIN..(PageCount - 1) /\ WriteStep(CompatWritePageAddress, x)
    BY <1>3 DEF CompatWriteData, WriteStep, IInv, ArmedInv
  <2>2. ArmedForCompatWrite' = FALSE /\ CompatWritePageAddress' \in Pages /\ allowed' \in SUBSET Pages
    BY <1>3 DEF CompatWriteData, IInv, TypeOK, NoPage
  <2>3. ArmedInv'
    BY <2>2 DEF ArmedInv
  <2> QED BY <1>3, <2>1, <2>2, <2>3, WriteStepType, WriteInv DEF CompatWriteData
<1>4. ASSUME NEW id \in Counted, NEW step \in Steps, CMD_INCREMENT_CNT(id, step)
      PROVE  IInv'
  <2>1. ArmedInv' /\ ArmedForCompatWrite' \in BOOLEAN /\ CompatWritePageAddress' \in Pages /\ allowed' \in SUBSET Pages
    BY <1>4 DEF CMD_INCREMENT_CNT, armed, IInv, TypeOK, ArmedInv
  <2> QED BY <1>4, <2>1, IncrementType, WriteInv DEF CMD_INCREMENT_CNT
<1> QED BY <1>1, <1>2, <1>3, <1>4 DEF Writes

LEMMA AuthenticationInv ==
  ASSUME IInv, Authentication
  PROVE  IInv'
<1>1. CASE CMD_ULC_AUTH
  <2>1. level = 3
    BY <1>1 DEF CMD_ULC_AUTH, Command, IInv, LevelInv
  <2> QED BY <1>1, <2>1, BecomesInv DEF CMD_ULC_AUTH, States
<1>2. CASE AuthFailed
  BY <1>2, BecomesInv DEF AuthFailed, States
<1>3. ASSUME NEW key \in Written, CMD_PWD_AUTH(key) \/ ULC_AUTH_2(key)
      PROVE  IInv'
  <2>1. /\ UNCHANGED <<conf, armed, FromHalt, Memory, level>> /\ shown' = {}
        /\ State' \in States /\ LevelInv'
    BY <1>3 DEF CMD_PWD_AUTH, ULC_AUTH_2, IInv, TypeOK, LevelInv, States
  <2>2. \/ Authenticated' = TRUE /\ proof' = "SELECTION"
        \/ UNCHANGED <<Authenticated, proof>>
    BY <1>3 DEF CMD_PWD_AUTH, ULC_AUTH_2
  <2>3. TypeOK'
    BY <2>1, <2>2 DEF IInv, TypeOK, conf, armed, States, Proofs
  <2>4. ArmedInv'
    BY <2>1 DEF IInv, ArmedInv, conf, armed
  <2>5. AuthInv'
    <3>1. CASE Authenticated' = TRUE /\ proof' = "SELECTION"
      BY <2>1, <3>1 DEF AuthInv, Leave, conf
    <3>2. CASE UNCHANGED <<Authenticated, proof>>
      BY <2>1, <3>2 DEF IInv, AuthInv, Leave, conf
    <3> QED BY <2>2, <3>1, <3>2
  <2> QED BY <2>1, <2>3, <2>4, <2>5 DEF IInv, FlavorInv, conf
<1> QED BY <1>1, <1>2, <1>3 DEF Authentication

LEMMA StepInv == IInv /\ [Next]_vars => IInv'
<1> SUFFICES ASSUME IInv, [Next]_vars PROVE IInv'
  OBVIOUS
<1>1. CASE UNCHANGED vars
  <2>1. ArmedInv' /\ LevelInv' /\ AuthInv'
    BY <1>1 DEF vars, conf, armed, IInv, ArmedInv, LevelInv, AuthInv, Leave
  <2>2. TypeOK'
    BY <1>1 DEF vars, conf, armed, IInv, TypeOK
  <2> QED BY <1>1, <2>1, <2>2 DEF IInv, FlavorInv, vars, conf
<1>2. CASE Next
  BY <1>2, StartsInv, SelectionInv, ReadsInv, WritesInv, AuthenticationInv DEF Next
<1> QED BY <1>1, <1>2

LEMMA InvAlways == Spec => []IInv
BY InitInv, StepInv, PTL DEF Spec
----------------------------------------------------------------------------
(* The card and the reader's side keep their types, and AUTH0 is a page    *)
(* address whatever word is written to its page.                           *)
THEOREM TypeCorrect == Spec => []TypeOK
<1>1. IInv => TypeOK
  BY DEF IInv
<1> QED BY <1>1, InvAlways, PTL

LEMMA ShownByStep ==
  ASSUME IInv, Next
  PROVE  ShownStep
<1>1. CASE shown' = {}
  BY <1>1 DEF ShownStep
<1>2. ASSUME NEW p \in Addressed, CMD_READ(p), p < PageLimit
      PROVE  ShownStep
  <2>1. /\ shown' = FourPages(p, PageLimit)
        /\ UNCHANGED <<Flavor, FirstAuthenticatedPage, ReadAccessProtected>>
    BY <1>2 DEF CMD_READ, Shows, conf
  <2>2. FourPages(p, PageLimit) \subseteq 0 .. PageLimit - 1 /\ PageLimit \in Nat
    BY <1>2, ReadShows, PageLimitRange DEF IInv
  <2>3. \A q \in shown' : q \in Nat /\ q < PageLimit
    <3> HIDE DEF PageLimit
    <3> QED BY <2>1, <2>2
  <2>4. (Flavor # "EV0" => (Authenticated <=> Leave)) /\ Flavor \in Flavors /\ FirstAuthenticatedPage \in Nat
    BY DEF IInv, AuthInv, TypeOK, Pages
  <2>5. KeyPage \in Nat /\ PageCount \in Nat /\ KeyPage < PageCount
    BY ConfigPageRange, PageRanges DEF Pages
  <2>6. CASE Flavor # "EV0" /\ ReadAccessProtected /\ ~Authenticated
    BY <2>3, <2>4, <2>5, <2>6 DEF PageLimit, ShownStep
  <2>7. CASE Flavor = "EV0"
    <3>1. PageLimit = PageCount /\ ~ReadAccessProtected
      BY <2>7 DEF PageLimit, IInv, FlavorInv
    <3> QED BY <2>3, <2>4, <2>5, <2>7, <3>1 DEF ShownStep
  <2>8. CASE Flavor # "EV0" /\ ~(ReadAccessProtected /\ ~Authenticated)
    <3>1. PageLimit = IF Flavor = "C" THEN KeyPage ELSE PageCount
      BY <2>8 DEF PageLimit
    <3> QED BY <2>3, <2>4, <2>5, <2>8, <3>1 DEF ShownStep
  <2> QED BY <2>6, <2>7, <2>8
<1>3. ASSUME NEW p \in Addressed, NEW q \in Addressed, CMD_FAST_READ(p, q)
      PROVE  ShownStep
  <2>1. p \in Nat /\ q \in Nat /\ FirstAuthenticatedPage \in Nat /\ PageCount \in Nat
    BY Layout, PageRanges DEF IInv, TypeOK, Pages
  <2>2. Flavor \in {"EV1", "NTAG215"}
    BY <1>3 DEF CMD_FAST_READ
  <2>3. CASE p <= q /\ q < PageCount /\ (ReadAccessProtected => VerifyAuthentication(p) /\ VerifyAuthentication(q))
    <3>1. shown' = p..q
      BY <1>3, <2>3 DEF CMD_FAST_READ, Shows
    <3>2. ReadAccessProtected /\ ~Leave => q < FirstAuthenticatedPage
      BY <2>2, <2>3 DEF VerifyAuthentication, IInv, AuthInv
    <3> QED BY <2>1, <2>2, <2>3, <3>1, <3>2 DEF ShownStep
  <2>4. CASE ~(p <= q /\ q < PageCount /\ (ReadAccessProtected => VerifyAuthentication(p) /\ VerifyAuthentication(q)))
    BY <1>1, <1>3, <2>4 DEF CMD_FAST_READ, Shows
  <2> QED BY <2>3, <2>4
<1>4. CASE Starts
  BY <1>1, <1>4 DEF Starts, AppInit, AppReset, SetReadOnly
<1>5. CASE Selection
  BY <1>1, <1>5 DEF Selection, WakeUp, WokenAgain, Select, Anticollision, ReadyUnknown, ShortFrame, BadChecksum, Becomes
<1>6. CASE Reads
  BY <1>1, <1>2, <1>3, <1>6 DEF Reads, CMD_HALT, Unknown, Told, Becomes, CMD_READ, Shows
<1>7. CASE Writes
  BY <1>1, <1>7 DEF Writes, CMD_COMPAT_WRITE, CMD_WRITE, CompatWriteData, CMD_INCREMENT_CNT
<1>8. CASE Authentication
  BY <1>1, <1>8 DEF Authentication, CMD_ULC_AUTH, AuthFailed, CMD_PWD_AUTH, ULC_AUTH_2, Becomes
<1> QED BY <1>4, <1>5, <1>6, <1>7, <1>8 DEF Next

(* No READ or FAST_READ shows a page that is protected against reading to  *)
(* a reader without leave, for any number of pages and any AUTH0.          *)
THEOREM PagesShownWithLeave == Spec => ShownWithLeave
<1>1. IInv /\ [Next]_vars => [ShownStep]_vars
  BY ShownByStep
<1> QED BY <1>1, InvAlways, PTL DEF Spec, ShownWithLeave

(* A step that leaves the memory *)
LEMMA MemoryKept ==
  ASSUME IInv, Next
  PROVE  \/ Memory' = Memory
         \/ Writes /\ \A p \in Addressed : ~CMD_COMPAT_WRITE(p)
<1>1. CASE Starts
  BY <1>1 DEF Starts, AppInit, AppReset, SetReadOnly
<1>2. CASE Selection
  BY <1>2 DEF Selection, WakeUp, WokenAgain, Select, Anticollision, ReadyUnknown, ShortFrame, BadChecksum, Becomes
<1>3. CASE Reads
  BY <1>3 DEF Reads, CMD_HALT, Unknown, Told, Becomes, CMD_READ, CMD_FAST_READ, Shows
<1>4. CASE Writes
  BY <1>4 DEF CMD_COMPAT_WRITE
<1>5. CASE Authentication
  BY <1>5 DEF Authentication, CMD_ULC_AUTH, AuthFailed, CMD_PWD_AUTH, ULC_AUTH_2, Becomes
<1> QED BY <1>1, <1>2, <1>3, <1>4, <1>5 DEF Next

LEMMA CountersRest ==
  ASSUME IInv, Flavor = "EV1" => \A q \in CounterPages : Memory'[q] = Memory[q]
  PROVE  CountersStep
<1>1. \A q \in CounterPages : Memory[q] \in Nat
  BY PageRanges, Layout DEF IInv, TypeOK, Words
<1>2. CounterMax \in Nat
  BY Layout DEF Words
<1> QED BY <1>1, <1>2 DEF CountersStep

(* What the writing steps do to the memory *)
LEMMA WritesStep ==
  ASSUME IInv, Writes, \A p \in Addressed : ~CMD_COMPAT_WRITE(p)
  PROVE  StoredStep /\ CountersStep /\ level = 3
<1>1. ASSUME NEW p \in Addressed, NEW x \in Written, CMD_WRITE(p, x)
      PROVE  StoredStep /\ CountersStep /\ level = 3
  <2>1. State = "ACTIVE" /\ UNCHANGED <<Flavor, ReadOnly, FirstAuthenticatedPage>>
    BY <1>1 DEF CMD_WRITE, Command, conf
  <2>2. StoredStep
    BY <1>1, CMD_WRITEType, MayWriteRange DEF StoredStep
  <2>3. CountersStep
    BY <1>1, <2>1, CMD_WRITEType, CountersRest
  <2> QED BY <2>1, <2>2, <2>3 DEF IInv, LevelInv
<1>2. ASSUME NEW x \in Written, CompatWriteData(x)
      PROVE  StoredStep /\ CountersStep /\ level = 3
  <2>1. /\ CompatWritePageAddress \in PAGE_WRITE_MIN..(PageCount - 1)
        /\ WriteStep(CompatWritePageAddress, x)
        /\ State = "ACTIVE" /\ allowed = {CompatWritePageAddress}
    BY <1>2 DEF CompatWriteData, WriteStep, IInv, ArmedInv
  <2>2. StoredStep
    BY <2>1, WriteStepType DEF StoredStep
  <2>3. CountersStep
    BY <2>1, WriteStepType, CountersRest
  <2> QED BY <2>1, <2>2, <2>3 DEF IInv, LevelInv
<1>3. ASSUME NEW id \in Counted, NEW step \in Steps, CMD_INCREMENT_CNT(id, step)
      PROVE  StoredStep /\ CountersStep /\ level = 3
  <2>1. State = "ACTIVE" /\ Flavor = "EV1"
    BY <1>3 DEF CMD_INCREMENT_CNT, Command
  <2>2. StoredStep
    BY <1>3, <2>1, IncrementType DEF StoredStep
  <2>3. CountersStep
    BY <1>3, IncrementType DEF CountersStep
  <2> QED BY <2>1, <2>2, <2>3 DEF IInv, LevelInv
<1> QED BY <1>1, <1>2, <1>3 DEF Writes

(* A protected page is only stored for a reader with leave, or as          *)
(* the page a COMPAT_WRITE was granted for.                                *)
THEOREM PagesStoredWithLeave == Spec => StoredWithLeave
<1>1. ASSUME IInv, Next PROVE StoredStep
  <2>1. CASE Memory' = Memory
    BY <2>1 DEF StoredStep
  <2> QED BY <1>1, <2>1, MemoryKept, WritesStep
<1>2. IInv /\ [Next]_vars => [StoredStep]_vars
  BY <1>1
<1> QED BY <1>2, InvAlways, PTL DEF Spec, StoredWithLeave

(* A counter of EV1 that is in its range never goes back and never leaves  *)
(* it, for any width of counters and words that holds the largest sum.     *)
THEOREM CountersNeverFall == Spec => CountersOnlyRise
<1>1. ASSUME IInv, Next PROVE CountersStep
  <2>1. CASE Memory' = Memory
    BY <1>1, <2>1, CountersRest
  <2> QED BY <1>1, <2>1, MemoryKept, WritesStep
<1>2. IInv /\ [Next]_vars => [CountersStep]_vars
  BY <1>1
<1> QED BY <1>2, InvAlways, PTL DEF Spec, CountersOnlyRise

(* Nothing is shown or stored before both cascade levels are selected. *)
THEOREM OnlySelectedCardsServe == Spec => SelectedFirst
<1>1. ASSUME IInv, Next PROVE SelectedStep
  <2>1. shown' # {} => State = "ACTIVE"
    <3>1. CASE Starts
      BY <3>1 DEF Starts, AppInit, AppReset, SetReadOnly
    <3>2. CASE Selection
      BY <3>2 DEF Selection, WakeUp, WokenAgain, Select, Anticollision, ReadyUnknown, ShortFrame, BadChecksum, Becomes
    <3>3. CASE Reads
      BY <3>3 DEF Reads, CMD_HALT, Unknown, Told, Becomes, CMD_READ, CMD_FAST_READ, Shows, Command
    <3>4. CASE Writes
      BY <3>4 DEF Writes, CMD_COMPAT_WRITE, CMD_WRITE, CompatWriteData, CMD_INCREMENT_CNT
    <3>5. CASE Authentication
      BY <3>5 DEF Authentication, CMD_ULC_AUTH, AuthFailed, CMD_PWD_AUTH, ULC_AUTH_2, Becomes
    <3> QED BY <1>1, <3>1, <3>2, <3>3, <3>4, <3>5 DEF Next
  <2>2. Memory' # Memory => level = 3
    BY <1>1, MemoryKept, WritesStep
  <2> QED BY <1>1, <2>1, <2>2 DEF SelectedStep, IInv, LevelInv
<1>2. IInv /\ [Next]_vars => [SelectedStep]_vars
  BY <1>1
<1> QED BY <1>2, InvAlways, PTL DEF Spec, SelectedFirst
=============================================================================
