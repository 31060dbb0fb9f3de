--------------------------- MODULE SettingsProofs ---------------------------
(***************************************************************************)
(* Proofs about Settings, for every number of slots and pages.             *)
(*                                                                         *)
(* The refinement of SlotMemory needs to know, at every step of a slot     *)
(* change, how much of the old memory is in the flash and how much of the  *)
(* new one is back in the FRAM: that is Progress.  It is only inductive    *)
(* where the supply does not go away in the window of the change, so the   *)
(* theorems that rest on it assume ~LossWhileSwitching; the others do not. *)
(***************************************************************************)
EXTENDS Settings, TLAPS

(* The pages that the running transfer is through with. *)
Passed == 1 .. page - 1

(* Where RAM and EEPROM name which slot. *)
Names == /\ step \in {"switchRecall", "configure", "updateIdx"} => StoredIdx = StoredPtr
         /\ step = "updatePtr" => StoredIdx = ActiveSettingIdx
         /\ step \notin {"switchRecall", "configure", "updateIdx", "updatePtr"}
                => StoredIdx = ActiveSettingIdx /\ StoredPtr = ActiveSettingIdx
         /\ ActiveSettingPtr = ActiveSettingIdx

(* How far the memories are. *)
Progress == /\ step = "switchStore" =>
                 \A p \in Passed : Flash[ActiveSettingIdx][p] = FRAM[p]
            /\ step = "activate" => Flash[ActiveSettingIdx] = FRAM
            /\ step = "switchRecall" =>
                 \A p \in Passed : FRAM[p] = Flash[ActiveSettingIdx][p]
            /\ step \in {"configure", "updateIdx"} => FRAM = Flash[ActiveSettingIdx]
            /\ step \notin {"store", "recall", "erase", "switchStore", "switchRecall", "cloneStore"}
                 => page = 1

IInv == TypeOK /\ Names /\ Progress

(* The pending clone and the slot change exclude one another. *)
CInv == /\ CloneStaysInItsSlot
        /\ step \notin {"idle", "store", "recall"} => ~cloning

-----------------------------------------------------------------------------
LEMMA Counting == /\ \A n \in Pages : n # PageCount => n + 1 \in Pages
                  /\ 1 \in Pages
                  /\ 0 \in Slots
                  /\ \A a \in Slots, k \in Int : (a + k) % SETTINGS_COUNT \in Slots
  <1>1. 1 \in Pages /\ 0 \in Slots /\ \A n \in Pages : n # PageCount => n + 1 \in Pages
    BY SettingsAssumption DEF Pages, Slots
  <1>2. \A a \in Slots, k \in Int : (a + k) % SETTINGS_COUNT \in Slots
    <2>1. \A i \in Int, n \in Nat \ {0} : i % n \in 0 .. n - 1
      OBVIOUS
    <2>2. \A a \in Slots, k \in Int : a + k \in Int
      BY SettingsAssumption DEF Slots
    <2> QED BY <2>1, <2>2, SettingsAssumption DEF Slots
  <1> QED BY <1>1, <1>2

(* Every step changes the types of nothing. *)
LEMMA InitType == Init => TypeOK
  BY Counting, SettingsAssumption DEF Init, TypeOK, Image

LEMMA StepType == TypeOK /\ [Next]_vars => TypeOK'
  <1> SUFFICES ASSUME TypeOK, [Next]_vars PROVE TypeOK'
    OBVIOUS
  <1> USE DEF TypeOK
  <1>0. /\ \A m \in Image, p \in Pages, v \in Values : [m EXCEPT ![p] = v] \in Image
        /\ \A m \in Image, p \in Pages : m[p] \in Values
        /\ \A f \in [Slots -> Image], s \in Slots, p \in Pages, v \in Values :
              [f EXCEPT ![s][p] = v] \in [Slots -> Image]
        /\ Erased \in Values
    BY SettingsAssumption DEF Image
  <1>p. PageDone /\ step # "idle" => step' \in DOMAIN After \union {"idle"} /\ page' \in Pages /\ Setting' \in Slots
    BY Counting DEF PageDone, After
  <1>1. CASE FRAMToFlash
    BY <1>0, <1>1, <1>p DEF FRAMToFlash, settings, task
  <1>2. CASE FlashToFRAM
    BY <1>0, <1>2, <1>p DEF FlashToFRAM, settings, task
  <1>3. CASE FlashErase
    BY <1>0, <1>3, <1>p DEF FlashErase, settings, task
  <1>4. CASE SetActive
    BY <1>4, Counting DEF SetActive, After, persistent, task
  <1>5. CASE ApplyConfiguration
    BY <1>5, Counting DEF ApplyConfiguration, PendingTaskBreak, ConfigurationSet, Done, After, persistent
  <1>6. CASE UpdateIdx \/ UpdatePtr \/ UpdateConfiguration
    BY <1>6 DEF UpdateIdx, UpdatePtr, UpdateConfiguration, WriteConfiguration, Done, After, settings, task
  <1>7. CASE SettingsSave
    BY <1>7 DEF SettingsSave, WriteConfiguration, Done, After, settings, task, call
  <1>8. CASE MemoryStore \/ MemoryRecall \/ MemoryClear \/ CommandSet
    BY <1>8 DEF MemoryStore, MemoryRecall, MemoryClear, CommandSet, Call, After, persistent, settings, task
  <1>s. ASSUME NEW s \in Slots, SettingsSetActiveById(s) PROVE TypeOK'
    BY <1>s, Counting DEF SettingsSetActiveById, PendingTaskBreak, After, persistent, settings
  <1>9. CASE \E s \in Slots : CommandSetSetting(s)
    BY <1>9, <1>s DEF CommandSetSetting
  <1>10. CASE SettingsCycle
    <2>1. PICK k \in 1 .. SETTINGS_COUNT : SettingsSetActiveById(Following(k))
      BY <1>10 DEF SettingsCycle
    <2>2. Following(k) \in Slots
      BY Counting DEF Following
    <2> QED BY <2>1, <2>2, <1>s
  <1>11. CASE \E c \in Configurations : CommandSetConfig(c)
    BY <1>11, Counting DEF CommandSetConfig, PendingTaskBreak, ConfigurationSet, Call, After, persistent
  <1>12. CASE CommandExecClone
    BY <1>12, SettingsAssumption DEF CommandExecClone, ConfigurationSet, persistent, call
  <1>13. CASE CloneFails
    BY <1>13, Counting DEF CloneFails, PendingTaskBreak, persistent, settings, call
  <1>14. CASE \E c \in Configurations \ {CONFIG_NONE, READER}, v \in Values : CloneDone(c, v)
    <2>1. PICK c \in Configurations, v \in Values : CloneDone(c, v)
      BY <1>14
    <2>2. FRAM' \in Image
      BY <2>1, <1>0, Counting DEF CloneDone
    <2> QED BY <2>1, <2>2, Counting DEF CloneDone, ConfigurationSet, Call, After
  <1>15. CASE \E p \in Pages, v \in Values : MemoryWriteBlock(p, v)
    <2>1. PICK p \in Pages, v \in Values : MemoryWriteBlock(p, v)
      BY <1>15
    <2>2. FRAM' \in Image
      BY <2>1, <1>0 DEF MemoryWriteBlock
    <2> QED BY <2>1, <2>2 DEF MemoryWriteBlock, settings, task, call
  <1>16. CASE Restart
    BY <1>16, Counting DEF Restart, persistent
  <1>17. CASE UNCHANGED vars
    BY <1>17 DEF vars, persistent, settings, task, call
  <1> QED
    BY <1>1, <1>2, <1>3, <1>4, <1>5, <1>6, <1>7, <1>8, <1>9, <1>10, <1>11, <1>12, <1>13,
       <1>14, <1>15, <1>16, <1>17 DEF Next, Step

(* Nothing the device does, restarts included, takes a variable out of its  *)
(* type: a transfer stays in the image of one slot.                         *)
THEOREM TypeCorrect == Spec => []TypeOK
  BY InitType, StepType, PTL DEF Spec

-----------------------------------------------------------------------------
(* The pending clone. *)

LEMMA StepClone == TypeOK /\ CInv /\ [Next]_vars => CInv'
  <1> SUFFICES ASSUME TypeOK, CInv, [Next]_vars PROVE CInv'
    OBVIOUS
  <1> USE DEF CInv, CloneStaysInItsSlot
  <1>1. CASE FRAMToFlash \/ FlashToFRAM \/ FlashErase
    BY <1>1 DEF FRAMToFlash, FlashToFRAM, FlashErase, PageDone, After, settings, task
  <1>2. CASE SetActive \/ ApplyConfiguration
    BY <1>2 DEF SetActive, ApplyConfiguration, PendingTaskBreak, Done, After, task
  <1>3. CASE UpdateIdx \/ UpdatePtr \/ UpdateConfiguration
    BY <1>3 DEF UpdateIdx, UpdatePtr, UpdateConfiguration, Done, After, settings, task
  <1>4. CASE SettingsSave
    BY <1>4 DEF SettingsSave, Done, After, settings, task, call
  <1>5. CASE MemoryStore \/ MemoryRecall \/ MemoryClear \/ CommandSet
    BY <1>5 DEF MemoryStore, MemoryRecall, MemoryClear, CommandSet, Call, Idle, settings, task
  <1>6. CASE (\E s \in Slots : CommandSetSetting(s)) \/ SettingsCycle
    BY <1>6 DEF CommandSetSetting, SettingsCycle, SettingsSetActiveById, PendingTaskBreak
  <1>7. CASE \E c \in Configurations : CommandSetConfig(c)
    BY <1>7 DEF CommandSetConfig, PendingTaskBreak
  <1>8. CASE CommandExecClone
    BY <1>8 DEF CommandExecClone, ConfigurationSet, Idle, call
  <1>9. CASE CloneFails \/ Restart
    BY <1>9 DEF CloneFails, PendingTaskBreak, Restart
  <1>10. CASE \E c \in Configurations \ {CONFIG_NONE, READER}, v \in Values : CloneDone(c, v)
    BY <1>10 DEF CloneDone
  <1>11. CASE \E p \in Pages, v \in Values : MemoryWriteBlock(p, v)
    BY <1>11 DEF MemoryWriteBlock, settings, task, call
  <1>12. CASE UNCHANGED vars
    BY <1>12 DEF vars, settings, task, call
  <1> QED
    BY <1>1, <1>2, <1>3, <1>4, <1>5, <1>6, <1>7, <1>8, <1>9, <1>10, <1>11, <1>12 DEF Next, Step

(* A clone ends before the slot or the configuration changes under it, with *)
(* loss of power anywhere.                                                  *)
THEOREM ClonesStay == Spec => []CloneStaysInItsSlot
  <1>1. Init => CInv
    BY DEF Init, CInv, CloneStaysInItsSlot
  <1>2. CInv => CloneStaysInItsSlot
    BY DEF CInv
  <1> QED
    BY <1>1, <1>2, InitType, StepType, StepClone, PTL DEF Spec

-----------------------------------------------------------------------------
(* The change of the slot. *)

LEMMA InitIInv == Init => IInv
  BY InitType DEF Init, IInv, Names, Progress

LEMMA StepNames == ~LossWhileSwitching /\ IInv /\ [Next]_vars => Names'
  <1> SUFFICES ASSUME ~LossWhileSwitching, IInv, [Next]_vars PROVE Names'
    OBVIOUS
  <1> USE DEF IInv, Names
  <1>1. CASE FRAMToFlash \/ FlashToFRAM \/ FlashErase
    BY <1>1 DEF FRAMToFlash, FlashToFRAM, FlashErase, PageDone, After, settings
  <1>2. CASE SetActive \/ ApplyConfiguration
    BY <1>2 DEF SetActive, ApplyConfiguration, ConfigurationSet, Done, After, persistent
  <1>3. CASE UpdateIdx \/ UpdatePtr \/ UpdateConfiguration
    BY <1>3 DEF UpdateIdx, UpdatePtr, UpdateConfiguration, Done, After, settings
  <1>4. CASE SettingsSave
    BY <1>4 DEF SettingsSave, Done, After, settings, call
  <1>5. CASE MemoryStore \/ MemoryRecall \/ MemoryClear \/ CommandSet
    BY <1>5 DEF MemoryStore, MemoryRecall, MemoryClear, CommandSet, Call, Idle, settings, persistent
  <1>6. CASE (\E s \in Slots : CommandSetSetting(s)) \/ SettingsCycle
    BY <1>6 DEF CommandSetSetting, SettingsCycle, SettingsSetActiveById, Idle, settings, persistent
  <1>7. CASE \E c \in Configurations : CommandSetConfig(c)
    BY <1>7 DEF CommandSetConfig, ConfigurationSet, Call, Idle, persistent
  <1>8. CASE CommandExecClone \/ CloneFails
    BY <1>8 DEF CommandExecClone, CloneFails, ConfigurationSet, Idle, persistent, settings, call
  <1>9. CASE Restart
    BY <1>9 DEF Restart, Switching, persistent
  <1>10. CASE \E c \in Configurations \ {CONFIG_NONE, READER}, v \in Values : CloneDone(c, v)
    BY <1>10 DEF CloneDone, ConfigurationSet, Call, Idle
  <1>11. CASE \E p \in Pages, v \in Values : MemoryWriteBlock(p, v)
    BY <1>11 DEF MemoryWriteBlock, settings, call
  <1>12. CASE UNCHANGED vars
    BY <1>12 DEF vars, persistent, settings, call
  <1> QED
    BY <1>1, <1>2, <1>3, <1>4, <1>5, <1>6, <1>7, <1>8, <1>9, <1>10, <1>11, <1>12 DEF Next, Step

(* Two images that agree on every page are one. *)
LEMMA SameImage == \A m, n \in Image : (\A p \in Pages : m[p] = n[p]) => m = n
  BY DEF Image

LEMMA StepProgress == IInv /\ [Next]_vars => Progress'
  <1> SUFFICES ASSUME IInv, [Next]_vars PROVE Progress'
    OBVIOUS
  <1> USE DEF IInv
  <1>t. /\ FRAM \in Image /\ Flash[ActiveSettingIdx] \in Image /\ page \in Nat /\ PageCount \in Nat
        /\ page \in Pages /\ ActiveSettingIdx \in Slots
        /\ \A p \in Pages : p \in Passed \/ p = page \/ p \in page + 1 .. PageCount
        /\ \A p \in Passed : p \in Pages /\ p # page
    BY SettingsAssumption DEF TypeOK, Pages, Passed
  <1>1. CASE FRAMToFlash
    <2>1. /\ FRAM' = FRAM /\ ActiveSettingIdx' = ActiveSettingIdx
          /\ Flash'[ActiveSettingIdx] = [Flash[ActiveSettingIdx] EXCEPT ![page] = FRAM[page]]
      BY <1>1, <1>t DEF FRAMToFlash, TypeOK, settings
    <2>2. /\ Flash'[ActiveSettingIdx][page] = FRAM[page]
          /\ \A p \in Passed : Flash'[ActiveSettingIdx][p] = Flash[ActiveSettingIdx][p]
          /\ Flash'[ActiveSettingIdx] \in Image
      BY <2>1, <1>t DEF Image
    <2>3. CASE page = PageCount
      <3>1. page' = 1 /\ step' = After[step] /\ step \in {"store", "switchStore", "cloneStore"}
        BY <1>1, <2>3 DEF FRAMToFlash, PageDone
      <3>2. step = "switchStore" => Flash'[ActiveSettingIdx] = FRAM
        <4>1. \A p \in Pages : p \in Passed \/ p = page
          BY <1>t, <2>3 DEF Pages, Passed
        <4> QED BY <4>1, <2>2, <1>t, SameImage DEF Progress
      <3> QED BY <3>1, <3>2, <2>1 DEF Progress, After
    <2>4. CASE page # PageCount
      <3>1. page' = page + 1 /\ step' = step /\ step \in {"store", "switchStore", "cloneStore"}
        BY <1>1, <2>4 DEF FRAMToFlash, PageDone
      <3>2. \A p \in Passed' : p \in Passed \/ p = page
        BY <3>1, <1>t DEF Passed
      <3> QED BY <3>1, <3>2, <2>1, <2>2 DEF Progress
    <2> QED BY <2>3, <2>4
  <1>2. CASE FlashToFRAM
    <2>1. /\ Flash' = Flash /\ ActiveSettingIdx' = ActiveSettingIdx
          /\ FRAM' = [FRAM EXCEPT ![page] = Flash[ActiveSettingIdx][page]]
      BY <1>2, <1>t DEF FlashToFRAM, TypeOK, settings
    <2>2. /\ FRAM'[page] = Flash[ActiveSettingIdx][page]
          /\ \A p \in Passed : FRAM'[p] = FRAM[p]
          /\ FRAM' \in Image
      BY <2>1, <1>t DEF Image
    <2>3. CASE page = PageCount
      <3>1. page' = 1 /\ step' = After[step] /\ step \in {"recall", "switchRecall"}
        BY <1>2, <2>3 DEF FlashToFRAM, PageDone
      <3>2. step = "switchRecall" => FRAM' = Flash[ActiveSettingIdx]
        <4>1. \A p \in Pages : p \in Passed \/ p = page
          BY <1>t, <2>3 DEF Pages, Passed
        <4> QED BY <4>1, <2>2, <1>t, SameImage DEF Progress
      <3> QED BY <3>1, <3>2, <2>1 DEF Progress, After
    <2>4. CASE page # PageCount
      <3>1. page' = page + 1 /\ step' = step /\ step \in {"recall", "switchRecall"}
        BY <1>2, <2>4 DEF FlashToFRAM, PageDone
      <3>2. \A p \in Passed' : p \in Passed \/ p = page
        BY <3>1, <1>t DEF Passed
      <3> QED BY <3>1, <3>2, <2>1, <2>2 DEF Progress
    <2> QED BY <2>3, <2>4
  <1>3. CASE FlashErase
    BY <1>3 DEF FlashErase, PageDone, After, Progress
  <1>4. CASE SetActive
    <2>1. page = 1 /\ page' = 1 /\ step' = "switchRecall"
      BY <1>4 DEF SetActive, After, Progress
    <2>2. Passed' = {}
      BY <2>1 DEF Passed
    <2> QED BY <2>1, <2>2 DEF Progress
  <1>5. CASE ApplyConfiguration
    BY <1>5 DEF ApplyConfiguration, ConfigurationSet, Done, After, persistent, Progress
  <1>6. CASE UpdateIdx \/ UpdatePtr \/ UpdateConfiguration
    BY <1>6 DEF UpdateIdx, UpdatePtr, UpdateConfiguration, Done, After, settings, Progress
  <1>7. CASE SettingsSave
    BY <1>7 DEF SettingsSave, Done, After, settings, call, Progress
  <1>8. CASE MemoryStore \/ MemoryRecall \/ MemoryClear \/ CommandSet
    BY <1>8 DEF MemoryStore, MemoryRecall, MemoryClear, CommandSet, Call, Idle, Progress
  <1>9. CASE (\E s \in Slots : CommandSetSetting(s)) \/ SettingsCycle
    <2>1. page = 1 /\ page' = 1 /\ step' \in {"idle", "switchStore"}
      BY <1>9 DEF CommandSetSetting, SettingsCycle, SettingsSetActiveById, Idle, Progress
    <2>2. Passed' = {}
      BY <2>1 DEF Passed
    <2> QED BY <2>1, <2>2 DEF Progress
  <1>10. CASE \E c \in Configurations : CommandSetConfig(c)
    BY <1>10 DEF CommandSetConfig, Call, Idle, Progress
  <1>11. CASE CommandExecClone \/ CloneFails
    BY <1>11 DEF CommandExecClone, CloneFails, Idle, call, Progress
  <1>12. CASE \E c \in Configurations \ {CONFIG_NONE, READER}, v \in Values : CloneDone(c, v)
    BY <1>12 DEF CloneDone, Call, Idle, Progress
  <1>13. CASE \E p \in Pages, v \in Values : MemoryWriteBlock(p, v)
    BY <1>13 DEF MemoryWriteBlock, Idle, call, Progress
  <1>14. CASE Restart
    BY <1>14 DEF Restart, Progress
  <1>15. CASE UNCHANGED vars
    BY <1>15 DEF vars, persistent, settings, call, Progress, Passed
  <1> QED
    BY <1>1, <1>2, <1>3, <1>4, <1>5, <1>6, <1>7, <1>8, <1>9, <1>10, <1>11, <1>12, <1>13,
       <1>14, <1>15 DEF Next, Step

LEMMA StepIInv == ~LossWhileSwitching /\ IInv /\ [Next]_vars => IInv'
  BY StepType, StepNames, StepProgress DEF IInv

LEMMA StepMemory == ~LossWhileSwitching /\ IInv /\ [Next]_vars => [Memory!Next]_Memory!vars
  <1> SUFFICES ASSUME ~LossWhileSwitching, IInv, [Next]_vars
               PROVE [Memory!Next]_Memory!vars
    OBVIOUS
  <1> USE DEF IInv
  <1>t. page \in Pages /\ ActiveSettingIdx \in Slots /\ StoredIdx \in Slots /\ 1 \in Pages
    BY Counting DEF TypeOK
  (* A step that leaves the memories and the names of the slots alone. *)
  <1>q. ASSUME UNCHANGED <<FRAM, Flash, StoredIdx, ActiveSettingIdx>>
        PROVE  UNCHANGED Memory!vars
    BY <1>q DEF Memory!vars
  <1>1. CASE FRAMToFlash
    <2>1. /\ StoredIdx = ActiveSettingIdx /\ UNCHANGED <<FRAM, StoredIdx, ActiveSettingIdx>>
          /\ Flash' = [Flash EXCEPT ![StoredIdx][page] = FRAM[page]]
      BY <1>1 DEF FRAMToFlash, Names, settings
    <2>2. Memory!SavePage(page)
      BY <2>1 DEF Memory!SavePage
    <2> QED BY <2>2, <1>t DEF Memory!Next
  <1>2. CASE FlashToFRAM
    <2>1. /\ UNCHANGED <<Flash, StoredIdx, ActiveSettingIdx>>
          /\ FRAM' = [FRAM EXCEPT ![page] = Flash[ActiveSettingIdx][page]]
      BY <1>2 DEF FlashToFRAM, settings
    <2>2. CASE ActiveSettingIdx = StoredIdx
      <3>1. Memory!RecallPage(page)
        BY <2>1, <2>2 DEF Memory!RecallPage
      <3> QED BY <3>1, <1>t DEF Memory!Next
    <2>3. CASE ActiveSettingIdx # StoredIdx
      BY <2>1, <2>3 DEF Memory!vars
    <2> QED BY <2>2, <2>3
  <1>3. CASE FlashErase
    <2>1. /\ StoredIdx = ActiveSettingIdx /\ UNCHANGED <<FRAM, StoredIdx, ActiveSettingIdx>>
          /\ Flash' = [Flash EXCEPT ![StoredIdx][page] = Erased]
      BY <1>3 DEF FlashErase, Names, settings
    <2>2. Memory!ErasePage(page)
      BY <2>1 DEF Memory!ErasePage
    <2> QED BY <2>2, <1>t DEF Memory!Next
  <1>4. CASE SetActive
    <2>1. /\ StoredIdx = ActiveSettingIdx /\ Flash[StoredIdx] = FRAM
          /\ UNCHANGED <<FRAM, Flash, StoredIdx>>
      BY <1>4 DEF SetActive, Names, Progress, persistent
    <2> QED BY <2>1 DEF Memory!vars
  <1>5. CASE ApplyConfiguration
    BY <1>5, <1>q DEF ApplyConfiguration, ConfigurationSet, persistent
  <1>6. CASE UpdateIdx
    <2>1. /\ FRAM = Flash[ActiveSettingIdx] /\ StoredIdx' = ActiveSettingIdx
          /\ UNCHANGED <<FRAM, Flash, ActiveSettingIdx>>
      BY <1>6 DEF UpdateIdx, Progress, settings
    <2>2. CASE ActiveSettingIdx = StoredIdx
      BY <2>1, <2>2, <1>q
    <2>3. CASE ActiveSettingIdx # StoredIdx
      <3>1. Memory!Select(ActiveSettingIdx)
        BY <2>1, <2>3 DEF Memory!Select
      <3> QED BY <3>1, <1>t DEF Memory!Next
    <2> QED BY <2>2, <2>3
  <1>7. CASE UpdatePtr \/ UpdateConfiguration \/ SettingsSave
    BY <1>7, <1>q DEF UpdatePtr, UpdateConfiguration, SettingsSave, settings
  <1>8. CASE MemoryStore \/ MemoryRecall \/ MemoryClear \/ CommandSet
    BY <1>8, <1>q DEF MemoryStore, MemoryRecall, MemoryClear, CommandSet, persistent, settings
  <1>9. CASE (\E s \in Slots : CommandSetSetting(s)) \/ SettingsCycle
    BY <1>9, <1>q DEF CommandSetSetting, SettingsCycle, SettingsSetActiveById, persistent, settings
  <1>10. CASE \E c \in Configurations : CommandSetConfig(c)
    BY <1>10, <1>q DEF CommandSetConfig, ConfigurationSet, persistent
  <1>11. CASE CommandExecClone \/ CloneFails
    BY <1>11, <1>q DEF CommandExecClone, CloneFails, ConfigurationSet, persistent, settings
  <1>c. ASSUME NEW p \in Pages, NEW v \in Values, Idle,
               FRAM' = [FRAM EXCEPT ![p] = v], UNCHANGED <<Flash, StoredIdx, ActiveSettingIdx>>
        PROVE  Memory!Next
    <2>1. StoredIdx = ActiveSettingIdx
      BY <1>c DEF Idle, Names
    <2>2. Memory!Change(p, v)
      BY <1>c, <2>1 DEF Memory!Change
    <2> QED BY <2>2 DEF Memory!Next
  <1>12. CASE \E c \in Configurations \ {CONFIG_NONE, READER}, v \in Values : CloneDone(c, v)
    <2>1. PICK c \in Configurations, v \in Values : CloneDone(c, v)
      BY <1>12
    <2>2. Idle /\ FRAM' = [FRAM EXCEPT ![1] = v] /\ UNCHANGED <<Flash, StoredIdx, ActiveSettingIdx>>
      BY <2>1 DEF CloneDone, ConfigurationSet, Call
    <2> QED BY <2>2, <1>c, <1>t
  <1>13. CASE \E p \in Pages, v \in Values : MemoryWriteBlock(p, v)
    <2>1. PICK p \in Pages, v \in Values : MemoryWriteBlock(p, v)
      BY <1>13
    <2>2. Idle /\ FRAM' = [FRAM EXCEPT ![p] = v] /\ UNCHANGED <<Flash, StoredIdx, ActiveSettingIdx>>
      BY <2>1 DEF MemoryWriteBlock, settings
    <2> QED BY <2>2, <1>c
  <1>14. CASE Restart
    <2>1. ActiveSettingIdx = StoredIdx /\ ActiveSettingIdx' = StoredIdx /\ UNCHANGED persistent
      BY <1>14 DEF Restart, Switching
    <2> QED BY <2>1, <1>q DEF persistent
  <1>15. CASE UNCHANGED vars
    BY <1>15, <1>q DEF vars, persistent, settings
  <1> QED
    BY <1>1, <1>2, <1>3, <1>4, <1>5, <1>6, <1>7, <1>8, <1>9, <1>10, <1>11, <1>12, <1>13,
       <1>14, <1>15 DEF Next, Step

(* Slots keep what was stored: a change of the slot stores the whole image  *)
(* of the old one, recalls the whole image of the new one and leaves the    *)
(* third ones alone, unless power is lost in the window of the change.      *)
THEOREM SlotsLoseNothing == ASSUME ~LossWhileSwitching PROVE Spec => SwitchLosesNothing
  <1>1. Init => Memory!Init
    BY Counting, SettingsAssumption DEF Init, Memory!Init, Memory!Image, Image
  <1>2. IInv /\ [Next]_vars => IInv' /\ [Memory!Next]_Memory!vars
    BY StepIInv, StepMemory
  <1> QED
    BY <1>1, <1>2, InitIInv, PTL DEF Spec, SwitchLosesNothing, Memory!Spec

-----------------------------------------------------------------------------
(* What runs is what the slot says; only the configuration being written   *)
(* back, and readers set up for a clone, differ from the EEPROM.            *)
Runs == /\ step \notin {"switchRecall", "configure"}
             => ActiveConfiguration = Configuration[ActiveSettingIdx]
        /\ \A s \in Slots : \/ Configuration[s] \in {StoredConf[s], READER}
                            \/ /\ step \in {"updateConfiguration", "cloneStore", "save"}
                               /\ s = ActiveSettingIdx

LEMMA StepRuns == ~LossWhileSwitching /\ IInv /\ Runs /\ [Next]_vars => Runs'
  <1> SUFFICES ASSUME ~LossWhileSwitching, IInv, Runs, [Next]_vars PROVE Runs'
    OBVIOUS
  <1> USE DEF Runs, IInv
  <1>t. /\ ActiveSettingIdx \in Slots /\ ActiveSettingPtr = ActiveSettingIdx
        /\ Configuration \in [Slots -> Configurations]
        /\ StoredConf \in [Slots -> Configurations]
    BY DEF TypeOK, Names
  <1>1. CASE FRAMToFlash \/ FlashToFRAM \/ FlashErase
    BY <1>1 DEF FRAMToFlash, FlashToFRAM, FlashErase, PageDone, After, settings
  <1>2. CASE SetActive
    BY <1>2 DEF SetActive, After, persistent
  <1>3. CASE ApplyConfiguration
    BY <1>3, <1>t DEF ApplyConfiguration, ConfigurationSet, Done, After, persistent
  <1>4. CASE UpdateIdx \/ UpdatePtr
    BY <1>4 DEF UpdateIdx, UpdatePtr, Done, After, settings
  <1>5. CASE UpdateConfiguration
    BY <1>5, <1>t DEF UpdateConfiguration, WriteConfiguration, Done, After, settings
  <1>6. CASE SettingsSave
    <2>1. CASE StoredConf = Configuration
      BY <1>6, <2>1, <1>t DEF SettingsSave, WriteConfiguration, Done, After, settings, call
    <2>2. CASE StoredConf # Configuration
      <3>1. PICK s \in Slots : WriteConfiguration(s) /\ UNCHANGED call
        BY <1>6, <2>2 DEF SettingsSave
      <3>2. \A r \in Slots : StoredConf'[r] = IF r = s THEN Configuration[r] ELSE StoredConf[r]
        BY <3>1, <1>t DEF WriteConfiguration
      <3> QED BY <1>6, <3>1, <3>2 DEF SettingsSave, settings, call
    <2> QED BY <2>1, <2>2
  <1>7. CASE MemoryStore \/ MemoryRecall \/ MemoryClear \/ CommandSet
    BY <1>7 DEF MemoryStore, MemoryRecall, MemoryClear, CommandSet, Call, Idle, settings, persistent
  <1>8. CASE (\E s \in Slots : CommandSetSetting(s)) \/ SettingsCycle
    BY <1>8 DEF CommandSetSetting, SettingsCycle, SettingsSetActiveById, Idle, settings, persistent
  <1>c. ASSUME NEW c, ConfigurationSet(c)
        PROVE  /\ ActiveConfiguration' = Configuration'[ActiveSettingIdx']
               /\ ActiveSettingIdx' = ActiveSettingIdx
               /\ Configuration'[ActiveSettingIdx] = c
               /\ \A s \in Slots : s # ActiveSettingIdx => Configuration'[s] = Configuration[s]
    BY <1>c, <1>t DEF ConfigurationSet
  <1>9. CASE \E c \in Configurations : CommandSetConfig(c)
    BY <1>9, <1>c DEF CommandSetConfig, Call, Idle, persistent
  <1>10. CASE CommandExecClone
    BY <1>10, <1>c DEF CommandExecClone, Idle, persistent, call
  <1>11. CASE CloneFails
    BY <1>11 DEF CloneFails, persistent, settings, call
  <1>12. CASE \E c \in Configurations \ {CONFIG_NONE, READER}, v \in Values : CloneDone(c, v)
    BY <1>12, <1>c DEF CloneDone, Call, Idle
  <1>13. CASE \E p \in Pages, v \in Values : MemoryWriteBlock(p, v)
    BY <1>13 DEF MemoryWriteBlock, settings, call
  <1>14. CASE Restart
    BY <1>14 DEF Restart, Switching, persistent
  <1>15. CASE UNCHANGED vars
    BY <1>15 DEF vars, persistent, settings, call
  <1> QED
    BY <1>1, <1>2, <1>3, <1>4, <1>5, <1>6, <1>7, <1>8, <1>9, <1>10, <1>11, <1>12, <1>13,
       <1>14, <1>15 DEF Next, Step

(* Between two calls the RAM, the EEPROM and what runs agree on the slot    *)
(* and on its configuration, under the same assumption.                     *)
THEOREM ConfigurationFollows == ASSUME ~LossWhileSwitching
                                PROVE  Spec => []ConfigurationFollowsSlot
  <1>1. Init => Runs
    BY Counting DEF Init, Runs
  <1>2. IInv /\ Runs => ConfigurationFollowsSlot
    BY DEF IInv, Names, Runs, ConfigurationFollowsSlot, Idle
  <1>3. IInv /\ Runs /\ [Next]_vars => IInv' /\ Runs'
    BY StepIInv, StepRuns
  <1> QED
    BY <1>1, <1>2, <1>3, InitIInv, PTL DEF Spec
=============================================================================
