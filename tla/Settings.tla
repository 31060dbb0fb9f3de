------------------------------ MODULE Settings ------------------------------
(***************************************************************************)
(* The slots of the ChameleonMini: Settings.c and Settings.h with the      *)
(* memory functions of Memory.c and the part of Configuration.c they call. *)
(*                                                                         *)
(* The memory of the active slot lives in the FRAM.  Flash holds one image *)
(* per slot, the EEPROM holds StoredSettings.  Each of them is written     *)
(* page by page or word by word, and the supply can go away between two    *)
(* writes: a call is a chain of steps, each of them one write or one       *)
(* change of RAM.  A definition whose name ends in Slip is the definition  *)
(* of the same name with a plausible error in it; the specification uses   *)
(* none of them.                                                           *)
(***************************************************************************)
EXTENDS Integers

CONSTANTS SETTINGS_COUNT,     \* number of slots
          PageCount,          \* flash pages of one slot
          Values,             \* what a page can hold
          Erased,             \* what an erased page holds
          Configurations,     \* what a slot can be configured as
          CONFIG_NONE,        \* no configuration
          READER,             \* CONFIG_ISO14443A_READER
          LossWhileSwitching  \* may the supply go away in the window of a switch

ASSUME SettingsAssumption == /\ SETTINGS_COUNT \in Nat \ {0}
                             /\ PageCount \in Nat \ {0}
                             /\ Erased \in Values
                             /\ CONFIG_NONE \in Configurations
                             /\ READER \in Configurations \ {CONFIG_NONE}
                             /\ LossWhileSwitching \in BOOLEAN

Slots == 0 .. SETTINGS_COUNT - 1
Pages == 1 .. PageCount
Image == [Pages -> Values]

VARIABLES FRAM,                \* working memory of the active slot
          Flash,               \* the stored image of every slot
          StoredIdx,           \* StoredSettings.ActiveSettingIdx
          StoredPtr,           \* StoredSettings.ActiveSettingPtr, as a slot
          StoredConf,          \* StoredSettings.Settings[..].Configuration
          ActiveSettingIdx,    \* GlobalSettings.ActiveSettingIdx
          ActiveSettingPtr,    \* GlobalSettings.ActiveSettingPtr, as a slot
          Configuration,       \* GlobalSettings.Settings[..].Configuration
          ActiveConfiguration, \* the table the codec and the application run from
          cloning,             \* a clone is the pending task of the command line
          origin,              \* history: the slot the pending clone was asked for in
          step,                \* next step of the running call
          page,                \* next page of a transfer between FRAM and flash
          Setting              \* parameter of SettingsSetActiveById

persistent == <<FRAM, Flash, StoredIdx, StoredPtr, StoredConf>>
settings == <<ActiveSettingIdx, ActiveSettingPtr, Configuration, ActiveConfiguration>>
task == <<cloning, origin>>
call == <<step, page, Setting>>
vars == <<persistent, settings, task, call>>

Init == /\ FRAM \in Image
        /\ Flash \in [Slots -> Image]
        /\ StoredIdx = 0 /\ StoredPtr = 0
        /\ StoredConf = [s \in Slots |-> CONFIG_NONE]
        /\ ActiveSettingIdx = 0 /\ ActiveSettingPtr = 0
        /\ Configuration = StoredConf
        /\ ActiveConfiguration = CONFIG_NONE
        /\ cloning = FALSE /\ origin = 0
        /\ step = "idle" /\ page = 1 /\ Setting = 0

Idle == step = "idle"

(* The memory of the new slot is not recalled. *)
AfterSlip == [store |-> "idle", recall |-> "idle", erase |-> "recall",
              switchStore |-> "activate", activate |-> "configure",
              switchRecall |-> "configure", configure |-> "updateIdx",
              updateIdx |-> "updatePtr", updatePtr |-> "idle",
              updateConfiguration |-> "idle",
              cloneStore |-> "save", save |-> "idle"]

(* The steps and what follows each of them: STORE, RECALL, CLEAR, a change  *)
(* of the slot, CONFIG=, and the end of a clone or another command that     *)
(* sets something.                                                          *)
After == [store |-> "idle", recall |-> "idle", erase |-> "recall",
          switchStore |-> "activate", activate |-> "switchRecall",
          switchRecall |-> "configure", configure |-> "updateIdx",
          updateIdx |-> "updatePtr", updatePtr |-> "idle",
          updateConfiguration |-> "idle",
          cloneStore |-> "save", save |-> "idle"]

(* One step is done. *)
Done == step' = After[step] /\ UNCHANGED <<page, Setting>>

PageDoneSlip == IF page > PageCount
                THEN page' = 1 /\ step' = After[step] /\ UNCHANGED Setting
                ELSE page' = page + 1 /\ UNCHANGED <<step, Setting>>

(* One page of a transfer is done, the last one ends the step. *)
PageDone == IF page = PageCount
            THEN page' = 1 /\ step' = After[step] /\ UNCHANGED Setting
            ELSE page' = page + 1 /\ UNCHANGED <<step, Setting>>

Call(first) == Idle /\ step' = first /\ UNCHANGED <<page, Setting>>

-----------------------------------------------------------------------------
(* The steps: each writes one memory once. *)

FRAMToFlash == /\ step \in {"store", "switchStore", "cloneStore"}
               /\ Flash' = [Flash EXCEPT ![ActiveSettingIdx][page] = FRAM[page]]
               /\ PageDone
               /\ UNCHANGED <<FRAM, StoredIdx, StoredPtr, StoredConf, settings, task>>

FlashToFRAM == /\ step \in {"recall", "switchRecall"}
               /\ FRAM' = [FRAM EXCEPT ![page] = Flash[ActiveSettingIdx][page]]
               /\ PageDone
               /\ UNCHANGED <<Flash, StoredIdx, StoredPtr, StoredConf, settings, task>>

FlashErase == /\ step = "erase"
              /\ Flash' = [Flash EXCEPT ![ActiveSettingIdx][page] = Erased]
              /\ PageDone
              /\ UNCHANGED <<FRAM, StoredIdx, StoredPtr, StoredConf, settings, task>>

SetActive == /\ step = "activate"
             /\ ActiveSettingIdx' = Setting
             /\ ActiveSettingPtr' = Setting
             /\ step' = After[step] /\ Setting' = 0 /\ UNCHANGED page
             /\ UNCHANGED <<persistent, Configuration, ActiveConfiguration, task>>

PendingTaskBreakSlip == UNCHANGED <<cloning, origin>>

(* The task that is pending, if there is one, is told that it is over. *)
PendingTaskBreak == cloning' = FALSE /\ origin' = 0

ConfigurationSetSlip(c) == /\ Configuration' = [Configuration EXCEPT ![ActiveSettingIdx] = c]
                           /\ UNCHANGED <<ActiveSettingIdx, ActiveSettingPtr, ActiveConfiguration>>

ConfigurationSet(c) == /\ Configuration' = [Configuration EXCEPT ![ActiveSettingPtr] = c]
                       /\ ActiveConfiguration' = c
                       /\ UNCHANGED <<ActiveSettingIdx, ActiveSettingPtr>>

ApplyConfiguration == /\ step = "configure"
                      /\ PendingTaskBreak
                      /\ ConfigurationSet(Configuration[ActiveSettingPtr])
                      /\ Done
                      /\ UNCHANGED persistent

UpdateIdx == /\ step = "updateIdx"
             /\ StoredIdx' = ActiveSettingIdx
             /\ Done
             /\ UNCHANGED <<FRAM, Flash, StoredPtr, StoredConf, settings, task>>

UpdatePtr == /\ step = "updatePtr"
             /\ StoredPtr' = ActiveSettingPtr
             /\ Done
             /\ UNCHANGED <<FRAM, Flash, StoredIdx, StoredConf, settings, task>>

WriteConfiguration(s) == StoredConf' = [StoredConf EXCEPT ![s] = Configuration[s]]

UpdateConfiguration == /\ step = "updateConfiguration"
                       /\ WriteConfiguration(ActiveSettingPtr)
                       /\ Done
                       /\ UNCHANGED <<FRAM, Flash, StoredIdx, StoredPtr, settings, task>>

(* All of GlobalSettings, entry by entry; the order does not matter here. *)
SettingsSave == /\ step = "save"
                /\ \/ \E s \in Slots : /\ StoredConf[s] # Configuration[s]
                                      /\ WriteConfiguration(s)
                                      /\ UNCHANGED call
                   \/ /\ StoredConf = Configuration
                      /\ Done
                      /\ UNCHANGED StoredConf
                /\ UNCHANGED <<FRAM, Flash, StoredIdx, StoredPtr, settings, task>>

-----------------------------------------------------------------------------
(* The calls of the command line, which takes no command while a task is    *)
(* pending, of the buttons, which always work, and of the clone.            *)

MemoryStore == Call("store") /\ UNCHANGED <<persistent, settings, task>>

MemoryRecall == Call("recall") /\ UNCHANGED <<persistent, settings, task>>

MemoryClear == /\ ~cloning
               /\ Call("erase")
               /\ UNCHANGED <<persistent, settings, task>>

(* The slot that is active already is not changed to, only the task ends. *)
SettingsSetActiveById(s) == /\ PendingTaskBreak
                            /\ Idle /\ UNCHANGED page
                            /\ IF s # ActiveSettingIdx
                               THEN step' = "switchStore" /\ Setting' = s
                               ELSE UNCHANGED <<step, Setting>>
                            /\ UNCHANGED <<persistent, settings>>

CommandSetSetting(s) == ~cloning /\ SettingsSetActiveById(s)

Following(k) == (ActiveSettingIdx + k) % SETTINGS_COUNT

(* The first of the following slots with a configuration, if there is one. *)
SettingsCycle == \E k \in 1 .. SETTINGS_COUNT :
                    /\ Configuration[Following(k)] # CONFIG_NONE
                    /\ \A j \in 1 .. k - 1 : Configuration[Following(j)] = CONFIG_NONE
                    /\ SettingsSetActiveById(Following(k))

CommandSetConfig(c) == /\ ~cloning
                       /\ PendingTaskBreak
                       /\ Call("updateConfiguration")
                       /\ ConfigurationSet(c)
                       /\ UNCHANGED persistent

(* The commands that change another setting write all of them back. *)
CommandSet == /\ ~cloning
              /\ Call("save")
              /\ UNCHANGED <<persistent, settings, task>>

(* The reader configuration is set in RAM alone. *)
CommandExecClone == /\ Idle
                    /\ ConfigurationSet(READER)
                    /\ cloning' = TRUE
                    /\ origin' = ActiveSettingIdx
                    /\ UNCHANGED <<persistent, call>>

(* Time is up, or the card is none that can be cloned. *)
CloneFails == /\ cloning /\ Idle
              /\ PendingTaskBreak
              /\ UNCHANGED <<persistent, settings, call>>

(* The card is read: its content goes to the FRAM and then to the flash. *)
CloneDone(c, v) == /\ cloning
                   /\ cloning' = FALSE /\ origin' = 0
                   /\ FRAM' = [FRAM EXCEPT ![1] = v]
                   /\ ConfigurationSet(c)
                   /\ Call("cloneStore")
                   /\ UNCHANGED <<Flash, StoredIdx, StoredPtr, StoredConf>>

(* A block of an upload, or a write of the emulated card. *)
MemoryWriteBlock(p, v) == /\ Idle /\ ~cloning
                          /\ FRAM' = [FRAM EXCEPT ![p] = v]
                          /\ UNCHANGED <<Flash, StoredIdx, StoredPtr, StoredConf, settings, task, call>>

(* From the new slot's memory being on its way into the FRAM to the EEPROM *)
(* naming the new slot in both of its words.                               *)
Switching == \/ ActiveSettingIdx # StoredIdx
             \/ StoredIdx # StoredPtr

(* The supply goes away and comes back: SettingsLoad and ConfigurationInit. *)
Restart == /\ ~Switching \/ LossWhileSwitching
           /\ step' = "idle" /\ page' = 1 /\ Setting' = 0
           /\ ActiveSettingIdx' = StoredIdx
           /\ ActiveSettingPtr' = StoredPtr
           /\ Configuration' = StoredConf
           /\ ActiveConfiguration' = StoredConf[StoredPtr]
           /\ cloning' = FALSE /\ origin' = 0
           /\ UNCHANGED persistent

Step == \/ FRAMToFlash \/ FlashToFRAM \/ FlashErase
        \/ SetActive \/ ApplyConfiguration
        \/ UpdateIdx \/ UpdatePtr \/ UpdateConfiguration \/ SettingsSave

Next == \/ Step
        \/ MemoryStore \/ MemoryRecall \/ MemoryClear
        \/ \E s \in Slots : CommandSetSetting(s)
        \/ SettingsCycle
        \/ \E c \in Configurations : CommandSetConfig(c)
        \/ CommandSet
        \/ CommandExecClone \/ CloneFails
        \/ \E c \in Configurations \ {CONFIG_NONE, READER}, v \in Values : CloneDone(c, v)
        \/ \E p \in Pages, v \in Values : MemoryWriteBlock(p, v)
        \/ Restart

Spec == Init /\ [][Next]_vars

-----------------------------------------------------------------------------
(* The variables have their types: in particular page never leaves the      *)
(* image of a slot, so that a transfer touches no other slot's flash.       *)
TypeOK == /\ FRAM \in Image
          /\ Flash \in [Slots -> Image]
          /\ StoredIdx \in Slots /\ StoredPtr \in Slots
          /\ StoredConf \in [Slots -> Configurations]
          /\ ActiveSettingIdx \in Slots /\ ActiveSettingPtr \in Slots
          /\ Configuration \in [Slots -> Configurations]
          /\ ActiveConfiguration \in Configurations
          /\ cloning \in BOOLEAN
          /\ origin \in Slots
          /\ step \in DOMAIN After \union {"idle"}
          /\ page \in Pages
          /\ Setting \in Slots

(* Between two calls RAM, EEPROM and the running configuration speak of the *)
(* same slot: the two words that name it agree, what runs is what the slot  *)
(* says, and a restart changes nothing but a reader set up for a clone.     *)
ConfigurationFollowsSlot ==
    Idle => /\ ActiveSettingIdx = ActiveSettingPtr
            /\ StoredIdx = ActiveSettingIdx /\ StoredPtr = ActiveSettingPtr
            /\ ActiveConfiguration = Configuration[ActiveSettingIdx]
            /\ \A s \in Slots : Configuration[s] \in {StoredConf[s], READER}

(* A pending clone belongs to the active slot and to the reader: no change  *)
(* of the slot or of the configuration leaves one behind that would write   *)
(* the card into another slot.                                              *)
CloneStaysInItsSlot == cloning => /\ origin = ActiveSettingIdx
                                  /\ ActiveConfiguration = READER

(* The slots as the user sees them.  While the FRAM is being refilled for   *)
(* the new slot, the memory of the old one is its stored image.             *)
Memory == INSTANCE SlotMemory WITH
            saved <- Flash,
            active <- StoredIdx,
            working <- IF ActiveSettingIdx # StoredIdx THEN Flash[StoredIdx] ELSE FRAM

(* A change of the slot stores all of the old slot's memory, brings back    *)
(* all of the new one's and touches no third slot, however the pages and    *)
(* words are written and wherever outside the window the supply goes away.  *)
SwitchLosesNothing == Memory!Spec
=============================================================================
