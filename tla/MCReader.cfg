SPECIFICATION FairSpec
CONSTANTS
  first = first
  second = second
  NoCard = NoCard
  Cards <- MCCards
  Levels <- MCLevels
  Compliant = {second}
  Ultralights = {first}
  MFU_BLOCKS = 2
  MaxDisturbances = 1
  Types = {"Ultralight", "DESFire", "DESFire_EV1"}
  DESFireTypes = {"DESFire", "DESFire_EV1"}
  Clonable = {"Ultralight", "DESFire_EV1"}
  Matching <- MCMatching
INVARIANTS TypeOK PendingTaskIsServed SelectedIsOneCard BlocksOfSelectedCard
PROPERTIES FieldOffAfterTask TaskEnds
