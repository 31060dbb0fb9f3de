SPECIFICATION Spec
CONSTANTS
  first = first
  second = second
  NoCard = NoCard
  Cards <- MCCards
  Levels <- MCLevels
  Compliant = {}
  Ultralights = {first, second}
  MFU_BLOCKS = 2
  MaxDisturbances = 1
  Types = {"Ultralight", "DESFire", "DESFire_EV1"}
  DESFireTypes = {"DESFire", "DESFire_EV1"}
  Clonable = {"Ultralight", "DESFire_EV1"}
  Matching <- MCMatching
PROPERTIES CloneIsOneCard
