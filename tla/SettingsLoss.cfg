SPECIFICATION MCSpec
CONSTANTS
  SETTINGS_COUNT = 3
  PageCount = 2
  Values = {erased, data}
  Erased = erased
  Configurations = {none, card, reader}
  CONFIG_NONE = none
  READER = reader
  LossWhileSwitching = TRUE
PROPERTY
  SwitchLosesNothing
