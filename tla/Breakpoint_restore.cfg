SPECIFICATION Spec
CONSTANTS
  Commands = {"b", "c"}
  NR_BP = 2
  NAddr = 2
  MaxSi = 1
  Values = {v1}
PROPERTY
  RestoresOriginalOpcode
CHECK_DEADLOCK FALSE
