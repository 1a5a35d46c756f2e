SPECIFICATION Spec
CONSTANTS
  None = None
  Configs <- MCConfigs
  Scripts <- MCScripts
CHECK_DEADLOCK FALSE
INVARIANTS WiresAgree OwnObjects
PROPERTY EveryStepEnds
