SPECIFICATION Spec
CONSTANTS
  None = None
  NumStages = 3
  Configs <- MCConfigs
  Scripts <- MCScripts
CHECK_DEADLOCK FALSE
INVARIANTS WiresAgree OwnMicrobatch OwnGradient InFlight WholeBatch
PROPERTY EveryStepEnds
