SPECIFICATION Spec
CONSTANTS
  a = a
  b = b
  c = c
  d = d
  Ranks = {0, 1}
  Params = {a, b, c, d}
  Order <- MCOrder
  Numel <- MCNumel
  Groups = {1, 2}
  GroupOf <- MCGroupOf
  BucketSize = 3
  Microbatches = 2
  Droppable = {b}
  InitialScale = 2
  MinScale = 1
  MaxScale = 2
  GrowthInterval = 2
  Hysteresis = 2
  SafeScale = 1
  Configs <- MCConfigs
INVARIANTS GradsComplete ForwardOnCurrent
PROPERTIES StepsTogether KeepsStepping
