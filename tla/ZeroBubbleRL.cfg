SPECIFICATION Spec
CONSTANTS
  p1 = p1
  p2 = p2
  Producers = {p1, p2}
  Ranks = {0, 1}
  Episodes = 1
  Batches = 3
  PerUpdate = 1
  MicrobatchSize = 1
  MinibatchSize = 1
  BatchSize = 1
  BufferLimit = 2
  EvalInterval = 3
  Modes = {"filters", "evaluates"}
  MayBeFiltered = {2}
INVARIANTS QueueCounted NothingSkipped 
PROPERTIES  EveryoneFinishes
CHECK_DEADLOCK FALSE
