SPECIFICATION FairSpec
CONSTANTS
  c1 = c1
  c2 = c2
  c3 = c3
  c4 = c4
  Calls = {c1, c2, c3, c4}
  IdOf <- MCTwins
  Requests = {1, 2}
  TooLong = {c2}
  NoCall = no_call
  BatchSize = 1
INVARIANTS NoOrphan EngineKnown
PROPERTIES  EveryoneAnswered
CHECK_DEADLOCK FALSE
