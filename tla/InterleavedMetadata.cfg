SPECIFICATION Spec
CONSTANTS
  None = None
  Configs <- EvaluatedFirst
  Scripts <- EvaluationScripts
CHECK_DEADLOCK FALSE
INVARIANT MetadataGoesAlong
