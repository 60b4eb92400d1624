SPECIFICATION FairSpec
CONSTANTS
  N = 2
  Capable = {1}
  Empty = {}
  MaxAttempts = 2
  MaxBacklog = 1
  MaxEvents = 1
  MaxBackups = 1
INVARIANTS CleanExitMeansCurrent ProblemExitIsOnRecord
PROPERTIES HealthyConnectionBecomesFresh CommandEnds
