CONSTANTS
  Submitters = {s1, s2}
  Workers = {w1, w2}
  MAX_QUEUE_SIZE = 1
  MaxBatchTxs = 1
  MaxSubmissions = 3
SPECIFICATION ApiFairSpec
INVARIANTS FifoConservation EmptyPopNeedsRestart BoundedOverrun
PROPERTIES QueueDrains DestructorReturns
CHECK_DEADLOCK FALSE
