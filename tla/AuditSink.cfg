SPECIFICATION FairSpec
CONSTANTS
  d = d
  c = c
  x = x
  None = None
  Events <- MCEvents
  Cancellable <- MCCancellable
  Unencodable <- MCUnencodable
INVARIANTS
  TypeOK
  AckedIsDurable
  TornLineIsLast
  LoggedOnce
  FailureClosesSink
  LogFollowsCalls
PROPERTIES
  ImplementsLog
  EveryCallReturns
  StallIsReported
  WorkerNeverBlocks
CHECK_DEADLOCK FALSE
