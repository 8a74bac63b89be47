CONSTANTS
  Keys <- ManyKeys
  Directions <- NewestFirst
  Kinds <- TimestampThenInteger
  RowSize <- Sizes
  CursorSize <- CursorSizes
  FinalBase = 5
  MoreBase = 7
  Starts <- MCStarts
  Churn <- FewKeys
  None = None
SPECIFICATION FairSpec
INVARIANTS ScanIsOrdered ScanIsComplete AccountingIsExact PageIsCutLate
PROPERTY ScanEnds
CHECK_DEADLOCK FALSE
