SPECIFICATION FairSpec
CONSTANTS
  MaxLines = 2
  MaxBlanks = 1
  MaxInodes = 2
  MaxTruncates = 1
  Cap = 1
  BufSize = 3
INVARIANTS
  OffsetTracksReads
  NothingReturnedTwice
  OnlyFirstLineTorn
PROPERTIES
  LostOnlyUnnoticed
  ShrinkNoticed
  StopReturns
  ImplementsSource
CHECK_DEADLOCK FALSE
