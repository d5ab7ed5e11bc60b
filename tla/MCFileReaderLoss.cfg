SPECIFICATION FairSpec
CONSTANTS
  MaxLines = 2
  MaxBlanks = 0
  MaxInodes = 2
  MaxTruncates = 0
  Cap = 1
  BufSize = 3
PROPERTY EveryLineReturned
CHECK_DEADLOCK FALSE
