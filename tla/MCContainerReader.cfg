SPECIFICATION FairSpec
CONSTANTS
  c1 = c1
  c2 = c2
  Callers = {c1, c2}
  MaxStarts = 2
  MaxLines = 3
  MaxStreams = 2
  TailLines = 1
  Cap = 1
INVARIANTS
  LinesContinue
  PanicOnlyOnMisuse
PROPERTIES
  StopReturns
  ImplementsSource
CHECK_DEADLOCK FALSE
