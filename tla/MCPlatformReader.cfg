SPECIFICATION FairSpec
CONSTANTS
  c1 = c1
  c2 = c2
  Callers = {c1, c2}
  MaxStarts = 2
  MaxItems = 3
  Cap = 1
INVARIANTS
  PanicOnlyOnMisuse
  StopLeavesNothing
  ItemsConsecutive
PROPERTIES
  ImplementsSource
  StopReturns
CHECK_DEADLOCK FALSE
