SPECIFICATION FairSpec
CONSTANTS
  l1 = l1
  l2 = l2
  s1 = s1
  s2 = s2
  Lines <- MCLines
  Stoppers <- MCStoppers
  Sizes <- MCSizes
INVARIANTS
  BatchBounded
  BatchesPartitionAccepted
  StopHandsOverAccepted
  ServerTakesLineOnce
PROPERTIES
  StopReturns
  AcceptedSettles
  ImplementsTransport
CHECK_DEADLOCK FALSE
