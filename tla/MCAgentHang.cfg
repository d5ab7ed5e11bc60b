SPECIFICATION FairSpec
CONSTANTS
  l1 = l1
  l2 = l2
  Lines <- MCLines
  Sizes <- MCSizes
  Cap = 1
  Setups <- MCFileSetup
PROPERTY ShutdownCompletes
CHECK_DEADLOCK FALSE
