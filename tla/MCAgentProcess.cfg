SPECIFICATION FairSpec
CONSTANTS
  Probes = {1}
  Tokens = {"", "t1", "t2"}
  MaxLines = 1
  Texts <- MCTexts
  Machines <- MCMachines
INVARIANTS
  LoadedIsFixed
  StartsWhenStartable
  PanicsOnlyOn
  ReadyIsTrue
  StoppedServesNothing
  OwnCredentialsPass
  KilledBeforeFirstLine
  

  
CHECK_DEADLOCK FALSE
