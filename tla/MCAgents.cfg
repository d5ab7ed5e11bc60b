SPECIFICATION FairSpec
CONSTANTS
  l1 = l1
  l2 = l2
  Lines <- MCLines
  Sizes <- MCSizes
  Cap = 1
  Setups <- MCSetups
INVARIANTS
  PipelineInOrder
  ReadyMeansServing
PROPERTIES
  ObtainedSettles
  ShutdownHeldOnlyByReader
CHECK_DEADLOCK FALSE
