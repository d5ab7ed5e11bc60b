SPECIFICATION FairSpec
CONSTANTS
  Absent = Absent
  Values <- MCValues
  Manifests <- MCManifests
  Orders <- MCOrders
  MaxChanges = 1
  MaxErrors = 1
INVARIANTS
  AvailableAfterChildren
PROPERTIES
  UserSpecPreserved
  ChildrenConverge
  
CHECK_DEADLOCK FALSE
