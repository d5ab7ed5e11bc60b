SPECIFICATION FairSpec
CONSTANTS
  Absent = Absent
  Values <- MCValues
  Manifests <- MCBareManifest
  Orders <- MCOrders
  MaxChanges = 1
  MaxErrors = 0
PROPERTY AccountConverges
CHECK_DEADLOCK FALSE
