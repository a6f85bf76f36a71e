SPECIFICATION FairSpec
CONSTANTS
  Users = {"main", "shell"}
  BusFails = FALSE
  MayLose = {}
  HoldMax = 3
PROPERTIES
  LockIsGranted
  WorkIsRecycled
  Reconnects
