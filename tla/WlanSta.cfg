SPECIFICATION Spec
CONSTANTS
  Users = {"main"}
  BusFails = TRUE
  MayLose = {"joinAnswer", "scanDone"}
  HoldMax = 3
INVARIANTS
  TypeOK
  OneCallAtATime
  KeptOnlyAfterFailedScan
  DownIsWatched
  ConnectingEnds
PROPERTIES
  KeepsGoodLink
  KeepsWatch
