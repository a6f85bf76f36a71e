SPECIFICATION FairSpec
CONSTANTS
  ConnectTries = 1
  ProbeMax = 0
  IntervalMin = 1
  IntervalMax = 2
PROPERTIES
  LinkComesUp
