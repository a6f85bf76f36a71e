SPECIFICATION FairSpec
CONSTANTS
  ConnectTries = 2
  ProbeMax = 2
  IntervalMin = 1
  IntervalMax = 3
INVARIANTS
  TypeOK
  ConnectedHasSession
  NoSocketLeak
  ProbesBounded
  BackoffBounded
  LocksMatch
  ServedClientIsKept
PROPERTIES
  KeepsPromise
  SelfHealing
  PublishReturns
  BootEnds
