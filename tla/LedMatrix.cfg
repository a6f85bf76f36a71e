SPECIFICATION FairSpec
CONSTANTS
  LED_NUM = 2
  Lit <- MCLit
INVARIANTS
  TypeOK
  ClockIsRedrawn
  NoFrameRefused
  TransfersDontOverlap
  NoGateStaysShut
PROPERTIES
  RedrawEnds
