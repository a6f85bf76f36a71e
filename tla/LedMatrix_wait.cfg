SPECIFICATION FairSpec
CONSTANTS
  LED_NUM = 2
  Lit <- MCLit
PROPERTIES
  WaitEnds
