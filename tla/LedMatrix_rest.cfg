SPECIFICATION Spec
CONSTANTS
  LED_NUM = 2
  Lit <- MCLit
INVARIANTS
  RestBeforeClock
