SPECIFICATION FairSpec
CONSTANTS
  HeapUnits = 20
CHECK_DEADLOCK FALSE
INVARIANTS
  TypeOK
  HeapIsAccounted
  
  GoodTextsDoNoHarm
PROPERTIES
  WeatherReturns
