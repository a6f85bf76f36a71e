SPECIFICATION FairSpec
CONSTANTS
  WeatherPeriod = 30
  Recovery = 2
  UploadMax = 2
  FetchMax = 3
INVARIANTS
  TypeOK
  GapBounded
PROPERTIES
  SensorRecovers
