SPECIFICATION Spec
CONSTANTS
  WeatherPeriod = 30
  Recovery = 0
  UploadMax = 0
  FetchMax = 0
INVARIANTS
  UploadsEveryFiveSeconds
