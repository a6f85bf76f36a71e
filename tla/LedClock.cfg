SPECIFICATION Spec
CONSTANTS
  NtpTimes <- MCNtpTimes
INVARIANTS
  TypeOK
  FaceIsReadable
  WritesInRange
