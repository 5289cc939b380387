CONSTANTS
  Payloads = {a, b}
  TooLong = {b}
  None = None
  MaxSends = 2
  MaxBinds = 2
  MaxFrames = 1
  MaxReports = 1
  MaxRetries = 1
SPECIFICATION FairSpec
INVARIANTS NothingOwedIsLost SessionFollowsEndpoint FailureFollowsEndpoint
PROPERTIES WriteEnds
CHECK_DEADLOCK FALSE
