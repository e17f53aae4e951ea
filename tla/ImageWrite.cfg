CONSTANTS
  Chunks = 3
  MaxSessions = 2
  MaxFaults = 2
  MaxCuts = 1
  Lands = {TRUE, FALSE}
SPECIFICATION Spec
INVARIANTS
  OkMeansOnDisk
  VerifiedBeforeMountable
  FailedReadsScrubbed
CHECK_DEADLOCK FALSE
