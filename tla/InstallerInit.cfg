SPECIFICATION FairSpec
CONSTANTS
  Clients = {ask, debug}
  NoClient = nobody
  WdtTicks = 3
  GceWait = 1
  NodeWait = 2
  MaxLines = 1
  Starting <- First
  StatusFiles <- Files
INVARIANTS
  DialogStaysUp
  PettedInTime
PROPERTIES
  ClientsReleased
  StatusShown
CHECK_DEADLOCK FALSE
