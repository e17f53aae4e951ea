SPECIFICATION FairSpec
CONSTANTS
  Boards <- Board
  Tests <- TestList
  Slots = {0, 1}
  ChanCap = 2
  KernCap = 5
  Want = 2
  Starts <- StartSet
  Endless = 9
  None = none
INVARIANTS
  EvidenceIsReal
  GapNeverBridged
  NoReadAfterClose
PROPERTIES
  GrabReleased
CHECK_DEADLOCK FALSE
