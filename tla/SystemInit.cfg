SPECIFICATION FairSpec
CONSTANTS
  WdtTicks = 3
  BootTicks = 1
  LeaseTicks = 4
  KernelFs = 2
  RootWait = 1
  MinUserdataSectors = 2
  MiscMaxSectors = 1
  Snapshots <- SeenSets
INVARIANTS
  
  LandsInFastboot
  MountsRight
PROPERTIES
  GivesUpOnlyOnLapse
  KeptWatchdogResets
  SystemdTakesOver
CHECK_DEADLOCK FALSE
