SPECIFICATION FairSpec
CONSTANTS
  k0 = k0
  k1 = k1
  bad = bad
  NoKernel = NoKernel
  Kernels <- MCKernels
  Good <- MCGood
  Callers = {"timer", "owner"}
  VarWritable = TRUE
  MaxRushed = 1
  MaxUpgrades = 2
  MaxMoves = 2
  MaxFaults = 2
INVARIANTS
  SafeFallback
  ArmedIsInstalled
PROPERTIES
  ImplementsABSwitch
  ProvesOnlyRunning
  NoRebootLoop
  Converges
