CONSTANTS
  k0 = k0
  k1 = k1
  bad = bad
  Kernels <- MCKernels
  Good <- MCGood
  Torn = Torn
  NoUpdate = NoUpdate
  MaxInstalls = 2
  MaxFaults = 3
SPECIFICATION FairSpec
INVARIANTS
  AlwaysComesBack
  VerifierFirst
  InStep
PROPERTIES
  ProvesOnlyBootedUnraced
  PendingResolves
