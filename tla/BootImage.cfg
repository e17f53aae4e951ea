SPECIFICATION Spec
CONSTANTS
    PageSize = 12
    CmdlineSize = 4
    LegacyShift = 2
    Pages = 6
    Stubs <- MCStubs
    Dtbs <- MCDtbs
    Kernels <- MCKernels
    Ramdisks <- MCRamdisks
    Cmdlines <- MCCmdlines
    MaxUpdates = 3
INVARIANT ReadersAgree
CHECK_DEADLOCK FALSE
