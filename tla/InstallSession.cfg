CONSTANTS
  alice = alice
  bob = bob
  Accounts <- MCAccounts
  Invalid = Invalid
  NoAnswers = NoAnswers
  MaxPerTransport = 2
SPECIFICATION FairSpec
CHECK_DEADLOCK FALSE
INVARIANTS
  OneWriter
  ProvisionedApart
  BootImageLast
PROPERTIES
  LockFreed
