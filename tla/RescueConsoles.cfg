SPECIFICATION FairConsoles
CONSTANTS
  NConsoles = 2
INVARIANTS
  OneShellPerConsole
PROPERTIES
  LinesComeBack
CHECK_DEADLOCK FALSE
