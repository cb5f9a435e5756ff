SPECIFICATION Spec
CONSTANTS
  MaxCalls = 6
  MaxCommands = 2
INVARIANTS NoSecondCommand
CHECK_DEADLOCK FALSE
