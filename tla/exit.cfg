SPECIFICATION Spec
CONSTANTS
  Statuses = {"exit_0", "exit_1", "exit_3", "killed"}
  MaxSignals = 3
CHECK_DEADLOCK FALSE
INVARIANTS ExitStatusIsCommands TerminalRestored
