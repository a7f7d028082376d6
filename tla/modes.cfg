SPECIFICATION Spec
CONSTANTS
  NULL = NULL
  ImpatientModes = {TRUE}
  ClientModes = {"echo", "noecho", "raw"}
  Signals = {"WINCH", "TSTP"}
  UserKeys = {"letter", "return", "left"}
  always_readline = FALSE
  PreGiven <- NoText
  MaxOut = 2
  MaxKeys = 2
  MaxSignals = 1
  MaxModes = 1
CHECK_DEADLOCK FALSE
INVARIANTS EditorInv EveryKeyInOnePlace PasswordsForgotten
PROPERTY EditSurvives
