SPECIFICATION Spec
CONSTANTS
  NULL = NULL
  ImpatientModes = {TRUE, FALSE}
  ClientModes = {"echo"}
  Signals = {"INT", "WINCH"}
  UserKeys = {"letter", "return"}
  always_readline = TRUE
  PreGiven <- OneLetter
  MaxOut = 3
  MaxKeys = 2
  MaxSignals = 1
  MaxModes = 0
CHECK_DEADLOCK FALSE
INVARIANTS TypeOK PromptIsCurrent CookingIsPending ShownOnceInOrder NothingLost ImpatientGoodbyeIsShown
PROPERTY ImplementsLineRelay
