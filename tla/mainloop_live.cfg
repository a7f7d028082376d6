SPECIFICATION FairSpec
CONSTANTS
  NULL = NULL
  ImpatientModes = {TRUE, FALSE}
  ClientModes = {"echo"}
  Signals = {"INT", "TSTP"}
  UserKeys = {"return", "eof"}
  always_readline = FALSE
  PreGiven <- NoText
  MaxOut = 2
  MaxKeys = 1
  MaxSignals = 2
  MaxModes = 0
CHECK_DEADLOCK FALSE
PROPERTIES RlwrapFollowsCommand PromptIsCooked InputGetsThrough
