SPECIFICATION FairSpec
CONSTANTS
  Sizes = {1, 2, 3}
  MaxResizes = 3
  MaxChanges = 2
INVARIANTS
  WinsizeInv
  NoResizeOverlooked
PROPERTIES
  SignalsSettle
  CommandLearnsSize
  PromptComesBack
CHECK_DEADLOCK FALSE
