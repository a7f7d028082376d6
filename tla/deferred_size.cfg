SPECIFICATION Spec
CONSTANTS
  Sizes = {1, 2}
  MaxResizes = 1
  MaxChanges = 0
PROPERTIES
  DeferredSizeIsPassedOn
CHECK_DEADLOCK FALSE
