SPECIFICATION Spec
CONSTANTS
  NULL = NULL
  Rows = {"a", "b", "c"}
  Lines <- SomeLines
  Histories <- SomeHistories
  Sizes = {0, 2, 3}
  MaxBase = 3
  ForgetRegexp <- Secrets
  filters_history <- Kept
CHECK_DEADLOCK FALSE
INVARIANTS HistoryIsRecentInput NextLineFetched
