SPECIFICATION Spec
CONSTANTS
  Tags = {"INPUT", "PROMPT"}
  InterestSets <- PromptsOnly
  rejects_twice = TRUE
  PipeSize = 6
  MaxCalls = 4
  MaxInterrupts = 0
  MaxOob = 0
CHECK_DEADLOCK FALSE
INVARIANT AnswersMatch
