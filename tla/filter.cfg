SPECIFICATION FairSpec
CONSTANTS
  Tags = {"INPUT", "PROMPT"}
  InterestSets <- Both
  rejects_twice = FALSE
  PipeSize = 6
  MaxCalls = 5
  MaxInterrupts = 2
  MaxOob = 1
CHECK_DEADLOCK FALSE
INVARIANTS TypeOK AnswersMatch SignalsMatch InSync ErrorNotLost
PROPERTY CallEnds
