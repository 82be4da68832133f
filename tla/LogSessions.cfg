SPECIFICATION Spec
CONSTANTS
  None = None
  RetentionDays = 2
  DayLength = 2
  MaxTime = 7
  MaxRuns = 2
  MaxInfo = 1
  InfoTexts <- MCInfoTexts
INVARIANTS
  SessionsFaithful
PROPERTIES
  RetentionKept
CHECK_DEADLOCK FALSE
