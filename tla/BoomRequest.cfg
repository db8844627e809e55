SPECIFICATION RequestSpec
CONSTANTS
  None = None
  MaxChanges = 4
  MaxOutput = 2
INVARIANTS StagesAgree NoSurvivor AnswerIsComplete NothingLeftRemotely CheckedAnswerIsReviewed
PROPERTY RunEnds
CHECK_DEADLOCK FALSE
