SPECIFICATION QuietSpec
CONSTANTS
  None = None
  MaxChanges = 4
INVARIANT BaselineIsPristineBuild
CHECK_DEADLOCK FALSE
