SPECIFICATION FairSpec
CONSTANTS
  Processes = {p1, p2}
  Free = Free
  Amounts = {1, 2}
  Budget = 2
  MaxCalls = 1
  Retries = 1
  MaxRuns = 2
INVARIANT BilledIsAccounted
CHECK_DEADLOCK FALSE
