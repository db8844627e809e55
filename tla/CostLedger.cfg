SPECIFICATION FairSpec
CONSTANTS
  Processes = {p1, p2}
  Free = Free
  Amounts = {1, 2}
  Budget = 4
  MaxCalls = 1
  Retries = 1
  MaxRuns = 2
INVARIANTS TypeOK WithinBudget
PROPERTIES ImplementsAtomicLedger LockGranted
CHECK_DEADLOCK FALSE
