SPECIFICATION Spec
CONSTANTS
  Iterations = 2
  RandomLength = 2
INVARIANTS TypeOK RepairsAsClaimed StopsAreCounted
CHECK_DEADLOCK FALSE
