SPECIFICATION FairSpec
CONSTANTS
  Variants = {"transient", "repaired"}
  Simulators = {"sha1", "sha2"}
  None = None
  Output <- MCOutput
  Repeats = 2
  MaxValidations = 2
  MaxRebuilds = 1
INVARIANTS OneSimulator VerdictIsTrue NothingLeftRunning
PROPERTIES PinsStay ValidationEnds
CHECK_DEADLOCK FALSE
