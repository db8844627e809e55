SPECIFICATION Spec
CONSTANTS
  Alphabet = {"nop", "train", "enter_user", "load_secret", "encode", "squash", "probe"}
  MaxLength = 6
  NoBenchmark = NoBenchmark
  Reliable = TRUE
INVARIANTS OneMinimal QuadraticCost RelevantBreaksBaseline FaultReportIsTrue ProbeReportIsMeasured
CHECK_DEADLOCK FALSE
