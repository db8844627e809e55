SPECIFICATION Spec
CONSTANTS
  Alphabet = {"nop", "train", "enter_user", "load_secret", "encode", "probe"}
  MaxLength = 4
  NoBenchmark = NoBenchmark
  Reliable = FALSE
INVARIANT OneMinimal
CHECK_DEADLOCK FALSE
