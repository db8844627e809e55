SPECIFICATION TraceSpec
CONSTANTS
  Cores <- MCCores
  MaxCycles = 9
PROPERTY LateRequestsEstablishNothing
CHECK_DEADLOCK FALSE
