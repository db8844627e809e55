SPECIFICATION FairSpec
CONSTANTS
  BenchmarkId = "boom-positive-control"
  Programs <- MCPrograms
  NoProgram = NoProgram
  Essence <- MCEssence
  Relevant <- MCRelevant
  Outside <- MCOutside
  Reductions <- MCReductions
  Outcomes <- MCOutcomes
  Bug <- MCBug
  Boom = TRUE
  TrustedRepair = "remove-seeded-cache-leak"
  ReconCycles = 2
  AttackLimit = 3
  RepairLimit = 2
INVARIANTS TypeOK FindingsDriveRepairs FlagsHaveReasons VerdictJustified VerifiedIsTrustedRepair
PROPERTIES ImplementsAcceptance Terminates
CHECK_DEADLOCK FALSE
