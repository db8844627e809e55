SPECIFICATION CampaignSpec
CONSTANTS
  None = None
  Scenarios = 2
  Programs = 1
  MaxBuilds = 2
  Cores <- MCAllCores
  MaxCycles = 7
INVARIANTS CampaignTypeOK ControlPairsOneSimulator SealBindsOneSimulator ValidatedRepairIsDocumented DependentRequestsAreTheirs
PROPERTY VerdictSettles
CHECK_DEADLOCK FALSE
