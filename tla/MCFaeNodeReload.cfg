SPECIFICATION Spec
CONSTANTS
  Nodes = {a, b, c}
  Txs <- Family
  Inputs <- FamilyInputs
  Outputs <- FamilyOutputs
  Hashes = {2, 3}
  Works = {1}
  InitialSubsidy = 4
  HalvingEraBlocks = 2
  MaxSupply = 9
  MaxTxsPerBlock = 2
  ActivationHeight = 0
  MaxCrashes = 0
  MaxPersistFailures = 0
INVARIANT PersistedStateLoads
CHECK_DEADLOCK FALSE
