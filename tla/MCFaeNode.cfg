SPECIFICATION Spec
CONSTANTS
  Nodes = {a, b}
  Txs <- AllTxs
  Inputs <- AllInputs
  Outputs <- AllOutputs
  Hashes = {2, 3, 4}
  Works = {1}
  InitialSubsidy = 4
  HalvingEraBlocks = 2
  MaxSupply = 9
  MaxTxsPerBlock = 2
  ActivationHeight = 3
  MaxCrashes = 0
  MaxPersistFailures = 0
INVARIANTS
  TypeOK
  MempoolCoherent
  TemplateMinable
  ValueConserved
  ConfirmedOnce
  RestartLosesNothing
PROPERTIES
  OnlyPreferredChains
  NoNeedlessDrop
CHECK_DEADLOCK FALSE
