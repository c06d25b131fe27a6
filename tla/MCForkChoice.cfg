SPECIFICATION FairSpec
CONSTANTS
  Nodes = {a, b, c}
  Hashes = {2, 3}
  Works = {1, 2}
  MaxStops = 1
INVARIANTS
  TypeOK
  ChainsLinked
  TipNamesChain
PROPERTIES
  OnlyBetterChains
  FilesOnlyImprove
  Convergence
