SPECIFICATION Spec
CONSTANTS
    Parts = {"recovery", "ranks", "version2", "chosen2", "atomic2", "version3", "shadow", "forks", "reorg", "legacy", "faulty", "pages", "visits"}
    None = None  Torn = Torn  Invalid = Invalid
    pay = pay  rival = rival  child = child  m1 = m1  m2 = m2  n1 = n1  n2 = n2
INVARIANTS SqlSound ChainsSound ExplorerSound
PROPERTIES ChainSteps
CHECK_DEADLOCK FALSE
