SPECIFICATION Spec
CONSTANTS
    Parts = {"mining", "switch", "follow", "rotation", "pins", "pins of two", "shared pins", "keys", "two pages", "history", "miner", "stop", "operator"}
    None = None  Garbage = Garbage
    l1 = l1  c1 = c1  c2 = c2  a1 = a1  a2 = a2  b1 = b1  b2 = b2  t1 = t1  t2 = t2  w1 = w1  x = x  d1 = d1
INVARIANTS MinersSound WalletSound EvidenceSound
PROPERTIES ClientSteps ImplementsWorkSession ClientsProgress
CHECK_DEADLOCK FALSE
