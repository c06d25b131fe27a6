SPECIFICATION Spec
CONSTANTS
    Parts = {"shares", "cut shares", "payouts", "page", "campaign", "lifecycle", "portfolio", "agent"}
    None = None  c1 = c1  c2 = c2  d1 = d1  d2 = d2  l1 = l1  l2 = l2  a1 = a1
SYMMETRY Symmetry
INVARIANTS SharesSound CapturesHonest
CHECK_DEADLOCK FALSE
