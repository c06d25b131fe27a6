SPECIFICATION Spec
CONSTANTS
    Parts = {"chosen2"}
    None = None  Torn = Torn  Invalid = Invalid
    pay = pay  rival = rival  child = child  m1 = m1  m2 = m2  n1 = n1  n2 = n2
INVARIANT BlocksWhole
CHECK_DEADLOCK FALSE
