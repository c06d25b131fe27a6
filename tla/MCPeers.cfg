SPECIFICATION Spec
CONSTANTS
    Parts = {"guard", "bans", "directory", "view", "room", "trust", "channel"}
    None = None
    r1 = r1  r2 = r2  r3 = r3
    me = me  p = p  q = q  self = self  s1 = s1
    k1 = k1  k2 = k2  e1 = e1  a = a  b = b  c = c
INVARIANTS TablesHold
PROPERTIES BannedGoLast GossipProvesNothing AnchorsKept PinsFollowApprovals PeersComeBack ImplementsRemoteCalls
CHECK_DEADLOCK FALSE
