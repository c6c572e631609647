SPECIFICATION Spec
CONSTANTS
    Clients = {c1, c2, c3}
    Conns = {k1, k2, k3, k4}
    MaxConnections = 2
SYMMETRY Symmetry
INVARIANTS
    Exclusive
    SessionsBounded
PROPERTY NotClosedUnderUser
CHECK_DEADLOCK FALSE
