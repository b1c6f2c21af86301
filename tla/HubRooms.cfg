SPECIFICATION Spec
CONSTANTS
    c1 = c1
    c2 = c2
    a = a
    h = h
    g1 = g1
    r1 = r1
    Conns = {c1, c2}
    Members = {a, h}
    Agents = {a}
    Names = {a, h}
    NameOf <- MCNameOf
    Channels = {g1}
    Roster <- MCRoster
    Kickers = {r1}
    NoConn = NoConn
    NoMember = NoMember
    NoChannel = NoChannel
    MaxSubscriptions = 1
    MaxLogins = 2
    DaemonConns = {}
    TimedConns = {}
INVARIANTS
    TypeOK
    GoneUnreachable
    SoleConnReachable
CHECK_DEADLOCK FALSE
SYMMETRY ConnSymmetry
