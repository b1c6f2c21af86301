SPECIFICATION FairSpec
CONSTANTS
    c1 = c1
    c2 = c2
    a = a
    h = h
    g1 = g1
    r1 = r1
    Conns = {c1, c2}
    Members = {a, h}
    Agents = {a}
    Names = {a}
    NameOf <- SharedName
    Channels = {g1}
    Roster <- MCRoster
    Kickers = {}
    NoConn = NoConn
    NoMember = NoMember
    NoChannel = NoChannel
    MaxSubscriptions = 2
    MaxLogins = 1
    DaemonConns = {c2}
    TimedConns = {c1}
INVARIANTS
    GoneUnreachable
    AllGoneOffline
PROPERTIES
    ClosedExits
    SilentConnExits
CHECK_DEADLOCK FALSE
