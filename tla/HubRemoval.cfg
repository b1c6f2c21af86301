SPECIFICATION Spec
CONSTANTS
    c1 = c1
    c2 = c2
    a = a
    h = h
    g1 = g1
    r1 = r1
    Conns = {c1, c2}
    Members = {a, h}
    Agents = {a}
    Names = {a}
    NameOf <- SharedName
    Channels = {g1}
    Roster <- MCRoster
    Kickers = {r1}
    NoConn = NoConn
    NoMember = NoMember
    NoChannel = NoChannel
    MaxSubscriptions = 2
    MaxLogins = 1
    DaemonConns = {}
    TimedConns = {}
INVARIANT
    RemovedMemberUnsubscribed
CHECK_DEADLOCK FALSE
