SPECIFICATION Spec
CONSTANTS
    m1 = m1
    m2 = m2
    u1 = u1
    u2 = u2
    r1 = r1
    r2 = r2
    Messages = {m1, m2}
    Members = {u1, u2}
    Readers = {u2}
    Requests = {r1, r2}
    NoMessage = NoMessage
    Author <- MCAuthor
    Kinds = {"pin", "history"}
    MaxEdits = 1
SYMMETRY Interchangeable
VIEW Remembered
CONSTRAINT ReadersApart
INVARIANTS
    TypeOK
    RepliesCounted
    NothingDangles
    MentionsNoted
    ReadersAgree
CHECK_DEADLOCK FALSE
