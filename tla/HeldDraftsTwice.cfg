SPECIFICATION Spec
CONSTANTS
    d1 = d1
    d2 = d2
    g1 = g1
    r1 = r1
    r2 = r2
    Drafts = {d1, d2}
    Channels = {g1}
    ChannelOf <- MCChannelOf
    Requests = {r1, r2}
    NoDraft = NoDraft
    MaxDelta = 1
    MaxVersion = 3
INVARIANT
    DraftSentOnce
