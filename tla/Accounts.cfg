\* One person with every door and one agent; two requests that overlap.
SPECIFICATION Spec
CONSTANTS
    People = {ann}
    Bots = {bot}
    NoOne = NoOne
    Providers = {"github", "google"}
    r1 = r1
    r2 = r2
    Requests = {r1, r2}
    States = {s1}
    Tokens = {t1}
    MaxMembers = 2
SYMMETRY Interchangeable
INVARIANTS TypeOK IdentitiesHold SpentStaysSpent
PROPERTY SameDoor
