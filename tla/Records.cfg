SPECIFICATION Spec
CONSTANTS
    x1 = x1
    x2 = x2
    r1 = r1
    r2 = r2
    Rows = {x1, x2}
    NoRowId = NoRowId
    Requests = {r1, r2}
    Tables <- MCTables
    Payers = {x1}
    MaxCheckouts = 2
    MaxWakes = 3
SYMMETRY Interchangeable
INVARIANTS
    TypeOK
    DecisionsStand
    ToldAsStored
    FilesHaveBytes
    
    PlansFollowStripe
