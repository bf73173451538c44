CONSTANTS
    Text <- MCText
    Empty = ""
    Trim <- MCTrim
    ForeignKeys = FALSE
    Clients = {c1, c2}
    Requests <- EveryCall
    NoCall = NoCall
    Nobody = Nobody
    MaxParams = 2
    Faults = TRUE
    LostAcks = FALSE
    MaxRows = 3
SPECIFICATION FairSpec
PROPERTY EveryCallEnds
PROPERTY UpdatedRelationsAreLinked
