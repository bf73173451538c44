CONSTANTS
    Text <- MCText
    Empty = ""
    Trim <- MCTrim
    ForeignKeys = TRUE
    Clients = {c1}
    Requests <- LinkingCalls
    NoCall = NoCall
    Nobody = Nobody
    MaxParams = 2
    Faults = FALSE
    LostAcks = FALSE
    MaxRows = 4
SPECIFICATION RetrySpec
PROPERTY RetryIsIdempotent
