CONSTANTS
    Text <- MCText
    Empty = ""
    Trim <- MCTrim
    ForeignKeys = TRUE
    Clients = {c1, c2}
    Requests <- MenuCalls
    NoCall = NoCall
    Nobody = Nobody
    MaxParams = 2
    Faults = TRUE
    LostAcks = TRUE
    MaxRows = 4
SPECIFICATION MenuSpec
INVARIANT TypeOK
INVARIANT RefIntegrity
INVARIANT WriterIsCurrent
PROPERTY CallsAreAtomic
PROPERTY IdsNeverReused
PROPERTY RetryIsIdempotent
SYMMETRY Symmetry
