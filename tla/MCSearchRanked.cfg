CONSTANTS
    Callers = {c1}
    Configs <- MCConfigs
    Offers <- SQLite
    Queries <- MCQueries
    Timeouts = FALSE
SPECIFICATION Spec
INVARIANT TextIsRankedByBM25
