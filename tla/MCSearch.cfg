CONSTANTS
    Callers = {c1, c2}
    Configs <- MCConfigs
    Offers <- MCOffers
    Queries <- MCQueries
    Timeouts = TRUE
SPECIFICATION FairSpec
INVARIANT AnswersByBestMethod
PROPERTIES FlagsOnlyFall SearchEnds
