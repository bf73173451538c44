CONSTANTS
    Callers = {c1, c2}
    Limits = {1, 2, 3}
    Texts <- MCTexts
    Direct = "-"
    ObsText = "observations"
    Calls <- MCCalls
    MaxRows = 1
    Closes = TRUE
SPECIFICATION FairSpec
INVARIANTS TypeOK NothingLeaks StuckOnRowSets
PROPERTIES CallsEnd CloseEnds
CHECK_DEADLOCK FALSE
