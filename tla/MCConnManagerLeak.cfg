CONSTANTS
    Goroutines = {g1, g2}
    Projects = {"p"}
    EmptyName = ""
    DefaultProject = "default"
    None = None
    MultiProject = TRUE
    Closes = FALSE
    MaxHandles = 2
SPECIFICATION FairSpec
PROPERTY GetDBReturns
CHECK_DEADLOCK FALSE
