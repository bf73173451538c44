CONSTANTS
    Goroutines = {g1, g2, g3}
    Projects = {"", "p", "q"}
    EmptyName = ""
    DefaultProject = "default"
    None = None
    MultiProject = TRUE
    Closes = TRUE
    MaxHandles = 3
SYMMETRY Symmetry
SPECIFICATION Spec
INVARIANT TypeOK
INVARIANT NoHandleLost
INVARIANT StmtIsCurrent
INVARIANT MapIsSound
PROPERTY MapIsGuarded
CHECK_DEADLOCK FALSE
