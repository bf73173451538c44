CONSTANTS
    Projects = {p1, p2}
    MultiProject = TRUE
    Sizes = {2, 3, 4}
    DefaultDims = 2
    Environments <- NoModel
    Callers = {u1, u2}
SPECIFICATION Spec
INVARIANT ReadsFit
