CONSTANTS
    Projects = {p1}
    MultiProject = FALSE
    Sizes = {2, 3, 4}
    DefaultDims = 2
    Environments <- Explicit
    Callers = {u1, u2}
SPECIFICATION Spec
INVARIANTS TypeOK RefusedOnlyForSize ReadsFit KeepsWhatFits
