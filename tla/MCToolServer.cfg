CONSTANTS
    c1 = c1
    proj = proj
    home = home
    x = x
    y = y
    NoName = NoName
    Absent = Absent
    Callers = {c1, c2}
    padded = padded
    spaces = spaces
    Names = {proj, home, padded, spaces}
    Projects = {proj, home}
    Trim <- Trimmed
    DefaultProject = home
    Chars = {x, y}
    AutoTokens <- DrawnTokens
    Requests <- ManyRequests
    Configs <- AllConfigs
    MaxFaults = 1
SPECIFICATION Spec
INVARIANTS TypeOK TokenIsWhole 
PROPERTIES TokenKept TokenDecides CallsAreAnswered
CHECK_DEADLOCK FALSE
