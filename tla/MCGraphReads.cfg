CONSTANTS
    a = a
    b = b
    c = c
    d = d
    Names = {a, b, c, d}
    Linkable <- Relations4
    Starts <- MCStarts
SPECIFICATION Spec
INVARIANTS TypeOK AnswerIsBall RelationsAreIncident PathIsShortest AnswerHangsTogether WalkStopsAtLimit
PROPERTY ReadEnds
CHECK_DEADLOCK FALSE
