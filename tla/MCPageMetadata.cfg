CONSTANTS
    Requests <- MCRequests
    Calls <- MCCalls
    Pages = {p1, p2}
    Folders = {p2}
    Titles = {a, b}
    Initial <- MCInitial
    Keep = Keep
    None = None
    r1 = r1
    r2 = r2
    r3 = r3
    p1 = p1
    p2 = p2
    a = a
    b = b
SPECIFICATION Spec
SYMMETRY Symmetry
CHECK_DEADLOCK FALSE
INVARIANTS
    MetaTypeOK
    ExpectedWritesKeepTheRest
    AnswersMatchWrites
    ChecksHeldSinceArrival
    SettledPagesAreIndexed
