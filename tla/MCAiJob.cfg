CONSTANTS
    r1 = r1
    r2 = r2
    r3 = r3
    k1 = k1
    k2 = k2
    p1 = p1
    p2 = p2
    s1 = s1
    s2 = s2
    None = None
    Requests <- MCRequests
    Calls <- MCCalls
    Keys = {k1, k2}
    Payloads = {p1, p2}
    PagePayloads = {p1}
    Results = {s1, s2}
    MaxVersion = 2
SPECIFICATION Spec
INVARIANTS
    AiTypeOK
    OneClaimOneEnd
    SuggestionsComeWithSuccess
    ReplayFindsItsJob
PROPERTY ImplementsBoard
SYMMETRY Symmetry
CHECK_DEADLOCK FALSE
