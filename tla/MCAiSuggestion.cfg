CONSTANTS
    r1 = r1
    r2 = r2
    r3 = r3
    s1 = s1
    s2 = s2
    n1 = n1
    None = None
    Requests <- MCRequests
    Calls <- MCCalls
    Suggestions = {s1, s2}
    Source <- MCSource
    Notes = {n1}
    MaxVersion = 3
SPECIFICATION Spec
INVARIANTS
    SuggestionTypeOK
    AppliedWithThePage
    AppliedToItsSource
    DecisionsAreTrue
    AppliedIsInTheAnswer
PROPERTY ImplementsBoard
SYMMETRY Symmetry
CHECK_DEADLOCK FALSE
