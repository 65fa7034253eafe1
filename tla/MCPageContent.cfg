CONSTANTS
    r1 = r1
    r2 = r2
    r3 = r3
    v1 = v1
    v2 = v2
    v3 = v3
    n1 = n1
    n2 = n2
    m1 = m1
    m2 = m2
    b1 = b1
    None = None
    Requests <- MCRequests
    VersionIds <- MCVersionIds
    VersionNo <- MCVersionNo
    Calls <- MCCalls
    Nodes <- MCNodes
    Metas = {m1, m2}
    Bodies = {b1}
SPECIFICATION Spec
INVARIANTS
    TypeOK
    NoLostUpdate
    AnswerMatchesEffect
    AnswersRespectRealTime
PROPERTIES
    ImplementsRegister
SYMMETRY Symmetry
CHECK_DEADLOCK FALSE
