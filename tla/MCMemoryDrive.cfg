CONSTANTS
    r1 = r1
    r2 = r2
    r3 = r3
    n1 = n1
    m1 = m1
    m2 = m2
    b0 = b0
    b1 = b1
    b2 = b2
    None = None
    Requests <- MCRequests
    MaxVersion <- MCMaxVersion
    VersionIds <- MCVersionIds
    VersionNo <- MCVersionNo
    Calls <- MCCalls
    Nodes = {n1}
    Metas = {m1, m2}
    Bodies = {b0, b1, b2}
    FirstBody = b0
SPECIFICATION MemorySpec
INVARIANTS
    MemoryTypeOK
    StoresAgreeWhenSettled
    RestoresTheAsked
    RejectedOnlyAfterLoss
PROPERTIES
    ReadsSeeTheCommitted
SYMMETRY Symmetry
CHECK_DEADLOCK FALSE
