CONSTANTS
    r1 = r1
    r2 = r2
    r3 = r3
    n1 = n1
    n2 = n2
    b0 = b0
    b1 = b1
    b2 = b2
    None = None
    Requests <- MCRequests
    MaxVersion <- MCMaxVersion
    VersionIds <- MCVersionIds
    VersionNo <- MCVersionNo
    Calls <- MCCalls
    Nodes <- MCNodes
    Metas <- MCFacadeMetas
    Bodies = {b0, b1, b2}
    FirstBody = b0
SPECIFICATION FacadeSpec
INVARIANTS
    FacadeTypeOK
    PointerIsInDrive
    ReadsNoOlderContent
    CommittedUnlessRaced
SYMMETRY Symmetry
CHECK_DEADLOCK FALSE
