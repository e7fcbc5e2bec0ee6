CONSTANTS
    p1 = p1
    p2 = p2
    e1 = e1
    e2 = e2
    h1 = h1
    Proposal <- OneProposal
    Request <- TwoRequests
    Harness = {}
    VerifiedName <- TokenUsers
    DeclaredName <- CliUsers
    ToolRouteName = {}
    ProposedClass <- ActionClass
    Expiry = 1
    Window = 1
    BlockSelf = TRUE
    MaxQuorum = 2
    MaxTime = 4
    MaxReplays = 2
    Crashes = TRUE
    CtxCanFail = TRUE
SPECIFICATION Spec
INVARIANTS TypeOK SingleUse SeparationOfDuties RecordIsHonest RunsConfirmed
PROPERTIES GrantNeedsQuorum GrantInTime HistoryIsFrozen ImplementsOneShotGrant
