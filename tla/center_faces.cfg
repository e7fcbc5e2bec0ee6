CONSTANTS
    p1 = p1
    p2 = p2
    e1 = e1
    e2 = e2
    h1 = h1
    Proposal <- OneProposal
    Request <- TwoRequests
    Harness <- OneHarness
    VerifiedName <- TokenUsers
    DeclaredName <- CliUsers
    ToolRouteName <- FormNames
    ProposedClass <- PlainAndRisky
    Expiry = 1
    Window = 1
    BlockSelf = TRUE
    MaxQuorum = 2
    MaxTime = 3
    MaxReplays = 2
    Crashes = FALSE
    CtxCanFail = FALSE
SPECIFICATION FairSpec
INVARIANTS AppliedWasApproved
PROPERTIES ClaimSettles
CHECK_DEADLOCK FALSE
