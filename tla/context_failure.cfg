CONSTANTS
    p1 = p1
    p2 = p2
    e1 = e1
    e2 = e2
    h1 = h1
    Proposal <- OneProposal
    Request <- OneRequest
    Harness = {}
    VerifiedName <- TokenUsers
    DeclaredName <- CliUsers
    ToolRouteName = {}
    ProposedClass <- PlainOnly
    Expiry = 1
    Window = 0
    BlockSelf = TRUE
    MaxQuorum = 1
    MaxTime = 2
    MaxReplays = 2
    Crashes = FALSE
    CtxCanFail = TRUE
SPECIFICATION Spec
INVARIANTS ExecutingIsOwned
CHECK_DEADLOCK FALSE
