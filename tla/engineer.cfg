CONSTANTS
  Settings <- Starts
  SubAgent <- SubAgents
  ExecuteLevel = {"restart"}
  Preparing = {"design"}
  McpReads = {"lookup"}
  MaxProposals = 2
  Needed <- Approvers
  Window = 4
SPECIFICATION SessionFairSpec
CHECK_DEADLOCK FALSE
INVARIANTS
  NothingRunsUnasked
  SubAgentIsConfined
  ShownUnlessOutage
  UncutHistoryPairs
PROPERTIES
  TurnEnds
