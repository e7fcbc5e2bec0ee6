CONSTANTS
  Settings <- Starts
  SubAgent <- SubAgents
  ExecuteLevel = {"restart"}
  Preparing = {"design"}
  McpReads = {"lookup"}
  MaxProposals = 2
  Needed <- Approvers
  Window = 4
SPECIFICATION SessionSpec
CHECK_DEADLOCK FALSE
INVARIANT
  ProposingWritesNothing
