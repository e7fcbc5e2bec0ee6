CONSTANTS
  Settings <- Starts
  Family = {"aion", "groq"}
  Kinds = {"main", "run", "dashboard"}
  MinRecords = 2
  MaxLessons = 1
  Crashes = TRUE
  HostOf <- Hosts
  UserOf <- Users
  Limit = 3
SPECIFICATION LogFairSpec
CHECK_DEADLOCK FALSE
INVARIANTS
  StoredPagesNeverClose
  RetriesBounded
  DashboardCountsFailures
  AloneRotationKeepsAll
  CasesAreChains
PROPERTIES
  FallbackAvoidsFailed
  TriageEnds
  ReviewsStand
