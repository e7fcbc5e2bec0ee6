CONSTANTS
  Id <- Names
  Job = {"cli", "dashboard"}
  Operations <- SomeChanges
  FirstFiles <- Starts
  MaxJobs = 3
SPECIFICATION ManagerSpec
CHECK_DEADLOCK FALSE
INVARIANTS
  ReportedIsStored
PROPERTIES
  AloneOthersKept
