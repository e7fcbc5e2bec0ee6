CONSTANTS
  Names <- AllNames
  Args <- CommandLines
  Events = 2
  MaxFaults = 2
  MaxHuman = 1
SPECIFICATION LiveSpec
CHECK_DEADLOCK FALSE
INVARIANTS
  PassIsEarned
  CalmRunLeavesNothing
