CONSTANTS
  Schema = {"ip", "level"}
  BasePanels <- Base
  Preset <- FixedPlan
  Optional = {"ip"}
  Fallback <- Extras
  MinPanels = 2
  MaxPanels = 3
  Job = {1}
  Tool <- Designs
  Title = {"web"}
  Picks <- SomePicks
  Asked <- SomeFilters
  VisStates <- SomeAggs
  ThreatPanels <- Threats
  FirstObjects <- Servers
  Page = 2
  MaxFaults = 0
  MaxRemovals = 0
SPECIFICATION ObjectsSpec
CHECK_DEADLOCK FALSE
INVARIANTS
  BuiltAsApproved
