CONSTANTS
  Schema = {"ip", "level"}
  BasePanels <- Base
  Preset <- FixedPlan
  Optional = {"ip"}
  Fallback <- Extras
  MinPanels = 2
  MaxPanels = 3
  Job = {1, 2}
  Tool <- AllTools
  Title = {"web"}
  Picks <- SomePicks
  Asked <- SomeFilters
  VisStates <- SomeAggs
  ThreatPanels <- Threats
  FirstObjects <- Servers
  Page = 2
  MaxFaults = 1
  MaxRemovals = 1
SPECIFICATION ObjectsSpec
CHECK_DEADLOCK FALSE
INVARIANTS
  BuiltDashboardsRender
  OrphansAreExplained
  TwinsOverlapped
