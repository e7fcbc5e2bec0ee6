CONSTANTS
  p1 = p1
  p2 = p2
  Proc = {p1, p2}
  Torn = {torn}
  NoFile = {none}
  RuleId = {"r1", "r2"}
  Def <- RuleDefs
  Alert <- TwoSevs
  Table = {"bad ips"}
  Provider = {"siem-1", "siem-2"}
  Batches <- ImportBatches
  Window = 1
  Count = 2
  MaxTime = 2
  MaxOps = 3
  Mixes <- OpMixes
  Seeds <- SeedFiles
SYMMETRY Writers
SPECIFICATION RulesSpec
CHECK_DEADLOCK FALSE
INVARIANTS
  CountsOwnMatches
