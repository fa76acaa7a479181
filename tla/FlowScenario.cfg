\* Both languages, one agent with two calls, overlapping routes and two requests, of which
\* one may be waiting for the script; up to three verbs.
SPECIFICATION ScenarioSpec
CONSTANTS
  Agents = {a}
  MaxCalls = 2
  MaxPipe = 2
  MaxSent = 1
  Requests <- MCRequests
  Methods <- MCMethods
  Paths <- MCPaths
  Regexes <- MCRegexes
  MaxRoutes = 2
  QueueCap = 1
  MaxVerbs = 3
  MaxOutside = 2
  TargetsUsed <- MCTargetsUsed
  ConditionsUsed <- MCConditionsUsed
  Awaits <- MCAwaits
  Stagings <- MCStagings
INVARIANTS
  FoldsToTruth
  WaitTells
PROPERTIES
  AllAnswered
  ScenarioConcludes
CHECK_DEADLOCK FALSE
