SPECIFICATION ToolsSpec
CONSTANTS
  MaxCalls = 3
  MaxTerminal = 1
  MaxOutput = 12
  HeaderRoom = 4
  MarkerSize = 1
  OutputSizes = {0, 4, 5, 6, 7, 8, 12, 13, 30}
  MaxQuestions = 3
  MaxBatch = 2
  MaxRunners = 2
  MaxPermissions = 1
  MaxPresses = 3
  WritesFail = TRUE
  a = a
  b = b
  f = f
  Ids = {a, b}
  Wordings = {"plain", "whole"}
  MaxPatch = 1
  MaxWrites = 2
  MaxClaims = 2
  Tasks = {a}
  PlanlessTurns = 2
  GraceTurns = 2
  RearmTurns = 2
  MaxTurns = 5
  MaxRuns = 2
  Documents = {f}
  MaxQueries = 2
  MaxServers = 2
  MaxEdits = 1
INVARIANTS
  ToolsTypeOK
  PollsTellTheJob
  ReportsAreTrue
  WaitsCanEnd
  MarkerTellsTheExit
  SectionTellsThePlan
  RemindersKeepTheirPace
  AnswersAreOnesOwn
PROPERTIES
  EvictedOnlyForNewer
  GuardsKillWhatIsCut
  TheShownQuestionStays
  AsksReachTheSheet
  OutcomeStands
  StopsAreHeard
  PlanMovesByRungs
  SwitchKeepsTheWork
  QueriesEnd
