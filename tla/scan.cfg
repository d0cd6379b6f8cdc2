SPECIFICATION Spec
CONSTANTS
  root = root a = a b = b link = link f = f g = g h = h none = none
  Entries <- MCEntries
  Root = root
  Parent <- MCParent
  Rank <- MCRank
  NoFile = none
  Scenarios <- MCScenarios
  MaxEntries = 5
  MaxDepth = 1
  MaxRecords = 7
  MaxFiles = 2
  MaxFileBytes = 2
  MaxTotalBytes = 3
  MaxTokens = 2
  MaxTokensTotal = 3
  MaxLines = 2
  MaxLinesTotal = 3
  MaxFindings = 3
  MaxFileResults = 2
  MaxIssueDetails = 2
INVARIANTS
  NothingVanishes
  BudgetsHold
  DirectoriesAreAtomic
  GreenBuildIsClean
  ReportIsHonest
  ErrorsAreDefinite
CHECK_DEADLOCK FALSE
