SPECIFICATION Spec
CONSTANTS
  tiny = tiny pair = pair bomb = bomb big = big many = many twins = twins mixed = mixed
  linked = linked nested = nested dense = dense crowd = crowd empty = empty fat = fat
  NoId = NoId m1 = m1 m2 = m2
  Archives <- MCArchives
  Entries <- MCEntries
  Size <- MCSize
  Pushed <- MCPushed
  NoArchive = NoId
  Unscanned = {"t"}
  MaxRedirects = 2
  MaxApiBytes = 1
  MaxArchiveBytes = 2
  MaxFiles = 2
  MaxFileBytes = 2
  MaxExpandedBytes = 3
  MaxDepth = 3
  MaxCompressionRatio = 1
  EntryFactor = 3
  RatioFloor = 1
  IgnoredSegments = {"node_modules"}
  Migrators = {m1, m2}
  Release <- MCRelease
  Nobody = NoId
  MaxRuns = 2
  Products = {p1, p2}
  Prices = {q1, q2}
  Endpoints = {e1, e2}
  MaxScriptRuns = 3
  Submitters = {u1}
  Calls = {c1, c2}
  NoSubmitter = NoId
  Hour = 6
  Window = 3
  ThrottleLimit = 2
  MaxTime = 7
CHECK_DEADLOCK FALSE
INVARIANTS
  JobDirectoryIsSound
  SchemaIsARelease
  RerunsMakeOneOfEach
  AtMostTwice
PROPERTIES
  SocketsSettle
