SPECIFICATION Spec
CONSTANTS
  Operators = {o1, o2}
  SqlTokens <- MCSqlTokens
  ReceiptTimes = {0}
  LoopbackUrls = {}
  HostedUrls = {"uh"}
  SqliteUrls = {"us"}
  Files <- MCFiles
  Manifests <- MCManifests
  DbOf <- MCDbOf
  Dbs <- MCDbs
  Docs <- MCDocs
  Settings <- MCSettings
  MaxRuns = 2
  MaxEdits = 2
  MaxTotal = 3
INVARIANTS MigrationInvariant HistoryIsProfilePrefix ProgressIsTrue
PROPERTIES SuccessIsProvisioned OnlyReviewedBytesRun
SYMMETRY MCOperatorSymmetry
CHECK_DEADLOCK FALSE
