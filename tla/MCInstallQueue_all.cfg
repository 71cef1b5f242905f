SPECIFICATION FairSpec
CONSTANTS
  Imports <- Shared
  Allowlist <- OneLanguage
  Concurrency = 2
  PrewarmOrder <- StartUp
  DaemonFails = TRUE
  MaxLosses = 1
  MaxJobs = 2
INVARIANTS JobsSound WritersBounded ReadyMeansCached
PROPERTY AllAnswered
CHECK_DEADLOCK FALSE
