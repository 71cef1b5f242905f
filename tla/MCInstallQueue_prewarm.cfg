SPECIFICATION Spec
CONSTANTS
  Imports <- Shared
  Allowlist <- OneLanguage
  Concurrency = 2
  PrewarmOrder <- StartUp
  DaemonFails = FALSE
  MaxLosses = 0
  MaxJobs = 2
INVARIANT SingleWriter
CHECK_DEADLOCK FALSE
