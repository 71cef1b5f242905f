SPECIFICATION Spec
CONSTANTS
  Imports <- Shared
  Allowlist <- OneLanguage
  Concurrency = 2
  PrewarmOrder <- NoStartUp
  DaemonFails = FALSE
  MaxLosses = 1
  MaxJobs = 4
INVARIANT SingleWriter
CHECK_DEADLOCK FALSE
