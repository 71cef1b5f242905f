SPECIFICATION FairSpec
CONSTANTS
  Service <- TwoServices
  SignalBuffer = 2
  OutputLimit = 4
  MaxRuns = 2
  MaxWrites = 1
  MaxSignals <- SignalsSent
  MaxOps = 2
INVARIANTS WholeFleetOrNone ReportsTruly
PROPERTY ChildEnds
CHECK_DEADLOCK FALSE
