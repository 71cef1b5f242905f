SPECIFICATION Spec
CONSTANTS
  Service <- TwoServices
  SignalBuffer = 2
  OutputLimit = 4
  MaxRuns = 2
  MaxWrites = 2
  MaxSignals <- SignalsSent
  MaxOps = 2
INVARIANTS QueuedOnceEach

CHECK_DEADLOCK FALSE
