SPECIFICATION FairSpec
CONSTANTS
  Queries <- AllQueries
  Prepared = {"WRITE", "COMMIT"}
  MaxSent = 5
  MaxAhead = 2
INVARIANTS InStep ToldTruly TwoAccounts
PROPERTIES FailedBlockIsDead SyncEndsSkipping
CHECK_DEADLOCK FALSE
