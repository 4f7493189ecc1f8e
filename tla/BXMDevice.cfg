SPECIFICATION FairSpec
CONSTANTS
  nChips = 2
  Pieces = 2
  MaxJobs = 2
  MaxTimeouts = 1
INVARIANTS TypeOK NeverFails OwnAnswer BusyIsFreed NextWorkFresh
PROPERTIES TransfersEnd KeepsSending
CHECK_DEADLOCK FALSE
