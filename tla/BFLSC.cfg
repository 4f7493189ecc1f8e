SPECIFICATION FairSpec
CONSTANTS
  MaxWork = 2
  Capacity = 2
  MaxJobs = 2
  MaxLate = 1
  MaxTemps = 2
INVARIANTS TypeOK NeverOvercounts InStep
PROPERTIES StaleWorkFlushed KeptBusy
CHECK_DEADLOCK FALSE
