SPECIFICATION FairSpec
CONSTANTS
  c1 = c1
  c2 = c2
  Conn <- MCConn
  NoConn = NoConn
  Miner = {m1}
  Priority <- FirstHigher
  Unreliable = {c1}
  MaxJobs = 2
  MaxDiff = 2
INVARIANTS TypeOK ViewCurrent MinableView
PROPERTIES ImplementsWorkSource WorkArrives HighestPriorityWins
