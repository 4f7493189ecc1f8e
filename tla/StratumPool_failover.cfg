SPECIFICATION FairSpec
CONSTANTS
  c1 = c1
  c2 = c2
  Conn <- MCConn
  NoConn = NoConn
  Miner = {m1}
  Priority <- FirstHigher
  Unreliable = {c1}
  MaxJobs = 1
  MaxDiff = 1
PROPERTY FailsOver
