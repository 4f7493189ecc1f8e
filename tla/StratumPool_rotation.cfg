SPECIFICATION Spec
CONSTANTS
  c1 = c1
  c2 = c2
  Conn <- MCConn
  NoConn = NoConn
  Miner = {m1}
  Priority <- Equal
  Unreliable = {}
  MaxJobs = 1
  MaxDiff = 1
INVARIANT RotationKeepsSession
