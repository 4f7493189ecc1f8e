SPECIFICATION MinersSpec
CONSTANTS
  Conn = {c1, c2}
  NoConn = NoConn
  Self = m
  Miner = {m}
  MaxJobs = 1
  MaxDiff = 1
  MaxMail = 1
  MaxFound = 1
  MaxChains = 1
  MerkleHash = {h1}
  MaxResults = 1
INVARIANTS MinersTypeOK FollowsWork KnownUntilOld
PROPERTIES StaleSharesEnd NoncesRead
CHECK_DEADLOCK FALSE
