SPECIFICATION FairSpec
CONSTANTS
  right = right
  wrong = wrong
  other = other
  d1 = d1
  d2 = d2
  Dev = {d1, d2}
  Identity <- MCIdentity
  Matching <- TwoMatching
  Actual <- TwoActual
  Slots = 4
  Refs = 4
  MaxPlugs = 2
  MaxFails = 2
  MaxInbox = 2
  Timely = TRUE
PROPERTY MinedInTheEnd
