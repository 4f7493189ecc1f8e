SPECIFICATION Spec
CONSTANTS
  right = right
  wrong = wrong
  other = other
  d1 = d1
  d2 = d2
  Dev = {d1}
  Identity <- MCIdentity
  Matching <- OneMatching
  Actual <- OneActual
  Slots = 4
  Refs = 5
  MaxPlugs = 2
  MaxFails = 0
  MaxInbox = 1
  Timely = FALSE
INVARIANT KeepsDrivers
