SPECIFICATION Spec
CONSTANTS
  right = right
  wrong = wrong
  other = other
  d1 = d1
  d2 = d2
  Dev = {d1}
  Identity <- MCIdentity
  Matching <- OneMatching
  Actual <- OneActual
  Slots = 4
  Refs = 5
  MaxPlugs = 3
  MaxFails = 1
  MaxInbox = 2
  Timely = FALSE
INVARIANTS TypeOK LiveWorkersMapped StopHitsNobodyElse
PROPERTIES FailedNotRetried ClashNeedsUnplug
