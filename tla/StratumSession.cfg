SPECIFICATION FairSpec
CONSTANTS
  Share = {s1, s2}
  MaxId = 3
  MaxStream = 4
INVARIANTS TypeOK AnswerIsVerdict CallbacksMatchRequests JobNeedsExtranonce
PROPERTY VerdictArrives
CHECK_DEADLOCK FALSE
