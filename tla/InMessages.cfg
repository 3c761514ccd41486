\* Three messages, two identifiers, a receive maximum of 2, two lost connections and a
\* broker that resumes the session or not.
SPECIFICATION FairSpec
CONSTANTS
  MaxMessages = 3
  MaxMid = 2
  Levels = {0, 1, 2}
  ReceiveMaximum = 2
  Resumes = {TRUE, FALSE}
  MaxLosses = 2
INVARIANTS
  InTypeOK
  ReceiveQuotaKept
  EveryCopyOnce
  NothingLost
  RefusedOnlyIfLeftOver
PROPERTIES
  EventuallyAcknowledged
CHECK_DEADLOCK FALSE
