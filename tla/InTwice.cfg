\* A QoS 2 message is handed over twice after one lost connection, although the broker
\* resumes the session.
SPECIFICATION Spec
CONSTANTS
  MaxMessages = 2
  MaxMid = 1
  Levels = {2}
  ReceiveMaximum = 2
  Resumes = {TRUE}
  MaxLosses = 1
INVARIANTS
  AtMostOneCallback
CHECK_DEADLOCK FALSE
