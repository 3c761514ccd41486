\* Two publishers that do not publish while the socket is being connected, one message
\* in flight at a time, two lost connections.
SPECIFICATION FairSessionSpec
CONSTANTS
  p1 = p1
  p2 = p2
  Publishers <- TwoPublishers
  Loop = Loop
  Free = Free
  MaxMid = 3
  MaxIssue = 3
  MaxWire = 4
  SendMaximum = 1
  ReceiveMaximums = {1}
  Sizes <- SmallOnly
  Rejects = FALSE
  PublishPhases <- NotWhileConnecting
  Resumes = {TRUE}
  MaxLosses = 2
INVARIANTS
  InFlightAtMostDouble
  NoQuotaLeak
  FifoRelease
PROPERTIES
  EventuallyReported
CHECK_DEADLOCK FALSE
