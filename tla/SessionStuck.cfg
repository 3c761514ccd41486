\* A message published while the socket is being connected is never sent.
SPECIFICATION FairSessionSpec
CONSTANTS
  p1 = p1
  p2 = p2
  Publishers <- OnePublisher
  Loop = Loop
  Free = Free
  MaxMid = 3
  MaxIssue = 3
  MaxWire = 4
  SendMaximum = 1
  ReceiveMaximums = {1}
  Sizes <- SmallOnly
  Rejects = FALSE
  PublishPhases <- AnyPhase
  Resumes = {TRUE}
  MaxLosses = 1
PROPERTIES
  EventuallyReported
CHECK_DEADLOCK FALSE
