\* The quota of 1 is exceeded after a reconnection.
SPECIFICATION SessionSpec
CONSTANTS
  p1 = p1
  p2 = p2
  Publishers <- OnePublisher
  Loop = Loop
  Free = Free
  MaxMid = 3
  MaxIssue = 3
  MaxWire = 4
  SendMaximum = 1
  ReceiveMaximums = {1}
  Sizes <- SmallOnly
  Rejects = FALSE
  PublishPhases <- WhenActive
  Resumes = {TRUE}
  MaxLosses = 1
INVARIANTS
  InFlightWithinMaximum
CHECK_DEADLOCK FALSE
