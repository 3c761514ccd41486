\* A QoS 2 message is taken twice.
SPECIFICATION SessionSpec
CONSTANTS
  p1 = p1
  p2 = p2
  Publishers <- OnePublisher
  Loop = Loop
  Free = Free
  MaxMid = 3
  MaxIssue = 3
  MaxWire = 4
  SendMaximum = 1
  ReceiveMaximums = {1}
  Sizes <- SmallOnly
  Rejects = FALSE
  PublishPhases <- WhenActive
  Resumes = {TRUE}
  MaxLosses = 2
INVARIANTS
  Qos2TakenOnce
CHECK_DEADLOCK FALSE
