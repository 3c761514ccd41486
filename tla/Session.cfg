\* One publisher that publishes at any moment, messages of both sizes, a broker that
\* lowers the maximum from 2 to 1, may refuse messages and may have dropped the session;
\* one lost connection.
SPECIFICATION SessionSpec
CONSTANTS
  p1 = p1
  p2 = p2
  Publishers <- OnePublisher
  Loop = Loop
  Free = Free
  MaxMid = 3
  MaxIssue = 3
  MaxWire = 4
  SendMaximum = 2
  ReceiveMaximums = {1}
  Sizes <- AllSizes
  Rejects = TRUE
  PublishPhases <- AnyPhase
  Resumes = {TRUE, FALSE}
  MaxLosses = 1
INVARIANTS
  SessionTypeOK
  TwiceOnlyIfDemoted
  AckFindsMessage
  RepeatIsMarked
PROPERTIES
  KeepsPromise
CHECK_DEADLOCK FALSE
