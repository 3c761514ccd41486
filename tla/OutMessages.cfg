\* Two publishers, an arbitrary broker, identifiers that wrap.
SPECIFICATION Spec
CONSTANTS
  p1 = p1
  p2 = p2
  Publishers <- TwoPublishers
  Loop = Loop
  Free = Free
  MaxMid = 2
  MaxIssue = 3
  MaxWire = 2
  SendMaximum = 2
  ReceiveMaximums = {1}
  Sizes <- SmallOnly
  Rejects = TRUE
SYMMETRY Symmetry
INVARIANTS
  TypeOK
  MutexHeld
  Accounting
  NeverDiscarded
  NotifiedOnce
  MidReuseDistance
