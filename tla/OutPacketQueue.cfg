\* The serial queue of the Swift client and the network thread, two connections, two
\* packets of two bytes besides the CONNECTs, one of them when the thread has started too early,
\* one call of connect.
SPECIFICATION FairSpec
CONSTANTS
  Senders = {app}
  Net = net
  Free = free
  Connector = app
  Size = 2
  MaxPackets = 2
  MaxEarly = 1
  MaxConns = 2
  MaxAppConnects = 1
INVARIANTS
  QueueTypeOK
  NoUseAfterFree
  PacketsWhole
  NothingCarriedOver
  LeakBounded
PROPERTIES
  EventuallyWritten
