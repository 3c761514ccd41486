\* An interval of one tick, which the broker may lengthen to two, restore or switch off; the
\* application sends when no packet is queued, the client whenever it has to.
SPECIFICATION FairSpec
CONSTANTS
  Interval = 1
  NewInterval = 1
  ServerIntervals = {0, 1, 2}
  MaxInterval = 2
  MaxOut = 1
  MaxSilence = 5
INVARIANTS
  LifecycleTypeOK
  FlagFollows
  OnlyHangupTwice
  DeadPeerNoticed
  AwaitedIsAsked
PROPERTIES
  DisconnectHonoured
  Recovers
  Leaves
