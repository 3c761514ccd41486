\* Every version, five wills, four ways to connect, 40 calls, 31 packets of the broker; two
\* packets to a connection, two connections; payloads arrive in pieces of 60 bytes or whole.
SPECIFICATION Spec
CONSTANTS
  Ids <- MCIds
  Wills <- MCWills
  Connects <- MCConnects
  Requests <- MCRequests
  Greetings <- MCGreetings
  BrokerPackets <- MCBrokerPackets
  ReceiveOption = 30
  Pieces = {60, 1000}
  MaxSent = 2
  MaxConns = 2
INVARIANTS
  RoundTrip
  AnnouncedIsWritten
  OversizeByHeader
CHECK_DEADLOCK FALSE
