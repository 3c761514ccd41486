\* Every filter of up to four characters and every topic of up to three; one message with up
\* to two user properties; two connections.
SPECIFICATION Spec
CONSTANTS
  Groups <- MCGroups
  Names <- MCNames
  UserProperties = {0, 1, 2}
  MaxMessages = 1
  MaxConns = 2
INVARIANTS
  HandedAsOwed
PROPERTIES
  CallbackEnds
CHECK_DEADLOCK FALSE
