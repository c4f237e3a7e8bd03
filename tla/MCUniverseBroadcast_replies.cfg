SPECIFICATION FairBroadcastSpec

CONSTANTS
  OutputPort = {p1, p2, p3}
  MaxRequests = 2

CHECK_DEADLOCK FALSE

INVARIANTS DiscoveryPrecedence ErrorsPropagate AnsweredOnce
PROPERTY AllAnswered
