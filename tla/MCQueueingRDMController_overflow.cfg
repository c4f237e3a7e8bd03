SPECIFICATION Spec

CONSTANTS
  m_max_queue_size = 2
  ReplyKinds = {"ack", "overflow", "fail"}
  CanResume = FALSE
  MaxRequests = 2
  MaxDiscoveries = 1
  MaxParts = 1
  MaxCopies = 1

CHECK_DEADLOCK FALSE

INVARIANT SingleInFlight
