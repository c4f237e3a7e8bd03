SPECIFICATION FairSpec

CONSTANTS
  m_max_queue_size = 2
  ReplyKinds = {"ack", "overflow", "fail"}
  CanResume = TRUE
  MaxRequests = 2
  MaxDiscoveries = 2
  MaxParts = 2
  MaxCopies = 2

CHECK_DEADLOCK FALSE

INVARIANTS SingleUnlessOverlapped FifoExactlyOnce DiscoveryExactlyOnce
PROPERTIES OwnReply EverythingCompletes
