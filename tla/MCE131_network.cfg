SPECIFICATION Spec

CONSTANTS
  CID = {a, b, c}
  Priority = {0, 1}
  SequenceModulus = 256
  SEQUENCE_DIFF_THRESHOLD <- Threshold
  MAX_MERGE_SOURCES = 2
  EXPIRY_INTERVAL = 0
  SOURCE_PRIORITY_DEFAULT = 1
  MaxSent = 4
  MaxStreams = 1
  MaxInFlight = 2

CHECK_DEADLOCK FALSE

INVARIANT OnePriority
PROPERTIES NeverOlder BufferFollowsSources
SYMMETRY Symmetry
