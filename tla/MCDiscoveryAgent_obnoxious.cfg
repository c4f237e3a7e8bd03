SPECIFICATION FairSpec
CONSTANTS
  Top = 3
  MAX_EMPTY_BRANCH_ATTEMPTS = 5
  MAX_BRANCH_FAILURES = 5
  MAX_MUTE_ATTEMPTS = 5
  BROADCAST_UNMUTE_REPEATS = 3
  FailureModulus = 8
  Lines <- CrowdedLine
  Phantoms = {1}
  MaxDiscoveries = 1
  MaxLosses = 0
  MaxReplugs = 0
PROPERTY DiscoveryAlwaysEnds
CHECK_DEADLOCK FALSE
