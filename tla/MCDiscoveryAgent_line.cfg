SPECIFICATION FairSpec
CONSTANTS
  Top = 3
  MAX_EMPTY_BRANCH_ATTEMPTS = 5
  MAX_BRANCH_FAILURES = 5
  MAX_MUTE_ATTEMPTS = 5
  BROADCAST_UNMUTE_REPEATS = 3
  FailureModulus = 8
  Lines <- SomeLines
  Phantoms = {1}
  MaxDiscoveries = 2
  MaxLosses = 1
  MaxReplugs = 1
INVARIANTS FindsAll NoGhosts RangesNested AnswerMeetsItsState
PROPERTY DiscoveryEnds
CHECK_DEADLOCK FALSE
