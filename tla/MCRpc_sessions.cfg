SPECIFICATION FairSpec

CONSTANTS
  s1 = s1
  s2 = s2
  Session <- MCSession
  Address = {a1}
  Callers <- MCCallers
  MaxCalls = 2

CHECK_DEADLOCK FALSE

INVARIANTS OwnReply NoUseAfterDelete
PROPERTIES CallsComplete 
