SPECIFICATION Spec

CONSTANTS
  Port = {"p1", "p2"}
  Clients <- OneClient
  Frame <- FullFrames
  Priority = {0, 1}
  Timeout = 2
  MaxTime = 3

PROPERTIES LTPLatestWins LowPriorityHasNoEffect HTPIsSlotwiseMax
