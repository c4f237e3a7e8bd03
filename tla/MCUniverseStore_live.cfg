SPECIFICATION FairSpec

CONSTANTS
  Universe = {u1}
  InputPort = {i1}
  OutputPort = {o1, o2}
  Client = {c1}
  UID = {x1}
  NoPort = NoPort
  AllowLooping = TRUE
  AllowMultiPortPatching = TRUE
  ChosenModes = {"LTP"}
  MaxObjects = 2
  MaxRuns = 1

INVARIANTS RoutesAreCurrent NoCallbackToDeleted
PROPERTIES DiscoveriesAnswered UnusedCollected
