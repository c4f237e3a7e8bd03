SPECIFICATION Spec

CONSTANTS
  Universe = {u1, u2}
  InputPort = {i1}
  OutputPort = {o1}
  Client = {c1}
  UID = {}
  NoPort = NoPort
  AllowLooping = FALSE
  AllowMultiPortPatching = TRUE
  ChosenModes = {"LTP", "HTP"}
  MaxObjects = 3
  MaxRuns = 0

INVARIANTS
  PatchedBothWays CandidatesListed SettingsSurvive RemovedClientsForgotten
SYMMETRY Symmetry
