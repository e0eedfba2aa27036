SPECIFICATION Spec
CONSTANTS
  Sources = {"raw", "setFreq"}
  MaxFail = 1
  ReqCap = 2
  ResCap = 1
  RequestsPerTick = 2
  ResultsPerTick = 1
  FirstAddr = 1
  LastAddr = 1
  MaxFound = 1
  EnvAddrs = {1}
  TokenBase = 0
  MaxSets = 0
  MaxApply = 1
INVARIANTS
  RawTruthful
