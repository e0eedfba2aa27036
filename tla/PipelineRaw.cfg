SPECIFICATION LoopSpec
CONSTANTS
  Sources = {"raw", "recover", "display"}
  MaxFail = 1
  ReqCap = 1
  ResCap = 1
  RequestsPerTick = 1
  ResultsPerTick = 1
  FirstAddr = 1
  LastAddr = 1
  MaxFound = 1
  EnvAddrs = {1}
  TokenBase = 1
  MaxSets = 0
  MaxApply = 0
VIEW Renamed
INVARIANTS
  TypeOK
  RawFlagsAgree
  RawTruthful
  RecoverStatusAgrees
PROPERTIES
  InFlightResolves
  ImplementsOneShot
