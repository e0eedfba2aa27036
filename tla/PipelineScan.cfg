SPECIFICATION FairSpec
CONSTANTS
  Sources = {"scan"}
  MaxFail = 1
  ReqCap = 2
  ResCap = 1
  RequestsPerTick = 2
  ResultsPerTick = 1
  FirstAddr = 1
  LastAddr = 4
  MaxFound = 2
  EnvAddrs = {1}
  TokenBase = 1
  MaxSets = 0
  MaxApply = 0
VIEW Renamed
INVARIANTS
  ScanAccounting
  ScanHonest
PROPERTIES
  ScanCompletes
