SPECIFICATION Spec
CONSTANTS
  Sources = {"rtcSet", "rtcRead"}
  MaxFail = 1
  ReqCap = 2
  ResCap = 1
  RequestsPerTick = 2
  ResultsPerTick = 1
  FirstAddr = 1
  LastAddr = 1
  MaxFound = 1
  EnvAddrs = {1}
  TokenBase = 1
  MaxSets = 2
  MaxApply = 0
VIEW Renamed
INVARIANTS
  RtcTimeWasOnChip
PROPERTIES
  RtcNeverGoesBack
