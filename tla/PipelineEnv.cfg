SPECIFICATION LoopSpec
CONSTANTS
  Sources = {"envTrig", "envRead", "setFreq"}
  MaxFail = 1
  ReqCap = 1
  ResCap = 1
  RequestsPerTick = 2
  ResultsPerTick = 1
  FirstAddr = 1
  LastAddr = 1
  MaxFound = 1
  EnvAddrs = {1, 2}
  TokenBase = 1
  MaxSets = 0
  MaxApply = 1
VIEW Renamed
INVARIANTS
  TokensTellClients
  EnvPhaseAgrees
  HealthHonest
PROPERTIES
  EnvChargedOnce
  EnvCycleEnds
