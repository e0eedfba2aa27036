SPECIFICATION Spec
CONSTANTS
  Nothing = Nothing
  Slots = 2
  MaxStalled = 2
  MaxClients = 3
  MaxSwitches = 2
  Requests = {r1, r2}
  Nobody = Nobody
  MaxItems = 2
  HealthDebounce = 2
  DegradedWindow = 1
  Freqs = {f1, f2}
  Backoffs = {1, 2}
  BackoffMax = 2
  Threshold = 2
  FailMax = 4
  PowerHook = TRUE
  MaxFaults = 2
  MaxChanges = 1
  MaxVersions = 3
  MaxOutages = 3
  Debounce = 1
  LongPress = 3
  Window = 16
  PressTarget = 3
  Base = 3
  Header = 1
  PayloadBytes = 2
  MaxNoise = 2
  BufferFrames = 3
  BudgetFrames = 2
  ServiceEvery = 2
  FrameStale = 1
  MaxStall = 1
INVARIANTS
  ClientsHaveSlots
  AloneIsWhole
  MultiIsQuickSeries
  Resynchronises
  HealthyIsRecent
PROPERTIES
  LedDebounced
  RecoveryPaced
  RtcSetHonest
  ApFollowsRequest
  StalledClientGoes
  ScratchComesFree
  BusComesBack
  DriverComesBack
CHECK_DEADLOCK FALSE
