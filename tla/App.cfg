SPECIFICATION Spec
CONSTANTS
  Nothing = Nothing
  Networks = {"mine"}
  QueueCap = 2
  DrainPerTick = 2
  MaxRestarts = 1
  MaxBlind = 1
  MaxCommands = 2
INVARIANTS
  ApNetworkCurrent
  PromiseKept
PROPERTIES
  NoStartWhileDisabled
  ImplementsDurable
