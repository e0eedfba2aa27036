SPECIFICATION HealthSpec
CONSTANTS
  HealthDebounce = 2
  DegradedWindow = 1
INVARIANT WebHonest
