SPECIFICATION Spec
CONSTANTS
  MaxBatch = 2
  MaxRetries = 2
  Capacity <- OneEach
  PartMax = 2
  MaxOpen = 3
  CardDetect = TRUE
  Settings <- AllOrNone
  MaxOffers <- TwoSamples
  MaxChanges = 1
  MaxUpsets = 1
INVARIANTS NothingLost MountAgrees WorkerAccounted
