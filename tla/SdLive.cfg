SPECIFICATION FairSpec
CONSTANTS
  MaxBatch = 2
  MaxRetries = 2
  Capacity <- TwoEach
  PartMax = 2
  MaxOpen = 3
  CardDetect = TRUE
  Settings <- Both
  MaxOffers <- OneSample
  MaxChanges = 0
  MaxUpsets = 1
PROPERTY EveryRecordLeaves
