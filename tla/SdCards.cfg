SPECIFICATION Spec
CONSTANTS
  MaxBatch = 2
  MaxRetries = 2
  Capacity <- TwoEach
  PartMax = 2
  MaxOpen = 3
  CardDetect = FALSE
  Settings <- OnlyDaily
  MaxOffers <- TwoEach
  MaxChanges = 0
  MaxUpsets = 1
INVARIANTS NothingLost JobHoldsHead JobHasRequest
