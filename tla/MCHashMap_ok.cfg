SPECIFICATION FairSpec
CONSTANTS
  FirstCapacity = 3
  MaxCapacity = 8
  MaxInt = 12
  Requests <- MCRequests
INVARIANTS
  TypeOK
  AllOrNothing
  CapacityIsPrime
  RefusesOnlyBeyondLastPrime
  DoubleFreeNeedsFailedBucket
PROPERTIES
  CallsReturn
