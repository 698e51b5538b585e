SPECIFICATION FairSpec
CONSTANTS
  Relays = {r1, r2}
  Rate = 3
  Sizes = {1, 2, 4}
  FullBucket = 4
INVARIANTS SpeedLimitHolds
PROPERTY RevokedWaitersEnd
