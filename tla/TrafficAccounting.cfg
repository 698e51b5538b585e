SPECIFICATION MCSpec
CONSTANTS
  k1 = k1
  k2 = k2
  None = None
  Keys = {k1, k2}
  Shards = 2
  ShardOf <- MCShardOf
  MaxBytes = 2
  Amounts = {1}
  Minimums = {0, 2}
  MaxCounted = 3
  MaxRepeats = 1
  MaxPackets = 3
  m1 = m1
  Openings = {m1, m2}
  Ids = {1, 2}
  MaxData = 1
  MaxWire = 1
INVARIANTS BooksBalance
PROPERTIES LedgerSpec 
