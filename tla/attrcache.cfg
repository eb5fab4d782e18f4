CONSTANTS
  Lookups = {l1, l2, l3}
  Readers = {r1}
  a = a
  b = b
  c = c
  Empty = Empty
  Nobody = Nobody
  Labels <- MCLabels
  Keys <- MCKeys
  Calls <- MCCalls
  ShardOf <- MCShardOf
  Show <- MCShow
  NShards = 2
  Settings <- MCSettings
  MaxEntries = 2
CHECK_DEADLOCK FALSE
SPECIFICATION FairSpec
INVARIANTS
  TypeOK
  SizeIsExact
  OverflowIsFinal
  CountersAgree
  SnapshotCounted
  WarningsHold
PROPERTIES
  ImplementsInterner
  CacheCallsReturn
