SPECIFICATION FairSpec
CONSTANTS
  NumKeys = 3
  Configs <- PoolConfigs
  Pairs <- PoolPairs
  Md5ETags <- Md5ETagsDef
  SSEHeaders <- SSEHeadersDef
  SeparateHeaders <- SeparateHeadersDef
INVARIANTS
  TypeOK
  SlotsBounded
  TalliesAddUp
  BudgetNeverOverdrawn
  OddCapHolds
  DeepBytesAccounted
PROPERTIES
  AuditContract
  Terminates
