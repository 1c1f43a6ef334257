SPECIFICATION Spec
CONSTANTS
  NumKeys = 3
  Configs <- PoolConfigs
  Pairs <- PoolPairs
  Md5ETags <- Md5ETagsDef
  SSEHeaders <- SSEHeadersDef
  SeparateHeaders <- SeparateHeadersDef
INVARIANT
  CapHolds
