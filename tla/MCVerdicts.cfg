SPECIFICATION Spec
CONSTANTS
  NumKeys = 1
  Configs <- AllConfigs
  Pairs <- AllPairs
  Md5ETags <- Md5ETagsDef
  SSEHeaders <- SSEHeadersDef
  SeparateHeaders <- SeparateHeadersDef
INVARIANTS
  ObservationsComplete
  PassIsEarned
  FailIsEarned
