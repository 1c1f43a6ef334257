SPECIFICATION Spec
CONSTANTS
  Keys = {k1, k2}
  Settings <- SettingsDef
  Configs <- CappedLevel3
  Pairs <- BucketPairs
  Md5ETags <- Md5ETagsDef
  SSEHeaders <- SSEHeadersDef
  SeparateHeaders <- SeparateHeadersDef
INVARIANT
  ListedFailureFailsBucket
