SPECIFICATION Spec
CONSTANTS
  MaxWrites = 2
  Configs <- SomeConfigs
  Pairs <- AllPairs
  Md5ETags <- Md5ETagsDef
  SSEHeaders <- SSEHeadersDef
  SeparateHeaders <- SeparateHeadersDef
INVARIANTS
  TypeOK
  PassedContentWasOnBothSides
  PassByHeadIsOneCopy
  FailedCopiesDiffered
