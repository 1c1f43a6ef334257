SPECIFICATION Spec
CONSTANTS
  Keys = {k1, k2}
  Settings <- SettingsDef
  Configs <- BucketConfigs
  Pairs <- BucketPairs
  Md5ETags <- Md5ETagsDef
  SSEHeaders <- SSEHeadersDef
  SeparateHeaders <- SeparateHeadersDef
SYMMETRY KeySymmetry
INVARIANTS
  TypeOK
  NumbersAddUp
  
  FailuresSurface
  ObjectsAreBacked
  HistoriesNeverSkipped
PROPERTIES
  NeverImproves
