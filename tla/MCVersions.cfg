SPECIFICATION Spec
CONSTANTS
  Contents <- ContentsDef
  Md5ETags = {"md5A", "md5B", "md5D"}
  MaxVersions = 3
INVARIANTS
  TypeOK
  OrderedHistoriesSettled
  NothingLostUnseen
