SPECIFICATION Spec
CONSTANTS
  seed = seed
  more = more
  small = small
  big = big
  Buckets <- BucketsDef
  Asks <- AsksDef
  SeedDefault <- seed
  Small <- small
  Big <- big
  MaxFaults = 1
  MaxWrites = 1
  MaxCleans = 1
INVARIANTS
  TypeOK
  CopiedBeforeVerified
  PassMeansCopied
PROPERTIES
  SeedNeverOverwrites
  
