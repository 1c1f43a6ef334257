SPECIFICATION Spec
CONSTANTS
  Names <- NamesDef
  Rights <- RightsDef
  Lines <- LinesDef
INVARIANT
  AllBucketsVerified
