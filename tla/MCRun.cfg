SPECIFICATION Spec
CONSTANTS
  Names <- NamesDef
  Rights <- RightsDef
  Lines <- LinesDef
INVARIANTS
  TypeOK
  ExitZeroIsEarned
  ExitCodesExplain
  InterruptedNeverPasses
  RestrictedCredentialsWork
PROPERTY
  Terminates
