SPECIFICATION Spec
CONSTANT
  MaxAttempts = 3
INVARIANTS
  TypeOK
  PassMeansRemoved
  RemovalSuffices
PROPERTY
  Terminates
