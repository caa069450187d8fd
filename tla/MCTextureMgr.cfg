SPECIFICATION Spec
CONSTANTS
  MaxItems = 4
  Names <- MCNames
  Hash <- MCHash
  Items <- MCItems
  Null = Null
INVARIANT CountsAreRight
INVARIANT HeldAreAlive
PROPERTY IsCache
CHECK_DEADLOCK FALSE
