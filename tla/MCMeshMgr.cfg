SPECIFICATION MeshSpec
CONSTANTS
  MaxItems = 4
  Names <- MCNames
  Hash <- MCHash
  Items <- MCItems
  Null = Null
  ReturnsFailed = TRUE
INVARIANT ItemsHaveOneUse
INVARIANT DrawnUnderItsName
CHECK_DEADLOCK FALSE
