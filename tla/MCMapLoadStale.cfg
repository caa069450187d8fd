SPECIFICATION Spec
CONSTANTS
  Objects <- MCObjects
  NewFile <- MCNewFile
  MaxObjects = 8
  MaxFaces = 3
  Junk <- MCJunk
PROPERTY PreviousMapIsGone
CHECK_DEADLOCK FALSE
