SPECIFICATION Spec
CONSTANTS
  Objects <- MCObjects
  NewFile <- MCNewFile
  MaxObjects = 8
  MaxFaces = 3
  Junk <- MCJunk
INVARIANT MapIsAsAuthored
INVARIANT CopiesAgree
CHECK_DEADLOCK FALSE
