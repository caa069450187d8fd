SPECIFICATION Spec
CONSTANTS
  la = la
  lb = lb
  Lists <- MCLists
  NumNodes = 3
  Null = Null
  DWord = 8
INVARIANT LinksSpellContents
PROPERTY ImplementsLists
