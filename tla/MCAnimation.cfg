SPECIFICATION FairSpec
CONSTANTS
  NoSkel = "none"
  Anims <- MCAnims
  Ents <- MCEnts
  Kind <- MCKind
  Model <- MCModel
  Second = 4
  MaxStep = 2
INVARIANT LastAskedWins
PROPERTIES DrawnInItsPose AnimationsArrive
CHECK_DEADLOCK FALSE
