SPECIFICATION PhysicsSpec
CONSTANTS
  light = light
  heavy = heavy
  Body <- MCBody
  Mass <- MCMass
  Base <- MCBase
  Pushes <- MCPushes
  Gravity <- MCGravity
  Overbounce = 8
  Worlds <- MCWorlds
  Places <- MCPlaces
  MaxCalls = 5
CHECK_DEADLOCK FALSE
INVARIANT StaysOut
INVARIANT PairsStayApart
PROPERTY CollisionsAreElastic
