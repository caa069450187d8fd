SPECIFICATION Spec
CONSTANTS
  SlotOf <- MCSlotOf
  Definitions <- MCDefinitions
  MaxLen = 4
  Registered <- MCRegistered
  Autoexec <- MCAutoexec
  FoundFirst <- MCFoundFirst
  Room = 3
  Keys = {"w", "grave"}
  ConKey = "grave"
  Buttons = {"fire"}
  Typed <- MCTyped
  MaxTyped = 2
  MaxRuns = 2
  MaxMessages = 1
  Slides = {0, 2}
  Half = 3
INVARIANTS
  ConfigComesBack
  StatesFollowCvars
PROPERTIES
  ConsoleOwnsKeys
CHECK_DEADLOCK FALSE
