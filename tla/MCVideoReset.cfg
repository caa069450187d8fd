SPECIFICATION VideoSpec
CONSTANTS
  Sizes = {"640x480", "800x600"}
  VGA = "640x480"
  Modes <- MCModes
  Levels <- MCLevels
  Desktop = "X8R8G8B8"
  Processing = {"mixed", "software"}
  DWord = 16
  Chosen <- MCChosen
  Filters = {0, 4}
  Effects = {"default_fx"}
  MaxOrphans = 1
INVARIANTS InvalidateReleases ScreenComesBack AdapterAccepts
CHECK_DEADLOCK FALSE
