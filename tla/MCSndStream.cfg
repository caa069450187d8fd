SPECIFICATION FairSpec
CONSTANTS
  Cap = 2
  Lengths <- MCLengths
INVARIANT QueueFollowsFile
INVARIANT HeardInOrder
PROPERTY KeepsPlaying
PROPERTY HeardToTheEnd
CHECK_DEADLOCK FALSE
