SPECIFICATION FairSpec
CONSTANTS
  Pumps = {stdout, stderr}
  Followers = {f1}
  MaxLines = 3
  Capacity = 2
  MaxErrors = 1
CHECK_DEADLOCK FALSE
PROPERTY EveryFollowEnds
