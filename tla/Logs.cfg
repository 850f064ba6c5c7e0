SPECIFICATION FairSpec
CONSTANTS
  Pumps = {stdout, stderr}
  Followers = {f1}
  MaxLines = 2
  Capacity = 2
  MaxErrors = 2
INVARIANTS TypeOK DoneIsFinal LiveIsStored CollisionsBounded
PROPERTIES FollowEnds ImplementsBuildLog
CHECK_DEADLOCK FALSE
