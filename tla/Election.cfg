SPECIFICATION FairSpec
CONSTANTS
  Client = {c1, c2}
  Leader = {1, 2}
  ByHand = {1}
  Old = {1}
  MayQuit = {2}
  MayCrash = {1}
INVARIANTS
  TypeOK
  OneLeader
PROPERTIES
  SparesCurrent
  Returns
CHECK_DEADLOCK FALSE
