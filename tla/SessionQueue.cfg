SPECIFICATION Spec
CONSTANTS
  Client = {c1, c2}
  Fallback = {i1}
  Wake = {w1}
  Notice = {}
  Goal = {}
  Plan = {}
  NoPrompt = NoPrompt
  AnyOwner = AnyOwner
  SourceTask = NoPrompt
  Owners <- MCOwners
  OwnerOf <- MCOwnerOf
  SourceOf <- MCSourceOf
  Orders <- MCOrders
  GoalNotices = {}
  Waiters = {c1, c2}
  Cap = 1
  Cancels = {"interactive", "rewind"}
  McpInit = FALSE
SYMMETRY MCSymmetry
INVARIANTS
  TypeOK
  PinFollowsRunning
  CancelSparesQueued
  NothingStranded
  NoStaleWait
  FrontIsRunning
  StaleTakesNothing
  Books
PROPERTIES
  SendNowFirst
  StartsOnce
  ServiceKept
CHECK_DEADLOCK FALSE
