SPECIFICATION Spec
CONSTANTS
  Client = {c1, c2}
  Fallback = {i1}
  Wake = {}
  Notice = {}
  Goal = {}
  Plan = {}
  NoPrompt = NoPrompt
  AnyOwner = AnyOwner
  SourceTask = NoPrompt
  Owners <- MCOwners
  OwnerOf <- MCOwnerOf
  SourceOf <- MCSourceOf
  Orders = {}
  GoalNotices = {}
  Waiters = {}
  Cap = 1
  Cancels = {"interactive", "rewind"}
  McpInit = TRUE
SYMMETRY MCSymmetry
INVARIANTS
  PinFollowsRunning
CHECK_DEADLOCK FALSE
