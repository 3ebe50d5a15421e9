SPECIFICATION Spec
CONSTANTS
  Client = {}
  Fallback = {}
  Wake = {}
  Notice = {}
  Goal = {g1}
  Plan = {}
  NoPrompt = NoPrompt
  AnyOwner = AnyOwner
  SourceTask = NoPrompt
  Owners <- MCOwners
  OwnerOf <- MCOwnerOf
  SourceOf <- MCSourceOf
  Orders = {}
  GoalNotices = {}
  Waiters = {}
  Cap = 1
  Cancels = {"interactive"}
  McpInit = FALSE
INVARIANTS
  NoStaleGate
CHECK_DEADLOCK FALSE
