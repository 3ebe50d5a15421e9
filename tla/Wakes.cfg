SPECIFICATION WakeSpec
CONSTANTS
  Client = {c1}
  Fallback = {}
  Wake = {b1, s1}
  Bash = {b1}
  Notice = {}
  Goal = {}
  Plan = {}
  NoPrompt = NoPrompt
  AnyOwner = AnyOwner
  SourceTask = NoPrompt
  Owners <- MCOwners
  OwnerOf <- MCOwnerOf
  SourceOf <- MCSourceOf
  Orders = {}
  GoalNotices = {}
  Waiters = {}
  Cap = 1
  Cancels = {"interactive"}
  McpInit = FALSE
INVARIANTS
  NothingForgotten
PROPERTIES
  NoEcho
CHECK_DEADLOCK FALSE
