SPECIFICATION Spec
CONSTANTS
  Client = {c1}
  Fallback = {}
  Wake = {w1}
  Notice = {n1, n2}
  Goal = {g1}
  Plan = {}
  NoPrompt = NoPrompt
  AnyOwner = AnyOwner
  SourceTask = w1
  Owners <- MCOwners
  OwnerOf <- MCOwnerOf
  SourceOf <- MCSourceOf
  Orders = {}
  GoalNotices = {n1}
  Waiters = {}
  Cap = 1
  Cancels = {"interactive", "teardown"}
  McpInit = FALSE
INVARIANTS
  NoticesSurvive
  UserFirst
PROPERTIES
  GateLeftByAbort
CHECK_DEADLOCK FALSE
