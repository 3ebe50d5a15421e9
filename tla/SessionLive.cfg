SPECIFICATION FairSpec
CONSTANTS
  Client = {c1}
  Fallback = {i1}
  Wake = {}
  Notice = {}
  Goal = {}
  Plan = {r1}
  NoPrompt = NoPrompt
  AnyOwner = AnyOwner
  SourceTask = NoPrompt
  Owners <- MCOwners
  OwnerOf <- MCOwnerOf
  SourceOf <- MCSourceOf
  Orders <- MCOrders
  GoalNotices = {}
  Waiters = {c1}
  Cap = 1
  Cancels = {"interactive", "rewind"}
  McpInit = TRUE
INVARIANTS
  NoSilentDrop
  TerminalOnce
  PinAgrees
  OneTurn
PROPERTIES
  PromptsAnswered
  InterjectionsLeave
CHECK_DEADLOCK FALSE
