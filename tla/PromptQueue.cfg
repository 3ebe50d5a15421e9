SPECIFICATION Spec
CONSTANTS
  Client = {c1, c2, c3}
  Fallback = {i1}
  Wake = {w1}
  Notice = {n1}
  Goal = {}
  Plan = {}
  None = None
  MaxLen = 3
INVARIANTS ReorderSorts SendNowStacks SweepSparesRunning
CHECK_DEADLOCK FALSE
