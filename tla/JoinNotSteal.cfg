SPECIFICATION Spec
CONSTANTS
  Client = {a, b}
  Attached = {a}
  Leaver = {}
  Unlucky = {}
  Interaction = {}
  MaxEvents = 1
  Cap = 2
INVARIANTS
  JoinNotSteal
CHECK_DEADLOCK FALSE
