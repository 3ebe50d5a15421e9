SPECIFICATION FairSpec
CONSTANTS
  Client = {b, c}
  Attached = {}
  Leaver = {b}
  Unlucky = {c}
  Interaction = {i}
  MaxEvents = 2
  Cap = 2
INVARIANTS
  EventsReach
  InOrder
  ModalsAgree
  GateOwned
CHECK_DEADLOCK FALSE
PROPERTIES
  AttachLands
