SPECIFICATION FairSpec
CONSTANTS
  Callers = {a, b}
  MaxProbes = 1
  Modulus = 16
  OpenDuration = 3
  Stall = 1
  MinSamples = 1
  Percent = 50
  WindowCap = 1
INVARIANTS
  WindowCounts
  SlotsAccounted
  MirrorSettles
PROPERTIES
  TakeoversApart
  Recovers
