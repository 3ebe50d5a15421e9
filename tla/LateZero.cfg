SPECIFICATION Spec
CONSTANTS
  Callers = {a, b}
  MaxProbes = 1
  Modulus = 16
  OpenDuration = 1
  Stall = 0
  MinSamples = 1
  Percent = 50
  WindowCap = 1
INVARIANTS
  HalfOpenBounded
