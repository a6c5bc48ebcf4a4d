CONSTANTS
  Threads = {t1, t2}
  TicksPerMs = 2
  Modulus = 64
  MaxTick = 6
  MaxSkew = 2
SPECIFICATION Spec
PROPERTIES NeverBackwards KeepsHardwareTime
CHECK_DEADLOCK FALSE
