CONSTANTS
  Threads = {v1, v2}
  TickMod = 65536
  MaxCalls = 3

SPECIFICATION Spec
PROPERTY StampsIncrease
