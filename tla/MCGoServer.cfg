SPECIFICATION FairSpec
CONSTANTS
  Requests = {r1, r2, r3}
  MaxSignals = 2
INVARIANTS GoInv Graceful
PROPERTY ShutdownEnds
