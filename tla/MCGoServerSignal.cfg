SPECIFICATION FairSpec
CONSTANTS
  Requests = {r1, r2}
  MaxSignals = 1
PROPERTY SignalEnds
