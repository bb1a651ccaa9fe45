SPECIFICATION FairSpec
CONSTANTS
  Pages = {p1}
  Fetches = {f1, f2}
  Counts <- Links
  FlagFailNext = 1
  MaxHistory = 2
  MaxClicks = 2
  MaxProbes = 3
  MaxRestarts = 1
  MaxLosses = 1
INVARIANTS FailsAsOrdered CodesAsOrdered ReadsOwnWrite
PROPERTIES PagesCatchUp SignGoes
