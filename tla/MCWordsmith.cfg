SPECIFICATION FairSpec
CONSTANTS
  Replicas = {w1, w2}
  Slots <- TwoNouns
  MaxLoads = 2
  MaxFaults = 2
  Nil = Nil
PROPERTY PageCompletes
INVARIANTS SourceKeepsWord
