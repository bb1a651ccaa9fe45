CONSTANTS
  Puts = {p1, p2}
  Configs <- FairConfigs
  MaxHistory = 2
  MaxRounds = 1
  Nil = Nil
SPECIFICATION FairSpec

PROPERTIES CanceledStops PutAnswered
