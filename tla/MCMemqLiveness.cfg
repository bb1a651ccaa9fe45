SPECIFICATION FairSpec
CONSTANTS
  Requests = {r1, r2, r3}
  Names = {n1, n2}
  Nil = Nil
PROPERTIES
  Answered
