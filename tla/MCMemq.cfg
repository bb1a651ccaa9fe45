SPECIFICATION LSpec
CONSTANTS
  Requests = {r1, r2, r3, r4}
  Names = {n1, n2}
  Nil = Nil
SYMMETRY Symmetry
INVARIANTS
  TypeOK
  Conservation
  StatsBalanced
  FIFO
  NamedQueue
  Linearizable
PROPERTIES
  ImplementsService
