CONSTANTS
  Puts = {p1, p2}
  Configs <- FewConfigs
  MaxHistory = 2
  MaxRounds = 2
  Nil = Nil
SPECIFICATION Spec
SYMMETRY Symmetry
INVARIANTS TypeOK OneWorker Settled HistoryContiguous CancelStopsSoon ExitJustified
