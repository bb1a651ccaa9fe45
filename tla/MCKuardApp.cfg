SPECIFICATION FairSpec
CONSTANTS
  r1 = r1
  r2 = r2
  Requests = {r1, r2}
  Nil = Nil
  MaxLeaks = 2
  MaxEdits = 2
  MaxSearch = 2
  MaxKills = 1
  Scenarios <- SomeScenarios
INVARIANTS TypeOK LeaksHeld PageIsCurrent PanicNeedsMissing FirstAnswerWins
PROPERTIES Answered
