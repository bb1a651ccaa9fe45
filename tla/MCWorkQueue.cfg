SPECIFICATION FairSpec
CONSTANTS
  c1 = c1
  c2 = c2
  i1 = i1
  i2 = i2
  a1 = a1
  s1 = s1
  Calls = {c1, c2, i1, i2, a1, s1, g1, g2, g3}
  Names = {work}
  Nil = Nil
  MaxFaults = 1
  Workers = {w1, w2}
  Queue = work
  Scripts <- SomeScripts
  Gets = {g1, g2, g3}
INVARIANTS TypeOK OneWorkerPerItem LossBounded ExitsWhenEmpty
PROPERTIES JobCompletes
