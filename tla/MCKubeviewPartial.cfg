CONSTANTS
  Namespaces = {n1, n2}
  Requests = {r1, r2}
  Flaky <- KindSet
  MaxVersion = 2
  MaxFailures = 1
  MaxClicks = 1
  Null = Null
SPECIFICATION FairSpec
PROPERTY DataUpdated
