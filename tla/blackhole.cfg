\* Both builds, three workers.
CONSTANTS
  m = m
  a = a
  b = b
  Workers <- ThreeWorkers
  Main = m
  Root = 2
  Needs <- Chain
SPECIFICATION FairSpec
INVARIANTS
  MarkOwned
  OneCalculator
  NoDuplicateWork
  NobodyStuck
PROPERTIES
  DoneStays
  MarkResolved
  StallEnds
  RootComputed
