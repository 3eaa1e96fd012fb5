\* The replacement of the native barrier, without spurious wake-ups.
CONSTANTS
  a = a
  b = b
  c = c
  d = d
  e = e
  NOBODY = NOBODY
  Threads <- FiveThreads
SPECIFICATION FairSpec
INVARIANTS
  CountWaiting
  NobodyStuck
PROPERTIES
  IsBarrier
  EveryoneReturns
