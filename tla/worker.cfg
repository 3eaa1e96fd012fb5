\* GC timer, and either an interrupt or threads that run out of memory, while
\* the program is computed.  No evaluation need ever end by itself.
CONSTANTS
  m = m
  a = a
  b = b
  Threads <- ThreeThreads
  Main = m
  GCTimer = TRUE
  Scenarios <- EitherEvent
SPECIFICATION FairSpec
INVARIANTS
  SameBarrier
  SamePhase
  StopTheWorld
  NoEarlyError
PROPERTIES
  IsCollection
  GCServed
  HaltServed
  OOMCollects
  Terminates
