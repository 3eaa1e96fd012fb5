\* Out of memory while main shuts down.
CONSTANTS
  m = m
  a = a
  b = b
  Threads <- TwoThreads
  Main = m
  GCTimer = FALSE
  Scenarios <- OOMLate
SPECIFICATION TerminatingSpec
PROPERTIES
  ShutdownCompletes
CHECK_DEADLOCK FALSE
