\* An interrupt after the last inspection of main.
CONSTANTS
  m = m
  a = a
  b = b
  Threads <- TwoThreads
  Main = m
  GCTimer = FALSE
  Scenarios <- SigintLate
SPECIFICATION TerminatingSpec
PROPERTIES
  ShutdownCompletes
CHECK_DEADLOCK FALSE
