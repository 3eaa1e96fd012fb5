\* The default build: no locks. Both priorities. No symmetry: it is not sound
\* for liveness.
CONSTANTS
  m = m
  a = a
  b = b
  x = x
  y = y
  z = z
  NULL = NULL
  NOBODY = NOBODY
  Workers <- TwoPoppers
  Poppers <- TwoPoppers
  Terms <- TwoTerms
  N = 2
  P = 2
  term_queue_atomic = FALSE
SPECIFICATION FairSpec
INVARIANTS
  TypeOK
  QueueAlive
  PopAlive
PROPERTIES
  QueueDrains
  IsPool
