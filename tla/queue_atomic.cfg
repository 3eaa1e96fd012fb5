\* term_queue_atomic: a mutex per priority.
CONSTANTS
  m = m
  a = a
  b = b
  x = x
  y = y
  z = z
  NULL = NULL
  NOBODY = NOBODY
  Workers <- ThreeWorkers
  Poppers <- TwoPoppers
  Terms <- ThreeTerms
  N = 2
  P = 2
  term_queue_atomic = TRUE
SPECIFICATION Spec
SYMMETRY TermSymmetry
INVARIANTS
  Exclusive
PROPERTIES
  IsStack
