\* The same with spurious wake-ups.
CONSTANTS
  a = a
  b = b
  c = c
  d = d
  e = e
  NOBODY = NOBODY
  Threads <- FourThreads
SPECIFICATION SpuriousSpec
PROPERTIES
  IsBarrier
