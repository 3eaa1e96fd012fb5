CONSTANTS
  w1 = w1
  w2 = w2
  t1 = t1
  t2 = t2
  t3 = t3
  Workers = {w1, w2}
  Terms = {t1, t2, t3}
  Home <- TwoHeaps
  MaxRefs = 2
  MaxQueue = 1
  Locals = {t1}
  Globals = {t2, t3}
SPECIFICATION Spec
INVARIANTS NothingLost Collected
PROPERTIES LocalCollected
