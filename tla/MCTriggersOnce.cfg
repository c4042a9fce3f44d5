CONSTANTS
  t1 = t1
  t2 = t2
  t3 = t3
  Trigger = {t1, t2, t3}
  Hears <- MCHears
  Nil = Nil
  MaxElements = 4
  MaxDepth = 2
  RemovesRunning = TRUE
SPECIFICATION Spec
INVARIANT EveryoneHears
