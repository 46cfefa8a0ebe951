CONSTANTS
  Fiber = {f1, f2, f3, f4}
  NULL = NULL
  Yields = 2
SPECIFICATION MCSpec
INVARIANTS RingComplete FreedOnce
PROPERTIES RoundRobin RunReturns
