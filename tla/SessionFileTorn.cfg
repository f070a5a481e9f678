SPECIFICATION Spec
CONSTANTS
  p = p
  q = q
  Procs = {p, q}
  Exclusive = FALSE
  MaxChunks = 2
  MaxKey = 1
  MaxUse = 2
  MaxCrash = 0
INVARIANT SavesAreAtomic
CHECK_DEADLOCK FALSE
