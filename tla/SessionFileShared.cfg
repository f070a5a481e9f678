SPECIFICATION Spec
CONSTANTS
  p = p
  q = q
  Procs = {p, q}
  Exclusive = FALSE
  MaxChunks = 2
  MaxKey = 1
  MaxUse = 1
  MaxCrash = 1
INVARIANT LoneSavesAreWhole
SYMMETRY Symmetric
CHECK_DEADLOCK FALSE
