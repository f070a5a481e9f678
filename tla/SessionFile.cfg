SPECIFICATION Spec
CONSTANTS
  p = p
  q = q
  Procs = {p, q}
  Exclusive = TRUE
  MaxChunks = 2
  MaxKey = 3
  MaxUse = 3
  MaxCrash = 2
INVARIANTS SessionTypeOK SavesAreAtomic NoKeyReused
PROPERTIES ImplementsAtomicSession
CHECK_DEADLOCK FALSE
