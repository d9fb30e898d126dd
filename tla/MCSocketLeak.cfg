SPECIFICATION Spec
CONSTANTS
  Threads = {t1, t2, t3}
  MaxDials = 2
  NULL = NULL
SYMMETRY ThreadSymmetry
INVARIANT LocksScopedToCalls
CHECK_DEADLOCK FALSE
