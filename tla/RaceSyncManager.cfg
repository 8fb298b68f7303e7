SPECIFICATION Spec
CONSTANTS
  Sync = {s1, s2}
  N = 1
  Version = {0}
  MaxConcurrentReconciles = 2
  Nil = Nil
  MaxChanges = 0
INVARIANT
  Isolated
