SPECIFICATION CalmSpec
CONSTANTS
  Sync = {s1, s2}
  N = 1
  Version = {0}
  MaxConcurrentReconciles = 2
  Nil = Nil
  MaxChanges = 0
SYMMETRY Symmetry
INVARIANTS
  SyncTypeOK
  Isolated
