SPECIFICATION ReliableSpec
CONSTANTS
  Sync = {s1}
  N = 2
  Version = {0, 1}
  MaxConcurrentReconciles = 2
  Nil = Nil
  MaxChanges = 3
PROPERTY
  SyncConverges
