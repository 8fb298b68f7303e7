SPECIFICATION FairSpec
CONSTANTS
  Nil = Nil
  k1 = k1
  on = on
  off = off
  a1 = a1
  dms = dms
  w1 = w1
  w2 = w2
  f1 = f1
  f2 = f2
  Cluster = {c1}
  Tag = {k1}
  Value = {on, off}
  AlertName = {a1, dms}
  DeadMansSwitch = dms
  AlertMap <- SmallAlertMap
  Request = {r1}
  Watcher = {w1, w2}
  Field = {f1, f2}
  Owner <- SmallOwner
  Allowed = {w1}
  HasCAData = TRUE
  Annotations <- SmallAnnotations
  MaxChanges = 3
INVARIANTS ClientTypeOK NoWriteUndone
PROPERTIES ExcludedUntouched AnnouncedInOrder Announced ServicesFollow
