SPECIFICATION Spec
CONSTANTS
  Cluster = {c1, c2}
  Handler = {h1, h2}
  Process <- OneProcess
  Traffic = {"update", "other"}
  Nil = Nil
  MaxSent = 2
  MaxTime = 1
SYMMETRY Symmetry
INVARIANTS
  TypeOK
  NoLostUpdate
  ItemsFromMessages
PROPERTY
  RegressOnlyOnStaleRead
