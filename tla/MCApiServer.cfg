SPECIFICATION CalmApiSpec
CONSTANTS
  Cluster = {c1}
  Handler = {h1}
  Process <- OneProcess
  Traffic = {"update"}
  Nil = Nil
  MaxSent = 2
  MaxTime = 1
  Reader = {r1}
  Query = {q1}
  CacheTTL = 1
SYMMETRY Symmetry
INVARIANTS
  ApiTypeOK
  Fresh
  AnnouncedIsListed
PROPERTY
  ImplementsRegistry
