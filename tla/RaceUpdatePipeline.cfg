SPECIFICATION Spec
CONSTANTS
  Cluster = {c1}
  Handler = {h1, h2}
  Process <- OneProcess
  Traffic = {"update"}
  Nil = Nil
  MaxSent = 2
  MaxTime = 1
INVARIANT
  AccuratelyReflected
