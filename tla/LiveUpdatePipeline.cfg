SPECIFICATION FairSpec
CONSTANTS
  Cluster = {c1}
  Handler = {h1}
  Process <- OneProcess
  Traffic = {"update", "other"}
  Nil = Nil
  MaxSent = 2
  MaxTime = 0
PROPERTY
  EveryUpdateHandled
