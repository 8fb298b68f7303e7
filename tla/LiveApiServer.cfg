SPECIFICATION FairApiSpec
CONSTANTS
  Cluster = {c1}
  Handler = {h1}
  Process <- OneProcess
  Traffic = {"update", "quiet"}
  Nil = Nil
  MaxSent = 1
  MaxTime = 0
  Reader = {r1, r2}
  Query = {q1}
  CacheTTL = 1
PROPERTY
  CacheConverges
